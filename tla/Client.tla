------------------------------- MODULE Client -------------------------------
(***************************************************************************)
(* pkg/client: one HTTP request per method, sent through the baton-sdk's   *)
(* BaseHttpClient.  That client answers a GET from its in-memory cache     *)
(* when it can, stores every GET answered 200, and does nothing to the     *)
(* cache when a PUT, POST or DELETE changes what a cached answer says.     *)
(*                                                                         *)
(* Its Do looks in the cache, asks the server and stores the answer in     *)
(* three steps under no common lock, so anything may happen in between:    *)
(* another task's answer is stored first, the server's state changes, the  *)
(* cache is cleared.  A task is anything that uses the client at the same  *)
(* time as others do, one request after the other.                         *)
(*                                                                         *)
(* A cache entry is a set: {} when there is none, {v} when the stored      *)
(* answer is v.  The same shape serves for "the answers a GET may give",   *)
(* so a GET of a user that does not exist (404) has none.                  *)
(***************************************************************************)
EXTENDS TenableAPI

CONSTANTS
    Tasks,      \* the calls that share the client
    CacheOn     \* FALSE: BATON_DISABLE_HTTP_CACHE, or a TTL of 0

ASSUME CacheOnIsBoolean == CacheOn \in BOOLEAN

VARIABLES
    cache,      \* the entries of the four GETs that decide something
    asked,      \* asked[t]: the GET of t that the cache had no entry for and
                \* the server has not answered yet, if any
    unstored    \* unstored[t]: the answer t has got and Do has yet to store

clientVars == <<cache, asked, unstored>>

MemberLists == SUBSET (Users \X BOOLEAN)

Caches ==
    [user   : [Users -> SUBSET BOOLEAN],
     member : [Groups -> SUBSET MemberLists],
     role   : [Users -> SUBSET SUBSET Roles],
     perm   : [Permissions -> SUBSET SUBSET Subjects]]

\* The GETs, each by the entry it is cached in.
Gets ==
    ({"user", "role"} \X Users) \cup ({"member"} \X Groups) \cup ({"perm"} \X Permissions)

CacheTypeOK ==
    /\ cache \in Caches
    /\ asked \in [Tasks -> SUBSET Gets]
    /\ unstored \in [Tasks -> Caches]

EmptyCache ==
    [user   |-> [u \in Users |-> {}],
     member |-> [g \in Groups |-> {}],
     role   |-> [u \in Users |-> {}],
     perm   |-> [p \in Permissions |-> {}]]

\* NewClient: a process starts with an empty cache and nothing under way.
ClientInit ==
    /\ cache = EmptyCache
    /\ asked = [t \in Tasks |-> {}]
    /\ unstored = [t \in Tasks |-> EmptyCache]

Entry(get) == cache[get[1]][get[2]]

\* The entry if there is one, else what the server says.
Served(entry, fresh) == IF entry = {} THEN fresh ELSE entry

\* Do stores the answer of a GET; with the cache off it is the no-op cache.
Kept(answer) == IF CacheOn THEN {answer} ELSE {}

----------------------------------------------------------------------------
(* The steps of Do. *)

\* No entry: the request goes out, and an entry that appears meanwhile is
\* not looked at.  (When nothing happens before the answer comes, looking
\* and asking are the one step of the GETs below.)
Misses(t, get) ==
    /\ CacheOn
    /\ asked[t] = {}
    /\ Entry(get) = {}
    /\ asked' = [asked EXCEPT ![t] = {get}]
    /\ UNCHANGED <<apiVars, cache, unstored>>

Answers(t, get, fresh) == IF get \in asked[t] THEN fresh ELSE Served(Entry(get), fresh)

\* What each GET may be answered with: at most one value.
UserAnswers(t, u)   == Answers(t, <<"user", u>>, UserDetails(u))
MemberAnswers(t, g) == Answers(t, <<"member", g>>, {MemberList(g)})
RoleAnswers(t, u)   == Answers(t, <<"role", u>>, RolesOf(u))
PermAnswers(t, p)   == Answers(t, <<"perm", p>>, {subjects[p]})

\* A GET is answered, by its entry or by the server.
GetUserDetails(t, u, answer) ==
    /\ answer \in UserAnswers(t, u)
    /\ unstored' = [unstored EXCEPT ![t].user[u] = Kept(answer)]
    /\ asked' = [asked EXCEPT ![t] = {}]
    /\ UNCHANGED <<apiVars, cache>>

GetGroupMembers(t, g, answer) ==
    /\ answer \in MemberAnswers(t, g)
    /\ unstored' = [unstored EXCEPT ![t].member[g] = Kept(answer)]
    /\ asked' = [asked EXCEPT ![t] = {}]
    /\ UNCHANGED <<apiVars, cache>>

GetUserRoles(t, u, answer) ==
    /\ answer \in RoleAnswers(t, u)
    /\ unstored' = [unstored EXCEPT ![t].role[u] = Kept(answer)]
    /\ asked' = [asked EXCEPT ![t] = {}]
    /\ UNCHANGED <<apiVars, cache>>

GetPermissionDetails(t, p, answer) ==
    /\ answer \in PermAnswers(t, p)
    /\ unstored' = [unstored EXCEPT ![t].perm[p] = Kept(answer)]
    /\ asked' = [asked EXCEPT ![t] = {}]
    /\ UNCHANGED <<apiVars, cache>>

\* The GET fails or is answered 403 or 404: nothing is stored.
GivesUp(t) ==
    /\ asked' = [asked EXCEPT ![t] = {}]
    /\ UNCHANGED <<cache, unstored>>

\* Set: the answer replaces whatever entry there is by now, also when it was
\* that entry's own, older value, and also when the cache was cleared since.
Store(t) ==
    /\ unstored[t] # EmptyCache
    /\ cache' = [user   |-> [u \in Users |-> Served(unstored[t].user[u], cache.user[u])],
                 member |-> [g \in Groups |-> Served(unstored[t].member[g], cache.member[g])],
                 role   |-> [u \in Users |-> Served(unstored[t].role[u], cache.role[u])],
                 perm   |-> [p \in Permissions |->
                               Served(unstored[t].perm[p], cache.perm[p])]]
    /\ unstored' = [unstored EXCEPT ![t] = EmptyCache]
    /\ UNCHANGED <<apiVars, asked>>

\* An entry goes: its TTL ran out, the cache was full, or a sync ended and
\* ClearCaches dropped everything (entry by entry here, in any order).
Evict ==
    /\ \/ \E u \in Users : /\ cache.user[u] # {}
                           /\ cache' = [cache EXCEPT !.user[u] = {}]
       \/ \E g \in Groups : /\ cache.member[g] # {}
                            /\ cache' = [cache EXCEPT !.member[g] = {}]
       \/ \E u \in Users : /\ cache.role[u] # {}
                           /\ cache' = [cache EXCEPT !.role[u] = {}]
       \/ \E p \in Permissions : /\ cache.perm[p] # {}
                                 /\ cache' = [cache EXCEPT !.perm[p] = {}]
    /\ UNCHANGED <<apiVars, asked, unstored>>
=============================================================================
