-------------------------------- MODULE Sync --------------------------------
(***************************************************************************)
(* Full syncs, one after the other, while the container changes: the List  *)
(* and Grants methods of the four builders, driven by the baton-sdk, with  *)
(* every GET going through the client's cache.                             *)
(*                                                                         *)
(* What a sync reports is a set of facts, pairs <<who, what>>: who exists  *)
(* and is "enabled" or "disabled", or holds the role, is a member of the   *)
(* group, or is a subject of the permission called what.  Groups and roles *)
(* themselves never change here, so their lists are left out.              *)
(***************************************************************************)
EXTENDS Client, Naturals

CONSTANTS
    syncTask,       \* the task a full sync is; the others grant and revoke
    SubjectGroups,  \* the other subjects that are groups; AllUsers and
                    \* AllAdmins are not, and List skips those
    Deletable,      \* users an administrator may delete
    SyncsFarApart,  \* TRUE: the lists expire between one sync and the next
    MaxChanges,     \* bound: changes made to the container
    MaxFaults       \* bound: requests and uploads that fail

ASSUME SyncIsATask == syncTask \in Tasks
ASSUME SubjectGroupsAreSubjects == SubjectGroups \subseteq OtherSubjects
ASSUME DeletableAreUsers == Deletable \subseteq Users
ASSUME SyncOptionsAreTyped ==
    /\ SyncsFarApart \in BOOLEAN
    /\ MaxChanges \in Nat
    /\ MaxFaults \in Nat
ASSUME GroupsAreNoWords == Groups \cap {"users", "permissions", "subjects"} = {}
ASSUME KindsAreDistinct ==
    /\ Groups \cap Permissions = {}
    /\ (Roles \cup {"enabled", "disabled"}) \cap (Groups \cup Permissions) = {}

VARIABLES
    lists,      \* the cache's entries of GET /users and GET permissions
    sync,       \* the sync that runs: its requests left and what it has got
    report,     \* the facts last uploaded, if any
    changes,    \* changes so far
    faults,     \* failed requests and uploads so far
    window,     \* history: the facts true at some time, and those true all
                \* the time, since the last sync was sealed
    memberWindow    \* the same since the last sync that was sealed while no
                    \* list of members was on its way to the cache

syncVars ==
    <<apiVars, clientVars, lists, sync, report, changes, faults, window, memberWindow>>

Grantable == Users \cup SubjectGroups

Facts ==
    (Grantable \X Permissions) \cup (Users \X (Groups \cup Roles \cup {"enabled", "disabled"}))

----------------------------------------------------------------------------
(* What an answer says. *)

\* The user resources.
StatusFacts == {<<u, IF enabled[u] THEN "enabled" ELSE "disabled">> : u \in users}

\* The role grants, made of the roles the same answer carries.
RoleFacts == {f \in users \X Roles : f[2] \in userRoles[f[1]]}

\* GET /users?withRoles=true.
UserFacts == StatusFacts \cup RoleFacts

\* Who a list of users names.
Named(facts) == {f[1] : f \in {x \in facts : x[2] \in {"enabled", "disabled"}}}

\* A mutant of SubjectFacts without the switch on the subject's type.
SubjectFactsOfAnyType(lots) == {f \in Subjects \X Permissions : f[1] \in lots[f[2]]}

\* The grants made of the permissions' subjects: other types are skipped.
SubjectFacts(lots) == {f \in Grantable \X Permissions : f[1] \in lots[f[2]]}

MemberFacts(list, g) == {<<m[1], g>> : m \in list}

Truth ==
    UserFacts \cup SubjectFacts(subjects)
      \cup {f \in users \X Groups : f[1] \in members[f[2]]}

\* A window that begins now, and one that goes on over a change.
Now == [ever |-> Truth, always |-> Truth]

Widened(w) == [ever |-> w.ever \cup Truth', always |-> w.always \cap Truth']

Windows == [ever : SUBSET Facts, always : SUBSET Facts]

----------------------------------------------------------------------------
Pending == {"users", "permissions", "subjects"} \cup Groups

NoLists == [users |-> {}, permissions |-> {}]

\* No sync runs; the local variables of one that ended are gone.
Idle == [on |-> FALSE, todo |-> {}, draft |-> [p \in Permissions |-> {}], got |-> {}]

SyncInit ==
    /\ APIInit
    /\ ClientInit
    /\ lists = NoLists
    /\ sync = Idle
    /\ report = {}
    /\ changes = 0
    /\ faults = 0
    /\ window = Now
    /\ memberWindow = Now

SyncTypeOK ==
    /\ APITypeOK
    /\ CacheTypeOK
    /\ lists \in [users : SUBSET SUBSET Facts,
                  permissions : SUBSET [Permissions -> SUBSET Subjects]]
    /\ sync \in [on : BOOLEAN, todo : SUBSET Pending,
                 draft : [Permissions -> SUBSET Subjects], got : SUBSET Facts]
    /\ report \in SUBSET SUBSET Facts
    /\ changes \in 0..MaxChanges
    /\ faults \in 0..MaxFaults
    /\ window \in Windows
    /\ memberWindow \in Windows

----------------------------------------------------------------------------
(* The steps of a sync. *)

\* Without the cache what a sync reads begins to be read when it begins.
Begin ==
    /\ ~sync.on
    /\ sync' = [Idle EXCEPT !.on = TRUE, !.todo = {"users", "permissions"} \cup Groups]
    /\ lists' = IF SyncsFarApart THEN NoLists ELSE lists
    /\ window' = IF CacheOn THEN window ELSE Now
    /\ memberWindow' = IF CacheOn THEN memberWindow ELSE Now
    /\ UNCHANGED <<apiVars, clientVars, report, changes, faults>>

\* The sync is done with one request and goes on.
GetsOn(request, facts) ==
    /\ sync' = [sync EXCEPT !.todo = sync.todo \ {request}, !.got = sync.got \cup facts]
    /\ UNCHANGED <<report, changes, faults, window, memberWindow>>

UserListAnswers == Served(lists.users, {UserFacts})

PermissionListAnswers == Served(lists.permissions, {subjects})

\* List of the users; their role grants send no request of their own.
ListUsers ==
    /\ "users" \in sync.todo
    /\ \E facts \in UserListAnswers :
         /\ lists' = [lists EXCEPT !.users = Kept(facts)]
         /\ GetsOn("users", facts)
    /\ UNCHANGED <<apiVars, clientVars>>

\* List of the permissions begins with the permissions ...
ListPermissions ==
    /\ "permissions" \in sync.todo
    /\ \E lots \in PermissionListAnswers :
         /\ lists' = [lists EXCEPT !.permissions = Kept(lots)]
         /\ sync' = [sync EXCEPT
              !.todo = (sync.todo \ {"permissions"}) \cup {"subjects"}, !.draft = lots]
    /\ UNCHANGED <<apiVars, clientVars, report, changes, faults, window, memberWindow>>

UserSubjects(lots) == UNION {lots[p] \cap Users : p \in Permissions}

\* A mutant of KnowsSubjects that asks whether any user is known.
KnowsSubjectsLoosely(facts, lots) ==
    UserSubjects(lots) = {} \/ UserSubjects(lots) \cap Named(facts) # {}

\* getUserResourceId finds the id of every user the permissions name.
KnowsSubjects(facts, lots) == UserSubjects(lots) \subseteq Named(facts)

\* ... and goes on with the users, to translate the subjects' UUIDs.
ResolveSubjects ==
    /\ "subjects" \in sync.todo
    /\ \E facts \in UserListAnswers :
         /\ KnowsSubjects(facts, sync.draft)
         /\ lists' = [lists EXCEPT !.users = Kept(facts)]
         /\ GetsOn("subjects", SubjectFacts(sync.draft))
    /\ UNCHANGED <<apiVars, clientVars>>

\* One subject whose UUID is unknown fails the List, and with it the sync;
\* the cache stays as it is.
SubjectUnknown ==
    /\ "subjects" \in sync.todo
    /\ \E facts \in UserListAnswers :
         /\ ~KnowsSubjects(facts, sync.draft)
         /\ lists' = [lists EXCEPT !.users = Kept(facts)]
    /\ sync' = Idle
    /\ UNCHANGED <<apiVars, clientVars, report, changes, faults, window, memberWindow>>

\* Grants of a group, once everything is listed.
ListMembers(g) ==
    /\ g \in sync.todo
    /\ sync.todo \subseteq Groups
    /\ \E list \in MemberAnswers(syncTask, g) :
         /\ GetGroupMembers(syncTask, g, list)
         /\ GetsOn(g, MemberFacts(list, g))
    /\ UNCHANGED lists

\* What the sync got is uploaded, or the upload fails and it is lost.
Upload ==
    \/ report' = {sync.got} /\ UNCHANGED faults
    \/ faults < MaxFaults /\ faults' = faults + 1 /\ UNCHANGED report

\* No task has an answer that it has yet to store.
NothingUnderWay == \A t \in Tasks : unstored[t] = EmptyCache

\* A mutant of Finish that leaves the cache alone.
FinishKeepsCache ==
    /\ sync.on
    /\ sync.todo = {}
    /\ Upload
    /\ sync' = Idle
    /\ window' = Now
    /\ memberWindow' = IF NothingUnderWay THEN Now ELSE memberWindow
    /\ UNCHANGED <<apiVars, clientVars, lists, changes>>

\* The sync is sealed, Cleanup clears the caches, and then it is uploaded.
\* An answer another task has yet to store comes into the cleared cache.
Finish ==
    /\ sync.on
    /\ sync.todo = {}
    /\ Upload
    /\ sync' = Idle
    /\ lists' = NoLists
    /\ cache' = EmptyCache
    /\ window' = Now
    /\ memberWindow' = IF NothingUnderWay THEN Now ELSE memberWindow
    /\ UNCHANGED <<apiVars, asked, unstored, changes>>

\* One request after the other, each once the last one's answer is stored.
SyncStep ==
    /\ unstored[syncTask] = EmptyCache
    /\ \/ Begin
       \/ ListUsers
       \/ ListPermissions
       \/ ResolveSubjects
       \/ SubjectUnknown
       \/ \E g \in Groups : ListMembers(g)
       \/ Finish

\* A request the cache cannot answer fails for good, and with it the sync.
ListFails ==
    /\ unstored[syncTask] = EmptyCache
    /\ \/ {"users", "subjects"} \cap sync.todo # {} /\ lists.users = {}
       \/ "permissions" \in sync.todo /\ lists.permissions = {}
       \/ \E g \in Groups \cap sync.todo :
            cache.member[g] = {} \/ <<"member", g>> \in asked[syncTask]
    /\ faults < MaxFaults
    /\ faults' = faults + 1
    /\ sync' = Idle
    /\ GivesUp(syncTask)
    /\ UNCHANGED <<apiVars, lists, report, changes, window, memberWindow>>

----------------------------------------------------------------------------
(* What goes on meanwhile. *)

\* Administrators and tasks change the container; a permission is only given
\* users who exist.
ContainerChanges ==
    /\ changes < MaxChanges
    /\ changes' = changes + 1
    /\ \/ \E u \in Users : CreateUser(u) \/ \E on \in BOOLEAN : SetUserEnabled(u, on)
       \/ \E u \in Users, g \in Groups : AddGroupMember(g, u) \/ RemoveGroupMember(g, u)
       \/ \E u \in Users, r \in Roles : SetUserRoles(u, {r})
       \/ \E p \in Permissions, s \in users \cup OtherSubjects :
            UpdatePermission(p, subjects[p] \cup {s})
       \/ \E p \in Permissions : \E s \in subjects[p] : UpdatePermission(p, subjects[p] \ {s})
       \/ \E u \in Deletable : DeleteUser(u)
    /\ window' = Widened(window)
    /\ memberWindow' = Widened(memberWindow)
    /\ UNCHANGED <<clientVars, lists, sync, report, faults>>

\* The sync or a task looks for the members of a group and finds no entry.
LooksForMembers(t, g) ==
    /\ unstored[t] = EmptyCache
    /\ t = syncTask => g \in sync.todo /\ sync.todo \subseteq Groups
    /\ Misses(t, <<"member", g>>)
    /\ UNCHANGED <<lists, sync, report, changes, faults, window, memberWindow>>

\* A grant or revoke lists the members of a group through the same cache, or
\* fails to; it goes on once the list is stored.
TaskListsMembers(t, g) ==
    /\ unstored[t] = EmptyCache
    /\ asked[t] \subseteq {<<"member", g>>}
    /\ \/ \E list \in MemberAnswers(t, g) : GetGroupMembers(t, g, list)
       \/ GivesUp(t) /\ UNCHANGED apiVars
    /\ UNCHANGED <<lists, sync, report, changes, faults, window, memberWindow>>

\* Do stores the list of members somebody got, whatever happened since.
StoreMembers(t) ==
    /\ Store(t)
    /\ UNCHANGED <<lists, sync, report, changes, faults, window, memberWindow>>

\* Entries expire.  The lists are asked for twice in a sync, which takes
\* less than their lifetime, so they only expire between syncs.
ListsExpire ==
    /\ \/ Evict /\ UNCHANGED lists
       \/ /\ ~sync.on
          /\ \E l \in {"users", "permissions"} :
               lists[l] # {} /\ lists' = [lists EXCEPT ![l] = {}]
          /\ UNCHANGED <<apiVars, clientVars>>
    /\ UNCHANGED <<sync, report, changes, faults, window, memberWindow>>

TasksRead == \E t \in Tasks \ {syncTask}, g \in Groups : TaskListsMembers(t, g)

SyncNext ==
    \/ SyncStep
    \/ ListFails
    \/ ContainerChanges
    \/ \E t \in Tasks, g \in Groups : LooksForMembers(t, g)
    \/ TasksRead
    \/ \E t \in Tasks : StoreMembers(t)
    \/ ListsExpire

\* The next sync is always asked for, a request ends and its answer is stored.
SyncFairness == WF_syncVars(SyncStep) /\ \A t \in Tasks : WF_syncVars(StoreMembers(t))

SyncSpec == SyncInit /\ [][SyncNext]_syncVars /\ SyncFairness

----------------------------------------------------------------------------
(* Properties. *)

\* The facts each kind of request is asked for.
UserKind == Users \X (Roles \cup {"enabled", "disabled"})
SubjectKind == Grantable \X Permissions
MemberKind(g) == Users \X {g}

\* Of the facts of a kind, none is missing that was true all the time, and
\* none is there that was never true.
Recent(facts, kind, w) ==
    w.always \cap kind \subseteq facts /\ facts \cap kind \subseteq w.ever

\* What a sync reports of users, roles and permissions was true at some time
\* since the last sync was sealed, and it leaves out nothing of them that was
\* true all along: ClearCaches at the end of a sync (connectorbuilder.go:379)
\* bounds how old an answer can get.  What it reports of members is as recent
\* only when no grant or revoke had a list of members under way as the caches
\* were cleared: wrapper.go:833 stores such a list afterwards, and the next
\* sync reports it.  Then it dates from the last sync that was sealed with
\* nothing under way.  Without the cache the time is that of the sync itself.
ReportsAreRecent ==
    [][sync.on /\ sync.todo = {} /\ ~sync'.on
         => /\ Recent(sync.got, UserKind \cup SubjectKind, window)
            /\ \A g \in Groups : Recent(sync.got, MemberKind(g), memberWindow)]_syncVars

\* What the sync has got so far: in full for the requests it is done with.
GotIsRecent ==
    sync.on =>
      /\ sync.got \cap (UserKind \cup SubjectKind) \subseteq window.ever
      /\ \A g \in Groups : sync.got \cap MemberKind(g) \subseteq memberWindow.ever
      /\ "subjects" \in sync.todo => Recent(SubjectFacts(sync.draft), SubjectKind, window)
      /\ "users" \notin sync.todo => Recent(sync.got, UserKind, window)
      /\ {"permissions", "subjects"} \cap sync.todo = {} =>
           Recent(sync.got, SubjectKind, window)
      /\ \A g \in Groups \ sync.todo : Recent(sync.got, MemberKind(g), memberWindow)

\* The lists of members of a group: cached, or on their way to the cache.
MemberCopies(g) == cache.member[g] \cup UNION {unstored[t].member[g] : t \in Tasks}

\* Whatever failed and whoever filled the cache, every answer in it or on its
\* way to it is recent in that sense, and so is what the sync made of them:
\* a hit renews an entry (wrapper.go:832) and may bring an old list of members
\* back after the caches were cleared, but never a list that is older than the
\* last time they were cleared with no such answer under way.
AnswersAreRecent ==
    /\ \A facts \in lists.users : Recent(facts, UserKind, window)
    /\ \A lots \in lists.permissions : Recent(SubjectFacts(lots), SubjectKind, window)
    /\ \A g \in Groups : \A list \in MemberCopies(g) :
         Recent(MemberFacts(list, g), MemberKind(g), memberWindow)
    /\ GotIsRecent

\* A permission is never reported as granted to a user the same sync did not
\* list (permissions.go:48-58 translates subjects with the list of users,
\* which the cache answers the second time).
GranteesAreListed ==
    \A facts \in report :
      \A f \in facts : f[2] \in Permissions /\ f[1] \in Users => f[1] \in Named(facts)

\* Once the container stays as it is, requests stop failing and tasks stop
\* listing members, syncs report exactly what the container holds
\* (docs/connector.mdx:128: "automatically syncing and uploading data at
\* regular intervals").  Tasks that never stop could hand an old list of
\* members on from each sync to the next.
SyncsCatchUp == <>[][~TasksRead]_syncVars => <>[](report = {Truth})
=============================================================================
