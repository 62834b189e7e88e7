--------------------------- MODULE PromiseProofs ----------------------------
(***************************************************************************)
(* What a task does is what it was asked, and what it reports is so, for   *)
(* all users, groups, roles, permissions, requests, numbers of tasks,      *)
(* retries and failures - given what the code needs for that: answers that *)
(* are not cached (the violation runs show why) and nobody but the tasks   *)
(* changing the container (Undisturbed), and one slot, or tasks none of    *)
(* which touches what another read and relies on (Alone).                  *)
(*                                                                         *)
(* Every step of a task is shown to be a step of AccessPromise (Works).    *)
(* The rest follows from it: the inductive invariant Inv, the refinement,  *)
(* and the action properties, which say what the promise says of the step  *)
(* that ends a task.                                                       *)
(***************************************************************************)
EXTENDS TaskProofs

\* What a handler remembers of the container is still so.
MemoryFits(t) ==
    /\ At(t, "getSubject") => task[t].draft = subjects[On(t)]
    /\ At(t, "putPerm") =>
         task[t].draft = IF Op(t) = "grant" THEN subjects[On(t)] \cup {Who(t)}
                                            ELSE subjects[On(t)] \ {Who(t)}
    /\ Op(t) = "revoke" /\ task[t].pc \in {"listRoles", "putRole"} => Holds(task[t].req)
    /\ "login" \in Seen(t) => enabled[Who(t)]

\* The access a grant has seen to is still there.
AccessStays(t) == "access" \in Seen(t) => Holds(task[t].req)

\* A task asked q can make untrue what a handler asked r remembers.
Disturbs(q, r) ==
    \/ r.on \in Permissions /\ q.on = r.on
    \/ r.on \in Roles /\ q.on \in Roles /\ q.who = r.who
    \/ /\ r.on \in Roles \cup Permissions /\ r.op = "grant" /\ EnableOnProvision
       /\ q.on = "account" /\ q.op # "enable" /\ q.who = r.who

\* A task asked q takes a membership away that r, still enabling the user, gave.
Undoes(q, r) ==
    /\ r.on \in Groups /\ q.on = r.on /\ q.who = r.who
    /\ q.op = "revoke" /\ r.op = "grant" /\ EnableOnProvision

\* One slot, or tasks that do not come between each other's requests.
Alone ==
    Slots = 1 \/ \A t, x \in Tasks : t # x => ~Disturbs(task[t].req, task[x].req)

Unopposed ==
    Slots = 1 \/ \A t, x \in Tasks : t # x => ~Undoes(task[t].req, task[x].req)

\* Nothing is cached and nothing is about to be.
NoCopies == cache = EmptyCache /\ \A t \in Tasks : unstored[t] = EmptyCache

Inv ==
    /\ Always
    /\ Alone
    /\ NoCopies
    /\ \A t \in Tasks : MemoryFits(t)
    /\ Unopposed => \A t \in Tasks : AccessStays(t)

----------------------------------------------------------------------------
(* A step of a task, in the words of the promise.                          *)

\* The parts in done are seen to, and nothing else is touched.
SeesTo(t, done) ==
    /\ done \subseteq Promise!Parts(task[t].req)
    /\ "access" \in done => Promise!Allowed(task[t].req)
    /\ Access' = IF "access" \in done THEN Promise!Served(task[t].req) ELSE Access
    /\ enabled' = IF "login" \in done THEN Promise!Login(task[t].req) ELSE enabled

\* Then the task goes on, succeeds, fails, or starts again.
ThenEnds(t, done) ==
    \/ task'[t].pc \in Sending /\ Seen(t)' = Seen(t) \cup done
    \/ /\ task'[t].pc = "done" /\ task'[t].outcome # "failed"
       /\ Promise!Parts(task[t].req) \subseteq Seen(t) \cup done
    \/ task'[t].pc = "done" /\ task'[t].outcome = "failed"
    \/ task'[t].pc \in Sending /\ Seen(t)' = {}

Works(t) ==
    /\ task[t].pc \in Sending
    /\ Moves(t)
    /\ \E done : SeesTo(t, done) /\ ThenEnds(t, done)

(* The mapped variables after a step of t differ at t only.                *)
LEMMA MovesAreMapped ==
    ASSUME TypeOK, NEW t \in Tasks, Moves(t)
    PROVE  /\ [x \in Tasks |-> task'[x].req] = [x \in Tasks |-> task[x].req]
           /\ [x \in Tasks |-> Status(x)'] = [[x \in Tasks |-> Status(x)] EXCEPT ![t] = Status(t)']
           /\ [x \in Tasks |-> Seen(x)'] = [[x \in Tasks |-> Seen(x)] EXCEPT ![t] = Seen(t)']
<1>1. \A x \in Tasks \ {t} : task'[x] = task[x]
  BY DEF Moves, Becomes, TypeOK, TaskTypeOK
<1>2. task'[t].req = task[t].req
  BY DEF Moves, Move
<1>3. \A x \in Tasks \ {t} : Status(x)' = Status(x) /\ Seen(x)' = Seen(x)
  BY <1>1 DEF Status, Seen
<1>4. \A x \in Tasks : task'[x].req = task[x].req
  BY <1>1, <1>2
<1> HIDE DEF Status, Seen
<1> QED
  BY <1>3, <1>4

LEMMA WorksIsWork ==
    ASSUME TypeOK, NEW t \in Tasks, Works(t)
    PROVE  Promise!Work(t)
<1>1. PICK done : SeesTo(t, done) /\ ThenEnds(t, done)
  BY DEF Works
<1>2. Status(t) = "running"
  <2>1. task[t].pc \in Sending
    BY DEF Works
  <2>2. task[t].pc \in Sending => Status(t) = "running"
    BY DEF Status, Sending
  <2> QED
    BY <2>1, <2>2
<1>3. /\ task'[t].pc \in Sending => Status(t)' = "running"
      /\ task'[t].pc = "done" =>
           /\ Status(t)' = IF task'[t].outcome = "failed" THEN "failed" ELSE "ok"
           /\ Seen(t)' = {}
  BY DEF Status, Seen, Sending
<1> DEFINE req    == [x \in Tasks |-> task[x].req]
           status == [x \in Tasks |-> Status(x)]
           seen   == [x \in Tasks |-> Seen(x)]
<1>4. /\ req' = req
      /\ status' = [status EXCEPT ![t] = Status(t)']
      /\ seen' = [seen EXCEPT ![t] = Seen(t)']
  BY MovesAreMapped DEF Works
<1>5. req[t] = task[t].req /\ seen[t] = Seen(t) /\ status[t] = "running"
  BY <1>2
<1>6. status = [status EXCEPT ![t] = "running"]
  BY <1>5
<1> HIDE DEF req, status, seen
<1>7. \/ seen' = [seen EXCEPT ![t] = seen[t] \cup done] /\ status' = status
      \/ /\ Promise!Parts(req[t]) \subseteq seen[t] \cup done
         /\ status' = [status EXCEPT ![t] = "ok"]
         /\ seen' = [seen EXCEPT ![t] = {}]
      \/ status' = [status EXCEPT ![t] = "failed"] /\ seen' = [seen EXCEPT ![t] = {}]
      \/ status' = status /\ seen' = [seen EXCEPT ![t] = {}]
  BY <1>1, <1>3, <1>4, <1>5, <1>6 DEF ThenEnds
<1>8. /\ done \in SUBSET Promise!Parts(req[t])
      /\ "access" \in done => Promise!Allowed(req[t])
      /\ Access' = IF "access" \in done THEN Promise!Served(req[t]) ELSE Access
      /\ enabled' = IF "login" \in done THEN Promise!Login(req[t]) ELSE enabled
  BY <1>1, <1>5 DEF SeesTo
<1> QED
  BY <1>4, <1>5, <1>7, <1>8 DEF Promise!Work, req, status, seen

----------------------------------------------------------------------------
(* The access as a set of pairs.                                           *)

LEMMA PairsOfAccess ==
    ASSUME TypeOK
    PROVE  /\ \A u \in Users, g \in Groups : <<u, g>> \in Access <=> u \in members[g]
           /\ \A u \in Users, r \in Roles : <<u, r>> \in Access <=> r \in userRoles[u]
           /\ \A s \in Subjects, p \in Permissions : <<s, p>> \in Access <=> s \in subjects[p]
  BY TargetsAreDistinct DEF Access

LEMMA HoldingIsAccess ==
    ASSUME TypeOK, NEW r \in Requests, r.on # "account"
    PROVE  Holds(r) <=> <<r.who, r.on>> \in Access
<1>1. \/ r.on \in Groups /\ r.who \in Users
      \/ r.on \in Roles /\ r.who \in Users
      \/ r.on \in Permissions /\ r.who \in Subjects
  BY RequestsAreKnown DEF AllRequests
<1> QED
  BY <1>1, PairsOfAccess, TargetsAreDistinct DEF Holds

(* What each write of the API does to the pairs.                           *)
LEMMA WritesAsPairs ==
    ASSUME TypeOK
    PROVE  /\ UNCHANGED <<members, userRoles, subjects>> => Access' = Access
           /\ \A g \in Groups, u \in Users :
                /\ AddGroupMember(g, u) => Access' = Access \cup {<<u, g>>}
                /\ RemoveGroupMember(g, u) => Access' = Access \ {<<u, g>>}
           /\ \A u \in Users, r \in Roles :
                SetUserRoles(u, {r}) =>
                  Access' = (Access \ Promise!RolePairs(u)) \cup {<<u, r>>}
           /\ \A p \in Permissions, s \in Subjects :
                /\ UpdatePermission(p, subjects[p] \cup {s}) => Access' = Access \cup {<<s, p>>}
                /\ UpdatePermission(p, subjects[p] \ {s}) => Access' = Access \ {<<s, p>>}
<1> DEFINE inGroup   == {a \in Users \X Groups : a[1] \in members[a[2]]}
           inRole    == {a \in Users \X Roles : a[2] \in userRoles[a[1]]}
           isSubject == {a \in Subjects \X Permissions : a[1] \in subjects[a[2]]}
<1>1. /\ Access = inGroup \cup inRole \cup isSubject
      /\ Access' = inGroup' \cup inRole' \cup isSubject'
  BY DEF Access
<1>2. /\ inGroup \subseteq Users \X Groups
      /\ inRole \subseteq Users \X Roles
      /\ isSubject \subseteq Subjects \X Permissions
  OBVIOUS
<1>3. /\ UNCHANGED members => inGroup' = inGroup
      /\ UNCHANGED userRoles => inRole' = inRole
      /\ UNCHANGED subjects => isSubject' = isSubject
  OBVIOUS
<1>4. ASSUME NEW g \in Groups, NEW u \in Users
      PROVE  /\ AddGroupMember(g, u) => inGroup' = inGroup \cup {<<u, g>>}
             /\ RemoveGroupMember(g, u) => inGroup' = inGroup \ {<<u, g>>}
  BY <1>4 DEF AddGroupMember, RemoveGroupMember, TypeOK, APITypeOK
<1>5. ASSUME NEW u \in Users, NEW r \in Roles, SetUserRoles(u, {r})
      PROVE  inRole' = (inRole \ Promise!RolePairs(u)) \cup {<<u, r>>}
  BY <1>5 DEF SetUserRoles, TypeOK, APITypeOK, Promise!RolePairs
<1>6. ASSUME NEW p \in Permissions, NEW s \in Subjects
      PROVE  /\ UpdatePermission(p, subjects[p] \cup {s}) =>
                  isSubject' = isSubject \cup {<<s, p>>}
             /\ UpdatePermission(p, subjects[p] \ {s}) =>
                  isSubject' = isSubject \ {<<s, p>>}
  BY <1>6 DEF UpdatePermission, TypeOK, APITypeOK
<1> HIDE DEF inGroup, inRole, isSubject
<1>7. ASSUME NEW g \in Groups, NEW u \in Users
      PROVE  /\ AddGroupMember(g, u) => Access' = Access \cup {<<u, g>>}
             /\ RemoveGroupMember(g, u) => Access' = Access \ {<<u, g>>}
  <2>1. <<u, g>> \notin inRole \cup isSubject
    BY <1>2, TargetsAreDistinct
  <2> QED
    BY <1>1, <1>3, <1>4, <2>1 DEF AddGroupMember, RemoveGroupMember
<1>8. ASSUME NEW u \in Users, NEW r \in Roles, SetUserRoles(u, {r})
      PROVE  Access' = (Access \ Promise!RolePairs(u)) \cup {<<u, r>>}
  <2>1. Promise!RolePairs(u) \cap (inGroup \cup isSubject) = {}
    BY <1>2, TargetsAreDistinct DEF Promise!RolePairs
  <2>2. inGroup' = inGroup /\ isSubject' = isSubject
    BY <1>3, <1>8 DEF SetUserRoles
  <2> QED
    BY <1>1, <1>5, <1>8, <2>1, <2>2
<1>9. ASSUME NEW p \in Permissions, NEW s \in Subjects
      PROVE  /\ UpdatePermission(p, subjects[p] \cup {s}) => Access' = Access \cup {<<s, p>>}
             /\ UpdatePermission(p, subjects[p] \ {s}) => Access' = Access \ {<<s, p>>}
  <2>1. <<s, p>> \notin inGroup \cup inRole
    BY <1>2, TargetsAreDistinct
  <2> QED
    BY <1>1, <1>3, <1>6, <2>1 DEF UpdatePermission
<1>10. UNCHANGED <<members, userRoles, subjects>> => Access' = Access
  BY <1>1, <1>3
<1> QED
  BY <1>7, <1>8, <1>9, <1>10
----------------------------------------------------------------------------
(* What the cache's absence makes of the answers.                          *)

LEMMA FreshAnswers ==
    ASSUME TypeOK, MembersExist, cache = EmptyCache, NEW t \in Tasks
    PROVE  /\ \A u \in Users : UserAnswers(t, u) \subseteq {enabled[u]}
           /\ \A u \in Users : RoleAnswers(t, u) \subseteq {userRoles[u]}
           /\ \A p \in Permissions : PermAnswers(t, p) = {subjects[p]}
           /\ \A g \in Groups : MemberAnswers(t, g) = {MemberList(g)}
           /\ \A g \in Groups, u \in Users :
                /\ Lists(MemberList(g), u) <=> u \in members[g]
                /\ u \in members[g] => (<<u, TRUE>> \in MemberList(g) <=> enabled[u])
<1>1. /\ \A u \in Users : Entry(<<"user", u>>) = {} /\ Entry(<<"role", u>>) = {}
      /\ \A p \in Permissions : Entry(<<"perm", p>>) = {}
      /\ \A g \in Groups : Entry(<<"member", g>>) = {}
  BY EntriesAre DEF EmptyCache
<1>2. /\ \A u \in Users : UserDetails(u) \subseteq {enabled[u]}
      /\ \A u \in Users : RolesOf(u) \subseteq {userRoles[u]}
  BY DEF UserDetails, RolesOf
<1>3. ASSUME NEW g \in Groups, NEW u \in Users
      PROVE  /\ Lists(MemberList(g), u) <=> u \in members[g]
             /\ u \in members[g] => (<<u, TRUE>> \in MemberList(g) <=> enabled[u])
  <2>1. members[g] \subseteq users /\ enabled[u] \in BOOLEAN
    BY DEF MembersExist, TypeOK, APITypeOK
  <2>2. \A awake : <<u, awake>> \in MemberList(g) <=> u \in members[g] /\ awake = enabled[u]
    BY <2>1 DEF MemberList
  <2> QED
    BY <2>1, <2>2 DEF Lists
<1> QED
  BY <1>1, <1>2, <1>3
     DEF UserAnswers, RoleAnswers, PermAnswers, MemberAnswers, Answers, Served

LEMMA NothingIsKept ==
    ASSUME TypeOK, CacheOn = FALSE, NoCopies, NEW t \in Tasks
    PROVE  /\ \A u \in Users : \A a : GetUserDetails(t, u, a) => NoCopies'
           /\ \A g \in Groups : \A a : GetGroupMembers(t, g, a) => NoCopies'
           /\ \A u \in Users : \A a : GetUserRoles(t, u, a) => NoCopies'
           /\ \A p \in Permissions : \A a : GetPermissionDetails(t, p, a) => NoCopies'
           /\ GivesUp(t) \/ UNCHANGED clientVars => NoCopies'
<1>1. \A a : Kept(a) = {}
  BY DEF Kept
<1>2. ASSUME NEW c, c = EmptyCache
      PROVE  /\ \A u \in Users : [c EXCEPT !.user[u] = {}] = c /\ [c EXCEPT !.role[u] = {}] = c
             /\ \A g \in Groups : [c EXCEPT !.member[g] = {}] = c
             /\ \A p \in Permissions : [c EXCEPT !.perm[p] = {}] = c
  <2>1. /\ c = [c EXCEPT !.user = c.user] /\ c = [c EXCEPT !.role = c.role]
        /\ c = [c EXCEPT !.member = c.member]
        /\ c = [c EXCEPT !.perm = c.perm]
    BY <1>2 DEF EmptyCache
  <2>2. /\ \A u \in Users : /\ [c.user EXCEPT ![u] = {}] = c.user
                           /\ [c.role EXCEPT ![u] = {}] = c.role
        /\ \A g \in Groups : [c.member EXCEPT ![g] = {}] = c.member
        /\ \A p \in Permissions : [c.perm EXCEPT ![p] = {}] = c.perm
    BY <1>2 DEF EmptyCache
  <2> QED
    BY <2>1, <2>2
<1>3. /\ unstored \in [Tasks -> Caches] /\ unstored[t] = EmptyCache
      /\ EmptyCache' = EmptyCache
  BY DEF TypeOK, CacheTypeOK, NoCopies, EmptyCache
<1>4. ASSUME UNCHANGED cache, \A x \in Tasks : unstored'[x] = unstored[x]
      PROVE  NoCopies'
  BY <1>3, <1>4 DEF NoCopies
<1>d. ASSUME UNCHANGED cache, NEW c, c = unstored[t], unstored' = [unstored EXCEPT ![t] = c]
      PROVE  NoCopies'
  BY <1>3, <1>4, <1>d
<1>5. ASSUME NEW u \in Users, NEW a, GetUserDetails(t, u, a)
      PROVE  NoCopies'
  <2> DEFINE c == [unstored[t] EXCEPT !.user[u] = {}]
  <2>1. unstored' = [unstored EXCEPT ![t] = c] /\ UNCHANGED cache
    BY <1>1, <1>5 DEF GetUserDetails
  <2>2. c = unstored[t]
    BY <1>2, <1>3
  <2> HIDE DEF c
  <2> QED
    BY <2>1, <2>2, <1>d
<1>6. ASSUME NEW g \in Groups, NEW a, GetGroupMembers(t, g, a)
      PROVE  NoCopies'
  <2> DEFINE c == [unstored[t] EXCEPT !.member[g] = {}]
  <2>1. unstored' = [unstored EXCEPT ![t] = c] /\ UNCHANGED cache
    BY <1>1, <1>6 DEF GetGroupMembers
  <2>2. c = unstored[t]
    BY <1>2, <1>3
  <2> HIDE DEF c
  <2> QED
    BY <2>1, <2>2, <1>d
<1>7. ASSUME NEW u \in Users, NEW a, GetUserRoles(t, u, a)
      PROVE  NoCopies'
  <2> DEFINE c == [unstored[t] EXCEPT !.role[u] = {}]
  <2>1. unstored' = [unstored EXCEPT ![t] = c] /\ UNCHANGED cache
    BY <1>1, <1>7 DEF GetUserRoles
  <2>2. c = unstored[t]
    BY <1>2, <1>3
  <2> HIDE DEF c
  <2> QED
    BY <2>1, <2>2, <1>d
<1>8. ASSUME NEW p \in Permissions, NEW a, GetPermissionDetails(t, p, a)
      PROVE  NoCopies'
  <2> DEFINE c == [unstored[t] EXCEPT !.perm[p] = {}]
  <2>1. unstored' = [unstored EXCEPT ![t] = c] /\ UNCHANGED cache
    BY <1>1, <1>8 DEF GetPermissionDetails
  <2>2. c = unstored[t]
    BY <1>2, <1>3
  <2> HIDE DEF c
  <2> QED
    BY <2>1, <2>2, <1>d
<1>9. GivesUp(t) \/ UNCHANGED clientVars => NoCopies'
  BY <1>4 DEF GivesUp, clientVars
<1> QED
  BY <1>5, <1>6, <1>7, <1>8, <1>9

----------------------------------------------------------------------------
(* What a task has seen to, read off its row.                              *)

SeenBy(row) ==
    (IF row.pc \in {"getStatus", "enable"} THEN {"access"} ELSE {})
      \cup (IF row.pc \in Sending /\ row.awake /\ EnableOnProvision THEN {"login"} ELSE {})

LEMMA SeenIsSeenBy ==
    ASSUME NEW t \in Tasks
    PROVE  /\ RowFits(task[t]) => Seen(t) = SeenBy(task[t])
           /\ RowFits(task'[t]) => Seen(t)' = SeenBy(task'[t])
<1>1. ASSUME NEW row, RowFits(row)
      PROVE  {x \in {"access", "login"} :
                /\ row.pc \in Sending
                /\ x = "access" => row.outcome # "none"
                /\ x = "login" => row.awake /\ EnableOnProvision} = SeenBy(row)
  BY <1>1 DEF RowFits, SeenBy, Sending
<1> QED
  BY <1>1 DEF Seen

(* What is known of a task when it takes a step.                           *)
LEMMA StepFacts ==
    ASSUME Always, NEW t \in Tasks, Step(t)
    PROVE  /\ TypeOK' /\ Moves(t)
           /\ task[t] \in TaskRows /\ task'[t] \in TaskRows
           /\ SendsItsOwn(task[t])
           /\ task[t].req \in Requests /\ task[t].req \in AllRequests
           /\ RowFits(task[t]) /\ RowFits(task'[t])
           /\ Seen(t) = SeenBy(task[t]) /\ Seen(t)' = SeenBy(task'[t])
           /\ \A row : Becomes(t, row) => task'[t] = row
<1>1. TypeOK' /\ Always'
  BY NextKeepsOrder DEF Next, Always
<1>2. Moves(t)
  BY StepIsMove DEF Always
<1>3. task[t] \in TaskRows /\ task'[t] \in TaskRows /\ SendsItsOwn(task[t])
  BY <1>1 DEF Always, TypeOK, TaskTypeOK
<1>4. RowFits(task[t]) /\ RowFits(task'[t])
  BY <1>1 DEF Always, RowsFit
<1>5. task[t].req \in Requests /\ task[t].req \in AllRequests
  BY <1>3, RequestsAreKnown DEF TaskRows
<1>6. \A row : Becomes(t, row) => task'[t] = row
  BY DEF Becomes, Always, TypeOK, TaskTypeOK
<1> QED
  BY <1>1, <1>2, <1>3, <1>4, <1>5, <1>6, SeenIsSeenBy

LEMMA PartsOfRequests ==
    ASSUME NEW r \in AllRequests
    PROVE  /\ r.on = "account" => Promise!Parts(r) = {"login"}
           /\ r.on # "account" => r.op \in {"grant", "revoke"}
           /\ r.op = "revoke" => r.on # "account" /\ Promise!Parts(r) = {"access"}
           /\ r.op = "grant" =>
                /\ r.on # "account"
                /\ Promise!Parts(r) = {"access"} \cup IF EnableOnProvision THEN {"login"} ELSE {}
  BY TargetsAreDistinct DEF AllRequests, Promise!Parts
----------------------------------------------------------------------------
(* The ways a handler's step ends, as the promise sees them.               *)

LEMMA FailingWorks ==
    ASSUME Always, NEW t \in Tasks, Step(t), task[t].pc \in Sending,
           NEW done, SeesTo(t, done),
           (\E retryable : Fail(t, retryable)) \/ AnswerLost(t)
    PROVE  Works(t)
<1>1. PICK retryable : Fail(t, retryable)
  BY DEF AnswerLost
<1>2. CASE task'[t] = Again(t)
  <2>1. task'[t].pc \in Sending
    BY <1>2, StepFacts, FirstRequestFits DEF Again, Fresh
  <2>2. task'[t].pc \notin {"getStatus", "enable"} /\ ~task'[t].awake
    BY <1>2, StepFacts, FirstRequestIsFirst DEF Again, Fresh
  <2>3. Seen(t)' = {}
    BY <2>2, StepFacts DEF SeenBy
  <2> QED
    BY <2>1, <2>3, StepFacts DEF Works, ThenEnds
<1>3. CASE task'[t] = Over(t, "failed")
  <2>1. task'[t].pc = "done" /\ task'[t].outcome = "failed"
    BY <1>3, StepFacts DEF Over, TaskRows
  <2> QED
    BY <2>1, StepFacts DEF Works, ThenEnds
<1> QED
  BY <1>1, <1>2, <1>3, StepFacts DEF Fail

LEMMA FinishingWorks ==
    ASSUME Always, NEW t \in Tasks, Step(t), task[t].pc \in Sending,
           NEW done, SeesTo(t, done), NEW outcome, Finish(t, outcome), outcome # "failed",
           Promise!Parts(task[t].req) \subseteq Seen(t) \cup done
    PROVE  Works(t)
<1>1. task'[t] = Over(t, outcome)
  BY StepFacts DEF Finish
<1>2. task'[t].pc = "done" /\ task'[t].outcome = outcome
  BY <1>1, StepFacts DEF Over, TaskRows
<1> QED
  BY <1>2, StepFacts DEF Works, ThenEnds

LEMMA GoingOnWorks ==
    ASSUME Always, NEW t \in Tasks, Step(t), task[t].pc \in Sending,
           NEW done, SeesTo(t, done), task'[t].pc \in Sending, Seen(t)' = Seen(t) \cup done
    PROVE  Works(t)
  BY StepFacts DEF Works, ThenEnds

\* The parts a handler has seen to when it comes to reEnableUserIfNeeded.
SeenSoFar(awake) == {"access"} \cup IF awake /\ EnableOnProvision THEN {"login"} ELSE {}

LEMMA ReEnablingWorks ==
    ASSUME Always, NEW t \in Tasks, Step(t), task[t].pc \in Sending,
           NEW done, SeesTo(t, done), NEW awake, NEW outcome \in {"ok", "exists"},
           ReEnableUserIfNeeded(t, awake, outcome), Op(t) = "grant",
           Seen(t) \cup done = SeenSoFar(awake)
    PROVE  Works(t)
<1>1. CASE awake \/ ~EnableOnProvision
  <2>1. Finish(t, outcome)
    BY <1>1 DEF ReEnableUserIfNeeded
  <2>2. Promise!Parts(task[t].req) \subseteq SeenSoFar(awake)
    BY <1>1, StepFacts, PartsOfRequests DEF SeenSoFar, Op
  <2>3. outcome # "failed"
    OBVIOUS
  <2> QED
    BY <2>1, <2>2, <2>3, FinishingWorks
<1>2. CASE ~awake /\ EnableOnProvision
  <2> DEFINE row == [Over(t, outcome) EXCEPT !.pc = "enable"]
  <2>1. task'[t] = row
    BY <1>2, StepFacts DEF ReEnableUserIfNeeded
  <2>2. row.pc = "enable" /\ ~row.awake
    BY StepFacts DEF Over, TaskRows
  <2> HIDE DEF row
  <2>3. task'[t].pc \in Sending /\ Seen(t)' = {"access"}
    BY <2>1, <2>2, StepFacts DEF SeenBy, Sending
  <2>4. Seen(t)' = Seen(t) \cup done
    BY <1>2, <2>3 DEF SeenSoFar
  <2> QED
    BY <2>3, <2>4, GoingOnWorks
<1> QED
  BY <1>1, <1>2

(* A read sees to a part that turns out to be as it was asked for.         *)
LEMMA ReadingSees ==
    ASSUME Always, NEW t \in Tasks, UNCHANGED apiVars,
           NEW done \in SUBSET Promise!Parts(task[t].req),
           "access" \in done =>
             /\ Who(t) \in Users /\ On(t) # "account"
             /\ Holds(task[t].req) <=> Op(t) = "grant",
           "login" \in done => Who(t) \in Users /\ Op(t) = "grant" /\ enabled[Who(t)]
    PROVE  SeesTo(t, done)
<1> DEFINE r == task[t].req
<1>1. r \in Requests /\ r \in AllRequests
  BY TasksFit, RequestsAreKnown DEF Always, TaskRows
<1>2. TypeOK /\ Access' = Access /\ enabled' = enabled
  BY WritesAsPairs DEF Always, apiVars
<1>3. ASSUME "access" \in done
      PROVE  Promise!Allowed(r) /\ Promise!Served(r) = Access
  <2>1. /\ r.on # "account" /\ r.who \in Users
        /\ Holds(r) <=> <<r.who, r.on>> \in Access
        /\ Holds(r) <=> r.op = "grant"
    BY <1>1, <1>2, <1>3, HoldingIsAccess DEF On, Op, Who
  <2>2. Promise!Allowed(r)
    BY <2>1 DEF Promise!Allowed, Promise!Holds
  <2>3. CASE r.op = "grant" /\ r.on \in Roles
    <3>1. \A a \in Promise!RolePairs(r.who) : a \in Access <=> a = <<r.who, r.on>>
      BY <1>2, <2>1, <2>3, PairsOfAccess DEF Promise!RolePairs, Always, OneRoleEach
    <3> QED
      BY <2>1, <2>2, <2>3, <3>1 DEF Promise!Served
  <2>4. CASE r.op # "grant" \/ r.on \notin Roles
    BY <2>1, <2>2, <2>4 DEF Promise!Served, Promise!Holds
  <2> QED
    BY <2>3, <2>4
<1>4. ASSUME "login" \in done
      PROVE  Promise!Login(r) = enabled
  <2>1. enabled \in [Users -> BOOLEAN]
    BY <1>2 DEF TypeOK, APITypeOK
  <2>2. r.who \in Users /\ r.op = "grant" /\ enabled[r.who] = TRUE
    BY <1>4, <2>1 DEF Who, Op
  <2> QED
    BY <2>1, <2>2 DEF Promise!Login
<1> QED
  BY <1>2, <1>3, <1>4 DEF SeesTo

LEMMA NothingIsSeenTo ==
    ASSUME Always, NEW t \in Tasks, UNCHANGED apiVars
    PROVE  SeesTo(t, {})
  BY WritesAsPairs DEF SeesTo, Always, apiVars
(* A write sees to the part it writes.                                     *)
LEMMA ServingSees ==
    ASSUME Always, NEW t \in Tasks, Who(t) \in Users,
           On(t) \in Groups \cup Roles \cup Permissions, UNCHANGED enabled,
           ~(Op(t) = "revoke" /\ On(t) = BasicRole /\ Holds(task[t].req)),
           Access' = Promise!Served(task[t].req)
    PROVE  SeesTo(t, {"access"})
<1> DEFINE r == task[t].req
<1>1. TypeOK /\ r \in Requests /\ r \in AllRequests /\ r.on # "account"
  BY TasksFit, RequestsAreKnown, TargetsAreDistinct DEF Always, TaskRows, On
<1>2. "access" \in Promise!Parts(r)
  BY <1>1, PartsOfRequests
<1>3. Promise!Allowed(r)
  BY <1>1, HoldingIsAccess DEF Promise!Allowed, Promise!Holds, Who, On, Op
<1> QED
  BY <1>2, <1>3 DEF SeesTo

LEMMA ServedByRequests ==
    ASSUME Always, NEW t \in Tasks, Who(t) \in Users
    PROVE  /\ On(t) \in Groups \cup Permissions =>
                /\ Op(t) = "grant" =>
                     Promise!Served(task[t].req) = Access \cup {<<Who(t), On(t)>>}
                /\ Op(t) = "revoke" =>
                     Promise!Served(task[t].req) = Access \ {<<Who(t), On(t)>>}
           /\ On(t) \in Roles =>
                /\ Op(t) = "grant" =>
                     Promise!Served(task[t].req) =
                       (Access \ Promise!RolePairs(Who(t))) \cup {<<Who(t), On(t)>>}
                /\ Op(t) = "revoke" /\ Holds(task[t].req) =>
                     Promise!Served(task[t].req) =
                       (Access \ Promise!RolePairs(Who(t))) \cup {<<Who(t), BasicRole>>}
<1> DEFINE r == task[t].req
<1>1. TypeOK /\ r \in Requests
  BY TasksFit DEF Always, TaskRows
<1>2. CASE On(t) \in Groups \cup Permissions
  BY <1>2, TargetsAreDistinct DEF Promise!Served, On, Who, Op
<1>3. CASE On(t) \in Roles
  <2>1. r.on # "account"
    BY <1>3, TargetsAreDistinct DEF On
  <2>2. Holds(r) <=> Promise!Holds(r)
    BY <1>1, <2>1, HoldingIsAccess DEF Promise!Holds
  <2> QED
    BY <1>3, <2>2, TargetsAreDistinct DEF Promise!Served, On, Who, Op
<1> QED
  BY <1>2, <1>3

LEMMA GroupWritesSee ==
    ASSUME Always, NEW t \in Tasks, On(t) \in Groups, Who(t) \in Users,
           \/ Op(t) = "grant" /\ AddGroupMember(On(t), Who(t))
           \/ Op(t) = "revoke" /\ RemoveGroupMember(On(t), Who(t))
    PROVE  SeesTo(t, {"access"})
<1>1. Access' = Promise!Served(task[t].req)
  BY WritesAsPairs, ServedByRequests DEF Always
<1>2. UNCHANGED enabled /\ On(t) # BasicRole
  BY TargetsAreDistinct, OptionsAreTyped DEF AddGroupMember, RemoveGroupMember
<1> QED
  BY <1>1, <1>2, ServingSees

LEMMA RoleWritesSee ==
    ASSUME Always, NEW t \in Tasks, On(t) \in Roles, Who(t) \in Users,
           \/ Op(t) = "grant" /\ SetUserRoles(Who(t), {On(t)})
           \/ /\ Op(t) = "revoke" /\ SetUserRoles(Who(t), {BasicRole})
              /\ Holds(task[t].req) /\ On(t) # BasicRole
    PROVE  SeesTo(t, {"access"})
<1>1. BasicRole \in Roles /\ TypeOK
  BY OptionsAreTyped DEF Always
<1>2. Access' = Promise!Served(task[t].req)
  <2>1. CASE Op(t) = "grant" /\ SetUserRoles(Who(t), {On(t)})
    <3>1. Access' = (Access \ Promise!RolePairs(Who(t))) \cup {<<Who(t), On(t)>>}
      BY <1>1, <2>1, WritesAsPairs
    <3> QED
      BY <2>1, <3>1, ServedByRequests
  <2>2. CASE Op(t) = "revoke" /\ SetUserRoles(Who(t), {BasicRole})
    <3>1. Access' = (Access \ Promise!RolePairs(Who(t))) \cup {<<Who(t), BasicRole>>}
      BY <1>1, <2>2, WritesAsPairs
    <3> QED
      BY <2>2, <3>1, ServedByRequests
  <2> QED
    BY <2>1, <2>2
<1>3. UNCHANGED enabled
  BY DEF SetUserRoles
<1> QED
  BY <1>2, <1>3, ServingSees

LEMMA PermissionWritesSee ==
    ASSUME Always, NEW t \in Tasks, On(t) \in Permissions, Who(t) \in Users,
           \/ /\ Op(t) = "grant"
              /\ UpdatePermission(On(t), subjects[On(t)] \cup {Who(t)})
           \/ /\ Op(t) = "revoke"
              /\ UpdatePermission(On(t), subjects[On(t)] \ {Who(t)})
    PROVE  SeesTo(t, {"access"})
<1>1. Who(t) \in Subjects
  BY DEF Subjects
<1>2. Access' = Promise!Served(task[t].req)
  <2>1. CASE /\ Op(t) = "grant"
             /\ UpdatePermission(On(t), subjects[On(t)] \cup {Who(t)})
    <3>1. Access' = Access \cup {<<Who(t), On(t)>>}
      BY <1>1, <2>1, WritesAsPairs DEF Always
    <3> QED
      BY <2>1, <3>1, ServedByRequests
  <2>2. CASE /\ Op(t) = "revoke"
             /\ UpdatePermission(On(t), subjects[On(t)] \ {Who(t)})
    <3>1. Access' = Access \ {<<Who(t), On(t)>>}
      BY <1>1, <2>2, WritesAsPairs DEF Always
    <3> QED
      BY <2>2, <3>1, ServedByRequests
  <2> QED
    BY <2>1, <2>2
<1>3. UNCHANGED enabled /\ On(t) # BasicRole
  BY TargetsAreDistinct, OptionsAreTyped DEF UpdatePermission
<1> QED
  BY <1>2, <1>3, ServingSees

LEMMA LoginWritesSee ==
    ASSUME Always, NEW t \in Tasks, NEW on \in BOOLEAN, on <=> Op(t) \in {"grant", "enable"},
           SetUserEnabled(Who(t), on), "login" \in Promise!Parts(task[t].req)
    PROVE  SeesTo(t, {"login"})
<1>1. Access' = Access
  BY WritesAsPairs DEF Always, SetUserEnabled
<1>2. on = (task[t].req.op \in {"grant", "enable"})
  BY DEF Op
<1>3. enabled' = Promise!Login(task[t].req)
  BY <1>2 DEF SetUserEnabled, Promise!Login, Who
<1> QED
  BY <1>1, <1>3 DEF SeesTo
----------------------------------------------------------------------------
(* Every step of a handler is work on its request, action by action.       *)

LEMMA RunnerWorks ==
    ASSUME Always, NEW t \in Tasks, Step(t),
           RequestFails(t) \/ Refused(t) \/ EnableUser(t)
    PROVE  Works(t)
<1>1. Step(t) /\ task[t].pc \in Sending
  BY DEF RequestFails, Refused, EnableUser, At, Sending
<1>2. CASE RequestFails(t) \/ Refused(t)
  <2>1. SeesTo(t, {})
    BY <1>2, NothingIsSeenTo DEF RequestFails, Refused
  <2>2. \E retryable : Fail(t, retryable)
    BY <1>2 DEF RequestFails, Refused
  <2> QED
    BY <1>1, <2>1, <2>2, FailingWorks
<1>3. CASE EnableUser(t)
  <2>1. /\ Op(t) = "grant" /\ EnableOnProvision
        /\ task[t].outcome \in {"ok", "exists"}
        /\ "access" \in Seen(t)
    BY <1>1, <1>3, StepFacts DEF EnableUser, At, RowFits, SeenBy, Op
  <2>2. Promise!Parts(task[t].req) = {"access", "login"}
    BY <1>1, <2>1, StepFacts, PartsOfRequests DEF Op
  <2>3. SeesTo(t, {"login"})
    BY <1>3, <2>1, <2>2, LoginWritesSee DEF EnableUser
  <2>4. CASE AnswerLost(t)
    BY <1>1, <2>3, <2>4, FailingWorks
  <2>5. CASE Finish(t, task[t].outcome)
    BY <1>1, <2>1, <2>2, <2>3, <2>5, FinishingWorks
  <2> QED
    BY <1>3, <2>4, <2>5 DEF EnableUser
<1> QED
  BY <1>2, <1>3

LEMMA PutEnabledWorks ==
    ASSUME Always, NEW t \in Tasks, Step(t), PutEnabled(t)
    PROVE  Works(t)
<1>1. Step(t) /\ task[t].pc \in Sending
  BY DEF PutEnabled, At, Sending
<1>2. On(t) = "account" /\ Promise!Parts(task[t].req) = {"login"}
  BY <1>1, StepFacts, PartsOfRequests DEF PutEnabled, At, RowFits, On
<1>3. Op(t) # "grant"
  BY <1>1, <1>2, StepFacts, PartsOfRequests DEF On, Op
<1>4. SeesTo(t, {"login"})
  <2>1. /\ (Op(t) = "enable") \in BOOLEAN
        /\ (Op(t) = "enable") <=> Op(t) \in {"grant", "enable"}
    BY <1>3
  <2> QED
    BY <1>2, <2>1, LoginWritesSee DEF PutEnabled
<1>5. CASE AnswerLost(t)
  BY <1>1, <1>4, <1>5, FailingWorks
<1>6. CASE Finish(t, "ok")
  BY <1>1, <1>2, <1>4, <1>6, FinishingWorks
<1> QED
  BY <1>5, <1>6 DEF PutEnabled

\* The parts a grant finds as they were asked for.
Found(awake) == IF awake /\ EnableOnProvision THEN {"login"} ELSE {}

LEMMA GroupWorks ==
    ASSUME Always, cache = EmptyCache, NEW t \in Tasks, Step(t), GroupStep(t)
    PROVE  Works(t)
<1>1. /\ Step(t) /\ task[t].pc \in Sending
      /\ task[t].pc \in {"getMembers", "addMember", "getStatus", "delMember"}
  BY DEF GroupStep, GrantReadsMembers, AddMember, ReadStatus, RevokeReadsMembers,
         RemoveMember, At, Sending
<1>2. /\ On(t) \in Groups /\ Who(t) \in Users /\ On(t) # "account"
      /\ Holds(task[t].req) <=> Who(t) \in members[On(t)]
  BY <1>1, StepFacts, TargetsAreDistinct DEF SendsItsOwn, Sending, On, Who, Holds
<1>3. /\ Seen(t) = IF At(t, "getStatus") THEN {"access"} ELSE {}
      /\ Seen(t)' = SeenBy(task'[t])
  BY <1>1, StepFacts DEF SeenBy, RowFits, At
<1>4. /\ Op(t) = "grant" => Promise!Parts(task[t].req) = {"access"} \cup
                              IF EnableOnProvision THEN {"login"} ELSE {}
      /\ Op(t) = "revoke" => Promise!Parts(task[t].req) = {"access"}
  BY <1>1, StepFacts, PartsOfRequests DEF Op
<1>5. /\ UserAnswers(t, Who(t)) \subseteq {enabled[Who(t)]}
      /\ MemberAnswers(t, On(t)) = {MemberList(On(t))}
      /\ Lists(MemberList(On(t)), Who(t)) <=> Who(t) \in members[On(t)]
      /\ Who(t) \in members[On(t)] =>
           (<<Who(t), TRUE>> \in MemberList(On(t)) <=> enabled[Who(t)])
  BY <1>2, FreshAnswers DEF Always
<1>6. UNCHANGED apiVars => SeesTo(t, {})
  BY NothingIsSeenTo
<1>7. \A pc \in {"addMember", "delMember"} :
        At(t, "getMembers") /\ Goto(t, pc) => task'[t].pc \in Sending /\ Seen(t)' = Seen(t)
  <2>1. ASSUME NEW pc \in {"addMember", "delMember"}, At(t, "getMembers"), Goto(t, pc)
        PROVE  task'[t].pc \in Sending /\ Seen(t)' = Seen(t)
    <3>1. task'[t].pc = pc /\ task'[t].awake = task[t].awake
      BY <1>1, <2>1, StepFacts DEF Goto, TaskRows
    <3>2. ~task[t].awake
      BY <1>1, <2>1, StepFacts DEF RowFits, At
    <3> QED
      BY <1>3, <2>1, <3>1, <3>2 DEF SeenBy, Sending, At
  <2> QED
    BY <2>1
<1>8. CASE GrantReadsMembers(t)
  <2> DEFINE list  == MemberList(On(t))
             awake == <<Who(t), TRUE>> \in list
             done  == {"access"} \cup Found(awake)
  <2>1. /\ At(t, "getMembers") /\ Op(t) = "grant" /\ GetGroupMembers(t, On(t), list)
        /\ \/ Lists(list, Who(t)) /\ ReEnableUserIfNeeded(t, awake, "exists")
           \/ ~Lists(list, Who(t)) /\ Goto(t, "addMember")
    BY <1>5, <1>8 DEF GrantReadsMembers
  <2>2. UNCHANGED apiVars
    BY <2>1 DEF GetGroupMembers
  <2>3. CASE Lists(list, Who(t)) /\ ReEnableUserIfNeeded(t, awake, "exists")
    <3>1. done \in SUBSET Promise!Parts(task[t].req)
      BY <1>4, <2>1 DEF Found
    <3>2. "login" \in done => enabled[Who(t)]
      BY <1>5, <2>3 DEF Found
    <3>3. SeesTo(t, done)
      BY <1>2, <1>5, <2>1, <2>2, <2>3, <3>1, <3>2, ReadingSees
    <3>4. Seen(t) \cup done = SeenSoFar(awake)
      BY <1>3, <2>1 DEF SeenSoFar, Found, At
    <3> HIDE DEF done, awake
    <3> QED
      BY <1>1, <2>1, <2>3, <3>3, <3>4, ReEnablingWorks
  <2>4. CASE Goto(t, "addMember")
    BY <1>1, <1>6, <1>7, <2>1, <2>2, <2>4, GoingOnWorks
  <2> QED
    BY <2>1, <2>3, <2>4
<1>9. CASE AddMember(t)
  <2>1. At(t, "addMember") /\ Op(t) = "grant"
    BY <1>1, <1>9, StepFacts DEF AddMember, At, RowFits, Op
  <2>2. SeesTo(t, {"access"})
    BY <1>2, <1>9, <2>1, GroupWritesSee DEF AddMember
  <2>3. CASE EnableOnProvision /\ Becomes(t, [task[t] EXCEPT !.pc = "getStatus", !.outcome = "ok"])
    <3>1. task'[t].pc = "getStatus" /\ task'[t].awake = task[t].awake
      BY <1>1, <2>3, StepFacts DEF TaskRows
    <3>2. ~task[t].awake
      BY <1>1, <2>1, StepFacts DEF RowFits, At
    <3>3. task'[t].pc \in Sending /\ Seen(t)' = Seen(t) \cup {"access"}
      BY <1>3, <2>1, <3>1, <3>2 DEF SeenBy, Sending, At
    <3> QED
      BY <1>1, <2>2, <3>3, GoingOnWorks
  <2>4. CASE ~EnableOnProvision /\ Finish(t, "ok")
    BY <1>1, <1>4, <2>1, <2>2, <2>4, FinishingWorks
  <2>5. CASE AnswerLost(t)
    BY <1>1, <2>2, <2>5, FailingWorks
  <2> QED
    BY <1>9, <2>3, <2>4, <2>5 DEF AddMember
<1>10. CASE ReadStatus(t)
  <2>1. PICK awake \in UserAnswers(t, Who(t)) :
          GetUserDetails(t, Who(t), awake) /\ ReEnableUserIfNeeded(t, awake, "ok")
    BY <1>10 DEF ReadStatus
  <2>2. awake = enabled[Who(t)] /\ UNCHANGED apiVars
    BY <1>5, <2>1 DEF GetUserDetails
  <2>3. At(t, "getStatus") /\ Op(t) = "grant" /\ EnableOnProvision
    BY <1>1, <1>10, StepFacts DEF ReadStatus, At, RowFits, Op
  <2>4. SeesTo(t, Found(awake))
    BY <1>2, <1>4, <2>2, <2>3, ReadingSees DEF Found
  <2>5. Seen(t) \cup Found(awake) = SeenSoFar(awake)
    BY <1>3, <2>3 DEF SeenSoFar, Found
  <2> QED
    BY <1>1, <2>1, <2>3, <2>4, <2>5, ReEnablingWorks
<1>11. CASE RevokeReadsMembers(t)
  <2> DEFINE list == MemberList(On(t))
  <2>1. /\ At(t, "getMembers") /\ Op(t) = "revoke" /\ GetGroupMembers(t, On(t), list)
        /\ \/ Lists(list, Who(t)) /\ Goto(t, "delMember")
           \/ ~Lists(list, Who(t)) /\ Finish(t, "alreadyRevoked")
    BY <1>5, <1>11 DEF RevokeReadsMembers
  <2>2. UNCHANGED apiVars
    BY <2>1 DEF GetGroupMembers
  <2>3. CASE ~Lists(list, Who(t)) /\ Finish(t, "alreadyRevoked")
    <3>1. SeesTo(t, {"access"})
      BY <1>2, <1>4, <1>5, <2>1, <2>2, <2>3, ReadingSees
    <3> QED
      BY <1>1, <1>4, <2>1, <2>3, <3>1, FinishingWorks
  <2>4. CASE Goto(t, "delMember")
    BY <1>1, <1>6, <1>7, <2>1, <2>2, <2>4, GoingOnWorks
  <2> QED
    BY <2>1, <2>3, <2>4
<1>12. CASE RemoveMember(t)
  <2>1. Op(t) = "revoke"
    BY <1>1, <1>12, StepFacts DEF RemoveMember, At, RowFits, Op
  <2>2. SeesTo(t, {"access"})
    BY <1>2, <1>12, <2>1, GroupWritesSee DEF RemoveMember
  <2> QED
    BY <1>1, <1>4, <1>12, <2>1, <2>2, FailingWorks, FinishingWorks DEF RemoveMember
<1> QED
  BY <1>8, <1>9, <1>10, <1>11, <1>12 DEF GroupStep
LEMMA RoleWorks ==
    ASSUME Always, cache = EmptyCache, NEW t \in Tasks, MemoryFits(t), Step(t), RoleStep(t)
    PROVE  Works(t)
<1>1. /\ Step(t) /\ task[t].pc \in Sending
      /\ task[t].pc \in {"getUser", "getRoles", "listRoles", "putRole"}
  BY DEF RoleStep, RoleReadsUser, GrantReadsRoles, RevokeReadsRoles, FindBasicRole,
         AssignRole, DemoteToBasic, At, Sending
<1>2. /\ On(t) \in Roles /\ Who(t) \in Users /\ On(t) # "account"
      /\ Holds(task[t].req) <=> On(t) \in userRoles[Who(t)]
  BY <1>1, StepFacts, TargetsAreDistinct DEF SendsItsOwn, Sending, On, Who, Holds
<1>3. /\ Seen(t) = Found(task[t].awake)
      /\ Seen(t)' = SeenBy(task'[t])
  BY <1>1, StepFacts DEF SeenBy, Found
<1>4. /\ Op(t) \in {"grant", "revoke"}
      /\ Op(t) = "grant" => Promise!Parts(task[t].req) = {"access"} \cup
                              IF EnableOnProvision THEN {"login"} ELSE {}
      /\ Op(t) = "revoke" => Promise!Parts(task[t].req) = {"access"} /\ ~task[t].awake
  BY <1>1, <1>2, StepFacts, PartsOfRequests DEF Op, On, RowFits
<1>5. /\ UserAnswers(t, Who(t)) \subseteq {enabled[Who(t)]}
      /\ RoleAnswers(t, Who(t)) \subseteq {userRoles[Who(t)]}
  BY <1>2, FreshAnswers DEF Always
<1>6. UNCHANGED apiVars => SeesTo(t, {})
  BY NothingIsSeenTo
<1>7. \A awake : Seen(t) = Found(awake) => Seen(t) \cup {"access"} = SeenSoFar(awake)
  BY DEF SeenSoFar, Found
<1>8. \A pc \in {"listRoles", "putRole"} :
        Goto(t, pc) => task'[t].pc \in Sending /\ Seen(t)' = Seen(t)
  <2>1. ASSUME NEW pc \in {"listRoles", "putRole"}, Goto(t, pc)
        PROVE  task'[t].pc \in Sending /\ Seen(t)' = Seen(t)
    <3>1. task'[t].pc = pc /\ task'[t].awake = task[t].awake
      BY <1>1, <2>1, StepFacts DEF Goto, TaskRows
    <3> QED
      BY <1>3, <2>1, <3>1 DEF SeenBy, Found, Sending
  <2> QED
    BY <2>1
<1>9. CASE RoleReadsUser(t)
  <2>1. PICK awake \in UserAnswers(t, Who(t)) :
          /\ GetUserDetails(t, Who(t), awake)
          /\ Becomes(t, [task[t] EXCEPT !.pc = "getRoles",
                                        !.awake = awake /\ Op(t) = "grant"])
    BY <1>9 DEF RoleReadsUser
  <2> DEFINE noted == awake /\ Op(t) = "grant"
  <2>2. awake = enabled[Who(t)] /\ UNCHANGED apiVars
    BY <1>5, <2>1 DEF GetUserDetails
  <2>3. task'[t].pc = "getRoles" /\ task'[t].awake = noted
    <3> DEFINE row == [task[t] EXCEPT !.pc = "getRoles", !.awake = noted]
    <3>1. row.pc = "getRoles" /\ row.awake = noted
      BY <1>1, StepFacts DEF TaskRows
    <3>2. Becomes(t, row)
      BY <2>1
    <3> HIDE DEF row
    <3> QED
      BY <1>1, <3>1, <3>2, StepFacts
  <2>4. ~task[t].awake
    BY <1>1, <1>9, StepFacts DEF RoleReadsUser, At, RowFits
  <2>5. noted => Op(t) = "grant" /\ enabled[Who(t)]
    BY <2>2
  <2> HIDE DEF noted
  <2>6. SeesTo(t, Found(noted))
    BY <1>2, <1>4, <2>2, <2>5, ReadingSees DEF Found
  <2>7. task'[t].pc \in Sending /\ Seen(t)' = Seen(t) \cup Found(noted)
    BY <1>3, <2>3, <2>4 DEF SeenBy, Found, Sending
  <2> QED
    BY <1>1, <2>6, <2>7, GoingOnWorks
<1>10. CASE GrantReadsRoles(t)
  <2>1. /\ At(t, "getRoles") /\ Op(t) = "grant" /\ UNCHANGED apiVars
        /\ \/ /\ On(t) \in userRoles[Who(t)]
              /\ ReEnableUserIfNeeded(t, task[t].awake, "exists")
           \/ Goto(t, "putRole")
    BY <1>5, <1>10 DEF GrantReadsRoles, GetUserRoles
  <2>2. CASE On(t) \in userRoles[Who(t)] /\ ReEnableUserIfNeeded(t, task[t].awake, "exists")
    <3>1. SeesTo(t, {"access"})
      BY <1>2, <1>4, <2>1, <2>2, ReadingSees
    <3> QED
      BY <1>1, <1>3, <1>7, <2>1, <2>2, <3>1, ReEnablingWorks
  <2>3. CASE Goto(t, "putRole")
    BY <1>1, <1>6, <1>8, <2>1, <2>3, GoingOnWorks
  <2> QED
    BY <2>1, <2>2, <2>3
<1>11. CASE RevokeReadsRoles(t)
  <2>1. /\ At(t, "getRoles") /\ Op(t) = "revoke" /\ UNCHANGED apiVars
        /\ \/ Goto(t, "listRoles")
           \/ On(t) \notin userRoles[Who(t)] /\ Finish(t, "alreadyRevoked")
    BY <1>5, <1>11 DEF RevokeReadsRoles, GetUserRoles
  <2>2. CASE On(t) \notin userRoles[Who(t)] /\ Finish(t, "alreadyRevoked")
    <3>1. SeesTo(t, {"access"})
      BY <1>2, <1>4, <2>1, <2>2, ReadingSees
    <3> QED
      BY <1>1, <1>4, <2>1, <2>2, <3>1, FinishingWorks
  <2>3. CASE Goto(t, "listRoles")
    BY <1>1, <1>6, <1>8, <2>1, <2>3, GoingOnWorks
  <2> QED
    BY <2>1, <2>2, <2>3
<1>12. CASE FindBasicRole(t)
  <2>1. SeesTo(t, {})
    BY <1>6, <1>12 DEF FindBasicRole
  <2>2. CASE Fail(t, FALSE)
    BY <1>1, <2>1, <2>2, FailingWorks
  <2>3. CASE Goto(t, "putRole")
    BY <1>1, <1>8, <2>1, <2>3, GoingOnWorks
  <2> QED
    BY <1>12, <2>2, <2>3 DEF FindBasicRole
<1>13. CASE AssignRole(t)
  <2>1. SeesTo(t, {"access"})
    BY <1>2, <1>13, RoleWritesSee DEF AssignRole
  <2>2. CASE ReEnableUserIfNeeded(t, task[t].awake, "ok")
    BY <1>1, <1>3, <1>7, <1>13, <2>1, <2>2, ReEnablingWorks DEF AssignRole
  <2>3. CASE AnswerLost(t)
    BY <1>1, <2>1, <2>3, FailingWorks
  <2> QED
    BY <1>13, <2>2, <2>3 DEF AssignRole
<1>14. CASE DemoteToBasic(t)
  <2>1. At(t, "putRole") /\ Op(t) = "revoke"
    BY <1>14 DEF DemoteToBasic
  <2>2. Holds(task[t].req)
    BY <2>1 DEF MemoryFits, At
  <2>3. On(t) # BasicRole
    BY <1>1, <2>1, StepFacts DEF RowFits, At, Op, On
  <2>4. SeesTo(t, {"access"})
    BY <1>2, <1>14, <2>1, <2>2, <2>3, RoleWritesSee DEF DemoteToBasic
  <2> QED
    BY <1>1, <1>4, <1>14, <2>1, <2>4, FailingWorks, FinishingWorks DEF DemoteToBasic
<1> QED
  BY <1>9, <1>10, <1>11, <1>12, <1>13, <1>14 DEF RoleStep

LEMMA PermissionWorks ==
    ASSUME Always, cache = EmptyCache, NEW t \in Tasks, MemoryFits(t), Step(t),
           PermissionStep(t)
    PROVE  Works(t)
<1>1. /\ Step(t) /\ task[t].pc \in Sending
      /\ task[t].pc \in {"getPerm", "getSubject", "putPerm"}
  BY DEF PermissionStep, TurnDown, TurnedDown, ReadPermission, GrantReadsSubject,
         RevokeReadsSubject, PutPermission, At, Sending
<1>2. /\ On(t) \in Permissions /\ On(t) # "account"
      /\ task[t].pc # "getPerm" => Who(t) \in Users
      /\ Holds(task[t].req) <=> Who(t) \in subjects[On(t)]
  BY <1>1, StepFacts, TargetsAreDistinct DEF SendsItsOwn, Sending, On, Who, Holds
<1>3. /\ Seen(t) = IF At(t, "putPerm") THEN Found(task[t].awake) ELSE {}
      /\ Seen(t)' = SeenBy(task'[t])
  BY <1>1, StepFacts DEF SeenBy, Found, RowFits, At
<1>4. /\ Op(t) \in {"grant", "revoke"}
      /\ Op(t) = "grant" => Promise!Parts(task[t].req) = {"access"} \cup
                              IF EnableOnProvision THEN {"login"} ELSE {}
      /\ Op(t) = "revoke" => Promise!Parts(task[t].req) = {"access"} /\ ~task[t].awake
  BY <1>1, <1>2, StepFacts, PartsOfRequests DEF Op, On, RowFits
<1>5. task[t].pc # "getPerm" => UserAnswers(t, Who(t)) \subseteq {enabled[Who(t)]}
  BY <1>2, FreshAnswers DEF Always
<1>6. UNCHANGED apiVars => SeesTo(t, {})
  BY NothingIsSeenTo
<1>7. \A awake : Found(awake) \cup {"access"} = SeenSoFar(awake)
  BY DEF SeenSoFar, Found
<1>8. CASE TurnDown(t)
  BY <1>1, <1>6, <1>8, FailingWorks DEF TurnDown
<1>9. CASE ReadPermission(t)
  <2>1. PICK list : /\ GetPermissionDetails(t, On(t), list)
                    /\ Becomes(t, [task[t] EXCEPT !.pc = "getSubject", !.draft = list])
    BY <1>9 DEF ReadPermission
  <2>2. task'[t].pc = "getSubject" /\ UNCHANGED apiVars
    BY <1>1, <2>1, StepFacts DEF TaskRows, GetPermissionDetails
  <2>3. task'[t].pc \in Sending /\ Seen(t)' = Seen(t)
    BY <1>1, <1>3, <1>9, <2>2, StepFacts DEF ReadPermission, At, RowFits, SeenBy, Sending
  <2> QED
    BY <1>1, <1>6, <2>2, <2>3, GoingOnWorks
<1>10. CASE GrantReadsSubject(t)
  <2> DEFINE row(awake) == [task[t] EXCEPT !.pc = "putPerm", !.awake = awake,
                                           !.draft = task[t].draft \cup {Who(t)}]
  <2>1. PICK awake \in UserAnswers(t, Who(t)) :
          /\ GetUserDetails(t, Who(t), awake)
          /\ \/ Who(t) \in task[t].draft /\ ReEnableUserIfNeeded(t, awake, "exists")
             \/ Becomes(t, row(awake))
    BY <1>10 DEF GrantReadsSubject
  <2>2. At(t, "getSubject") /\ Op(t) = "grant" /\ task[t].draft = subjects[On(t)]
    BY <1>10 DEF GrantReadsSubject, MemoryFits
  <2>3. awake = enabled[Who(t)] /\ UNCHANGED apiVars /\ Who(t) \in Users
    BY <1>2, <1>5, <2>1, <2>2 DEF GetUserDetails, At
  <2>4. CASE Who(t) \in task[t].draft /\ ReEnableUserIfNeeded(t, awake, "exists")
    <3> DEFINE done == {"access"} \cup Found(awake)
    <3>1. done \in SUBSET Promise!Parts(task[t].req)
      BY <1>4, <2>2 DEF Found
    <3>2. SeesTo(t, done)
      BY <1>2, <2>2, <2>3, <2>4, <3>1, ReadingSees DEF Found
    <3>3. Seen(t) \cup done = SeenSoFar(awake)
      BY <1>3, <1>7, <2>2 DEF At
    <3> HIDE DEF done
    <3> QED
      BY <1>1, <2>2, <2>4, <3>2, <3>3, ReEnablingWorks
  <2>5. CASE Becomes(t, row(awake))
    <3>1. row(awake).pc = "putPerm" /\ row(awake).awake = awake
      BY <1>1, StepFacts DEF TaskRows
    <3> HIDE DEF row
    <3>2. task'[t].pc = "putPerm" /\ task'[t].awake = awake
      BY <1>1, <2>5, <3>1, StepFacts
    <3>3. SeesTo(t, Found(awake))
      BY <1>2, <1>4, <2>2, <2>3, ReadingSees DEF Found
    <3>4. task'[t].pc \in Sending /\ Seen(t)' = Seen(t) \cup Found(awake)
      BY <1>3, <2>2, <3>2 DEF At, SeenBy, Found, Sending
    <3> QED
      BY <1>1, <3>3, <3>4, GoingOnWorks
  <2> QED
    BY <2>1, <2>4, <2>5
<1>11. CASE RevokeReadsSubject(t)
  <2> DEFINE row == [task[t] EXCEPT !.pc = "putPerm", !.draft = task[t].draft \ {Who(t)}]
  <2>1. /\ At(t, "getSubject") /\ Op(t) = "revoke" /\ UNCHANGED apiVars
        /\ task[t].draft = subjects[On(t)] /\ Who(t) \in Users
        /\ \/ Who(t) \notin task[t].draft /\ Finish(t, "alreadyRevoked")
           \/ Becomes(t, row)
    BY <1>2, <1>11 DEF RevokeReadsSubject, GetUserDetails, MemoryFits, At
  <2>2. CASE Who(t) \notin task[t].draft /\ Finish(t, "alreadyRevoked")
    <3>1. SeesTo(t, {"access"})
      BY <1>2, <1>4, <2>1, <2>2, ReadingSees
    <3> QED
      BY <1>1, <1>4, <2>1, <2>2, <3>1, FinishingWorks
  <2>3. CASE Becomes(t, row)
    <3>1. row.pc = "putPerm" /\ row.awake = task[t].awake
      BY <1>1, StepFacts DEF TaskRows
    <3> HIDE DEF row
    <3>2. task'[t].pc = "putPerm" /\ ~task'[t].awake
      BY <1>1, <1>4, <2>1, <2>3, <3>1, StepFacts
    <3>3. task'[t].pc \in Sending /\ Seen(t)' = Seen(t)
      BY <1>3, <2>1, <3>2 DEF At, SeenBy, Sending
    <3> QED
      BY <1>1, <1>6, <2>1, <3>3, GoingOnWorks
  <2> QED
    BY <2>1, <2>2, <2>3
<1>12. CASE PutPermission(t)
  <2>1. At(t, "putPerm") /\ UpdatePermission(On(t), task[t].draft) /\ Who(t) \in Users
    BY <1>2, <1>12 DEF PutPermission, At
  <2>2. SeesTo(t, {"access"})
    BY <1>2, <1>4, <2>1, PermissionWritesSee DEF MemoryFits
  <2>3. CASE Op(t) = "grant" /\ ReEnableUserIfNeeded(t, task[t].awake, "ok")
    BY <1>1, <1>3, <1>7, <2>1, <2>2, <2>3, ReEnablingWorks
  <2>4. CASE Op(t) = "revoke" /\ Finish(t, "ok")
    BY <1>1, <1>4, <2>2, <2>4, FinishingWorks
  <2>5. CASE AnswerLost(t)
    BY <1>1, <2>2, <2>5, FailingWorks
  <2> QED
    BY <1>12, <2>3, <2>4, <2>5 DEF PutPermission
<1> QED
  BY <1>8, <1>9, <1>10, <1>11, <1>12 DEF PermissionStep

(* Every step of a task with fresh answers is work on its request, or the  *)
(* start of it.                                                            *)
LEMMA StepWorks ==
    ASSUME Always, cache = EmptyCache, NEW t \in Tasks, MemoryFits(t), Step(t)
    PROVE  Start(t) \/ Works(t)
  BY RunnerWorks, PutEnabledWorks, GroupWorks, RoleWorks, PermissionWorks
     DEF Step, RunnerStep
----------------------------------------------------------------------------
(* The invariant.                                                          *)

\* Answers are fresh, and nobody but the tasks changes the container.
Undisturbed == CacheOn = FALSE /\ Deletable = {} /\ Editable = {}

LEMMA HoldingIsAccessNext ==
    (TypeOK => \A r \in Requests :
                 r.on # "account" => (Holds(r) <=> <<r.who, r.on>> \in Access))'
<1>1. TypeOK => \A r \in Requests :
                  r.on # "account" => (Holds(r) <=> <<r.who, r.on>> \in Access)
  BY HoldingIsAccess
<1> QED
  BY <1>1, PTL

(* Carrying out a request that is allowed makes its access what it says.   *)
LEMMA ServingServes ==
    ASSUME NEW r \in AllRequests, r.op \in {"grant", "revoke"}, Promise!Allowed(r)
    PROVE  <<r.who, r.on>> \in Promise!Served(r) <=> r.op = "grant"
<1>1. CASE r.op = "grant"
  BY <1>1 DEF Promise!Served
<1>2. CASE r.op = "revoke" /\ r.on \in Roles
  <2>1. CASE Promise!Holds(r)
    BY <1>2, <2>1 DEF Promise!Served, Promise!Allowed, Promise!RolePairs
  <2>2. CASE ~Promise!Holds(r)
    BY <1>2, <2>2 DEF Promise!Served, Promise!Holds
  <2> QED
    BY <2>1, <2>2
<1>3. CASE r.op = "revoke" /\ r.on \notin Roles
  BY <1>3 DEF Promise!Served
<1> QED
  BY <1>1, <1>2, <1>3

LEMMA CacheStaysEmpty ==
    ASSUME Always, CacheOn = FALSE, NoCopies, NEW t \in Tasks, Step(t)
    PROVE  NoCopies'
<1>1. TypeOK /\ SendsItsOwn(task[t])
  BY StepFacts DEF Always
<1>2. CASE RunnerStep(t) \/ PutEnabled(t)
  BY <1>1, <1>2, NothingIsKept DEF RunnerStep, Start, RequestFails, Refused, EnableUser, PutEnabled
<1>3. CASE GroupStep(t)
  <2>1. task[t].pc \in {"getMembers", "getStatus"} =>
          /\ task[t].pc = "getMembers" => On(t) \in Groups
          /\ Who(t) \in Users
    BY <1>1 DEF SendsItsOwn, Sending, On, Who
  <2> QED
    BY <1>1, <1>3, <2>1, NothingIsKept
       DEF GroupStep, GrantReadsMembers, AddMember, ReadStatus, RevokeReadsMembers,
           RemoveMember, At
<1>4. CASE RoleStep(t)
  <2>1. task[t].pc \in {"getUser", "getRoles"} => Who(t) \in Users
    BY <1>1 DEF SendsItsOwn, Sending, Who
  <2> QED
    BY <1>1, <1>4, <2>1, NothingIsKept
       DEF RoleStep, RoleReadsUser, GrantReadsRoles, RevokeReadsRoles, FindBasicRole,
           AssignRole, DemoteToBasic, At
<1>5. CASE PermissionStep(t)
  <2>1. /\ task[t].pc = "getPerm" => On(t) \in Permissions
        /\ task[t].pc = "getSubject" => Who(t) \in Users
    BY <1>1 DEF SendsItsOwn, Sending, On, Who
  <2> QED
    BY <1>1, <1>5, <2>1, NothingIsKept
       DEF PermissionStep, TurnDown, ReadPermission, GrantReadsSubject, RevokeReadsSubject,
           PutPermission, At
<1> QED
  BY <1>2, <1>3, <1>4, <1>5 DEF Step

(* While a task takes a step no other task is in the middle of anything    *)
(* that the step could make untrue.                                        *)
LEMMA OthersAreIdle ==
    ASSUME Always, Slots = 1, NEW t \in Tasks, Step(t), NEW x \in Tasks \ {t}
    PROVE  task[x].pc \notin Sending
<1>1. IsFiniteSet(Running) /\ Cardinality(Running) <= 1
  BY DEF Always, SlotsHold
<1>2. Start(t) \/ t \in Running
  BY StepFacts
     DEF Step, RunnerStep, RequestFails, Refused, EnableUser, GroupStep, GrantReadsMembers,
         AddMember, ReadStatus, RevokeReadsMembers, RemoveMember, RoleStep, RoleReadsUser,
         GrantReadsRoles, RevokeReadsRoles, FindBasicRole, AssignRole, DemoteToBasic,
         PermissionStep, TurnDown, TurnedDown, ReadPermission, GrantReadsSubject,
         RevokeReadsSubject, PutPermission, PutEnabled, At, Running, Sending
<1>3. CASE Start(t)
  <2>1. Cardinality(Running) \in Nat /\ Cardinality(Running) < 1
    BY <1>1, <1>3, FS_CardinalityType DEF Start
  <2>2. Running = {}
    BY <1>1, <2>1, FS_EmptySet
  <2> QED
    BY <2>2 DEF Running
<1>4. CASE t \in Running
  <2>1. SUFFICES ASSUME x \in Running PROVE FALSE
    BY DEF Running
  <2>2. IsFiniteSet({t}) /\ Cardinality({t}) = 1
    BY FS_Singleton
  <2>3. Cardinality({t} \cup {x}) = 2
    BY <2>2, FS_AddElement
  <2>4. Cardinality({t} \cup {x}) <= Cardinality(Running)
    BY <1>1, <1>4, <2>1, FS_Subset
  <2>5. Cardinality(Running) \in Nat
    BY <1>1, FS_CardinalityType
  <2> QED
    BY <1>1, <2>3, <2>4, <2>5
<1> QED
  BY <1>2, <1>3, <1>4

(* What the writes of the other tasks leave alone.                         *)
LEMMA WritesLeaveAlone ==
    ASSUME TypeOK, NEW t \in Tasks, Writes(t), task[t].req \in AllRequests,
           NEW r \in AllRequests
    PROVE  /\ r.on \in Permissions /\ On(t) # r.on => subjects'[r.on] = subjects[r.on]
           /\ r.on \in Roles /\ ~(On(t) \in Roles /\ Who(t) = r.who) =>
                userRoles'[r.who] = userRoles[r.who]
           /\ r.on \in Groups /\ ~(On(t) = r.on /\ Who(t) = r.who /\ Op(t) = "revoke") =>
                (r.who \in members[r.on] => r.who \in members'[r.on])
           /\ r.who \in Users /\ ~(On(t) = "account" /\ Op(t) # "enable" /\ Who(t) = r.who) =>
                (enabled[r.who] => enabled'[r.who])
<1>1. r.on \in Permissions /\ On(t) # r.on => subjects'[r.on] = subjects[r.on]
  BY DEF Writes, apiVars, SetUserEnabled, AddGroupMember, RemoveGroupMember, SetUserRoles,
         UpdatePermission, TypeOK, APITypeOK
<1>2. r.who \in Users /\ ~(On(t) \in Roles /\ Who(t) = r.who) =>
        userRoles'[r.who] = userRoles[r.who]
  BY DEF Writes, apiVars, SetUserEnabled, AddGroupMember, RemoveGroupMember, SetUserRoles,
         UpdatePermission, TypeOK, APITypeOK
<1>3. r.on \in Groups /\ ~(On(t) = r.on /\ Who(t) = r.who /\ Op(t) = "revoke") =>
        (r.who \in members[r.on] => r.who \in members'[r.on])
  BY DEF Writes, apiVars, SetUserEnabled, AddGroupMember, RemoveGroupMember, SetUserRoles,
         UpdatePermission, TypeOK, APITypeOK
<1>4. r.who \in Users /\ ~(On(t) = "account" /\ Op(t) # "enable" /\ Who(t) = r.who) =>
        (enabled[r.who] => enabled'[r.who])
  BY DEF Writes, apiVars, SetUserEnabled, AddGroupMember, RemoveGroupMember, SetUserRoles,
         UpdatePermission, TypeOK, APITypeOK
<1>5. r.on \in Roles => r.who \in Users
  BY TargetsAreDistinct DEF AllRequests
<1> QED
  BY <1>1, <1>2, <1>3, <1>4, <1>5

LEMMA OthersMemoryFits ==
    ASSUME Always, Alone, NEW t \in Tasks, Step(t), NEW x \in Tasks \ {t}, MemoryFits(x)
    PROVE  MemoryFits(x)' /\ (Unopposed /\ AccessStays(x) => AccessStays(x)')
<1> DEFINE r == task[x].req
<1>1. /\ task'[x] = task[x] /\ task[x] \in TaskRows /\ SendsItsOwn(task[x])
      /\ RowFits(task[x]) /\ Seen(x)' = Seen(x) /\ Seen(x) = SeenBy(task[x])
  <2>1. task'[x] = task[x] /\ task[x] \in TaskRows /\ SendsItsOwn(task[x]) /\ RowFits(task[x])
    BY StepFacts DEF Moves, Becomes, Always, RowsFit, TypeOK, TaskTypeOK
  <2> QED
    BY <2>1, SeenIsSeenBy
<1>2. CASE Slots = 1
  <2>1. task'[x].pc \notin Sending
    BY <1>1, <1>2, OthersAreIdle
  <2>2. Seen(x)' = {}
    BY <2>1 DEF Seen
  <2> QED
    BY <2>1, <2>2 DEF MemoryFits, AccessStays, Sending, At
<1>3. CASE ~Disturbs(task[t].req, r) /\ (Unopposed => ~Undoes(task[t].req, r))
  <2>1. r \in AllRequests /\ Writes(t) /\ task[t].req \in AllRequests /\ TypeOK
    BY <1>1, RequestsAreKnown, StepFacts, StepWrites DEF Always, TaskRows
  <2>2. task[x].pc \in {"getSubject", "putPerm"} => subjects'[r.on] = subjects[r.on]
    BY <1>1, <1>3, <2>1, WritesLeaveAlone DEF SendsItsOwn, Disturbs, On
  <2>3. r.on \in Roles => userRoles'[r.who] = userRoles[r.who]
    BY <1>3, <2>1, WritesLeaveAlone DEF Disturbs, On, Who
  <2>4. ASSUME Op(x) = "revoke", task[x].pc \in {"listRoles", "putRole"}, Holds(r)
        PROVE  Holds(r)'
    <3>1. r.on \in Roles
      BY <1>1, <2>4 DEF SendsItsOwn
    <3> QED
      BY <1>1, <2>3, <2>4, <3>1, TargetsAreDistinct DEF Holds
  <2>5. ASSUME "login" \in Seen(x), enabled[Who(x)]
        PROVE  enabled'[Who(x)]
    <3>1. /\ r.op = "grant" /\ EnableOnProvision
          /\ task[x].pc \in {"getRoles", "putRole", "putPerm"}
      BY <1>1, <2>5 DEF SeenBy, RowFits, Sending
    <3>2. r.on \in Roles \cup Permissions /\ r.who \in Users
      BY <1>1, <3>1 DEF SendsItsOwn, Sending
    <3> QED
      BY <1>3, <2>1, <2>5, <3>1, <3>2, WritesLeaveAlone DEF Disturbs, On, Op, Who
  <2>6. MemoryFits(x)'
    BY <1>1, <2>2, <2>4, <2>5 DEF MemoryFits, At, On, Op, Who
  <2>7. ASSUME Unopposed, AccessStays(x), "access" \in Seen(x)'
        PROVE  Holds(r)'
    <3>1. Holds(r) /\ r.op = "grant" /\ EnableOnProvision
      BY <1>1, <2>7 DEF AccessStays, SeenBy, RowFits
    <3>2. CASE r.on \in Groups
      BY <1>1, <1>3, <2>1, <2>7, <3>1, <3>2, WritesLeaveAlone, TargetsAreDistinct
         DEF Holds, Undoes, On, Op, Who
    <3>3. CASE r.on \in Roles
      BY <1>1, <2>3, <3>1, <3>3, TargetsAreDistinct DEF Holds
    <3>4. CASE r.on \in Permissions
      <4>1. subjects'[r.on] = subjects[r.on]
        BY <1>3, <2>1, <3>4, WritesLeaveAlone DEF Disturbs, On
      <4> QED
        BY <1>1, <3>1, <3>4, <4>1, TargetsAreDistinct DEF Holds
    <3> QED
      BY <3>1, <3>2, <3>3, <3>4 DEF Holds
  <2> QED
    BY <1>1, <2>6, <2>7 DEF AccessStays
<1>4. Slots = 1 \/ ~Disturbs(task[t].req, r)
  BY DEF Alone
<1>5. Unopposed => Slots = 1 \/ ~Undoes(task[t].req, r)
  BY DEF Unopposed
<1> QED
  BY <1>2, <1>3, <1>4, <1>5

(* The steps after which a handler has something to remember.              *)
LEMMA StepsThatRead ==
    ASSUME Always, NEW t \in Tasks, Step(t),
           \/ task'[t].pc \in {"getSubject", "putPerm", "listRoles"}
           \/ task'[t].pc = "putRole" /\ Op(t) = "revoke"
    PROVE  \/ ReadPermission(t) \/ GrantReadsSubject(t) \/ RevokeReadsSubject(t)
           \/ RevokeReadsRoles(t) \/ FindBasicRole(t)
<1>1. task[t] \in TaskRows
  BY StepFacts
<1>2. \A retryable : ~Fail(t, retryable)
  <2>1. Again(t).pc \in {"getMembers", "getUser", "getPerm", "setEnabled"}
    BY <1>1, FirstRequestIsFirst DEF Again, Fresh
  <2>2. Over(t, "failed").pc = "done"
    BY <1>1 DEF Over, TaskRows
  <2> QED
    BY <2>1, <2>2, StepFacts DEF Fail
<1>3. \A outcome : ~Finish(t, outcome)
  <2>1. \A outcome : Over(t, outcome).pc = "done"
    BY <1>1 DEF Over, TaskRows
  <2> QED
    BY <2>1, StepFacts DEF Finish
<1>4. \A awake, outcome : ~ReEnableUserIfNeeded(t, awake, outcome)
  <2>1. \A outcome : [Over(t, outcome) EXCEPT !.pc = "enable"].pc = "enable"
    BY <1>1 DEF Over, TaskRows
  <2> QED
    BY <1>3, <2>1, StepFacts DEF ReEnableUserIfNeeded
<1>5. \A pc : Goto(t, pc) => task'[t].pc = pc
  BY <1>1, StepFacts DEF Goto, TaskRows
<1>6. ~RunnerStep(t) /\ ~PutEnabled(t)
  <2>1. ~Start(t)
    BY <1>1, <1>5, FirstRequestIsFirst DEF Start
  <2> QED
    BY <1>2, <1>3, <2>1
       DEF RunnerStep, RequestFails, Refused, EnableUser, PutEnabled, AnswerLost
<1>7. ~GroupStep(t)
  <2>1. ~Becomes(t, [task[t] EXCEPT !.pc = "getStatus", !.outcome = "ok"])
    BY <1>1, StepFacts DEF TaskRows
  <2> QED
    BY <1>2, <1>3, <1>4, <1>5, <2>1
       DEF GroupStep, GrantReadsMembers, AddMember, ReadStatus, RevokeReadsMembers,
           RemoveMember, AnswerLost
<1>8. ~TurnDown(t) /\ ~PutPermission(t)
  BY <1>2, <1>3, <1>4 DEF TurnDown, PutPermission, AnswerLost
<1>9. ~RoleReadsUser(t)
  <2>1. \A awake : [task[t] EXCEPT !.pc = "getRoles", !.awake = awake].pc = "getRoles"
    BY <1>1 DEF TaskRows
  <2> QED
    BY <2>1, StepFacts DEF RoleReadsUser
<1>10. ~GrantReadsRoles(t) /\ ~AssignRole(t) /\ ~DemoteToBasic(t)
  BY <1>2, <1>3, <1>4, <1>5 DEF GrantReadsRoles, AssignRole, DemoteToBasic, AnswerLost
<1> QED
  BY <1>6, <1>7, <1>8, <1>9, <1>10 DEF Step, RoleStep, PermissionStep
(* What a step leaves in the memory of its own task is fresh.              *)
LEMMA OwnMemoryFits ==
    ASSUME Always, cache = EmptyCache, NEW t \in Tasks, MemoryFits(t), Step(t)
    PROVE  /\ At(t, "getSubject")' => task'[t].draft = subjects'[On(t)]
           /\ At(t, "putPerm")' =>
                task'[t].draft = IF Op(t) = "grant" THEN subjects'[On(t)] \cup {Who(t)}
                                                    ELSE subjects'[On(t)] \ {Who(t)}
           /\ Op(t) = "revoke" /\ task'[t].pc \in {"listRoles", "putRole"} =>
                Holds(task[t].req)'
<1>1. /\ task[t] \in TaskRows
      /\ task[t].pc \in {"getRoles", "listRoles"} => On(t) \in Roles /\ Who(t) \in Users
      /\ task[t].pc = "getPerm" => On(t) \in Permissions
      /\ task[t].pc = "getSubject" => Who(t) \in Users
  BY StepFacts DEF SendsItsOwn, Sending, On, Who
<1>2. task'[t].req = task[t].req
  BY StepFacts DEF Moves, Move
<1>3. UNCHANGED apiVars => (Holds(task[t].req)' <=> Holds(task[t].req))
  BY <1>2 DEF Holds, apiVars
<1>4. CASE ReadPermission(t)
  <2>1. /\ PermAnswers(t, On(t)) = {subjects[On(t)]}
    BY <1>1, <1>4, FreshAnswers DEF ReadPermission, At, Always
  <2>2. /\ UNCHANGED apiVars
        /\ Becomes(t, [task[t] EXCEPT !.pc = "getSubject", !.draft = subjects[On(t)]])
    BY <1>4, <2>1 DEF ReadPermission, GetPermissionDetails
  <2>3. task'[t].pc = "getSubject" /\ task'[t].draft = subjects[On(t)]
    BY <1>1, <2>2, StepFacts DEF TaskRows
  <2> QED
    BY <2>2, <2>3 DEF At, apiVars
<1>5. CASE GrantReadsSubject(t) \/ RevokeReadsSubject(t)
  <2>1. task[t].draft = subjects[On(t)] /\ UNCHANGED apiVars
    BY <1>5 DEF GrantReadsSubject, RevokeReadsSubject, MemoryFits, At, GetUserDetails
  <2>2. task[t].pc = "getSubject"
    BY <1>5 DEF GrantReadsSubject, RevokeReadsSubject, At
  <2>3. task'[t].pc \notin {"getSubject", "listRoles", "putRole"}
    BY <1>1, <2>2, StepFacts, FirstRequestIsFirst
       DEF Moves, Move, Retries, IsOver, WillEnable, GoesOn, Onward
  <2>4. ASSUME task'[t].pc = "putPerm"
        PROVE  task'[t].draft = IF Op(t) = "grant" THEN subjects[On(t)] \cup {Who(t)}
                                                   ELSE subjects[On(t)] \ {Who(t)}
    <3>1. \A outcome : /\ Over(t, outcome).pc = "done"
                       /\ [Over(t, outcome) EXCEPT !.pc = "enable"].pc = "enable"
      BY <1>1 DEF Over, TaskRows
    <3>2. ~(\E awake, outcome : ReEnableUserIfNeeded(t, awake, outcome))
      BY <2>4, <3>1, StepFacts DEF ReEnableUserIfNeeded, Finish
    <3>3. ~Finish(t, "alreadyRevoked")
      BY <2>4, <3>1, StepFacts DEF Finish
    <3>4. CASE GrantReadsSubject(t)
      <4>1. PICK awake : Becomes(t, [task[t] EXCEPT !.pc = "putPerm", !.awake = awake,
                                                    !.draft = task[t].draft \cup {Who(t)}])
        BY <3>2, <3>4 DEF GrantReadsSubject
      <4>2. task'[t].draft = task[t].draft \cup {Who(t)}
        BY <1>1, <4>1, StepFacts DEF TaskRows
      <4> QED
        BY <2>1, <3>4, <4>2 DEF GrantReadsSubject
    <3>5. CASE RevokeReadsSubject(t)
      <4>1. Becomes(t, [task[t] EXCEPT !.pc = "putPerm", !.draft = task[t].draft \ {Who(t)}])
        BY <3>3, <3>5 DEF RevokeReadsSubject
      <4>2. task'[t].draft = task[t].draft \ {Who(t)}
        BY <1>1, <4>1, StepFacts DEF TaskRows
      <4> QED
        BY <2>1, <3>5, <4>2 DEF RevokeReadsSubject
    <3> QED
      BY <1>5, <3>4, <3>5
  <2> QED
    BY <2>1, <2>3, <2>4 DEF At, apiVars
<1>6. CASE RevokeReadsRoles(t)
  <2>1. task[t].pc = "getRoles" /\ UNCHANGED apiVars /\ Op(t) = "revoke"
    BY <1>6 DEF RevokeReadsRoles, At, GetUserRoles
  <2>2. \/ Goto(t, "listRoles") /\ On(t) \in userRoles[Who(t)]
        \/ Finish(t, "alreadyRevoked")
    BY <1>1, <1>6, <2>1, FreshAnswers DEF RevokeReadsRoles, Always
  <2>3. ASSUME Goto(t, "listRoles")
        PROVE  task'[t].pc = "listRoles"
    BY <1>1, <2>3, StepFacts DEF Goto, TaskRows
  <2>4. ASSUME Finish(t, "alreadyRevoked")
        PROVE  task'[t].pc = "done"
    <3>1. task'[t] = Over(t, "alreadyRevoked")
      BY <2>4, StepFacts DEF Finish
    <3> QED
      BY <1>1, <3>1 DEF Over, TaskRows
  <2>5. \/ task'[t].pc = "listRoles" /\ On(t) \in userRoles[Who(t)]
        \/ task'[t].pc = "done"
    BY <2>2, <2>3, <2>4
  <2> QED
    BY <1>1, <1>3, <2>1, <2>5 DEF At, Holds, On, Who
<1>7. CASE FindBasicRole(t)
  <2>1. task[t].pc = "listRoles" /\ UNCHANGED apiVars
    BY <1>7 DEF FindBasicRole, At
  <2>2. Op(t) = "revoke" => Holds(task[t].req)
    BY <2>1 DEF MemoryFits
  <2>3. task'[t].pc \notin {"getSubject", "putPerm"}
    BY <1>1, <2>1, StepFacts, FirstRequestIsFirst
       DEF Moves, Move, Retries, IsOver, WillEnable, GoesOn, Onward
  <2> QED
    BY <1>3, <2>1, <2>2, <2>3 DEF At
<1>8. CASE /\ task'[t].pc \notin {"getSubject", "putPerm", "listRoles"}
           /\ ~(task'[t].pc = "putRole" /\ Op(t) = "revoke")
  BY <1>8 DEF At
<1> QED
  BY <1>4, <1>5, <1>6, <1>7, <1>8, StepsThatRead
(* What a task saw to in a step is so after it.                            *)
LEMMA SeeingMakesItSo ==
    ASSUME Always, NEW t \in Tasks, Step(t), NEW done, SeesTo(t, done)
    PROVE  /\ "access" \in done => (Holds(task[t].req)' <=> Op(t) = "grant")
           /\ "login" \in done /\ Op(t) = "grant" /\ Who(t) \in Users => enabled'[Who(t)]
           /\ "access" \notin done /\ On(t) # "account" =>
                (Holds(task[t].req)' <=> Holds(task[t].req))
           /\ "login" \notin done => enabled' = enabled
<1> DEFINE r == task[t].req
<1>1. /\ r \in Requests /\ r \in AllRequests /\ task'[t].req = r
      /\ TypeOK /\ TypeOK'
  BY StepFacts DEF Moves, Move, Always
<1>2. r.on # "account" => /\ Holds(r) <=> <<r.who, r.on>> \in Access
                          /\ Holds(r)' <=> <<r.who, r.on>> \in Access'
  BY <1>1, HoldingIsAccess, HoldingIsAccessNext
<1>3. ASSUME "access" \in done
      PROVE  Holds(r)' <=> Op(t) = "grant"
  <2>1. r.on # "account" /\ r.op \in {"grant", "revoke"}
    BY <1>1, <1>3, PartsOfRequests DEF SeesTo
  <2>2. Access' = Promise!Served(r) /\ Promise!Allowed(r)
    BY <1>3 DEF SeesTo
  <2>3. <<r.who, r.on>> \in Promise!Served(r) <=> r.op = "grant"
    BY <1>1, <2>1, <2>2, ServingServes
  <2> QED
    BY <1>2, <2>1, <2>2, <2>3 DEF Op
<1>4. ASSUME "login" \in done, Op(t) = "grant", Who(t) \in Users
      PROVE  enabled'[Who(t)]
  BY <1>1, <1>4 DEF SeesTo, Promise!Login, Op, Who, TypeOK, APITypeOK
<1>5. "access" \notin done /\ r.on # "account" => (Holds(r)' <=> Holds(r))
  BY <1>2 DEF SeesTo
<1> QED
  BY <1>3, <1>4, <1>5 DEF SeesTo, On

LEMMA OwnSeenStays ==
    ASSUME Always, cache = EmptyCache, NEW t \in Tasks, MemoryFits(t), Step(t)
    PROVE  /\ "login" \in Seen(t)' => enabled'[Who(t)]
           /\ AccessStays(t) => AccessStays(t)'
<1>1. CASE Start(t)
  <2>1. task'[t].pc = FirstRequest(task[t].req) /\ ~task'[t].awake
    BY <1>1, StepFacts DEF Start, At, Goto, TaskRows, RowFits
  <2>2. Seen(t)' = {}
    BY <2>1, StepFacts, FirstRequestIsFirst DEF SeenBy
  <2> QED
    BY <2>2 DEF AccessStays
<1>2. CASE Works(t)
  <2>1. PICK done : SeesTo(t, done) /\ ThenEnds(t, done)
    BY <1>2 DEF Works
  <2>2. Seen(t)' \subseteq Seen(t) \cup done
    <3>1. task'[t].pc \notin Sending => Seen(t)' = {}
      BY DEF Seen
    <3> QED
      BY <2>1, <3>1 DEF ThenEnds, Sending
  <2>3. task'[t].req = task[t].req
    BY StepFacts DEF Moves, Move
  <2>4. ASSUME "login" \in Seen(t)'
        PROVE  enabled'[Who(t)]
    <3>1. Op(t) = "grant" /\ task'[t].pc \in {"getRoles", "putRole", "putPerm"}
      BY <2>3, <2>4, StepFacts DEF SeenBy, RowFits, Op, Sending
    <3>2. Who(t) \in Users
      BY <2>3, <3>1, StepFacts DEF TypeOK, TaskTypeOK, SendsItsOwn, Sending, Who
    <3> QED
      BY <2>1, <2>2, <2>4, <3>1, <3>2, SeeingMakesItSo DEF MemoryFits
  <2>5. ASSUME AccessStays(t), "access" \in Seen(t)'
        PROVE  Holds(task[t].req)'
    <3>1. Op(t) = "grant" /\ On(t) # "account"
      BY <2>3, <2>5, StepFacts, PartsOfRequests DEF SeenBy, RowFits, Op, On
    <3> QED
      BY <2>1, <2>2, <2>3, <2>5, <3>1, SeeingMakesItSo DEF AccessStays
  <2> QED
    BY <2>3, <2>4, <2>5 DEF AccessStays
<1> QED
  BY <1>1, <1>2, StepWorks

LEMMA InitFits ==
    ASSUME Init, Alone
    PROVE  Inv
<1>1. PICK req \in [Tasks -> Requests] :
        task = [t \in Tasks |-> Fresh(req[t], "queued", 0)]
  BY DEF Init, RunInit
<1>2. \A t \in Tasks : task[t].pc = "queued"
  BY <1>1 DEF Fresh
<1>3. \A t \in Tasks : Seen(t) = {}
  BY <1>2 DEF Seen, Sending
<1> QED
  BY <1>2, <1>3, InitIsOrdered
     DEF Inv, Init, ClientInit, NoCopies, MemoryFits, AccessStays, At

(* Undisturbed, nothing but the tasks' steps happens.                      *)
LEMMA OnlyStepsHappen ==
    ASSUME Undisturbed, Inv, Next
    PROVE  \E t \in Tasks : Step(t)
<1>1. \A t \in Tasks : ~Looks(t) /\ ~Stores(t)
  BY DEF Looks, LooksUp, Misses, Stores, Store, Inv, NoCopies, Undisturbed
<1>2. ~Expire /\ ~AdminDeletes /\ ~AdminEdits
  BY DEF Expire, Evict, AdminDeletes, AdminEdits, Inv, NoCopies, EmptyCache, Undisturbed
<1> QED
  BY <1>1, <1>2 DEF Next

(* A task keeps the request it was given.                                  *)
LEMMA RequestsStay ==
    ASSUME Always, [Next]_vars
    PROVE  /\ \A t \in Tasks : task'[t].req = task[t].req
           /\ Alone' <=> Alone
           /\ Unopposed' <=> Unopposed
<1>1. ASSUME NEW t \in Tasks, Step(t), NEW x \in Tasks
      PROVE  task'[x].req = task[x].req
  BY <1>1, StepFacts DEF Moves, Move, Becomes, Always, TypeOK, TaskTypeOK
<1>2. Surroundings \/ UNCHANGED vars => task' = task
  BY SurroundingsKeepOrder DEF Always, vars, runVars
<1>3. \A t \in Tasks : task'[t].req = task[t].req
  BY <1>1, <1>2 DEF Next, Surroundings
<1>4. Alone' <=> Alone
  BY <1>3 DEF Alone, Disturbs
<1>5. Unopposed' <=> Unopposed
  BY <1>3 DEF Unopposed, Undoes
<1> QED
  BY <1>3, <1>4, <1>5

LEMMA NextFits ==
    ASSUME Undisturbed, Inv, [Next]_vars
    PROVE  Inv'
<1>1. Always' /\ Alone' /\ (Unopposed' <=> Unopposed)
  BY NextKeepsOrder, RequestsStay DEF Inv
<1>2. ASSUME NEW t \in Tasks, Step(t)
      PROVE  Inv'
  <2>1. /\ Always /\ NoCopies /\ cache = EmptyCache
        /\ Alone /\ CacheOn = FALSE /\ MemoryFits(t)
    BY DEF Inv, NoCopies, Undisturbed
  <2>2. NoCopies'
    BY <1>2, <2>1, CacheStaysEmpty
  <2>3. \A x \in Tasks \ {t} : /\ MemoryFits(x)'
                               /\ Unopposed /\ AccessStays(x) => AccessStays(x)'
    BY <1>2, <2>1, OthersMemoryFits DEF Inv
  <2>4. Op(t)' = Op(t) /\ On(t)' = On(t) /\ Who(t)' = Who(t) /\ task'[t].req = task[t].req
    BY <2>1, RequestsStay DEF Op, On, Who
  <2>5. MemoryFits(t)'
    BY <1>2, <2>1, <2>4, OwnMemoryFits, OwnSeenStays DEF MemoryFits
  <2>6. AccessStays(t) => AccessStays(t)'
    BY <1>2, <2>1, OwnSeenStays
  <2> QED
    BY <1>1, <2>2, <2>3, <2>5, <2>6 DEF Inv
<1>3. Next => \E t \in Tasks : Step(t)
  BY OnlyStepsHappen
<1>4. CASE UNCHANGED vars
  <2>1. /\ task' = task
        /\ UNCHANGED <<enabled, members, userRoles, subjects>>
    BY <1>4 DEF vars, apiVars, runVars
  <2>4. NoCopies'
    BY <1>4 DEF vars, clientVars, Inv, NoCopies, EmptyCache
  <2>2. \A t \in Tasks : Seen(t)' = Seen(t) /\ (Holds(task[t].req)' <=> Holds(task[t].req))
    BY <2>1 DEF Seen, Holds
  <2>3. \A t \in Tasks : (MemoryFits(t) => MemoryFits(t)') /\ (AccessStays(t) => AccessStays(t)')
    BY <2>1, <2>2 DEF MemoryFits, AccessStays, At, On, Op, Who
  <2> QED
    BY <1>1, <2>3, <2>4 DEF Inv
<1> QED
  BY <1>2, <1>3, <1>4

(* What the handlers remember between two requests stays true.             *)
THEOREM MemoryIsTrue == Undisturbed => (Spec /\ Alone => []Inv)
<1> SUFFICES ASSUME Undisturbed PROVE Spec /\ Alone => []Inv
  OBVIOUS
<1>1. Init /\ Alone => Inv
  BY InitFits
<1>2. Inv /\ [Next]_vars => Inv'
  BY NextFits
<1> QED
  BY <1>1, <1>2, PTL DEF Spec
----------------------------------------------------------------------------
(* What follows for the caller.                                            *)

(* A task that ends with success has seen to its whole request.            *)
LEMMA SuccessIsWhole ==
    ASSUME Inv, NEW t \in Tasks, Step(t), Ends(t), task'[t].outcome # "failed",
           Op(t) \in {"grant", "revoke"}
    PROVE  \E done : /\ SeesTo(t, done)
                     /\ "access" \in Seen(t) \cup done
                     /\ Op(t) = "grant" /\ EnableOnProvision => "login" \in Seen(t) \cup done
                     /\ Who(t) \in Users /\ On(t) # "account"
<1>1. task'[t].pc = "done" /\ Always /\ MemoryFits(t) /\ cache = EmptyCache
  BY DEF Ends, Inv, NoCopies
<1>2. ~Start(t)
  <2>1. Start(t) => task'[t].pc = FirstRequest(task[t].req)
    BY <1>1, StepFacts DEF Start, Goto, TaskRows
  <2> QED
    BY <1>1, <2>1, StepFacts, FirstRequestIsFirst
<1>3. Works(t)
  BY <1>1, <1>2, StepWorks
<1>4. PICK done : SeesTo(t, done) /\ Promise!Parts(task[t].req) \subseteq Seen(t) \cup done
  BY <1>1, <1>3 DEF Works, ThenEnds, Sending
<1>5. /\ On(t) # "account" /\ "access" \in Seen(t) \cup done
      /\ Op(t) = "grant" /\ EnableOnProvision => "login" \in Seen(t) \cup done
  BY <1>1, <1>4, StepFacts, PartsOfRequests DEF Op, On
<1>6. Who(t) \in Users
  <2>1. CASE "access" \in done
    BY <1>4, <2>1 DEF SeesTo, Promise!Allowed, Who
  <2>2. CASE "access" \in Seen(t)
    <3>1. task[t].pc \in {"getStatus", "enable"}
      BY <1>1, <2>2, StepFacts DEF SeenBy
    <3> QED
      BY <1>1, <3>1, StepFacts DEF SendsItsOwn, Sending, Who
  <2> QED
    BY <1>5, <2>1, <2>2
<1> QED
  BY <1>4, <1>5, <1>6

LEMMA OnlyTasksEnd ==
    ASSUME Inv, [Next]_vars, NEW t \in Tasks, Ends(t)
    PROVE  Step(t)
<1>1. task'[t] # task[t]
  BY DEF Ends
<1>2. PICK x \in Tasks : Step(x)
  BY <1>1, SurroundingsKeepOrder DEF Next, Surroundings, Inv, Always, vars, runVars
<1>3. x = t
  BY <1>1, <1>2, StepFacts DEF Inv, Moves, Becomes, Always, TypeOK, TaskTypeOK
<1> QED
  BY <1>2, <1>3

(* A grant that succeeds with the option on leaves its user enabled        *)
(* (connector.go:81), also while other tasks change the same user's groups *)
(* and login.  A group grant ends with the step that reads or sets the     *)
(* flag; a role or permission grant may have read it some requests before, *)
(* and with Alone nobody disables the user in between.                     *)
THEOREM GrantsReEnable == Undisturbed => (Spec /\ Alone => ReEnabled)
<1> SUFFICES ASSUME Undisturbed PROVE Spec /\ Alone => ReEnabled
  OBVIOUS
<1>1. ASSUME Inv, [Next]_vars, NEW t \in Tasks, Ends(t), Op(t) = "grant",
             EnableOnProvision, task'[t].outcome # "failed"
      PROVE  enabled'[Who(t)]
  <2>1. Step(t)
    BY <1>1, OnlyTasksEnd
  <2>2. PICK done : /\ SeesTo(t, done) /\ "login" \in Seen(t) \cup done
                    /\ Who(t) \in Users
    BY <1>1, <2>1, SuccessIsWhole
  <2>3. CASE "login" \in done
    BY <1>1, <2>1, <2>2, <2>3, SeeingMakesItSo DEF Inv
  <2>4. CASE "login" \notin done
    BY <1>1, <2>1, <2>2, <2>4, SeeingMakesItSo DEF Inv, MemoryFits
  <2> QED
    BY <2>3, <2>4
<1>2. Inv /\ [Next]_vars =>
        [\A t \in Tasks :
           Ends(t) /\ Op(t) = "grant" /\ EnableOnProvision /\ task'[t].outcome # "failed"
             => enabled'[Who(t)]]_vars
  BY <1>1
<1> QED
  BY <1>2, MemoryIsTrue, PTL DEF Spec, ReEnabled

LEMMA SuccessIsTrue ==
    ASSUME Undisturbed, Unopposed, Inv, [Next]_vars, NEW t \in Tasks, Ends(t),
           Op(t) \in {"grant", "revoke"}, task'[t].outcome # "failed"
    PROVE  Holds(task[t].req)' <=> Op(t) = "grant"
<1>1. Step(t) /\ Always /\ AccessStays(t)
  BY OnlyTasksEnd DEF Inv
<1>2. PICK done : /\ SeesTo(t, done) /\ "access" \in Seen(t) \cup done
                  /\ On(t) # "account"
  BY <1>1, SuccessIsWhole
<1>3. CASE "access" \in done
  BY <1>1, <1>2, <1>3, SeeingMakesItSo
<1>4. CASE "access" \notin done
  <2>1. Op(t) = "grant"
    BY <1>1, <1>2, <1>4, StepFacts DEF SeenBy, RowFits, Op
  <2> QED
    BY <1>1, <1>2, <1>4, <2>1, SeeingMakesItSo DEF AccessStays
<1> QED
  BY <1>3, <1>4

(* A task's report is true when it is made: what it granted, or found      *)
(* granted, is there, and what it revoked, or found gone, is not.          *)
THEOREM ReportsAreAlwaysTrue == Undisturbed => (Spec /\ Alone /\ Unopposed => ReportsAreTrue)
<1> SUFFICES ASSUME Undisturbed PROVE Spec /\ Alone /\ Unopposed => ReportsAreTrue
  OBVIOUS
<1>1. Inv /\ Unopposed /\ [Next]_vars =>
        [\A t \in Tasks :
           Ends(t) /\ Op(t) \in {"grant", "revoke"} /\ task'[t].outcome # "failed"
             => (Holds(task[t].req)' <=> Op(t) = "grant")]_vars
  BY SuccessIsTrue
<1>2. Inv /\ Unopposed /\ [Next]_vars => Unopposed'
  BY RequestsStay DEF Inv
<1> QED
  BY <1>1, <1>2, MemoryIsTrue, PTL DEF Spec, ReportsAreTrue

(* A role revoke that succeeds leaves the user without the role            *)
(* (docs/connector.mdx:26): the run that refutes it needs the cache.       *)
THEOREM RevokesTakeRolesAway == Undisturbed => (Spec /\ Alone /\ Unopposed => RevokedRolesAreGone)
<1> SUFFICES ASSUME Undisturbed PROVE Spec /\ Alone /\ Unopposed => RevokedRolesAreGone
  OBVIOUS
<1>1. Inv /\ Unopposed /\ [Next]_vars =>
        [\A t \in Tasks :
           /\ Ends(t)
           /\ Op(t) = "revoke" /\ On(t) \in Roles
           /\ task'[t].outcome # "failed"
           => ~Holds(task[t].req)']_vars
  BY SuccessIsTrue
<1>2. Inv /\ Unopposed /\ [Next]_vars => Unopposed'
  BY RequestsStay DEF Inv
<1> QED
  BY <1>1, <1>2, MemoryIsTrue, PTL DEF Spec, RevokedRolesAreGone

(* A role revoke about to write Basic is about a user who holds the role,  *)
(* so a second revoke writes nothing (roles_test.go:90-95).                *)
THEOREM RevokesWriteOnlyHeldRoles ==
    Undisturbed => (Spec /\ Alone => []RevokeWritesOnlyHeldRoles)
<1> SUFFICES ASSUME Undisturbed PROVE Spec /\ Alone => []RevokeWritesOnlyHeldRoles
  OBVIOUS
<1>1. Inv => RevokeWritesOnlyHeldRoles
  BY DEF Inv, MemoryFits, RevokeWritesOnlyHeldRoles, At
<1> QED
  BY <1>1, MemoryIsTrue, PTL

----------------------------------------------------------------------------
(* The refinement.                                                         *)

LEMMA InitIsPromised ==
    ASSUME Init
    PROVE  Promise!Init
<1>1. PICK req \in [Tasks -> Requests] :
        task = [t \in Tasks |-> Fresh(req[t], "queued", 0)]
  BY DEF Init, RunInit
<1>2. \A t \in Tasks : task[t].pc = "queued" /\ task[t].req \in Requests
  BY <1>1 DEF Fresh
<1>3. "queued" \notin Sending
  BY DEF Sending
<1>4. \A t \in Tasks : Status(t) = "queued" /\ Seen(t) = {}
  BY <1>2, <1>3 DEF Status, Seen
<1> QED
  BY <1>2, <1>4 DEF Promise!Init

LEMMA StartIsPromised ==
    ASSUME Always, NEW t \in Tasks, Step(t), Start(t)
    PROVE  Promise!Start(t)
<1>1. task[t].pc = "queued" /\ task'[t].pc = FirstRequest(task[t].req) /\ ~task'[t].awake
  BY StepFacts DEF Start, At, Goto, TaskRows, RowFits
<1>2. task'[t].pc \in Sending /\ "queued" \notin Sending
  BY <1>1, StepFacts, FirstRequestFits DEF Sending
<1>3. Status(t) = "queued" /\ Status(t)' = "running"
  BY <1>1, <1>2 DEF Status
<1>4. Seen(t)' = {} /\ Seen(t) = {}
  BY <1>1, <1>2, StepFacts, FirstRequestIsFirst DEF SeenBy
<1>5. Access' = Access /\ enabled' = enabled
  BY WritesAsPairs DEF Start, apiVars, Always
<1> DEFINE status == [x \in Tasks |-> Status(x)]
           seen   == [x \in Tasks |-> Seen(x)]
<1>6. /\ status' = [status EXCEPT ![t] = "running"]
      /\ seen' = [seen EXCEPT ![t] = Seen(t)']
      /\ [x \in Tasks |-> task'[x].req] = [x \in Tasks |-> task[x].req]
  BY <1>3, StepFacts, MovesAreMapped DEF Always
<1>7. seen' = seen
  BY <1>4, <1>6
<1>8. status[t] = "queued"
  BY <1>3
<1> HIDE DEF status, seen
<1> QED
  BY <1>5, <1>6, <1>7, <1>8 DEF Promise!Start, status, seen

LEMMA StutterIsPromised ==
    ASSUME UNCHANGED vars
    PROVE  UNCHANGED Promise!promiseVars
<1>1. task' = task /\ UNCHANGED <<enabled, members, userRoles, subjects>>
  BY DEF vars, apiVars, runVars
<1>2. \A t \in Tasks : Status(t)' = Status(t) /\ Seen(t)' = Seen(t)
  BY <1>1 DEF Status, Seen
<1>3. Access' = Access
  BY <1>1 DEF Access
<1> QED
  BY <1>1, <1>2, <1>3 DEF Promise!promiseVars

(* Nothing is touched but the access and the login the requests name, each *)
(* of them in one step, only by its own task and while it runs, and a task *)
(* succeeds only with its whole request seen to: without the cache the     *)
(* connector implements AccessPromise, one task at a time or any number at *)
(* once whose requests do not meet - those about groups and logins never   *)
(* do.                                                                     *)
THEOREM PromiseIsKept == Undisturbed => (Spec /\ Alone => PromiseKept)
<1> SUFFICES ASSUME Undisturbed PROVE Spec /\ Alone => PromiseKept
  OBVIOUS
<1>1. Init => Promise!Init
  BY InitIsPromised
<1>2. Inv /\ [Next]_vars => [Promise!Next]_(Promise!promiseVars)
  <2>1. ASSUME Inv, NEW t \in Tasks, Step(t)
        PROVE  Promise!Next
    <3>1. Always /\ cache = EmptyCache /\ MemoryFits(t) /\ TypeOK
      BY <2>1 DEF Inv, NoCopies, Always
    <3>2. Start(t) \/ Works(t)
      BY <2>1, <3>1, StepWorks
    <3>3. Promise!Start(t) \/ Promise!Work(t)
      BY <2>1, <3>1, <3>2, StartIsPromised, WorksIsWork
    <3> QED
      BY <3>3 DEF Promise!Next
  <2> QED
    BY <2>1, OnlyStepsHappen, StutterIsPromised
<1> QED
  BY <1>1, <1>2, MemoryIsTrue, PTL DEF Spec, PromiseKept, Promise!Spec
=============================================================================
