----------------------------- MODULE TaskProofs ------------------------------
(***************************************************************************)
(* How the tasks of a connector move, for all users, groups, requests,     *)
(* numbers of tasks and slots, with or without the cache, whatever fails   *)
(* and whoever is deleted: what the fields of a task may be at each        *)
(* request (RowFits), that nobody outside the container is in a group,     *)
(* that a user has at most one role, that no more tasks run than there are *)
(* slots, and that every step uses up one of the requests a task has left. *)
(***************************************************************************)
EXTENDS ConnectorProofs, FiniteSetTheorems

\* What a task may be about to do, and with which local variables.
RowFits(row) ==
    /\ row.pc \in {"addMember", "getStatus", "enable"} => row.req.op = "grant"
    /\ row.pc \in {"delMember", "listRoles"} => row.req.op = "revoke"
    /\ row.pc \in {"getStatus", "enable"} =>
         EnableOnProvision /\ row.outcome \in {"ok", "exists"}
    /\ row.pc \in (Sending \cup {"queued"}) \ {"getStatus", "enable"} =>
         row.outcome = "none"
    /\ row.pc # "done" /\ row.awake =>
         row.req.op = "grant" /\ row.pc \in {"getRoles", "putRole", "putPerm"}
    /\ row.pc = "putRole" /\ row.req.op = "revoke" => row.req.on # BasicRole
    /\ row.pc = "setEnabled" => row.req.on = "account"
    /\ row.tries <= MaxRetries

RowsFit == \A t \in Tasks : RowFits(task[t])

MembersExist == \A g \in Groups : members[g] \subseteq users

OneRoleEach == \A u \in Users : \A r, s \in userRoles[u] : r = s

SlotsHold == IsFiniteSet(Running) /\ Cardinality(Running) <= Slots

Always == TypeOK /\ RowsFit /\ MembersExist /\ OneRoleEach /\ SlotsHold

----------------------------------------------------------------------------
(* The moves of a task.                                                    *)

\* Where a grant has done its part.
Granted == {"getMembers", "getStatus", "getRoles", "putRole", "getSubject", "putPerm"}

\* From one request of a handler to the next one.
Onward(old, row) ==
    LET next == <<old.pc, row.pc>> IN
    \/ old.pc = "queued" /\ row.pc = FirstRequest(old.req)
    \/ next \in {<<"getUser", "getRoles">>, <<"getPerm", "getSubject">>,
                 <<"getSubject", "putPerm">>}
    \/ next \in {<<"getMembers", "addMember">>, <<"getRoles", "putRole">>}
         /\ old.req.op = "grant"
    \/ next \in {<<"getMembers", "delMember">>, <<"getRoles", "listRoles">>}
         /\ old.req.op = "revoke"
    \/ next = <<"listRoles", "putRole">> /\ old.req.on # BasicRole
    \/ next = <<"addMember", "getStatus">> /\ EnableOnProvision

\* The row a step leaves in the place of old.
Retries(old, row) ==
    /\ old.pc \in Sending
    /\ old.tries < MaxRetries /\ row.tries = old.tries + 1
    /\ row.pc = FirstRequest(old.req)
    /\ row.outcome = "none" /\ ~row.awake

IsOver(old, row) ==
    old.pc \in Sending /\ row.pc = "done" /\ row.tries = old.tries

WillEnable(old, row) ==
    /\ old.pc \in Granted /\ old.req.op = "grant" /\ EnableOnProvision
    /\ row.pc = "enable" /\ row.outcome \in {"ok", "exists"} /\ ~row.awake
    /\ row.tries = old.tries

GoesOn(old, row) ==
    /\ Onward(old, row)
    /\ row.outcome = IF old.pc = "addMember" THEN "ok" ELSE old.outcome
    /\ row.awake => \/ old.awake
                    \/ old.req.op = "grant" /\ old.pc \in {"getUser", "getSubject"}
    /\ row.tries = old.tries

Move(old, row) ==
    /\ row.req = old.req
    /\ Retries(old, row) \/ IsOver(old, row) \/ WillEnable(old, row) \/ GoesOn(old, row)

Moves(t) == Becomes(t, task'[t]) /\ Move(task[t], task'[t])

LEMMA BecomingIsMoving ==
    ASSUME TypeOK, NEW t \in Tasks, NEW row, Becomes(t, row), Move(task[t], row)
    PROVE  Moves(t)
<1>1. task'[t] = row
  BY DEF TypeOK, TaskTypeOK, Becomes
<1> QED
  BY <1>1 DEF Moves

(* The ways a handler's step ends are moves. *)
LEMMA EndingsMove ==
    ASSUME TypeOK, NEW t \in Tasks, task[t].pc \in Sending
    PROVE  /\ \A retryable : Fail(t, retryable) => Moves(t)
           /\ \A outcome : Finish(t, outcome) => Moves(t)
           /\ AnswerLost(t) => Moves(t)
<1>1. task[t] \in TaskRows
  BY TasksFit
<1>2. \A o : /\ Over(t, o).req = task[t].req
             /\ Over(t, o).tries = task[t].tries
             /\ Over(t, o).pc = "done"
  BY <1>1 DEF Over, TaskRows
<1>3. \A o : Becomes(t, Over(t, o)) => Moves(t)
  BY <1>2, BecomingIsMoving DEF Move, IsOver
<1>4. ASSUME Becomes(t, Again(t)), task[t].tries < MaxRetries
      PROVE  Moves(t)
  BY <1>4, BecomingIsMoving DEF Again, Fresh, Move, Retries
<1>5. \A r : Fail(t, r) => Moves(t)
  BY <1>3, <1>4 DEF Fail, MayRetry
<1> QED
  BY <1>3, <1>5 DEF Finish, AnswerLost

LEMMA ReEnablingMoves ==
    ASSUME TypeOK, NEW t \in Tasks, task[t].pc \in Granted, Op(t) = "grant",
           NEW awake, NEW outcome \in {"ok", "exists"},
           ReEnableUserIfNeeded(t, awake, outcome)
    PROVE  Moves(t)
<1>1. task[t] \in TaskRows /\ task[t].pc \in Sending
  BY TasksFit DEF Granted, Sending
<1>2. CASE Finish(t, outcome)
  BY <1>1, <1>2, EndingsMove
<1>3. CASE EnableOnProvision /\ Becomes(t, [Over(t, outcome) EXCEPT !.pc = "enable"])
  <2> DEFINE row == [Over(t, outcome) EXCEPT !.pc = "enable"]
  <2>1. /\ row.req = task[t].req /\ row.tries = task[t].tries
        /\ row.pc = "enable" /\ row.outcome = outcome /\ ~row.awake
    BY <1>1 DEF Over, TaskRows
  <2>2. Move(task[t], row)
    BY <1>3, <2>1 DEF Move, WillEnable, Op
  <2> QED
    BY <1>3, <2>2, BecomingIsMoving
<1> QED
  BY <1>2, <1>3 DEF ReEnableUserIfNeeded

LEMMA GoingOnMoves ==
    ASSUME TypeOK, NEW t \in Tasks, NEW pc, Goto(t, pc),
           Onward(task[t], [task[t] EXCEPT !.pc = pc]), task[t].pc # "addMember"
    PROVE  Moves(t)
<1> DEFINE row == [task[t] EXCEPT !.pc = pc]
<1>1. /\ row.pc = pc /\ row.req = task[t].req /\ row.tries = task[t].tries
      /\ row.outcome = task[t].outcome /\ row.awake = task[t].awake
  BY TasksFit DEF TaskRows
<1> HIDE DEF row
<1>2. Move(task[t], row)
  BY <1>1 DEF Move, GoesOn, row
<1>3. Becomes(t, row)
  BY DEF Goto, row
<1> QED
  BY <1>2, <1>3, BecomingIsMoving

LEMMA RunnerMoves ==
    ASSUME TypeOK, NEW t \in Tasks, RunnerStep(t)
    PROVE  Moves(t)
<1>1. CASE Start(t)
  <2>1. [task[t] EXCEPT !.pc = FirstRequest(task[t].req)].pc = FirstRequest(task[t].req)
    BY TasksFit DEF TaskRows
  <2> QED
    BY <1>1, <2>1, GoingOnMoves DEF Start, At, Onward
<1>2. CASE RequestFails(t)
  BY <1>2, EndingsMove DEF RequestFails
<1>3. CASE Refused(t)
  BY <1>3, EndingsMove DEF Refused, Sending
<1>4. CASE EnableUser(t)
  BY <1>4, EndingsMove DEF EnableUser, At, Sending
<1> QED
  BY <1>1, <1>2, <1>3, <1>4 DEF RunnerStep

(* The request a handler goes on to is the one of the task's new row.      *)
LEMMA NextPcs ==
    ASSUME TypeOK, NEW t \in Tasks
    PROVE  \A pc : [task[t] EXCEPT !.pc = pc].pc = pc
  BY TasksFit DEF TaskRows

LEMMA GroupMoves ==
    ASSUME TypeOK, RowsFit, NEW t \in Tasks, GroupStep(t)
    PROVE  Moves(t)
<1>1. CASE GrantReadsMembers(t)
  BY <1>1, NextPcs, ReEnablingMoves, GoingOnMoves
     DEF GrantReadsMembers, At, Granted, Onward, Op
<1>2. CASE AddMember(t)
  <2> DEFINE row == [task[t] EXCEPT !.pc = "getStatus", !.outcome = "ok"]
  <2>1. /\ row.pc = "getStatus" /\ row.req = task[t].req /\ row.tries = task[t].tries
        /\ row.outcome = "ok" /\ row.awake = task[t].awake
    BY TasksFit DEF TaskRows
  <2>2. EnableOnProvision => Move(task[t], row)
    BY <1>2, <2>1 DEF AddMember, At, Move, GoesOn, Onward
  <2> QED
    BY <1>2, <2>2, EndingsMove, BecomingIsMoving DEF AddMember, At, Sending
<1>3. CASE ReadStatus(t)
  BY <1>3, ReEnablingMoves DEF ReadStatus, At, Granted, RowsFit, RowFits, Op
<1>4. CASE RevokeReadsMembers(t)
  BY <1>4, NextPcs, EndingsMove, GoingOnMoves
     DEF RevokeReadsMembers, At, Sending, Onward, Op
<1>5. CASE RemoveMember(t)
  BY <1>5, EndingsMove DEF RemoveMember, At, Sending
<1> QED
  BY <1>1, <1>2, <1>3, <1>4, <1>5 DEF GroupStep

LEMMA RoleMoves ==
    ASSUME TypeOK, RowsFit, NEW t \in Tasks, RoleStep(t)
    PROVE  Moves(t)
<1>1. CASE RoleReadsUser(t)
  <2>1. PICK awake \in UserAnswers(t, Who(t)) :
          Becomes(t, [task[t] EXCEPT !.pc = "getRoles",
                                     !.awake = awake /\ Op(t) = "grant"])
    BY <1>1 DEF RoleReadsUser
  <2> DEFINE noted == awake /\ Op(t) = "grant"
             row   == [task[t] EXCEPT !.pc = "getRoles", !.awake = noted]
  <2>2. /\ row.pc = "getRoles" /\ row.req = task[t].req /\ row.tries = task[t].tries
        /\ row.outcome = task[t].outcome /\ row.awake = noted
    BY TasksFit DEF TaskRows
  <2>3. row.awake => task[t].req.op = "grant"
    BY <2>2 DEF Op
  <2> HIDE DEF row
  <2>4. Move(task[t], row)
    BY <1>1, <2>2, <2>3 DEF RoleReadsUser, At, Move, GoesOn, Onward
  <2> QED
    BY <2>1, <2>4, BecomingIsMoving DEF row
<1>2. CASE GrantReadsRoles(t)
  BY <1>2, NextPcs, ReEnablingMoves, GoingOnMoves
     DEF GrantReadsRoles, At, Granted, Onward, Op
<1>3. CASE RevokeReadsRoles(t)
  BY <1>3, NextPcs, EndingsMove, GoingOnMoves
     DEF RevokeReadsRoles, At, Sending, Onward, Op
<1>4. CASE FindBasicRole(t)
  BY <1>4, NextPcs, EndingsMove, GoingOnMoves
     DEF FindBasicRole, At, Sending, Onward, On
<1>5. CASE AssignRole(t)
  BY <1>5, ReEnablingMoves, EndingsMove DEF AssignRole, At, Granted, Sending
<1>6. CASE DemoteToBasic(t)
  BY <1>6, EndingsMove DEF DemoteToBasic, At, Sending
<1> QED
  BY <1>1, <1>2, <1>3, <1>4, <1>5, <1>6 DEF RoleStep

LEMMA PermissionMoves ==
    ASSUME TypeOK, NEW t \in Tasks, PermissionStep(t)
    PROVE  Moves(t)
<1>1. CASE TurnDown(t)
  BY <1>1, EndingsMove DEF TurnDown, TurnedDown, Sending
<1>2. CASE ReadPermission(t)
  <2>1. PICK list : Becomes(t, [task[t] EXCEPT !.pc = "getSubject", !.draft = list])
    BY <1>2 DEF ReadPermission
  <2> DEFINE row == [task[t] EXCEPT !.pc = "getSubject", !.draft = list]
  <2>2. /\ row.pc = "getSubject" /\ row.req = task[t].req /\ row.tries = task[t].tries
        /\ row.outcome = task[t].outcome /\ row.awake = task[t].awake
    BY TasksFit DEF TaskRows
  <2> HIDE DEF row
  <2>3. Move(task[t], row)
    BY <1>2, <2>2 DEF ReadPermission, At, Move, GoesOn, Onward
  <2> QED
    BY <2>1, <2>3, BecomingIsMoving DEF row
<1>3. ASSUME NEW row, Becomes(t, row), At(t, "getSubject"),
             row.pc = "putPerm", row.req = task[t].req, row.tries = task[t].tries,
             row.outcome = task[t].outcome,
             row.awake => Op(t) = "grant" \/ task[t].awake
      PROVE  Moves(t)
  <2>1. Move(task[t], row)
    BY <1>3 DEF At, Move, GoesOn, Onward, Op
  <2> QED
    BY <1>3, <2>1, BecomingIsMoving
<1>4. CASE GrantReadsSubject(t)
  <2> DEFINE row(awake) == [task[t] EXCEPT !.pc = "putPerm", !.awake = awake,
                                           !.draft = task[t].draft \cup {Who(t)}]
  <2>1. task[t].pc \in Granted /\ Op(t) = "grant" /\ At(t, "getSubject")
    BY <1>4 DEF GrantReadsSubject, At, Granted
  <2>2. \A awake : /\ row(awake).pc = "putPerm" /\ row(awake).req = task[t].req
                   /\ row(awake).tries = task[t].tries
                   /\ row(awake).outcome = task[t].outcome
    BY TasksFit DEF TaskRows
  <2>3. \A awake : Becomes(t, row(awake)) => Moves(t)
    BY <1>3, <2>1, <2>2
  <2> QED
    BY <1>4, <2>1, <2>3, ReEnablingMoves DEF GrantReadsSubject
<1>5. CASE RevokeReadsSubject(t)
  <2> DEFINE row == [task[t] EXCEPT !.pc = "putPerm", !.draft = task[t].draft \ {Who(t)}]
  <2>1. /\ At(t, "getSubject") /\ task[t].pc \in Sending
        /\ Finish(t, "alreadyRevoked") \/ Becomes(t, row)
    BY <1>5 DEF RevokeReadsSubject, At, Sending
  <2>2. /\ row.pc = "putPerm" /\ row.req = task[t].req /\ row.tries = task[t].tries
        /\ row.outcome = task[t].outcome /\ row.awake = task[t].awake
    BY TasksFit DEF TaskRows
  <2> HIDE DEF row
  <2> QED
    BY <1>3, <2>1, <2>2, EndingsMove
<1>6. CASE PutPermission(t)
  BY <1>6, ReEnablingMoves, EndingsMove DEF PutPermission, At, Granted, Sending
<1> QED
  BY <1>1, <1>2, <1>4, <1>5, <1>6 DEF PermissionStep

(* Every step of a task is one of the moves. *)
LEMMA StepIsMove ==
    ASSUME TypeOK, RowsFit, NEW t \in Tasks, Step(t)
    PROVE  Moves(t)
<1>1. CASE PutEnabled(t)
  BY <1>1, EndingsMove DEF PutEnabled, At, Sending
<1> QED
  BY <1>1, RunnerMoves, GroupMoves, RoleMoves, PermissionMoves DEF Step

----------------------------------------------------------------------------
(* What the moves keep.                                                    *)

LEMMA FirstRequestIsFirst ==
    ASSUME NEW row \in TaskRows
    PROVE  /\ FirstRequest(row.req) \in {"getMembers", "getUser", "getPerm", "setEnabled"}
           /\ FirstRequest(row.req) = "setEnabled" => row.req.on = "account"
<1>1. row.req \in AllRequests
  BY RequestsAreKnown DEF TaskRows
<1> QED
  BY <1>1 DEF AllRequests, FirstRequest

LEMMA MovesFit ==
    ASSUME NEW old \in TaskRows, NEW row \in TaskRows, RowFits(old), Move(old, row)
    PROVE  RowFits(row)
<1> DEFINE first == FirstRequest(old.req)
<1>1. /\ first \in {"getMembers", "getUser", "getPerm", "setEnabled"}
      /\ first = "setEnabled" => old.req.on = "account"
  BY FirstRequestIsFirst
<1>2. old.tries \in Nat /\ MaxRetries \in Nat
  BY OptionsAreTyped DEF TaskRows
<1> HIDE DEF first
<1>3. row.req = old.req
  BY DEF Move
<1>4. CASE Retries(old, row)
  BY <1>1, <1>2, <1>3, <1>4 DEF RowFits, Retries, Sending, first
<1>5. CASE IsOver(old, row)
  BY <1>3, <1>5 DEF RowFits, IsOver, Sending
<1>6. CASE WillEnable(old, row)
  BY <1>3, <1>6 DEF RowFits, WillEnable, Sending
<1>7. CASE GoesOn(old, row) /\ old.pc = "queued" /\ row.pc = first
  BY <1>1, <1>3, <1>7 DEF RowFits, GoesOn, Sending
<1>8. CASE GoesOn(old, row) /\ old.pc # "queued"
  BY <1>3, <1>8 DEF RowFits, GoesOn, Onward, Sending
<1> QED
  BY <1>4, <1>5, <1>6, <1>7, <1>8 DEF Move, GoesOn, Onward, first

(* The requests a task has left, counted over all its attempts.            *)
LEMMA MovesCount ==
    ASSUME NEW old \in TaskRows, NEW row \in TaskRows, Move(old, row)
    PROVE  RequestsLeft(row.pc) + 5 * (MaxRetries - row.tries)
             < RequestsLeft(old.pc) + 5 * (MaxRetries - old.tries)
<1> DEFINE first == FirstRequest(old.req)
<1>1. first \in {"getMembers", "getUser", "getPerm", "setEnabled"}
  BY FirstRequestIsFirst
<1> HIDE DEF first
<1>2. /\ old.tries \in Nat /\ row.tries \in Nat /\ MaxRetries \in Nat
  BY OptionsAreTyped DEF TaskRows
<1>3. /\ RequestsLeft(first) \in 1..5
      /\ old.pc \in Sending => RequestsLeft(old.pc) \in 1..5
      /\ RequestsLeft("queued") = 6 /\ RequestsLeft("done") = 0
  BY <1>1 DEF RequestsLeft, Sending
<1>4. CASE Retries(old, row)
  BY <1>2, <1>3, <1>4 DEF Retries, first
<1>5. ASSUME row.tries = old.tries,
             RequestsLeft(row.pc) \in Nat, RequestsLeft(old.pc) \in Nat,
             RequestsLeft(row.pc) < RequestsLeft(old.pc)
      PROVE  RequestsLeft(row.pc) + 5 * (MaxRetries - row.tries)
               < RequestsLeft(old.pc) + 5 * (MaxRetries - old.tries)
  BY <1>2, <1>5
<1>6. CASE IsOver(old, row)
  BY <1>3, <1>5, <1>6 DEF IsOver
<1>7. CASE WillEnable(old, row)
  <2>1. RequestsLeft("enable") = 1 /\ \A pc \in Granted : RequestsLeft(pc) \in 2..4
    BY DEF RequestsLeft, Granted
  <2> QED
    BY <1>5, <1>7, <2>1 DEF WillEnable
<1>8. CASE GoesOn(old, row) /\ old.pc = "queued" /\ row.pc = first
  BY <1>3, <1>5, <1>8 DEF GoesOn
<1>9. CASE GoesOn(old, row) /\ old.pc # "queued"
  <2>1. /\ RequestsLeft(row.pc) \in Nat /\ RequestsLeft(old.pc) \in Nat
        /\ RequestsLeft(row.pc) < RequestsLeft(old.pc)
    BY <1>9 DEF GoesOn, Onward, RequestsLeft
  <2> QED
    BY <1>5, <1>9, <2>1 DEF GoesOn
<1> QED
  BY <1>4, <1>6, <1>7, <1>8, <1>9 DEF Move, GoesOn, Onward, first

----------------------------------------------------------------------------
(* What a step does to the container.                                      *)

Writes(t) ==
    \/ UNCHANGED apiVars
    \/ SetUserEnabled(Who(t), TRUE)
    \/ On(t) = "account" /\ SetUserEnabled(Who(t), Op(t) = "enable")
    \/ AddGroupMember(On(t), Who(t))
    \/ Op(t) = "revoke" /\ RemoveGroupMember(On(t), Who(t))
    \/ On(t) \in Roles /\ \E r \in Roles : SetUserRoles(Who(t), {r})
    \/ UpdatePermission(On(t), task[t].draft)

LEMMA StepWrites ==
    ASSUME TypeOK, RowsFit, NEW t \in Tasks, Step(t)
    PROVE  Writes(t)
<1>1. CASE RunnerStep(t)
  BY <1>1 DEF RunnerStep, Start, RequestFails, Refused, EnableUser, Writes
<1>2. CASE GroupStep(t)
  <2>1. task[t].pc = "delMember" => Op(t) = "revoke"
    BY DEF RowsFit, RowFits, Op
  <2> QED
    BY <1>2, <2>1
       DEF GroupStep, GrantReadsMembers, AddMember, ReadStatus, RevokeReadsMembers,
           RemoveMember, At, GetGroupMembers, GetUserDetails, Writes
<1>3. CASE RoleStep(t)
  <2>1. task[t].pc = "putRole" => On(t) \in Roles
    BY TasksFit DEF SendsItsOwn, On
  <2> QED
    BY <1>3, <2>1, OptionsAreTyped
       DEF RoleStep, RoleReadsUser, GrantReadsRoles, RevokeReadsRoles, FindBasicRole,
           AssignRole, DemoteToBasic, At, GetUserRoles, GetUserDetails, Writes
<1>4. CASE PermissionStep(t)
  BY <1>4 DEF PermissionStep, TurnDown, ReadPermission, GrantReadsSubject,
              RevokeReadsSubject, PutPermission, GetPermissionDetails, GetUserDetails, Writes
<1>5. CASE PutEnabled(t)
  <2>1. task[t].pc = "setEnabled" => On(t) = "account"
    BY DEF RowsFit, RowFits, On
  <2> QED
    BY <1>5, <2>1 DEF PutEnabled, At, Writes
<1> QED
  BY <1>1, <1>2, <1>3, <1>4, <1>5 DEF Step

LEMMA WritesKeepOrder ==
    ASSUME TypeOK, MembersExist, OneRoleEach, NEW t \in Tasks, Writes(t)
    PROVE  MembersExist' /\ OneRoleEach' /\ users' = users
<1>1. users' = users
  BY DEF Writes, apiVars, SetUserEnabled, AddGroupMember, RemoveGroupMember, SetUserRoles,
         UpdatePermission
<1>2. \A g \in Groups : members'[g] \subseteq members[g] \cup ({Who(t)} \cap users)
  BY DEF Writes, apiVars, SetUserEnabled, AddGroupMember, RemoveGroupMember, SetUserRoles,
         UpdatePermission, TypeOK, APITypeOK
<1>3. \A u \in Users : userRoles'[u] = userRoles[u] \/ \E r : userRoles'[u] = {r}
  BY DEF Writes, apiVars, SetUserEnabled, AddGroupMember, RemoveGroupMember, SetUserRoles,
         UpdatePermission, TypeOK, APITypeOK
<1> QED
  BY <1>1, <1>2, <1>3 DEF MembersExist, OneRoleEach

(* An administrator who deletes a user takes it out of everything but the  *)
(* permissions; everything else but the tasks' steps leaves the users, the *)
(* groups and the roles alone.                                             *)
Surroundings ==
    \/ \E t \in Tasks : Looks(t) \/ Stores(t)
    \/ Expire
    \/ AdminDeletes
    \/ AdminEdits

LEMMA SurroundingsKeepOrder ==
    ASSUME TypeOK, MembersExist, OneRoleEach, Surroundings
    PROVE  MembersExist' /\ OneRoleEach' /\ task' = task
<1>1. CASE AdminDeletes
  <2>1. PICK u \in Deletable : DeleteUser(u)
    BY <1>1 DEF AdminDeletes
  <2>2. \A g \in Groups : members'[g] = members[g] \ {u}
    BY <2>1 DEF DeleteUser
  <2>3. \A v \in Users : userRoles'[v] = IF v = u THEN {} ELSE userRoles[v]
    BY <2>1 DEF DeleteUser, TypeOK, APITypeOK
  <2>4. users' = users \ {u}
    BY <2>1 DEF DeleteUser
  <2> QED
    BY <1>1, <2>2, <2>3, <2>4 DEF AdminDeletes, runVars, MembersExist, OneRoleEach
<1>2. CASE UNCHANGED <<users, members, userRoles, task>>
  BY <1>2 DEF MembersExist, OneRoleEach
<1> QED
  BY <1>1, <1>2
     DEF Surroundings, Looks, LooksUp, Misses, Stores, Store, Expire, Evict, AdminEdits,
         UpdatePermission, apiVars, runVars

(* A step of a task stores nothing and leaves the answers of the others.   *)
LEMMA StepsLeaveAnswers ==
    ASSUME TypeOK, NEW t \in Tasks, Step(t)
    PROVE  \A x \in Tasks \ {t} : unstored'[x] = unstored[x]
<1> DEFINE SameAnswer(x) == unstored'[x] = unstored[x]
<1>1. unstored \in [Tasks -> Caches]
  BY DEF TypeOK, CacheTypeOK
<1>2. (UNCHANGED clientVars \/ GivesUp(t)) => \A x \in Tasks : SameAnswer(x)
  BY DEF clientVars, GivesUp
<1>3. \A k, a : GetUserDetails(t, k, a) => \A x \in Tasks \ {t} : SameAnswer(x)
  BY <1>1 DEF GetUserDetails
<1>4. \A k, a : GetGroupMembers(t, k, a) => \A x \in Tasks \ {t} : SameAnswer(x)
  BY <1>1 DEF GetGroupMembers
<1>5. \A k, a : GetUserRoles(t, k, a) => \A x \in Tasks \ {t} : SameAnswer(x)
  BY <1>1 DEF GetUserRoles
<1>6. \A k, a : GetPermissionDetails(t, k, a) => \A x \in Tasks \ {t} : SameAnswer(x)
  BY <1>1 DEF GetPermissionDetails
<1> HIDE DEF SameAnswer
<1>7. \A x \in Tasks \ {t} : SameAnswer(x)
  BY <1>2, <1>3, <1>4, <1>5, <1>6
     DEF Step, RunnerStep, Start, RequestFails, Refused, EnableUser, GroupStep,
         GrantReadsMembers, AddMember, ReadStatus, RevokeReadsMembers, RemoveMember,
         RoleStep, RoleReadsUser, GrantReadsRoles, RevokeReadsRoles, FindBasicRole,
         AssignRole, DemoteToBasic, PermissionStep, TurnDown, ReadPermission,
         GrantReadsSubject, RevokeReadsSubject, PutPermission, PutEnabled
<1> QED
  BY <1>7 DEF SameAnswer

(* Fewer running tasks hold no more slots. *)
LEMMA FewerHold ==
    ASSUME SlotsHold, Running' \subseteq Running
    PROVE  SlotsHold'
<1>1. IsFiniteSet(Running') /\ Cardinality(Running') <= Cardinality(Running)
  BY FS_Subset DEF SlotsHold
<1>2. Cardinality(Running') \in Nat /\ Cardinality(Running) \in Nat /\ Slots \in Nat
  BY <1>1, OptionsAreTyped, FS_CardinalityType DEF SlotsHold
<1> QED
  BY <1>1, <1>2 DEF SlotsHold

LEMMA SurroundingsKeepSlots ==
    ASSUME TypeOK, SlotsHold, Surroundings, task' = task
    PROVE  SlotsHold'
<1>1. \A x \in Tasks : unstored'[x] = unstored[x] \/ unstored'[x] = EmptyCache
  BY DEF Surroundings, Looks, LooksUp, Misses, Stores, Store, Expire, Evict, AdminDeletes,
         AdminEdits, clientVars, TypeOK, CacheTypeOK
<1>2. EmptyCache' = EmptyCache
  BY DEF EmptyCache
<1>3. Running' \subseteq Running
  BY <1>1, <1>2 DEF Running
<1> QED
  BY <1>3, FewerHold

(* A task runs while it sends requests or has an answer to store; only     *)
(* Start makes it run.                                                     *)
LEMMA SlotsAreKept ==
    ASSUME TypeOK, SlotsHold, NEW t \in Tasks, Step(t), Moves(t), TypeOK'
    PROVE  SlotsHold'
<1>1. \A x \in Tasks \ {t} : task'[x] = task[x]
  BY DEF Moves, Becomes, TypeOK, TaskTypeOK
<1>2. Running' \subseteq Running \cup {t}
  BY <1>1, StepsLeaveAnswers DEF Running, EmptyCache
<1>3. Slots \in Nat /\ Cardinality(Running) \in Nat
  BY OptionsAreTyped, FS_CardinalityType DEF SlotsHold
<1>4. CASE Cardinality(Running) < Slots
  <2>1. IsFiniteSet(Running \cup {t}) /\ Cardinality(Running \cup {t}) <= Slots
    BY <1>3, <1>4, FS_AddElement DEF SlotsHold
  <2>2. IsFiniteSet(Running') /\ Cardinality(Running') <= Cardinality(Running \cup {t})
    BY <1>2, <2>1, FS_Subset
  <2>3. Cardinality(Running') \in Nat /\ Cardinality(Running \cup {t}) \in Nat
    BY <2>1, <2>2, FS_CardinalityType
  <2> QED
    BY <1>3, <2>1, <2>2, <2>3 DEF SlotsHold
<1>5. CASE t \in Running
  BY <1>2, <1>5, FewerHold
<1>6. Start(t) \/ task[t].pc \in Sending
  BY DEF Step, RunnerStep, RequestFails, Refused, EnableUser, GroupStep, GrantReadsMembers,
         AddMember, ReadStatus, RevokeReadsMembers, RemoveMember, RoleStep, RoleReadsUser,
         GrantReadsRoles, RevokeReadsRoles, FindBasicRole, AssignRole, DemoteToBasic,
         PermissionStep, TurnDown, TurnedDown, ReadPermission, GrantReadsSubject,
         RevokeReadsSubject, PutPermission, PutEnabled, At, Sending
<1> QED
  BY <1>4, <1>5, <1>6 DEF Start, Running

LEMMA InitIsOrdered ==
    ASSUME Init
    PROVE  Always
<1>1. PICK req \in [Tasks -> Requests] :
        task = [t \in Tasks |-> Fresh(req[t], "queued", 0)]
  BY DEF Init, RunInit
<1>2. RowsFit
  BY <1>1, OptionsAreTyped DEF RowsFit, RowFits, Fresh, Sending
<1>3. MembersExist
  BY DEF Init, APIInit, MembersExist
<1>4. OneRoleEach
  BY DEF Init, APIInit, OneRoleEach
<1>5. Running = {}
  BY <1>1 DEF Running, Fresh, Sending, Init, ClientInit
<1>6. SlotsHold
  BY <1>5, FS_EmptySet, OptionsAreTyped DEF SlotsHold
<1> QED
  BY <1>2, <1>3, <1>4, <1>6, InitIsTyped DEF Always

LEMMA NextKeepsOrder ==
    ASSUME Always, [Next]_vars
    PROVE  Always'
<1>1. TypeOK'
  BY NextKeepsTypes DEF Always
<1>2. ASSUME NEW t \in Tasks, Step(t)
      PROVE  Always'
  <2>1. Moves(t) /\ Writes(t)
    BY <1>2, StepIsMove, StepWrites DEF Always
  <2>2. MembersExist' /\ OneRoleEach'
    BY <2>1, WritesKeepOrder DEF Always
  <2>3. SlotsHold'
    BY <1>1, <1>2, <2>1, SlotsAreKept DEF Always
  <2>4. \A x \in Tasks \ {t} : task'[x] = task[x]
    BY <2>1 DEF Moves, Becomes, Always, TypeOK, TaskTypeOK
  <2>5. RowFits(task'[t])
    BY <1>1, <2>1, MovesFit DEF Moves, Always, RowsFit, TypeOK, TaskTypeOK
  <2>6. RowsFit'
    BY <2>4, <2>5 DEF Always, RowsFit
  <2> QED
    BY <1>1, <2>2, <2>3, <2>6 DEF Always
<1>3. CASE Surroundings
  <2>1. MembersExist' /\ OneRoleEach' /\ task' = task
    BY <1>3, SurroundingsKeepOrder DEF Always
  <2>2. RowsFit' /\ SlotsHold'
    BY <1>3, <2>1, SurroundingsKeepSlots DEF Always, RowsFit
  <2> QED
    BY <1>1, <2>1, <2>2 DEF Always
<1>4. CASE UNCHANGED vars
  BY <1>1, <1>4 DEF vars, apiVars, clientVars, runVars, Always, MembersExist, OneRoleEach,
                    RowsFit, SlotsHold, Running, EmptyCache
<1> QED
  BY <1>2, <1>3, <1>4 DEF Next, Surroundings

(* In every state of every instance: the tasks' fields fit their requests, *)
(* nobody outside the container is in a group, a user has at most one role *)
(* (UpdateUserRoles always sends one), no more tasks run than there are    *)
(* slots, and no task was tried more than MaxRetries + 1 times.            *)
THEOREM OrderIsKept == Spec => []Always
<1>1. Init => Always
  BY InitIsOrdered
<1>2. Always /\ [Next]_vars => Always'
  BY NextKeepsOrder
<1> QED
  BY <1>1, <1>2, PTL DEF Spec

(* Every step a task takes brings it nearer to its end, whatever fails, is *)
(* cached or goes on beside it: no loop in a handler, and a retry loop     *)
(* that runs out (retry.go:78).  With the fairness of Spec this is why     *)
(* AllTasksEnd holds.                                                      *)
THEOREM StepsRunOut == Spec => EveryStepCounts
<1>1. ASSUME Always, [Next]_vars, NEW t \in Tasks, task'[t] # task[t]
      PROVE  task'[t].tries <= MaxRetries /\ Left(t)' < Left(t)
  <2>1. RowFits(task'[t]) /\ task[t] \in TaskRows /\ task'[t] \in TaskRows
    BY <1>1, NextKeepsOrder DEF Always, RowsFit, TypeOK, TaskTypeOK
  <2>2. PICK x \in Tasks : Step(x)
    BY <1>1, SurroundingsKeepOrder DEF Next, Surroundings, Always, vars, runVars
  <2>3. Moves(x)
    BY <1>1, <2>2, StepIsMove DEF Always
  <2>4. x = t
    BY <1>1, <2>3 DEF Moves, Becomes, Always, TypeOK, TaskTypeOK
  <2>5. RequestsLeft(task'[t].pc) + 5 * (MaxRetries - task'[t].tries)
          < RequestsLeft(task[t].pc) + 5 * (MaxRetries - task[t].tries)
    BY <2>1, <2>3, <2>4, MovesCount DEF Moves
  <2> QED
    BY <2>1, <2>5 DEF RowFits, Left
<1>2. Always /\ [Next]_vars =>
        [\A t \in Tasks : task'[t] # task[t] => /\ task'[t].tries <= MaxRetries
                                                /\ Left(t)' < Left(t)]_vars
  BY <1>1
<1> QED
  BY <1>2, OrderIsKept, PTL DEF Spec, EveryStepCounts
=============================================================================
