-------------------------- MODULE ConnectorProofs ---------------------------
(***************************************************************************)
(* Proofs about Connector, for all users, groups, requests, numbers of     *)
(* tasks and slots, with or without the cache, whatever fails.             *)
(*                                                                         *)
(* TypeOK is inductive.  With it CopiesAgree is inductive: every step of   *)
(* the connector keeps what StepKeeps says - the requests, the bystanders' *)
(* access, and the agreement of the copies the step leaves behind - and an *)
(* administrator's edit takes the subject out of those the copies have to  *)
(* be right about.                                                         *)
(***************************************************************************)
EXTENDS Connector, ClientProofs

(* A request and the first thing its handler sends fit together. *)
LEMMA FirstRequestFits ==
    ASSUME NEW row \in TaskRows
    PROVE  /\ FirstRequest(row.req) \in Sending
           /\ SendsItsOwn([row EXCEPT !.pc = FirstRequest(row.req)])
<1>1. row.req \in AllRequests
  BY RequestsAreKnown DEF TaskRows
<1> QED
  BY <1>1, TargetsAreDistinct
     DEF TaskRows, AllRequests, FirstRequest, SendsItsOwn, Sending

----------------------------------------------------------------------------
(* Types of the tasks: a step puts a row of the right shape in its own     *)
(* task's place.                                                           *)
LEMMA RowKeepsTypes ==
    ASSUME TaskTypeOK, NEW t \in Tasks, NEW row \in TaskRows, SendsItsOwn(row),
           Becomes(t, row), faults' \in Nat
    PROVE  TaskTypeOK'
<1>1. task' \in [Tasks -> TaskRows]
  BY DEF TaskTypeOK, Becomes
<1>2. \A x \in Tasks : SendsItsOwn(task'[x])
  BY DEF TaskTypeOK, Becomes
<1> QED
  BY <1>1, <1>2 DEF TaskTypeOK

(* A task that is over fits no matter what it was. *)
LEMMA OverFits ==
    ASSUME TaskTypeOK, NEW t \in Tasks, NEW outcome \in Outcomes
    PROVE  Over(t, outcome) \in TaskRows /\ SendsItsOwn(Over(t, outcome))
<1>1. task[t] \in TaskRows
  BY DEF TaskTypeOK
<1>2. Over(t, outcome) \in TaskRows
  BY <1>1 DEF TaskRows, Over
<1>3. Over(t, outcome).pc = "done"
  BY <1>1 DEF TaskRows, Over
<1> QED
  BY <1>2, <1>3 DEF SendsItsOwn, Sending

(* Going on to another request of the same handler. *)
LEMMA GotoKeepsTypes ==
    ASSUME TaskTypeOK, NEW t \in Tasks, NEW pc \in Sending, Goto(t, pc),
           SendsItsOwn([task[t] EXCEPT !.pc = pc])
    PROVE  TaskTypeOK'
<1>1. [task[t] EXCEPT !.pc = pc] \in TaskRows
  BY DEF TaskTypeOK, TaskRows
<1>2. faults' \in Nat
  BY DEF Goto, TaskTypeOK
<1> QED
  BY <1>1, <1>2, RowKeepsTypes DEF Goto

(* Returning without an error. *)
LEMMA FinishKeepsTypes ==
    ASSUME TaskTypeOK, NEW t \in Tasks, NEW outcome \in Outcomes, Finish(t, outcome)
    PROVE  TaskTypeOK'
<1>1. faults' \in Nat
  BY DEF Finish, TaskTypeOK
<1> QED
  BY <1>1, OverFits, RowKeepsTypes DEF Finish

(* Returning an error: the next attempt sends the first request again. *)
LEMMA FailKeepsTypes ==
    ASSUME TaskTypeOK, NEW t \in Tasks, NEW retryable, Fail(t, retryable), faults' \in Nat
    PROVE  TaskTypeOK'
<1>1. task[t] \in TaskRows
  BY DEF TaskTypeOK
<1>2. FirstRequest(task[t].req) \in Sending
  BY <1>1, FirstRequestFits
<1>3. Again(t) \in TaskRows
  BY <1>1, <1>2 DEF Again, Fresh, TaskRows, Outcomes
<1>4. /\ Again(t).pc = [task[t] EXCEPT !.pc = FirstRequest(task[t].req)].pc
      /\ Again(t).req = [task[t] EXCEPT !.pc = FirstRequest(task[t].req)].req
  BY <1>1 DEF Again, Fresh, TaskRows
<1>5. SendsItsOwn(Again(t))
  BY <1>1, <1>4, FirstRequestFits DEF SendsItsOwn
<1>6. "failed" \in Outcomes
  BY DEF Outcomes
<1>7. Becomes(t, Again(t)) \/ Becomes(t, Over(t, "failed"))
  BY DEF Fail
<1> QED
  BY <1>3, <1>5, <1>6, <1>7, OverFits, RowKeepsTypes

(* Returning an error although the server did what was asked. *)
LEMMA AnswerLostKeepsTypes ==
    ASSUME TaskTypeOK, NEW t \in Tasks, AnswerLost(t)
    PROVE  TaskTypeOK'
<1>1. faults' \in Nat
  BY DEF AnswerLost, TaskTypeOK
<1> QED
  BY <1>1, FailKeepsTypes DEF AnswerLost

(* Ending a grant, with or without the request that enables the user. *)
LEMMA ReEnableKeepsTypes ==
    ASSUME TaskTypeOK, NEW t \in Tasks, NEW awake, NEW outcome \in Outcomes,
           Who(t) \in Users, ReEnableUserIfNeeded(t, awake, outcome)
    PROVE  TaskTypeOK'
<1> DEFINE row == [Over(t, outcome) EXCEPT !.pc = "enable"]
<1>1. CASE Finish(t, outcome)
  BY <1>1, FinishKeepsTypes
<1>2. CASE Becomes(t, row) /\ UNCHANGED faults
  <2>1. task[t] \in TaskRows /\ Over(t, outcome) \in TaskRows
    BY OverFits DEF TaskTypeOK
  <2>2. row \in TaskRows /\ row.pc = "enable" /\ row.req = task[t].req
    BY <2>1 DEF TaskRows, Over, Sending
  <2>3. SendsItsOwn(row)
    BY <2>2 DEF SendsItsOwn, Sending, Who
  <2>4. faults' \in Nat
    BY <1>2 DEF TaskTypeOK
  <2> QED
    BY <1>2, <2>2, <2>3, <2>4, RowKeepsTypes
<1> QED
  BY <1>1, <1>2 DEF ReEnableUserIfNeeded

----------------------------------------------------------------------------
(* Types, action by action. *)

\* The types but for the history, which no task looks at.
CoreTypeOK == APITypeOK /\ CacheTypeOK /\ TaskTypeOK

(* A task at a request of a handler has a request of that handler's kind. *)
LEMMA TasksFit ==
    ASSUME TypeOK, NEW t \in Tasks
    PROVE  /\ task[t] \in TaskRows
           /\ SendsItsOwn(task[t])
           /\ task[t].outcome \in Outcomes
           /\ faults \in Nat
           /\ UNCHANGED apiVars => APITypeOK'
           /\ UNCHANGED clientVars => CacheTypeOK'
           /\ GivesUp(t) => CacheTypeOK'
           /\ UNCHANGED runVars => TaskTypeOK'
<1>1. UNCHANGED runVars => TaskTypeOK'
  BY DEF TypeOK, TaskTypeOK, runVars
<1> QED
  BY <1>1, UntouchedTypesStay, AskingKeepsTypes DEF TypeOK, TaskTypeOK, TaskRows

LEMMA RunnerKeepsTypes ==
    ASSUME TypeOK, NEW t \in Tasks, RunnerStep(t)
    PROVE  CoreTypeOK'
<1> USE TasksFit
<1>1. CASE Start(t)
  <2>1. /\ FirstRequest(task[t].req) \in Sending
        /\ SendsItsOwn([task[t] EXCEPT !.pc = FirstRequest(task[t].req)])
    BY FirstRequestFits
  <2>2. TaskTypeOK'
    BY <1>1, <2>1, GotoKeepsTypes DEF TypeOK, CoreTypeOK, Start
  <2> QED
    BY <1>1, <2>2 DEF TypeOK, CoreTypeOK, Start
<1>2. CASE RequestFails(t)
  <2>1. PICK retryable \in BOOLEAN : Fail(t, retryable)
    BY <1>2 DEF RequestFails
  <2>2. faults' \in Nat
    BY <1>2 DEF RequestFails
  <2>3. TaskTypeOK'
    BY <2>1, <2>2, FailKeepsTypes DEF TypeOK, CoreTypeOK
  <2> QED
    BY <1>2, <2>3 DEF TypeOK, CoreTypeOK, RequestFails
<1>3. CASE Refused(t)
  <2>1. TaskTypeOK'
    BY <1>3, FailKeepsTypes DEF TypeOK, CoreTypeOK, Refused
  <2> QED
    BY <1>3, <2>1 DEF TypeOK, CoreTypeOK, Refused
<1>4. CASE EnableUser(t)
  <2>1. Who(t) \in Users
    BY <1>4 DEF EnableUser, At, SendsItsOwn, Sending, Who
  <2>2. APITypeOK' /\ CacheTypeOK'
    BY <1>4, <2>1, WritesKeepTypes DEF TypeOK, CoreTypeOK, EnableUser
  <2>3. TaskTypeOK'
    BY <1>4, FinishKeepsTypes, AnswerLostKeepsTypes DEF TypeOK, CoreTypeOK, EnableUser
  <2> QED
    BY <2>2, <2>3 DEF TypeOK, CoreTypeOK
<1> QED
  BY <1>1, <1>2, <1>3, <1>4 DEF RunnerStep

LEMMA GroupKeepsTypes ==
    ASSUME TypeOK, NEW t \in Tasks, GroupStep(t)
    PROVE  CoreTypeOK'
<1> USE TasksFit
<1>1. task[t].pc \in {"getMembers", "addMember", "getStatus", "delMember"}
  BY DEF GroupStep, GrantReadsMembers, AddMember, ReadStatus, RevokeReadsMembers,
         RemoveMember, At
<1>2. On(t) \in Groups /\ Who(t) \in Users
  BY <1>1 DEF SendsItsOwn, Sending, On, Who
<1>3. \A pc \in {"addMember", "delMember"} :
        pc \in Sending /\ SendsItsOwn([task[t] EXCEPT !.pc = pc])
  BY <1>2 DEF SendsItsOwn, Sending, TaskRows, On, Who
<1>4. \A outcome \in {"ok", "exists", "alreadyRevoked"} : outcome \in Outcomes
  BY DEF Outcomes
<1>5. CASE GrantReadsMembers(t)
  <2>1. PICK list \in MemberAnswers(t, On(t)) :
          /\ GetGroupMembers(t, On(t), list)
          /\ \/ ReEnableUserIfNeeded(t, <<Who(t), TRUE>> \in list, "exists")
             \/ Goto(t, "addMember")
    BY <1>5 DEF GrantReadsMembers
  <2>2. APITypeOK' /\ CacheTypeOK'
    BY <2>1, <1>2, AnswersAreTyped, GetsKeepTypes DEF TypeOK, CoreTypeOK
  <2>3. TaskTypeOK'
    BY <2>1, <1>2, <1>3, <1>4, ReEnableKeepsTypes, GotoKeepsTypes DEF TypeOK, CoreTypeOK
  <2> QED
    BY <2>2, <2>3 DEF TypeOK, CoreTypeOK
<1>6. CASE AddMember(t)
  <2> DEFINE row == [task[t] EXCEPT !.pc = "getStatus", !.outcome = "ok"]
  <2>1. APITypeOK' /\ CacheTypeOK'
    BY <1>2, <1>6, WritesKeepTypes DEF TypeOK, CoreTypeOK, AddMember
  <2>2. row \in TaskRows /\ row.pc = "getStatus" /\ row.req = task[t].req
    BY <1>4 DEF TaskRows, Sending
  <2>3. SendsItsOwn(row)
    BY <1>2, <2>2 DEF SendsItsOwn, On, Who
  <2>4. CASE Becomes(t, row) /\ UNCHANGED faults
    BY <2>1, <2>2, <2>3, <2>4, RowKeepsTypes DEF TypeOK, CoreTypeOK
  <2>5. CASE Finish(t, "ok") \/ AnswerLost(t)
    BY <2>1, <2>5, <1>4, FinishKeepsTypes, AnswerLostKeepsTypes DEF TypeOK, CoreTypeOK
  <2> QED
    BY <1>6, <2>4, <2>5 DEF AddMember
<1>7. CASE ReadStatus(t)
  <2>1. PICK awake \in UserAnswers(t, Who(t)) :
          GetUserDetails(t, Who(t), awake) /\ ReEnableUserIfNeeded(t, awake, "ok")
    BY <1>7 DEF ReadStatus
  <2>2. APITypeOK' /\ CacheTypeOK'
    BY <2>1, <1>2, AnswersAreTyped, GetsKeepTypes DEF TypeOK, CoreTypeOK
  <2>3. TaskTypeOK'
    BY <2>1, <1>2, <1>4, ReEnableKeepsTypes DEF TypeOK, CoreTypeOK
  <2> QED
    BY <2>2, <2>3 DEF TypeOK, CoreTypeOK
<1>8. CASE RevokeReadsMembers(t)
  <2>1. PICK list \in MemberAnswers(t, On(t)) :
          /\ GetGroupMembers(t, On(t), list)
          /\ Goto(t, "delMember") \/ Finish(t, "alreadyRevoked")
    BY <1>8 DEF RevokeReadsMembers
  <2>2. APITypeOK' /\ CacheTypeOK'
    BY <2>1, <1>2, AnswersAreTyped, GetsKeepTypes DEF TypeOK, CoreTypeOK
  <2>3. TaskTypeOK'
    BY <2>1, <1>3, <1>4, FinishKeepsTypes, GotoKeepsTypes DEF TypeOK, CoreTypeOK
  <2> QED
    BY <2>2, <2>3 DEF TypeOK, CoreTypeOK
<1>9. CASE RemoveMember(t)
  <2>1. APITypeOK' /\ CacheTypeOK'
    BY <1>2, <1>9, WritesKeepTypes DEF TypeOK, CoreTypeOK, RemoveMember
  <2>2. TaskTypeOK'
    BY <1>4, <1>9, FinishKeepsTypes, AnswerLostKeepsTypes DEF TypeOK, CoreTypeOK, RemoveMember
  <2> QED
    BY <2>1, <2>2 DEF TypeOK, CoreTypeOK
<1> QED
  BY <1>5, <1>6, <1>7, <1>8, <1>9 DEF GroupStep

LEMMA RoleKeepsTypes ==
    ASSUME TypeOK, NEW t \in Tasks, RoleStep(t)
    PROVE  CoreTypeOK'
<1> USE TasksFit
<1>1. task[t].pc \in {"getUser", "getRoles", "listRoles", "putRole"}
  BY DEF RoleStep, RoleReadsUser, GrantReadsRoles, RevokeReadsRoles, FindBasicRole,
         AssignRole, DemoteToBasic, At
<1>2. On(t) \in Roles /\ Who(t) \in Users
  BY <1>1 DEF SendsItsOwn, Sending, On, Who
<1>3. \A pc \in {"listRoles", "putRole"} :
        pc \in Sending /\ SendsItsOwn([task[t] EXCEPT !.pc = pc])
  BY <1>2 DEF SendsItsOwn, Sending, TaskRows, On, Who
<1>4. \A outcome \in {"ok", "exists", "alreadyRevoked"} : outcome \in Outcomes
  BY DEF Outcomes
<1>5. CASE RoleReadsUser(t)
  <2>1. PICK awake \in UserAnswers(t, Who(t)) :
          /\ GetUserDetails(t, Who(t), awake)
          /\ Becomes(t, [task[t] EXCEPT !.pc = "getRoles",
                                        !.awake = awake /\ Op(t) = "grant"])
          /\ UNCHANGED faults
    BY <1>5 DEF RoleReadsUser
  <2> DEFINE row == [task[t] EXCEPT !.pc = "getRoles",
                                    !.awake = awake /\ Op(t) = "grant"]
  <2>2. APITypeOK' /\ CacheTypeOK'
    BY <2>1, <1>2, AnswersAreTyped, GetsKeepTypes DEF TypeOK, CoreTypeOK
  <2>3. (awake /\ Op(t) = "grant") \in BOOLEAN
    OBVIOUS
  <2>4. row \in TaskRows /\ row.pc = "getRoles" /\ row.req = task[t].req
    BY <2>3 DEF TaskRows, Sending
  <2>5. SendsItsOwn(row)
    BY <1>2, <2>4 DEF SendsItsOwn, On, Who
  <2> QED
    BY <2>1, <2>2, <2>4, <2>5, RowKeepsTypes DEF TypeOK, CoreTypeOK
<1>6. CASE GrantReadsRoles(t)
  <2>1. PICK held \in RoleAnswers(t, Who(t)) :
          /\ GetUserRoles(t, Who(t), held)
          /\ \/ ReEnableUserIfNeeded(t, task[t].awake, "exists")
             \/ Goto(t, "putRole")
    BY <1>6 DEF GrantReadsRoles
  <2>2. APITypeOK' /\ CacheTypeOK'
    BY <2>1, <1>2, AnswersAreTyped, GetsKeepTypes DEF TypeOK, CoreTypeOK
  <2>3. TaskTypeOK'
    BY <2>1, <1>2, <1>3, <1>4, ReEnableKeepsTypes, GotoKeepsTypes DEF TypeOK, CoreTypeOK
  <2> QED
    BY <2>2, <2>3 DEF TypeOK, CoreTypeOK
<1>7. CASE RevokeReadsRoles(t)
  <2>1. PICK held \in RoleAnswers(t, Who(t)) :
          /\ GetUserRoles(t, Who(t), held)
          /\ Goto(t, "listRoles") \/ Finish(t, "alreadyRevoked")
    BY <1>7 DEF RevokeReadsRoles
  <2>2. APITypeOK' /\ CacheTypeOK'
    BY <2>1, <1>2, AnswersAreTyped, GetsKeepTypes DEF TypeOK, CoreTypeOK
  <2>3. TaskTypeOK'
    BY <2>1, <1>3, <1>4, FinishKeepsTypes, GotoKeepsTypes DEF TypeOK, CoreTypeOK
  <2> QED
    BY <2>2, <2>3 DEF TypeOK, CoreTypeOK
<1>8. CASE FindBasicRole(t)
  <2>1. CASE Fail(t, FALSE) /\ UNCHANGED faults
    BY <1>8, <2>1, FailKeepsTypes DEF TypeOK, CoreTypeOK, FindBasicRole
  <2>2. CASE Goto(t, "putRole")
    BY <1>3, <1>8, <2>2, GotoKeepsTypes DEF TypeOK, CoreTypeOK, FindBasicRole
  <2> QED
    BY <1>8, <2>1, <2>2 DEF FindBasicRole
<1>9. CASE AssignRole(t)
  <2>1. APITypeOK' /\ CacheTypeOK'
    BY <1>2, <1>9, WritesKeepTypes DEF TypeOK, CoreTypeOK, AssignRole
  <2>2. TaskTypeOK'
    BY <1>2, <1>4, <1>9, ReEnableKeepsTypes, AnswerLostKeepsTypes DEF TypeOK, CoreTypeOK, AssignRole
  <2> QED
    BY <2>1, <2>2 DEF TypeOK, CoreTypeOK
<1>10. CASE DemoteToBasic(t)
  <2>1. APITypeOK' /\ CacheTypeOK'
    BY <1>2, <1>10, WritesKeepTypes DEF TypeOK, CoreTypeOK, DemoteToBasic
  <2>2. TaskTypeOK'
    BY <1>4, <1>10, FinishKeepsTypes, AnswerLostKeepsTypes DEF TypeOK, CoreTypeOK, DemoteToBasic
  <2> QED
    BY <2>1, <2>2 DEF TypeOK, CoreTypeOK
<1> QED
  BY <1>5, <1>6, <1>7, <1>8, <1>9, <1>10 DEF RoleStep

(* A permission request that is not turned down is about a user. *)
LEMMA PermissionKeepsTypes ==
    ASSUME TypeOK, NEW t \in Tasks, PermissionStep(t)
    PROVE  CoreTypeOK'
<1> USE TasksFit
<1>1. task[t].pc \in {"getPerm", "getSubject", "putPerm"}
  BY DEF PermissionStep, TurnDown, TurnedDown, ReadPermission, GrantReadsSubject,
         RevokeReadsSubject, PutPermission, At
<1>2. On(t) \in Permissions
  BY <1>1 DEF SendsItsOwn, On
<1>3. \/ task[t].pc = "getPerm"
      \/ Who(t) \in Users
  BY <1>1 DEF SendsItsOwn, Sending, Who
<1>4. \A outcome \in {"ok", "exists", "alreadyRevoked"} : outcome \in Outcomes
  BY DEF Outcomes
<1>5. task[t].draft \subseteq Subjects /\ Users \subseteq Subjects
  BY DEF TaskRows, Subjects
<1>6. \A awake \in BOOLEAN, list \in SUBSET Subjects :
        Who(t) \in Users =>
          LET row == [task[t] EXCEPT !.pc = "putPerm", !.awake = awake, !.draft = list]
          IN  row \in TaskRows /\ SendsItsOwn(row)
  BY <1>2 DEF TaskRows, SendsItsOwn, Sending, On, Who
<1>7. CASE TurnDown(t)
  BY <1>7, FailKeepsTypes DEF TypeOK, CoreTypeOK, TurnDown
<1>8. CASE ReadPermission(t)
  <2>1. PICK list \in PermAnswers(t, On(t)) :
          /\ GetPermissionDetails(t, On(t), list)
          /\ Becomes(t, [task[t] EXCEPT !.pc = "getSubject", !.draft = list])
          /\ UNCHANGED faults
    BY <1>8 DEF ReadPermission
  <2> DEFINE row == [task[t] EXCEPT !.pc = "getSubject", !.draft = list]
  <2>2. list \in SUBSET Subjects
    BY <1>2, AnswersAreTyped DEF TypeOK, CoreTypeOK
  <2>3. APITypeOK' /\ CacheTypeOK'
    BY <1>2, <2>1, <2>2, GetsKeepTypes DEF TypeOK, CoreTypeOK
  <2>4. Who(t) \in Users
    BY <1>8 DEF ReadPermission, TurnedDown, At
  <2>5. row \in TaskRows /\ row.pc = "getSubject" /\ row.req = task[t].req
    BY <2>2 DEF TaskRows, Sending
  <2>6. SendsItsOwn(row)
    BY <1>2, <2>4, <2>5 DEF SendsItsOwn, On, Who
  <2> QED
    BY <2>1, <2>3, <2>5, <2>6, RowKeepsTypes DEF TypeOK, CoreTypeOK
<1>9. CASE GrantReadsSubject(t)
  <2>1. Who(t) \in Users
    BY <1>3, <1>9 DEF GrantReadsSubject, At
  <2>2. PICK awake \in UserAnswers(t, Who(t)) :
          /\ GetUserDetails(t, Who(t), awake)
          /\ \/ ReEnableUserIfNeeded(t, awake, "exists")
             \/ /\ Becomes(t, [task[t] EXCEPT !.pc = "putPerm", !.awake = awake,
                                              !.draft = task[t].draft \cup {Who(t)}])
                /\ UNCHANGED faults
    BY <1>9 DEF GrantReadsSubject
  <2>3. awake \in BOOLEAN
    BY <2>1, AnswersAreTyped DEF TypeOK, CoreTypeOK
  <2>4. APITypeOK' /\ CacheTypeOK'
    BY <2>1, <2>2, <2>3, GetsKeepTypes DEF TypeOK, CoreTypeOK
  <2>5. task[t].draft \cup {Who(t)} \in SUBSET Subjects
    BY <1>5, <2>1
  <2>6. TaskTypeOK'
    BY <1>4, <1>6, <2>1, <2>2, <2>3, <2>5, ReEnableKeepsTypes, RowKeepsTypes DEF TypeOK, CoreTypeOK
  <2> QED
    BY <2>4, <2>6 DEF TypeOK, CoreTypeOK
<1>10. CASE RevokeReadsSubject(t)
  <2>1. Who(t) \in Users
    BY <1>3, <1>10 DEF RevokeReadsSubject, At
  <2> DEFINE row == [task[t] EXCEPT !.pc = "putPerm", !.draft = task[t].draft \ {Who(t)}]
  <2>2. PICK awake \in UserAnswers(t, Who(t)) :
          /\ GetUserDetails(t, Who(t), awake)
          /\ \/ Finish(t, "alreadyRevoked")
             \/ Becomes(t, row) /\ UNCHANGED faults
    BY <1>10 DEF RevokeReadsSubject
  <2>3. APITypeOK' /\ CacheTypeOK'
    BY <2>1, <2>2, AnswersAreTyped, GetsKeepTypes DEF TypeOK, CoreTypeOK
  <2>4. row \in TaskRows /\ row.pc = "putPerm" /\ row.req = task[t].req
    BY <1>5 DEF TaskRows, Sending
  <2>5. SendsItsOwn(row)
    BY <1>2, <2>1, <2>4 DEF SendsItsOwn, On, Who
  <2>6. TaskTypeOK'
    BY <1>4, <2>2, <2>4, <2>5, FinishKeepsTypes, RowKeepsTypes DEF TypeOK, CoreTypeOK
  <2> QED
    BY <2>3, <2>6 DEF TypeOK, CoreTypeOK
<1>11. CASE PutPermission(t)
  <2>1. Who(t) \in Users
    BY <1>3, <1>11 DEF PutPermission, At
  <2>2. APITypeOK' /\ CacheTypeOK'
    BY <1>2, <1>5, <1>11, WritesKeepTypes DEF TypeOK, CoreTypeOK, PutPermission
  <2>3. TaskTypeOK'
    BY <1>4, <1>11, <2>1, ReEnableKeepsTypes, FinishKeepsTypes, AnswerLostKeepsTypes
       DEF TypeOK, CoreTypeOK, PutPermission
  <2> QED
    BY <2>2, <2>3 DEF TypeOK, CoreTypeOK
<1> QED
  BY <1>7, <1>8, <1>9, <1>10, <1>11 DEF PermissionStep

LEMMA PutEnabledKeepsTypes ==
    ASSUME TypeOK, NEW t \in Tasks, PutEnabled(t)
    PROVE  CoreTypeOK'
<1> USE TasksFit
<1>1. Who(t) \in Users
  BY DEF PutEnabled, At, SendsItsOwn, Sending, Who
<1>2. (Op(t) = "enable") \in BOOLEAN /\ "ok" \in Outcomes
  BY DEF Outcomes
<1>3. APITypeOK' /\ CacheTypeOK'
  BY <1>1, <1>2, WritesKeepTypes DEF TypeOK, CoreTypeOK, PutEnabled
<1>4. TaskTypeOK'
  BY <1>2, FinishKeepsTypes, AnswerLostKeepsTypes DEF TypeOK, CoreTypeOK, PutEnabled
<1> QED
  BY <1>3, <1>4 DEF TypeOK, CoreTypeOK

(* Looking in the cache, storing an answer, entries leaving the cache, and  *)
(* what administrators do.                                                 *)
LEMMA NextGetIsAGet ==
    ASSUME TypeOK, NEW t \in Tasks
    PROVE  NextGet(t) \subseteq Gets
<1>1. /\ task[t].pc \in {"getMembers", "addMember", "getStatus", "delMember"} =>
           On(t) \in Groups
      /\ task[t].pc \in {"getPerm", "getSubject", "putPerm"} => On(t) \in Permissions
      /\ task[t].pc \in Sending \ {"getPerm"} => Who(t) \in Users
  BY TasksFit DEF SendsItsOwn, On, Who
<1> QED
  BY <1>1 DEF NextGet, Gets, Sending

LEMMA SurroundingsKeepTypes ==
    ASSUME TypeOK,
           \/ \E t \in Tasks : Looks(t) \/ Stores(t)
           \/ Expire
           \/ AdminDeletes
           \/ AdminEdits
    PROVE  CoreTypeOK'
<1>1. UNCHANGED runVars => TaskTypeOK'
  BY DEF TypeOK, TaskTypeOK, runVars
<1>2. ASSUME NEW t \in Tasks, Looks(t)
      PROVE  CoreTypeOK'
  BY <1>1, <1>2, NextGetIsAGet, AskingKeepsTypes
     DEF TypeOK, CoreTypeOK, Looks, LooksUp
<1>3. ASSUME NEW t \in Tasks, Stores(t)
      PROVE  CoreTypeOK'
  BY <1>1, <1>3, StoreKeepsTypes DEF TypeOK, CoreTypeOK, Stores
<1>4. CASE Expire
  BY <1>1, <1>4, EvictKeepsTypes DEF TypeOK, CoreTypeOK, Expire
<1>5. CASE AdminDeletes
  <2>1. APITypeOK'
    BY <1>5, WritesKeepTypes, DeletableAreUsers DEF TypeOK, AdminDeletes
  <2> QED
    BY <1>1, <1>5, <2>1, UntouchedTypesStay DEF TypeOK, CoreTypeOK, AdminDeletes, runVars
<1>6. CASE AdminEdits
  <2>1. PICK p \in Permissions, s \in Editable :
          \/ UpdatePermission(p, subjects[p] \cup {s})
          \/ UpdatePermission(p, subjects[p] \ {s})
    BY <1>6 DEF AdminEdits
  <2>2. /\ subjects[p] \cup {s} \in SUBSET Subjects
        /\ subjects[p] \ {s} \in SUBSET Subjects
    BY EditableAreSubjects DEF TypeOK, APITypeOK
  <2>3. APITypeOK'
    BY <2>1, <2>2, WritesKeepTypes DEF TypeOK
  <2> QED
    BY <1>1, <1>6, <2>3, UntouchedTypesStay DEF TypeOK, CoreTypeOK, AdminEdits, runVars
<1> QED
  BY <1>2, <1>3, <1>4, <1>5, <1>6

LEMMA InitIsTyped ==
    ASSUME Init
    PROVE  TypeOK
<1>1. APITypeOK
  BY InitialContainerIsTyped DEF Init
<1>2. CacheTypeOK
  BY ClientInitIsTyped DEF Init
<1>3. TaskTypeOK
  <2>1. PICK req \in [Tasks -> Requests] :
          task = [t \in Tasks |-> Fresh(req[t], "queued", 0)]
    BY DEF Init, RunInit
  <2>2. \A t \in Tasks : /\ Fresh(req[t], "queued", 0) \in TaskRows
                         /\ SendsItsOwn(Fresh(req[t], "queued", 0))
    BY DEF Fresh, TaskRows, Outcomes, SendsItsOwn, Sending
  <2> QED
    BY <2>1, <2>2 DEF Init, RunInit, TaskTypeOK
<1> QED
  BY <1>1, <1>2, <1>3 DEF TypeOK, Init

LEMMA NextKeepsTypes ==
    ASSUME TypeOK, [Next]_vars
    PROVE  TypeOK'
<1>1. touched' \in [Permissions -> SUBSET Subjects]
  <2>1. CASE Forget \/ UNCHANGED touched
    BY <2>1 DEF TypeOK, Forget
  <2>2. CASE AdminEdits
    BY <2>2, EditableAreSubjects DEF TypeOK, AdminEdits
  <2> QED
    BY <2>1, <2>2 DEF Next, Step, Looks, Stores, Expire, AdminDeletes, vars
<1>2. CASE UNCHANGED vars
  BY <1>2, UntouchedTypesStay DEF TypeOK, CoreTypeOK, vars, runVars, TaskTypeOK
<1>3. ASSUME NEW t \in Tasks, Step(t)
      PROVE  CoreTypeOK'
  BY <1>3, RunnerKeepsTypes, GroupKeepsTypes, RoleKeepsTypes, PermissionKeepsTypes,
     PutEnabledKeepsTypes DEF Step
<1>4. ASSUME Expire \/ AdminDeletes \/ AdminEdits \/ \E t \in Tasks : Looks(t) \/ Stores(t)
      PROVE  CoreTypeOK'
  BY <1>4, SurroundingsKeepTypes
<1> QED
  BY <1>1, <1>2, <1>3, <1>4 DEF Next, TypeOK, CoreTypeOK

(* Every variable keeps its type, and a task only ever sends the requests  *)
(* of the handler its request belongs to (connectorbuilder dispatches on   *)
(* the resource type once, and a retry starts the same handler again).     *)
THEOREM TypeCorrect == Spec => []TypeOK
<1>1. Init => TypeOK
  BY InitIsTyped
<1>2. TypeOK /\ [Next]_vars => TypeOK'
  BY NextKeepsTypes
<1> QED
  BY <1>1, <1>2, PTL DEF Spec

----------------------------------------------------------------------------
(* The copies of the permissions' subjects.                                *)

\* What a step leaves of the requests and of the handlers' copies.
TasksKeep ==
    /\ \A t \in Tasks : task'[t].req = task[t].req
    /\ \A t \in Tasks : task'[t].pc \in Copying => Alike(On(t), task'[t].draft)

\* What every step keeps, all of it measured by the subjects before the step.
StepKeeps ==
    /\ TasksKeep
    /\ \A p \in Permissions : Alike(p, subjects'[p])
    /\ \A p \in Permissions : \A list \in Answered(p)' : Alike(p, list)

LEMMA CopiesAre ==
    CopiesAgree <=> /\ \A p \in Permissions : \A list \in Answered(p) : Alike(p, list)
                    /\ \A t \in Tasks : On(t) \in Permissions /\ task[t].pc \in Copying =>
                         Alike(On(t), task[t].draft)
<1>1. \A p, list : list \in Drafts(p) <=>
          \E t \in Tasks : task[t].pc \in Copying /\ On(t) = p /\ list = task[t].draft
  BY DEF Drafts
<1> QED
  BY <1>1 DEF CopiesAgree, Copies

LEMMA RowKeepsCopies ==
    ASSUME TypeOK, CopiesAgree, NEW t \in Tasks, NEW row, Becomes(t, row),
           row.req = task[t].req,
           row.pc \in Copying => Alike(On(t), row.draft)
    PROVE  TasksKeep
<1>1. \A x \in Tasks : task'[x] = IF x = t THEN row ELSE task[x]
  BY DEF Becomes, TypeOK, TaskTypeOK
<1>2. \A x \in Tasks : task[x].pc \in Copying => Alike(On(x), task[x].draft)
  BY CopiesAre, TasksFit DEF Copying, SendsItsOwn, On
<1> QED
  BY <1>1, <1>2 DEF TasksKeep

(* However a request ends, unless the handler goes on with a copy.         *)
LEMMA EndingsKeepCopies ==
    ASSUME TypeOK, CopiesAgree, NEW t \in Tasks, NEW pc \in Sending \ Copying,
           NEW awake, NEW outcome, NEW retryable,
           \/ Goto(t, pc)
           \/ Finish(t, outcome)
           \/ Fail(t, retryable)
           \/ AnswerLost(t)
           \/ ReEnableUserIfNeeded(t, awake, outcome)
    PROVE  TasksKeep
<1>1. task[t] \in TaskRows
  BY TasksFit
<1>2. CASE Goto(t, pc)
  BY <1>1, <1>2, RowKeepsCopies DEF Goto, TaskRows
<1>3. \A o : /\ Over(t, o).req = task[t].req
             /\ Over(t, o).pc \notin Copying
             /\ [Over(t, o) EXCEPT !.pc = "enable"].req = task[t].req
             /\ [Over(t, o) EXCEPT !.pc = "enable"].pc \notin Copying
  BY <1>1 DEF Over, Copying, TaskRows
<1>4. Again(t).req = task[t].req /\ Again(t).pc \notin Copying
  BY DEF Again, Fresh, FirstRequest, Copying
<1>5. \A o : Becomes(t, Over(t, o)) => TasksKeep
  BY <1>3, RowKeepsCopies
<1>6. Becomes(t, Again(t)) => TasksKeep
  BY <1>4, RowKeepsCopies
<1>7. \A o : Becomes(t, [Over(t, o) EXCEPT !.pc = "enable"]) => TasksKeep
  BY <1>3, RowKeepsCopies
<1>8. CASE Finish(t, outcome)
  BY <1>5, <1>8 DEF Finish
<1>9. \A r : Fail(t, r) => TasksKeep
  BY <1>5, <1>6 DEF Fail
<1>10. CASE ReEnableUserIfNeeded(t, awake, outcome)
  BY <1>5, <1>7, <1>10 DEF ReEnableUserIfNeeded, Finish
<1> QED
  BY <1>2, <1>8, <1>9, <1>10 DEF AnswerLost

(* The subjects are left alone by every request but the PUT of a           *)
(* permission, and the cached permissions by every GET but a permission's. *)
LEMMA QuietRequests ==
    ASSUME TypeOK, CopiesAgree,
           \/ UNCHANGED <<subjects, cache, unstored>>
           \/ \E t \in Tasks : \E u, a : GetUserDetails(t, u, a)
           \/ \E t \in Tasks : \E g, a : GetGroupMembers(t, g, a)
           \/ \E t \in Tasks : \E u, a : GetUserRoles(t, u, a)
    PROVE  /\ \A p \in Permissions : Alike(p, subjects'[p])
           /\ \A p \in Permissions : \A list \in Answered(p)' : Alike(p, list)
<1>1. subjects' = subjects /\ cache' = cache
  BY DEF GetUserDetails, GetGroupMembers, GetUserRoles, apiVars
<1>2. \A t \in Tasks : unstored'[t].perm = unstored[t].perm
  <2>1. unstored \in [Tasks -> Caches]
    BY DEF TypeOK, CacheTypeOK
  <2>2. ASSUME NEW t \in Tasks, NEW x \in Tasks, NEW u, NEW a
        PROVE  /\ [unstored EXCEPT ![t].user[u] = Kept(a)][x].perm = unstored[x].perm
               /\ [unstored EXCEPT ![t].member[u] = Kept(a)][x].perm = unstored[x].perm
               /\ [unstored EXCEPT ![t].role[u] = Kept(a)][x].perm = unstored[x].perm
    BY <2>1 DEF Caches
  <2>3. CASE UNCHANGED unstored
    BY <2>3
  <2>4. CASE \E t \in Tasks : \E u, a : GetUserDetails(t, u, a)
    BY <2>2, <2>4 DEF GetUserDetails
  <2>5. CASE \E t \in Tasks : \E g, a : GetGroupMembers(t, g, a)
    BY <2>2, <2>5 DEF GetGroupMembers
  <2>6. CASE \E t \in Tasks : \E u, a : GetUserRoles(t, u, a)
    BY <2>2, <2>6 DEF GetUserRoles
  <2> QED
    BY <2>3, <2>4, <2>5, <2>6
<1> QED
  BY <1>1, <1>2, CopiesAre DEF Alike, Answered

LEMMA RunnerKeepsCopies ==
    ASSUME TypeOK, CopiesAgree, NEW t \in Tasks, RunnerStep(t)
    PROVE  StepKeeps
<1>1. FirstRequest(task[t].req) \in Sending \ Copying
  BY DEF FirstRequest, Sending, Copying
<1>2. TasksKeep
  BY <1>1, EndingsKeepCopies
     DEF RunnerStep, Start, RequestFails, Refused, EnableUser
<1>3. UNCHANGED <<subjects, cache, unstored>>
  BY DEF RunnerStep, Start, RequestFails, Refused, EnableUser, SetUserEnabled, apiVars, clientVars, GivesUp
<1> QED
  BY <1>2, <1>3, QuietRequests DEF StepKeeps

LEMMA GroupKeepsCopies ==
    ASSUME TypeOK, CopiesAgree, NEW t \in Tasks, GroupStep(t)
    PROVE  StepKeeps
<1>1. \A pc \in {"addMember", "delMember"} : pc \in Sending \ Copying
  BY DEF Sending, Copying
<1>2. CASE AddMember(t)
  <2> DEFINE row == [task[t] EXCEPT !.pc = "getStatus", !.outcome = "ok"]
  <2>1. row.req = task[t].req /\ row.pc \notin Copying
    BY TasksFit DEF TaskRows, Copying
  <2>2. TasksKeep
    BY <1>1, <1>2, <2>1, RowKeepsCopies, EndingsKeepCopies DEF AddMember
  <2>3. UNCHANGED <<subjects, cache, unstored>>
    BY <1>2 DEF AddMember, AddGroupMember, clientVars
  <2> QED
    BY <2>2, <2>3, QuietRequests DEF StepKeeps
<1>3. CASE RemoveMember(t)
  <2>1. TasksKeep
    BY <1>1, <1>3, EndingsKeepCopies DEF RemoveMember
  <2>2. UNCHANGED <<subjects, cache, unstored>>
    BY <1>3 DEF RemoveMember, RemoveGroupMember, clientVars
  <2> QED
    BY <2>1, <2>2, QuietRequests DEF StepKeeps
<1>4. CASE GrantReadsMembers(t) \/ RevokeReadsMembers(t) \/ ReadStatus(t)
  <2>1. TasksKeep
    BY <1>1, <1>4, EndingsKeepCopies DEF GrantReadsMembers, RevokeReadsMembers, ReadStatus
  <2>2. \/ \E g, a : GetGroupMembers(t, g, a)
        \/ \E u, a : GetUserDetails(t, u, a)
    BY <1>4 DEF GrantReadsMembers, RevokeReadsMembers, ReadStatus
  <2> QED
    BY <2>1, <2>2, QuietRequests DEF StepKeeps
<1> QED
  BY <1>2, <1>3, <1>4 DEF GroupStep

LEMMA RoleKeepsCopies ==
    ASSUME TypeOK, CopiesAgree, NEW t \in Tasks, RoleStep(t)
    PROVE  StepKeeps
<1>1. \A pc \in {"listRoles", "putRole"} : pc \in Sending \ Copying
  BY DEF Sending, Copying
<1>2. CASE RoleReadsUser(t)
  <2>1. PICK awake \in UserAnswers(t, Who(t)) :
          /\ GetUserDetails(t, Who(t), awake)
          /\ Becomes(t, [task[t] EXCEPT !.pc = "getRoles",
                                        !.awake = awake /\ Op(t) = "grant"])
    BY <1>2 DEF RoleReadsUser
  <2> DEFINE row == [task[t] EXCEPT !.pc = "getRoles",
                                    !.awake = awake /\ Op(t) = "grant"]
  <2>2. row.req = task[t].req /\ row.pc \notin Copying
    BY TasksFit DEF TaskRows, Copying
  <2>3. TasksKeep
    BY <2>1, <2>2, RowKeepsCopies
  <2> QED
    BY <2>1, <2>3, QuietRequests DEF StepKeeps
<1>3. CASE GrantReadsRoles(t) \/ RevokeReadsRoles(t)
  <2>1. TasksKeep
    BY <1>1, <1>3, EndingsKeepCopies DEF GrantReadsRoles, RevokeReadsRoles
  <2>2. \E u, a : GetUserRoles(t, u, a)
    BY <1>3 DEF GrantReadsRoles, RevokeReadsRoles
  <2> QED
    BY <2>1, <2>2, QuietRequests DEF StepKeeps
<1>4. CASE FindBasicRole(t) \/ AssignRole(t) \/ DemoteToBasic(t)
  <2>1. TasksKeep
    BY <1>1, <1>4, EndingsKeepCopies DEF FindBasicRole, AssignRole, DemoteToBasic
  <2>2. UNCHANGED <<subjects, cache, unstored>>
    BY <1>4 DEF FindBasicRole, AssignRole, DemoteToBasic, SetUserRoles, apiVars, clientVars
  <2> QED
    BY <2>1, <2>2, QuietRequests DEF StepKeeps
<1> QED
  BY <1>2, <1>3, <1>4 DEF RoleStep

(* Only here are the copies read, edited and written.  The user a task is  *)
(* about is no bystander, so editing the copy by that user keeps it alike. *)
LEMMA PermissionKeepsCopies ==
    ASSUME TypeOK, CopiesAgree, NEW t \in Tasks, PermissionStep(t)
    PROVE  StepKeeps
<1>1. "addMember" \in Sending \ Copying
  BY DEF Sending, Copying
<1>2. task[t].pc \in Copying => Who(t) \in Users /\ On(t) \in Permissions
  BY TasksFit DEF Copying, SendsItsOwn, Sending, Who, On
<1>3. task[t].pc \in Copying => Alike(On(t), task[t].draft)
  BY <1>2, CopiesAre
<1>4. Who(t) \in Users => Who(t) \notin Untouched(On(t))
  BY DEF Bystanders, Untouched
<1>5. CASE TurnDown(t)
  <2>1. TasksKeep
    BY <1>1, <1>5, EndingsKeepCopies DEF TurnDown
  <2>2. UNCHANGED <<subjects, cache, unstored>>
    BY <1>5 DEF TurnDown, apiVars, clientVars
  <2> QED
    BY <2>1, <2>2, QuietRequests DEF StepKeeps
<1>6. CASE ReadPermission(t)
  <2>1. PICK list \in PermAnswers(t, On(t)) :
          /\ GetPermissionDetails(t, On(t), list)
          /\ Becomes(t, [task[t] EXCEPT !.pc = "getSubject", !.draft = list])
    BY <1>6 DEF ReadPermission
  <2> DEFINE row == [task[t] EXCEPT !.pc = "getSubject", !.draft = list]
  <2>2. On(t) \in Permissions
    BY <1>6, TasksFit DEF ReadPermission, At, SendsItsOwn, On
  <2>3. Alike(On(t), list)
    <3>1. list \in cache.perm[On(t)] \/ list = subjects[On(t)]
      BY <2>2, EntriesAre DEF PermAnswers, Answers, Served
    <3> QED
      BY <2>2, <3>1, CopiesAre DEF Answered, Alike
  <2>4. row.req = task[t].req /\ row.draft = list
    BY TasksFit DEF TaskRows
  <2>5. TasksKeep
    BY <2>1, <2>3, <2>4, RowKeepsCopies
  <2>6. \A p \in Permissions : Alike(p, subjects'[p])
    BY <2>1 DEF GetPermissionDetails, apiVars, Alike
  <2>7. \A p \in Permissions : Answered(p)' \subseteq
          IF p = On(t) THEN Answered(p) \cup {list} ELSE Answered(p)
    <3>1. unstored \in [Tasks -> Caches]
      BY DEF TypeOK, CacheTypeOK
    <3>2. \A p \in Permissions, x \in Tasks : unstored'[x].perm[p] \subseteq
            IF p = On(t) THEN unstored[x].perm[p] \cup {list} ELSE unstored[x].perm[p]
      BY <2>1, <3>1 DEF GetPermissionDetails, Kept, Caches
    <3>3. cache' = cache
      BY <2>1 DEF GetPermissionDetails
    <3> QED
      BY <3>2, <3>3 DEF Answered
  <2>8. \A p \in Permissions : \A copy \in Answered(p)' : Alike(p, copy)
    BY <2>3, <2>7, CopiesAre
  <2> QED
    BY <2>5, <2>6, <2>8 DEF StepKeeps
<1>7. CASE GrantReadsSubject(t)
  <2>1. PICK awake \in UserAnswers(t, Who(t)) :
          /\ GetUserDetails(t, Who(t), awake)
          /\ \/ ReEnableUserIfNeeded(t, awake, "exists")
             \/ Becomes(t, [task[t] EXCEPT !.pc = "putPerm", !.awake = awake,
                                           !.draft = task[t].draft \cup {Who(t)}])
    BY <1>7 DEF GrantReadsSubject
  <2> DEFINE row == [task[t] EXCEPT !.pc = "putPerm", !.awake = awake,
                                    !.draft = task[t].draft \cup {Who(t)}]
  <2>2. row.req = task[t].req /\ row.draft = task[t].draft \cup {Who(t)}
    BY TasksFit DEF TaskRows
  <2>3. Alike(On(t), task[t].draft \cup {Who(t)})
    BY <1>2, <1>3, <1>4, <1>7 DEF GrantReadsSubject, At, Copying, Alike
  <2>4. TasksKeep
    BY <1>1, <2>1, <2>2, <2>3, RowKeepsCopies, EndingsKeepCopies
  <2> QED
    BY <2>1, <2>4, QuietRequests DEF StepKeeps
<1>8. CASE RevokeReadsSubject(t)
  <2>1. PICK awake \in UserAnswers(t, Who(t)) :
          /\ GetUserDetails(t, Who(t), awake)
          /\ \/ Finish(t, "alreadyRevoked")
             \/ Becomes(t, [task[t] EXCEPT !.pc = "putPerm",
                                           !.draft = task[t].draft \ {Who(t)}])
    BY <1>8 DEF RevokeReadsSubject
  <2> DEFINE row == [task[t] EXCEPT !.pc = "putPerm",
                                    !.draft = task[t].draft \ {Who(t)}]
  <2>2. row.req = task[t].req /\ row.draft = task[t].draft \ {Who(t)}
    BY TasksFit DEF TaskRows
  <2>3. Alike(On(t), task[t].draft \ {Who(t)})
    BY <1>2, <1>3, <1>4, <1>8 DEF RevokeReadsSubject, At, Copying, Alike
  <2>4. TasksKeep
    BY <1>1, <2>1, <2>2, <2>3, RowKeepsCopies, EndingsKeepCopies
  <2> QED
    BY <2>1, <2>4, QuietRequests DEF StepKeeps
<1>9. CASE PutPermission(t)
  <2>1. TasksKeep
    BY <1>1, <1>9, EndingsKeepCopies DEF PutPermission
  <2>2. On(t) \in Permissions /\ Alike(On(t), task[t].draft)
    BY <1>2, <1>3, <1>9 DEF PutPermission, At, Copying
  <2>3. \A p \in Permissions :
          subjects'[p] = IF p = On(t) THEN task[t].draft ELSE subjects[p]
    BY <1>9 DEF PutPermission, UpdatePermission, TypeOK, APITypeOK
  <2>4. \A p \in Permissions : Alike(p, subjects'[p])
    BY <2>2, <2>3 DEF Alike
  <2>5. \A p \in Permissions : \A list \in Answered(p)' : Alike(p, list)
    BY <1>9, CopiesAre DEF PutPermission, clientVars, Answered
  <2> QED
    BY <2>1, <2>4, <2>5 DEF StepKeeps
<1> QED
  BY <1>5, <1>6, <1>7, <1>8, <1>9 DEF PermissionStep

LEMMA PutEnabledKeepsCopies ==
    ASSUME TypeOK, CopiesAgree, NEW t \in Tasks, PutEnabled(t)
    PROVE  StepKeeps
<1>1. "addMember" \in Sending \ Copying
  BY DEF Sending, Copying
<1>2. TasksKeep
  BY <1>1, EndingsKeepCopies DEF PutEnabled
<1>3. UNCHANGED <<subjects, cache, unstored>>
  BY DEF PutEnabled, SetUserEnabled, clientVars
<1> QED
  BY <1>2, <1>3, QuietRequests DEF StepKeeps

(* Storing an answer replaces an entry by a copy there already was.        *)
LEMMA CacheKeepsCopies ==
    ASSUME TypeOK, CopiesAgree,
           \/ \E t \in Tasks : Looks(t) \/ Stores(t)
           \/ Expire
           \/ AdminDeletes
           \/ UNCHANGED vars
    PROVE  StepKeeps
<1>1. task' = task /\ subjects' = subjects
  BY DEF Looks, LooksUp, Misses, Stores, Store, Expire, Evict, AdminDeletes, DeleteUser,
         vars, apiVars, runVars
<1>2. TasksKeep
  BY <1>1, CopiesAre, TasksFit DEF TasksKeep, Copying, SendsItsOwn, On
<1>3. \A p \in Permissions : Answered(p)' \subseteq Answered(p)
  <2>1. CASE UNCHANGED <<cache, unstored>>
    BY <2>1 DEF Answered
  <2>2. CASE Expire
    <3>1. \A p \in Permissions : cache'.perm[p] \subseteq cache.perm[p]
      BY <2>2 DEF Expire, Evict, TypeOK, CacheTypeOK, Caches
    <3> QED
      BY <2>2, <3>1 DEF Expire, Evict, Answered
  <2>3. ASSUME NEW t \in Tasks, Stores(t)
        PROVE  \A p \in Permissions : Answered(p)' \subseteq Answered(p)
    <3>1. \A p \in Permissions :
            cache'.perm[p] \subseteq cache.perm[p] \cup unstored[t].perm[p]
      BY <2>3 DEF Stores, Store, Served
    <3>2. \A p \in Permissions, x \in Tasks : unstored'[x].perm[p] \subseteq unstored[x].perm[p]
      BY <2>3 DEF Stores, Store, EmptyCache, TypeOK, CacheTypeOK
    <3> QED
      BY <3>1, <3>2 DEF Answered
  <2> QED
    BY <2>1, <2>2, <2>3 DEF Looks, LooksUp, Misses, AdminDeletes, vars, clientVars
<1> QED
  BY <1>1, <1>2, <1>3, CopiesAre DEF StepKeeps, Alike

LEMMA NextKeepsCopies ==
    ASSUME TypeOK, CopiesAgree, [Next]_vars
    PROVE  AdminEdits \/ (StepKeeps /\ (Forget \/ UNCHANGED touched))
<1>1. ASSUME NEW t \in Tasks, Step(t)
      PROVE  StepKeeps
  BY <1>1, RunnerKeepsCopies, GroupKeepsCopies, RoleKeepsCopies, PermissionKeepsCopies,
     PutEnabledKeepsCopies DEF Step
<1> QED
  BY <1>1, CacheKeepsCopies DEF Next, Step, Looks, Stores, Expire, AdminDeletes, vars

(* The bystanders are the same after the step, and so are their places in  *)
(* the lists: what is alike before the step is alike after it.  What       *)
(* administrators did is forgotten only where there are no copies.         *)
LEMMA StepKeepsCopies ==
    ASSUME TypeOK, CopiesAgree, StepKeeps, Forget \/ UNCHANGED touched
    PROVE  CopiesAgree'
<1> SUFFICES ASSUME NEW p \in Permissions, NEW list \in Copies(p)'
             PROVE  Alike(p, list)'
  BY DEF CopiesAgree
<1>1. Bystanders(p)' = Bystanders(p)
  BY DEF StepKeeps, TasksKeep, Bystanders, On, Who
<1>2. touched'[p] = touched[p]
  BY DEF Forget
<1>3. Untouched(p)' = Untouched(p)
  BY <1>1, <1>2 DEF Untouched
<1>4. Alike(p, list)
  <2>1. list \in Answered(p)' \/ list \in Drafts(p)'
    BY DEF Copies
  <2>2. \/ list \in Answered(p)'
        \/ \E t \in Tasks : task'[t].pc \in Copying /\ On(t)' = p /\ list = task'[t].draft
    BY <2>1 DEF Drafts
  <2> QED
    BY <2>2 DEF StepKeeps, TasksKeep, On
<1> QED
  BY <1>3, <1>4 DEF StepKeeps, Alike

(* Administrators change one subject's place on a permission; if there are *)
(* copies, it is not one the copies have to be right about any more.       *)
LEMMA EditsKeepCopies ==
    ASSUME TypeOK, CopiesAgree, AdminEdits
    PROVE  CopiesAgree'
<1> SUFFICES ASSUME NEW q \in Permissions, NEW list \in Copies(q)'
             PROVE  Alike(q, list)'
  BY DEF CopiesAgree
<1>1. PICK p \in Permissions, s \in Editable :
        /\ \/ UpdatePermission(p, subjects[p] \cup {s})
           \/ UpdatePermission(p, subjects[p] \ {s})
        /\ touched' = [touched EXCEPT ![p] = IF Copies(p) = {} THEN @ ELSE @ \cup {s}]
  BY DEF AdminEdits
<1>2. list \in Copies(q)
  BY DEF AdminEdits, Copies, Answered, Drafts, On, clientVars, runVars
<1>3. Bystanders(q)' = Bystanders(q)
  BY DEF AdminEdits, Bystanders, On, Who, runVars
<1>4. touched'[q] = IF q = p THEN touched[q] \cup {s} ELSE touched[q]
  BY <1>1, <1>2 DEF TypeOK
<1>5. \A x : x \in subjects'[q] <=> IF q = p /\ x = s THEN x \in subjects'[q]
                                                     ELSE x \in subjects[q]
  BY <1>1 DEF UpdatePermission, TypeOK, APITypeOK
<1>6. \A x : x \in Untouched(q)' => x \in Untouched(q) /\ (q = p => x # s)
  BY <1>3, <1>4 DEF Untouched
<1>7. list \cap Untouched(q) = subjects[q] \cap Untouched(q)
  BY <1>2 DEF CopiesAgree, Alike
<1>8. list \cap Untouched(q)' = subjects'[q] \cap Untouched(q)'
  BY <1>5, <1>6, <1>7
<1> QED
  BY <1>8 DEF Alike

(* Every copy of a permission's subjects - cached, on its way to the cache *)
(* or about to be written back by permissions.go - agrees with the server  *)
(* on everybody but the users the tasks are about and those administrators *)
(* edited since: CopiesAgree is inductive given TypeOK, and holds at first *)
(* because there are no copies.                                            *)
THEOREM CopiesAlwaysAgree == Spec => []CopiesAgree
<1>1. Init => TypeOK /\ CopiesAgree
  <2>1. ASSUME Init PROVE CopiesAgree
    <3>1. \A t \in Tasks : task[t].pc = "queued"
      BY <2>1 DEF Init, RunInit, Fresh
    <3>2. \A p \in Permissions : Answered(p) = {}
      BY <2>1 DEF Init, ClientInit, EmptyCache, Answered
    <3> QED
      BY <3>1, <3>2, CopiesAre DEF Copying
  <2> QED
    BY <2>1, InitIsTyped
<1>2. (TypeOK /\ CopiesAgree) /\ [Next]_vars => (TypeOK /\ CopiesAgree)'
  BY NextKeepsTypes, NextKeepsCopies, StepKeepsCopies, EditsKeepCopies
<1> QED
  BY <1>1, <1>2, PTL DEF Spec

(* Writing a permission's subjects back as a whole (client.go              *)
(* UpdatePermission) drops or adds a group, a container-wide subject or a  *)
(* user no task is about only if an administrator changed that subject's   *)
(* place while the connector had a copy of the list, however stale the     *)
(* copy is otherwise and however many tasks write.                         *)
THEOREM BystandersAreKept == Spec => BystandersKept
<1>1. TypeOK /\ CopiesAgree /\ [Next]_vars
        => [AdminEdits \/ \A p \in Permissions : Alike(p, subjects'[p])]_vars
  BY NextKeepsCopies DEF StepKeeps
<1> QED
  BY <1>1, TypeCorrect, CopiesAlwaysAgree, PTL DEF Spec, BystandersKept
=============================================================================
