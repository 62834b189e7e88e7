-------------------------- MODULE PermissionBuilder -------------------------
(***************************************************************************)
(* pkg/connector/permissions.go: granting and revoking a permission.  The  *)
(* API has no request to add or remove one subject, so both read the       *)
(* permission, edit their copy of its subjects (draft) and write the whole *)
(* list back.                                                              *)
(***************************************************************************)
EXTENDS TaskRunner

\* "can not grant to resource type": only users can be named.
TurnDown(t) ==
    /\ TurnedDown(t)
    /\ Fail(t, FALSE)
    /\ UNCHANGED <<apiVars, clientVars, faults>>

ReadPermission(t) ==
    /\ At(t, "getPerm")
    /\ ~TurnedDown(t)
    /\ \E list \in PermAnswers(t, On(t)) :
         /\ GetPermissionDetails(t, On(t), list)
         /\ Becomes(t, [task[t] EXCEPT !.pc = "getSubject", !.draft = list])
         /\ UNCHANGED faults

\* A mutant of GrantReadsSubject that starts a new list instead of appending.
GrantStartsList(t) ==
    /\ At(t, "getSubject")
    /\ Op(t) = "grant"
    /\ \E awake \in UserAnswers(t, Who(t)) :
         /\ GetUserDetails(t, Who(t), awake)
         /\ Becomes(t, [task[t] EXCEPT !.pc = "putPerm", !.awake = awake,
                                       !.draft = {Who(t)}])
         /\ UNCHANGED faults

\* Grant: a user the copy names is only re-enabled; any other is appended.
GrantReadsSubject(t) ==
    /\ At(t, "getSubject")
    /\ Op(t) = "grant"
    /\ \E awake \in UserAnswers(t, Who(t)) :
         /\ GetUserDetails(t, Who(t), awake)
         /\ \/ /\ Who(t) \in task[t].draft
               /\ ReEnableUserIfNeeded(t, awake, "exists")
            \/ /\ Who(t) \notin task[t].draft
               /\ Becomes(t, [task[t] EXCEPT !.pc = "putPerm", !.awake = awake,
                                             !.draft = task[t].draft \cup {Who(t)}])
               /\ UNCHANGED faults

\* Revoke: a user the copy does not name is reported as already revoked.
RevokeReadsSubject(t) ==
    /\ At(t, "getSubject")
    /\ Op(t) = "revoke"
    /\ \E awake \in UserAnswers(t, Who(t)) :
         /\ GetUserDetails(t, Who(t), awake)
         /\ \/ /\ Who(t) \notin task[t].draft
               /\ Finish(t, "alreadyRevoked")
            \/ /\ Who(t) \in task[t].draft
               /\ Becomes(t, [task[t] EXCEPT !.pc = "putPerm",
                                             !.draft = task[t].draft \ {Who(t)}])
               /\ UNCHANGED faults

\* A mutant of PutPermission that sends the users of the copy only.
PutUsersOnly(t) ==
    /\ At(t, "putPerm")
    /\ UpdatePermission(On(t), task[t].draft \cap Users)
    /\ UNCHANGED clientVars
    /\ Finish(t, "ok")

\* UpdatePermission with the edited copy.
PutPermission(t) ==
    /\ At(t, "putPerm")
    /\ UpdatePermission(On(t), task[t].draft)
    /\ UNCHANGED clientVars
    /\ \/ Op(t) = "grant" /\ ReEnableUserIfNeeded(t, task[t].awake, "ok")
       \/ Op(t) = "revoke" /\ Finish(t, "ok")
       \/ AnswerLost(t)

PermissionStep(t) ==
    \/ TurnDown(t)
    \/ ReadPermission(t)
    \/ GrantReadsSubject(t)
    \/ RevokeReadsSubject(t)
    \/ PutPermission(t)
=============================================================================
