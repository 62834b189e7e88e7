---------------------------- MODULE GroupBuilder ----------------------------
(***************************************************************************)
(* pkg/connector/groups.go: granting and revoking a group membership.      *)
(* Both list the members first and write only when the list says so.       *)
(***************************************************************************)
EXTENDS TaskRunner

\* A mutant of Lists that takes any member for the user.
ListsAlways(list, u) == list # {}

Lists(list, u) == \E awake \in BOOLEAN : <<u, awake>> \in list

\* Grant: a user already listed is re-enabled from the list's own copy of
\* it; any other user is added.
GrantReadsMembers(t) ==
    /\ At(t, "getMembers")
    /\ Op(t) = "grant"
    /\ \E list \in MemberAnswers(t, On(t)) :
         /\ GetGroupMembers(t, On(t), list)
         /\ \/ /\ Lists(list, Who(t))
               /\ ReEnableUserIfNeeded(t, <<Who(t), TRUE>> \in list, "exists")
            \/ /\ ~Lists(list, Who(t))
               /\ Goto(t, "addMember")

\* CreateUserGroupMembership; the user's status is read only for the option.
AddMember(t) ==
    /\ At(t, "addMember")
    /\ AddGroupMember(On(t), Who(t))
    /\ UNCHANGED clientVars
    /\ \/ /\ EnableOnProvision
          /\ Becomes(t, [task[t] EXCEPT !.pc = "getStatus", !.outcome = "ok"])
          /\ UNCHANGED faults
       \/ ~EnableOnProvision /\ Finish(t, "ok")
       \/ AnswerLost(t)

ReadStatus(t) ==
    /\ At(t, "getStatus")
    /\ \E awake \in UserAnswers(t, Who(t)) :
         /\ GetUserDetails(t, Who(t), awake)
         /\ ReEnableUserIfNeeded(t, awake, "ok")

\* Revoke: a user the list does not name is reported as already revoked.
RevokeReadsMembers(t) ==
    /\ At(t, "getMembers")
    /\ Op(t) = "revoke"
    /\ \E list \in MemberAnswers(t, On(t)) :
         /\ GetGroupMembers(t, On(t), list)
         /\ \/ Lists(list, Who(t)) /\ Goto(t, "delMember")
            \/ ~Lists(list, Who(t)) /\ Finish(t, "alreadyRevoked")

\* DeleteUserGroupMembership.
RemoveMember(t) ==
    /\ At(t, "delMember")
    /\ RemoveGroupMember(On(t), Who(t))
    /\ UNCHANGED clientVars
    /\ Finish(t, "ok") \/ AnswerLost(t)

GroupStep(t) ==
    \/ GrantReadsMembers(t)
    \/ AddMember(t)
    \/ ReadStatus(t)
    \/ RevokeReadsMembers(t)
    \/ RemoveMember(t)
=============================================================================
