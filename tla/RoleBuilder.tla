---------------------------- MODULE RoleBuilder -----------------------------
(***************************************************************************)
(* pkg/connector/roles.go: granting and revoking a role.  A user holds one *)
(* role, so a grant replaces the role and a revoke replaces it with Basic. *)
(***************************************************************************)
EXTENDS TaskRunner

\* Both start from the user's details: the UUID, and for a grant whether
\* the user is enabled.
RoleReadsUser(t) ==
    /\ At(t, "getUser")
    /\ \E awake \in UserAnswers(t, Who(t)) :
         /\ GetUserDetails(t, Who(t), awake)
         /\ Becomes(t, [task[t] EXCEPT !.pc = "getRoles",
                                       !.awake = awake /\ Op(t) = "grant"])
         /\ UNCHANGED faults

\* Grant: a role already held needs no write.
GrantReadsRoles(t) ==
    /\ At(t, "getRoles")
    /\ Op(t) = "grant"
    /\ \E held \in RoleAnswers(t, Who(t)) :
         /\ GetUserRoles(t, Who(t), held)
         /\ \/ /\ On(t) \in held
               /\ ReEnableUserIfNeeded(t, task[t].awake, "exists")
            \/ /\ On(t) \notin held
               /\ Goto(t, "putRole")

\* A mutant of RevokeReadsRoles that does not look whether the role is held.
RevokeReadsRolesUnchecked(t) ==
    /\ At(t, "getRoles")
    /\ Op(t) = "revoke"
    /\ \E held \in RoleAnswers(t, Who(t)) :
         GetUserRoles(t, Who(t), held) /\ Goto(t, "listRoles")

\* Revoke: a role not held is reported as already revoked.
RevokeReadsRoles(t) ==
    /\ At(t, "getRoles")
    /\ Op(t) = "revoke"
    /\ \E held \in RoleAnswers(t, Who(t)) :
         /\ GetUserRoles(t, Who(t), held)
         /\ \/ On(t) \in held /\ Goto(t, "listRoles")
            \/ On(t) \notin held /\ Finish(t, "alreadyRevoked")

\* A mutant of FindBasicRole that takes Basic away too.
FindBasicRoleUnchecked(t) ==
    /\ At(t, "listRoles")
    /\ UNCHANGED <<apiVars, clientVars>>
    /\ Goto(t, "putRole")

\* basicRoleUUID, then the refusal to take Basic away: FailedPrecondition.
FindBasicRole(t) ==
    /\ At(t, "listRoles")
    /\ UNCHANGED <<apiVars, clientVars>>
    /\ \/ On(t) = BasicRole /\ Fail(t, FALSE) /\ UNCHANGED faults
       \/ On(t) # BasicRole /\ Goto(t, "putRole")

\* UpdateUserRoles with the granted role.
AssignRole(t) ==
    /\ At(t, "putRole")
    /\ Op(t) = "grant"
    /\ SetUserRoles(Who(t), {On(t)})
    /\ UNCHANGED clientVars
    /\ ReEnableUserIfNeeded(t, task[t].awake, "ok") \/ AnswerLost(t)

\* UpdateUserRoles with Basic.
DemoteToBasic(t) ==
    /\ At(t, "putRole")
    /\ Op(t) = "revoke"
    /\ SetUserRoles(Who(t), {BasicRole})
    /\ UNCHANGED clientVars
    /\ Finish(t, "ok") \/ AnswerLost(t)

RoleStep(t) ==
    \/ RoleReadsUser(t)
    \/ GrantReadsRoles(t)
    \/ RevokeReadsRoles(t)
    \/ FindBasicRole(t)
    \/ AssignRole(t)
    \/ DemoteToBasic(t)
=============================================================================
