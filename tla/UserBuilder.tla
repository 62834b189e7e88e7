----------------------------- MODULE UserBuilder ----------------------------
(***************************************************************************)
(* The three tasks that set a user's enabled flag and do nothing else: the *)
(* enable and disable actions of pkg/connector/actions.go, and the Delete  *)
(* of pkg/connector/users.go, which disables the user.  None is retried,   *)
(* and a lost answer is reported as a failure although the flag changed.   *)
(***************************************************************************)
EXTENDS TaskRunner

PutEnabled(t) ==
    /\ At(t, "setEnabled")
    /\ SetUserEnabled(Who(t), Op(t) = "enable")
    /\ UNCHANGED clientVars
    /\ Finish(t, "ok") \/ AnswerLost(t)
=============================================================================
