--------------------------- MODULE ActionManager ----------------------------
(***************************************************************************)
(* The actions enable_account and disable_account (actions.go) as the      *)
(* SDK's action manager runs them.  The handler runs detached from the     *)
(* call that invoked it: the call answers when the handler has finished,   *)
(* when the inline wait is over, or when the call is cancelled, and        *)
(* whoever was told "in flight" asks for the status later.                 *)
(*                                                                         *)
(* A record is only ever read or written under its lock, so each section   *)
(* that holds the lock is one step.                                        *)
(***************************************************************************)
EXTENDS TestServer

CONSTANTS
    Actions,            \* invocations
    Targets             \* the users they may name

ASSUME TargetsAreIds == Targets \subseteq Ids

VARIABLE action         \* action[x]: the OutstandingAction, its handler and caller

Settled == {"COMPLETE", "FAILED"}
Statuses == {"PENDING", "RUNNING"} \cup Settled

\* handler: the detached goroutine, and the result of its request.  applied,
\* a history variable: its PUT took effect.  caller: the call, and what it
\* was told; "gone" is one that was cancelled and returned an error.
ActionRows ==
    [on        : BOOLEAN,
     who       : Ids,
     status    : {"none"} \cup Statuses,
     cancelled : BOOLEAN,
     handler   : {"idle", "ready", "put", "publish", "close", "closed"},
     result    : {"none", "ok", "error"},
     applied   : BOOLEAN,
     caller    : {"idle", "waiting", "cancelling", "told", "gone"},
     told      : {"none"} \cup Statuses]

NoAction == [on |-> TRUE, who |-> 1, status |-> "none", cancelled |-> FALSE,
             handler |-> "idle", result |-> "none", applied |-> FALSE,
             caller |-> "idle", told |-> "none"]

ActionsInit == action = [x \in Actions |-> NoAction]

Becomes(x, row) == action' = [action EXCEPT ![x] = row]

----------------------------------------------------------------------------
(* The record's transitions. *)

\* setStatusLocked: terminal statuses are final, RUNNING follows PENDING.
Accepts(row, status) ==
    /\ row.status \notin Settled
    /\ status = "RUNNING" => row.status = "PENDING"

WithStatus(row, status) ==
    IF Accepts(row, status) THEN [row EXCEPT !.status = status] ELSE row

\* A mutant of WithCancel that forgets the mark.
CancelForGood(row) == WithStatus(row, "FAILED")

\* setCancelled: a failure the handler's outcome may still replace.
WithCancel(row) ==
    IF Accepts(row, "FAILED")
    THEN [row EXCEPT !.status = "FAILED", !.cancelled = TRUE]
    ELSE row

\* setOutcome: a failure stays or becomes FAILED for good; a success
\* replaces a provisional failure, and otherwise only what is not settled.
WithOutcome(row, status) ==
    IF row.cancelled \/ Accepts(row, status)
    THEN [row EXCEPT !.status = status, !.cancelled = FALSE]
    ELSE row

----------------------------------------------------------------------------
(* The handler. *)

\* GetNewAction; the goroutine is on its way and the caller waits.
Invoke(x) ==
    /\ action[x].status = "none"
    /\ Counted
    /\ \E on \in BOOLEAN, who \in Targets :
         Becomes(x, [action[x] EXCEPT !.on = on, !.who = who, !.status = "PENDING",
                                      !.handler = "ready", !.caller = "waiting"])
    /\ UNCHANGED <<userVars, memberVars, userRoles, permission, checked>>

HandlerStarts(x) ==
    /\ action[x].handler = "ready"
    /\ Becomes(x, [WithStatus(action[x], "RUNNING") EXCEPT !.handler = "put"])
    /\ UNCHANGED serverVars

\* A mutant of HandlerPuts that takes a lost answer for a success.
HandlerPutsBlindly(x) ==
    /\ action[x].handler = "put"
    /\ UNCHANGED serverVars
    /\ Becomes(x, [action[x] EXCEPT !.handler = "publish", !.result = "ok"])

\* PUT /users/{id}/enabled, carried out and answered or not answered.  The
\* answer is the user as the same locked section left it, so the check of
\* its flag (actions.go:109,145) is content.
HandlerPuts(x) ==
    /\ action[x].handler = "put"
    /\ SetUserEnabled(action[x].who, action[x].on)
    /\ UNCHANGED events
    /\ \E result \in {"ok", "error"} :
         Becomes(x, [action[x] EXCEPT !.handler = "publish", !.result = result,
                                      !.applied = TRUE])

\* No such user (404), an argument that names none, or a request that fails.
HandlerPutFails(x) ==
    /\ action[x].handler = "put"
    /\ Becomes(x, [action[x] EXCEPT !.handler = "publish", !.result = "error"])
    /\ UNCHANGED serverVars

Outcome(row) == IF row.result = "ok" THEN "COMPLETE" ELSE "FAILED"

\* A mutant of HandlerPublishes that hands the outcome to the waiting call.
HandlerPublishesToCaller(x) ==
    /\ action[x].handler = "publish"
    /\ action[x].caller = "waiting"
    /\ Becomes(x, [WithOutcome(action[x], Outcome(action[x])) EXCEPT !.handler = "close"])
    /\ UNCHANGED serverVars

\* setOutcome, in one section with the lock.
HandlerPublishes(x) ==
    /\ action[x].handler = "publish"
    /\ Becomes(x, [WithOutcome(action[x], Outcome(action[x])) EXCEPT !.handler = "close"])
    /\ UNCHANGED serverVars

\* close(done), after the record was published.
HandlerCloses(x) ==
    /\ action[x].handler = "close"
    /\ Becomes(x, [action[x] EXCEPT !.handler = "closed"])
    /\ UNCHANGED serverVars

HandlerRuns(x) ==
    \/ HandlerStarts(x)
    \/ HandlerPuts(x)
    \/ HandlerPutFails(x)
    \/ HandlerPublishes(x)
    \/ HandlerCloses(x)

----------------------------------------------------------------------------
(* The caller. *)

Told(x) == [action[x] EXCEPT !.caller = "told", !.told = action[x].status]

\* The handler has finished, or the inline wait is over: either way the
\* answer is a snapshot of the record.
CallReturns(x) ==
    /\ action[x].caller = "waiting"
    /\ Becomes(x, Told(x))
    /\ UNCHANGED serverVars

\* The call is cancelled before the handler has closed its channel.
CallCancelled(x) ==
    /\ action[x].caller = "waiting"
    /\ action[x].handler # "closed"
    /\ Becomes(x, [WithCancel(action[x]) EXCEPT !.caller = "cancelling"])
    /\ UNCHANGED serverVars

\* The record is read again after that: a COMPLETE one is the answer, and
\* anything else is an error.
CancelledReturns(x) ==
    /\ action[x].caller = "cancelling"
    /\ Becomes(x, IF action[x].status = "COMPLETE" THEN Told(x)
                  ELSE [action[x] EXCEPT !.caller = "gone"])
    /\ UNCHANGED serverVars

\* GetActionStatus, asked by who was told that the action is in flight.
GetActionStatus(x) ==
    /\ action[x].caller = "told"
    /\ action[x].told \in {"PENDING", "RUNNING"}
    /\ action[x].status # action[x].told
    /\ Becomes(x, Told(x))
    /\ UNCHANGED serverVars

ActionStep(x) ==
    \/ Invoke(x)
    \/ HandlerRuns(x)
    \/ CallReturns(x)
    \/ CallCancelled(x)
    \/ CancelledReturns(x)
    \/ GetActionStatus(x)
=============================================================================
