----------------------------- MODULE TaskRunner -----------------------------
(***************************************************************************)
(* The tasks a running connector performs, and what the baton-sdk does     *)
(* around each of them: the runner's slots, the retry loop of Grant and    *)
(* Revoke, and the failures a request may meet.  The steps of the tasks    *)
(* themselves are in GroupBuilder, RoleBuilder, PermissionBuilder and      *)
(* UserBuilder.                                                            *)
(*                                                                         *)
(* task[t].pc names the request the task sends next.  A step sends it,     *)
(* takes the answer and runs the handler up to its next request, so steps  *)
(* of different tasks interleave exactly at the requests.                  *)
(***************************************************************************)
EXTENDS Client, Naturals, FiniteSets

CONSTANTS
    Requests,           \* what they may be asked to do
    Slots,              \* tasks at once: 1 in one-shot mode, 3 in a service
    EnableOnProvision,  \* the --enable-on-provision option
    BasicRole,          \* the built-in role called Basic
    MaxRetries,         \* MaxAttempts of the retry loop: 3
    MaxFaults           \* bound: requests that fail or whose answer is lost

VARIABLES
    task,               \* task[t]: where t is and the local variables of it
    faults              \* requests that failed or lost their answer so far

runVars == <<task, faults>>

\* who may be a group on a permission: its entitlement is grantable to both.
AllRequests ==
    [op : {"grant", "revoke"}, who : Users, on : Groups \cup Roles]
      \cup [op : {"grant", "revoke"}, who : Subjects, on : Permissions]
      \cup [op : {"enable", "disable", "delete"}, who : Users, on : {"account"}]

ASSUME RequestsAreKnown == Requests \subseteq AllRequests
ASSUME TargetsAreDistinct ==
    /\ Groups \cap Roles = {}
    /\ Groups \cap Permissions = {}
    /\ Roles \cap Permissions = {}
    /\ "account" \notin Groups \cup Roles \cup Permissions
ASSUME OptionsAreTyped ==
    /\ EnableOnProvision \in BOOLEAN
    /\ BasicRole \in Roles
    /\ Slots \in Nat \ {0}
    /\ MaxRetries \in Nat
    /\ MaxFaults \in Nat

\* The requests a task may be about to send.
Sending == {"getMembers", "addMember", "getStatus", "delMember",
            "getUser", "getRoles", "listRoles", "putRole",
            "getPerm", "getSubject", "putPerm", "enable", "setEnabled"}

Outcomes == {"none", "ok", "exists", "alreadyRevoked", "failed"}

TaskRows == [req     : Requests,
             pc      : Sending \cup {"queued", "done"},
             tries   : Nat,
             outcome : Outcomes,
             awake   : BOOLEAN,
             draft   : SUBSET Subjects]

\* A task only ever sends the requests of the handler its request belongs to.
SendsItsOwn(row) ==
    /\ row.pc \in {"getMembers", "addMember", "getStatus", "delMember"} =>
         row.req.on \in Groups
    /\ row.pc \in {"getUser", "getRoles", "listRoles", "putRole"} =>
         row.req.on \in Roles
    /\ row.pc \in {"getPerm", "getSubject", "putPerm"} =>
         row.req.on \in Permissions
    /\ row.pc \in Sending \ {"getPerm"} => row.req.who \in Users

TaskTypeOK ==
    /\ task \in [Tasks -> TaskRows]
    /\ \A t \in Tasks : SendsItsOwn(task[t])
    /\ faults \in Nat

----------------------------------------------------------------------------
(* A task's fields. *)

At(t, pc) == task[t].pc = pc

Op(t)  == task[t].req.op
Who(t) == task[t].req.who
On(t)  == task[t].req.on

\* The tasks that hold a slot: an answer that ends one has yet to be stored.
Running == {t \in Tasks : task[t].pc \in Sending \/ unstored[t] # EmptyCache}

\* A mutant of FirstRequest that takes a role for a group.
FirstRequestMixedUp(r) ==
    CASE r.on \in Groups \cup Roles -> "getMembers"
      [] r.on \in Permissions      -> "getPerm"
      [] OTHER                     -> "setEnabled"

\* The request the handler of the task's type sends first.
FirstRequest(r) ==
    CASE r.on \in Groups      -> "getMembers"
      [] r.on \in Roles       -> "getUser"
      [] r.on \in Permissions -> "getPerm"
      [] OTHER                -> "setEnabled"

\* The local variables of a handler that has not begun.
Fresh(r, pc, tries) ==
    [req |-> r, pc |-> pc, tries |-> tries,
     outcome |-> "none", awake |-> FALSE, draft |-> {}]

RunInit ==
    /\ \E req \in [Tasks -> Requests] :
         task = [t \in Tasks |-> Fresh(req[t], "queued", 0)]
    /\ faults = 0

----------------------------------------------------------------------------
(* How a step of a task ends. *)

Becomes(t, row) == task' = [task EXCEPT ![t] = row]

\* What is left of a task that is over: its local variables are gone.
Over(t, outcome) ==
    [task[t] EXCEPT !.pc = "done", !.outcome = outcome, !.awake = FALSE, !.draft = {}]

\* The handler goes on to its next request.
Goto(t, pc) == Becomes(t, [task[t] EXCEPT !.pc = pc]) /\ UNCHANGED faults

\* The handler returns without an error.
Finish(t, outcome) == Becomes(t, Over(t, outcome)) /\ UNCHANGED faults

\* ShouldWaitAndRetry: only Unavailable and DeadlineExceeded are worth
\* another attempt, and only Grant and Revoke sit in a retry loop.
MayRetry(t, retryable) ==
    retryable /\ Op(t) \in {"grant", "revoke"} /\ task[t].tries < MaxRetries

\* The handler returns an error: it is called again from the start, or the
\* task ends with the error.
Again(t) == Fresh(task[t].req, FirstRequest(task[t].req), task[t].tries + 1)

\* A mutant of Fail that calls the handler again whatever the error, and
\* does not count.
FailForever(t, retryable) ==
    Becomes(t, IF Op(t) \in {"grant", "revoke"}
               THEN Fresh(task[t].req, FirstRequest(task[t].req), task[t].tries)
               ELSE Over(t, "failed"))

Fail(t, retryable) ==
    Becomes(t, IF MayRetry(t, retryable) THEN Again(t) ELSE Over(t, "failed"))

\* The server did what was asked, the answer did not arrive (a reset
\* connection, a timeout, a 502 from a proxy).
AnswerLost(t) ==
    /\ faults < MaxFaults
    /\ faults' = faults + 1
    /\ Fail(t, TRUE)

\* A mutant of ReEnableUserIfNeeded that ignores the option.
ReEnableNever(t, awake, outcome) == Finish(t, outcome)

\* reEnableUserIfNeeded(user), where awake is user.Enabled: one more request
\* when the option asks for it, and then the handler returns.
ReEnableUserIfNeeded(t, awake, outcome) ==
    IF ~awake /\ EnableOnProvision
    THEN /\ Becomes(t, [Over(t, outcome) EXCEPT !.pc = "enable"])
         /\ UNCHANGED faults
    ELSE Finish(t, outcome)

----------------------------------------------------------------------------
(* The steps every task has. *)

\* The runner claims a slot before it takes a task.
Start(t) ==
    /\ At(t, "queued")
    /\ Cardinality(Running) < Slots
    /\ Goto(t, FirstRequest(task[t].req))
    /\ UNCHANGED <<apiVars, clientVars>>

\* The entry of the GET a task sends next, if it is a GET.
NextGet(t) ==
    CASE task[t].pc = "getMembers" -> {<<"member", On(t)>>}
      [] task[t].pc \in {"getUser", "getSubject", "getStatus"} -> {<<"user", Who(t)>>}
      [] task[t].pc = "getRoles" -> {<<"role", Who(t)>>}
      [] task[t].pc = "getPerm" /\ Who(t) \in Users -> {<<"perm", On(t)>>}
      [] OTHER -> {}

\* Do looks in the cache and finds nothing.
LooksUp(t) ==
    /\ \E get \in NextGet(t) : Misses(t, get)
    /\ UNCHANGED runVars

\* A GET the cache answers never reaches the network.
AnsweredByCache(t) == \E get \in NextGet(t) : get \notin asked[t] /\ Entry(get) # {}

\* A permission request for a group is turned down before anything is sent.
TurnedDown(t) == task[t].pc = "getPerm" /\ Who(t) \notin Users

\* The request fails and changes nothing: the connection is refused or
\* times out, 429 or 5xx (retryable), or 401, 403, a body that does not
\* parse, a role list without Basic (not retryable).
RequestFails(t) ==
    /\ task[t].pc \in Sending
    /\ ~AnsweredByCache(t)
    /\ ~TurnedDown(t)
    /\ faults < MaxFaults
    /\ faults' = faults + 1
    /\ \E retryable \in BOOLEAN : Fail(t, retryable)
    /\ GivesUp(t)
    /\ UNCHANGED apiVars

\* The request is one the handlers answer 403 (a fixed group) or 404 (no
\* such user).
Refused(t) ==
    /\ \/ /\ task[t].pc \in {"getUser", "getSubject", "getStatus", "getRoles",
                             "putRole", "enable", "setEnabled"}
          /\ Who(t) \notin users
       \/ /\ task[t].pc \in {"addMember", "delMember"}
          /\ Who(t) \notin users \/ On(t) \in FixedGroups
    /\ ~AnsweredByCache(t)
    /\ Fail(t, FALSE)
    /\ GivesUp(t)
    /\ UNCHANGED <<apiVars, faults>>

\* EnableUser, the last request of a grant: "granted but failed to re-enable
\* user" when it fails.
EnableUser(t) ==
    /\ At(t, "enable")
    /\ SetUserEnabled(Who(t), TRUE)
    /\ UNCHANGED clientVars
    /\ Finish(t, task[t].outcome) \/ AnswerLost(t)

RunnerStep(t) ==
    \/ Start(t)
    \/ RequestFails(t)
    \/ Refused(t)
    \/ EnableUser(t)
=============================================================================
