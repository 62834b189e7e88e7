--------------------------- MODULE AccessPromise ----------------------------
(***************************************************************************)
(* What the connector's caller wants of its tasks, without requests,       *)
(* copies or a cache: a task touches the access its request names and      *)
(* nothing else, each part of it in one step, and a task that reports      *)
(* success did its whole part while it ran.  A task may fail at any time   *)
(* and what it did by then stays done.                                     *)
(*                                                                         *)
(* Access is a set of pairs <<who, on>>: who is a member of the group on,  *)
(* holds the role on, or is a subject of the permission on.                *)
(***************************************************************************)
CONSTANTS Tasks, Requests, Users, Roles, BasicRole, EnableOnProvision

VARIABLES
    req,        \* req[t]: what task t is asked to do
    status,     \* status[t]: "queued", "running", "ok" or "failed"
    seen,       \* seen[t]: the parts of its request t has seen to so far
    access,
    enabled

promiseVars == <<req, status, seen, access, enabled>>

Init ==
    /\ req \in [Tasks -> Requests]
    /\ status = [t \in Tasks |-> "queued"]
    /\ seen = [t \in Tasks |-> {}]

\* The parts of a request: the access itself, and the login of the user.
Parts(r) ==
    IF r.on = "account" THEN {"login"}
    ELSE IF r.op = "grant" /\ EnableOnProvision THEN {"access", "login"}
    ELSE {"access"}

Holds(r) == <<r.who, r.on>> \in access

\* A permission names users only, and Basic is not taken from a user.
Allowed(r) ==
    /\ r.who \in Users
    /\ ~(r.op = "revoke" /\ r.on = BasicRole /\ Holds(r))

RolePairs(u) == {u} \X Roles

\* The access once the request is carried out: of roles, a user has one.
Served(r) ==
    CASE r.op = "grant" /\ r.on \in Roles ->
           (access \ RolePairs(r.who)) \cup {<<r.who, r.on>>}
      [] r.op = "revoke" /\ r.on \in Roles ->
           IF Holds(r) THEN (access \ RolePairs(r.who)) \cup {<<r.who, BasicRole>>}
           ELSE access
      [] r.op = "grant" /\ r.on \notin Roles -> access \cup {<<r.who, r.on>>}
      [] OTHER -> access \ {<<r.who, r.on>>}

Login(r) == [enabled EXCEPT ![r.who] = r.op \in {"grant", "enable"}]

Start(t) ==
    /\ status[t] = "queued"
    /\ status' = [status EXCEPT ![t] = "running"]
    /\ UNCHANGED <<req, seen, access, enabled>>

\* See to some parts of the request, then go on, succeed, or fail - which a
\* retry follows or not.
Work(t) ==
    /\ status[t] = "running"
    /\ UNCHANGED req
    /\ \E done \in SUBSET Parts(req[t]) :
         /\ "access" \in done => Allowed(req[t])
         /\ access' = IF "access" \in done THEN Served(req[t]) ELSE access
         /\ enabled' = IF "login" \in done THEN Login(req[t]) ELSE enabled
         /\ \/ /\ seen' = [seen EXCEPT ![t] = @ \cup done]
               /\ UNCHANGED status
            \/ /\ Parts(req[t]) \subseteq seen[t] \cup done
               /\ status' = [status EXCEPT ![t] = "ok"]
               /\ seen' = [seen EXCEPT ![t] = {}]
            \/ /\ status' = [status EXCEPT ![t] = "failed"]
               /\ seen' = [seen EXCEPT ![t] = {}]
            \/ /\ UNCHANGED status
               /\ seen' = [seen EXCEPT ![t] = {}]

Next == \E t \in Tasks : Start(t) \/ Work(t)

Spec == Init /\ [][Next]_promiseVars
=============================================================================
