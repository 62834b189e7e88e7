---------------------------- MODULE MCConnector -----------------------------
(***************************************************************************)
(* Instances of Connector for TLC: the sets of requests the runs draw      *)
(* their tasks from, the containers they start in, and the symmetry of the *)
(* tasks, which differ in name only.                                       *)
(***************************************************************************)
EXTENDS Connector, TLC

CONSTANTS u1, u2

\* Every request about u1, and those a permission turns down; u2 looks on.
AboutOneUser == {r \in AllRequests : r.who \in {u1} \cup OtherSubjects}

\* Every request about groups and logins, for u1.
GroupsAndLogins ==
    {r \in AllRequests : r.who = u1 /\ r.on \in Groups \cup {"account"}}

\* Every request about permissions, except that nobody is asked about u2.
PermissionsButU2 == {r \in AllRequests : r.on \in Permissions /\ r.who # u2}

\* Grants of every kind to u1, and the task that disables u1.
GrantsAndDisable ==
    {r \in AllRequests : r.who = u1 /\ r.op \in {"grant", "disable"}}

RoleRequests == {r \in AllRequests : r.on \in Roles}

RoleRevokes == {r \in RoleRequests : r.op = "revoke"}

TaskSymmetry == Permutations(Tasks)

----------------------------------------------------------------------------
\* Everybody exists and u1 may be anything at first; the others start
\* enabled, in every group and with the Basic role, and u2, who looks on, a
\* subject of every permission.
WatchedInit ==
    /\ Init
    /\ users = Users
    /\ \A u \in Users \ {u1} :
         /\ enabled[u]
         /\ \A g \in Groups : u \in members[g]
         /\ userRoles[u] = {BasicRole}
    /\ \A p \in Permissions : u2 \in subjects[p]

\* The connector started on those containers.
WatchedSpec ==
    /\ WatchedInit
    /\ [][Next]_vars
    /\ \A t \in Tasks : WF_vars(Step(t) \/ Stores(t))
=============================================================================
