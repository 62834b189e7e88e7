------------------------------- MODULE MCSync -------------------------------
(***************************************************************************)
(* Instances of Sync for TLC: the containers they start in.                *)
(***************************************************************************)
EXTENDS Sync

CONSTANTS u1, o1

\* Only u1 exists at first, with a role, in no group that is not fixed, a
\* subject or not; o1 is a subject of everything.
SmallInit ==
    /\ SyncInit
    /\ users = {u1}
    /\ \A u \in users : enabled[u] /\ userRoles[u] # {}
    /\ \A g \in Groups \ FixedGroups : members[g] = {}
    /\ \A p \in Permissions : o1 \in subjects[p]

\* Syncs started on those containers.
SmallSpec == SmallInit /\ [][SyncNext]_syncVars /\ SyncFairness
=============================================================================
