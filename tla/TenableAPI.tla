----------------------------- MODULE TenableAPI -----------------------------
(***************************************************************************)
(* The Tenable VM container the connector provisions into: who exists, who *)
(* is enabled, the groups' members, the users' roles and the permissions'  *)
(* subjects.  Translated from cmd/test-server, the mock the repository     *)
(* tests the connector against: every method of State runs under one       *)
(* mutex, so a request is one step here.                                   *)
(*                                                                         *)
(* A write is an action guarded by what makes the handler answer 200; when *)
(* the guard is false the handler answers 403 or 404 and changes nothing.  *)
(***************************************************************************)
CONSTANTS
    Users,          \* every user the container may hold
    Groups,         \* groups; they are never created or removed
    FixedGroups,    \* the groups with membership_fixed, such as All Users
    Roles,
    Permissions,
    OtherSubjects   \* subjects that are not users: groups, AllUsers, AllAdmins

ASSUME FixedAreGroups == FixedGroups \subseteq Groups
ASSUME SubjectsAreDistinct == Users \cap OtherSubjects = {}

VARIABLES
    users,          \* the users that exist
    enabled,        \* enabled[u]: u may log in
    members,        \* members[g]: the users in group g
    userRoles,      \* userRoles[u]: the role UUIDs u holds
    subjects        \* subjects[p]: the users and others permission p names

apiVars == <<users, enabled, members, userRoles, subjects>>

Subjects == Users \cup OtherSubjects

APITypeOK ==
    /\ users \in SUBSET Users
    /\ enabled \in [Users -> BOOLEAN]
    /\ members \in [Groups -> SUBSET Users]
    /\ userRoles \in [Users -> SUBSET Roles]
    /\ subjects \in [Permissions -> SUBSET Subjects]

\* Any container: a fixed group holds everybody, a user has one role or, as
\* the seed's last user, none; nobody outside it is named anywhere.
APIInit ==
    /\ users \in SUBSET Users
    /\ enabled \in {f \in [Users -> BOOLEAN] : \A u \in Users \ users : ~f[u]}
    /\ members \in [Groups -> SUBSET users]
    /\ \A g \in FixedGroups : members[g] = users
    /\ userRoles \in {f \in [Users -> {{r} : r \in Roles} \cup {{}}] :
                        \A u \in Users \ users : f[u] = {}}
    /\ subjects \in [Permissions -> SUBSET (users \cup OtherSubjects)]

----------------------------------------------------------------------------
(* The answers of the GET routes. *)

\* GET /users/{id}: whether the user is enabled, the one field of it that
\* decides anything.
UserDetails(u) == {enabled[v] : v \in {u} \cap users}

\* GET /groups/{id}/users: each member with its enabled flag.
MemberList(g) == {<<u, enabled[u]>> : u \in members[g] \cap users}

\* GET /access-control/v1/users/{uuid}/roles.
RolesOf(u) == {userRoles[v] : v \in {u} \cap users}

----------------------------------------------------------------------------
(* The writes. *)

\* PUT /users/{id}/enabled.
SetUserEnabled(u, on) ==
    /\ u \in users
    /\ enabled' = [enabled EXCEPT ![u] = on]
    /\ UNCHANGED <<users, members, userRoles, subjects>>

\* POST /groups/{id}/users/{userId}: adding a member again changes nothing.
AddGroupMember(g, u) ==
    /\ g \notin FixedGroups
    /\ u \in users
    /\ members' = [members EXCEPT ![g] = @ \cup {u}]
    /\ UNCHANGED <<users, enabled, userRoles, subjects>>

\* DELETE /groups/{id}/users/{userId}: idempotent too.
RemoveGroupMember(g, u) ==
    /\ g \notin FixedGroups
    /\ u \in users
    /\ members' = [members EXCEPT ![g] = @ \ {u}]
    /\ UNCHANGED <<users, enabled, userRoles, subjects>>

\* PUT /access-control/v1/users/{uuid}/roles replaces the whole list.
SetUserRoles(u, roles) ==
    /\ u \in users
    /\ roles \subseteq Roles
    /\ userRoles' = [userRoles EXCEPT ![u] = roles]
    /\ UNCHANGED <<users, enabled, members, subjects>>

\* PUT /api/v3/access-control/permissions/{uuid} replaces the whole list of
\* subjects; nothing checks that the subjects exist.
UpdatePermission(p, list) ==
    /\ subjects' = [subjects EXCEPT ![p] = list]
    /\ UNCHANGED <<users, enabled, members, userRoles>>

\* POST /users: the new user is enabled, in the fixed groups, and holds no role.
CreateUser(u) ==
    /\ u \in Users \ users
    /\ users' = users \cup {u}
    /\ enabled' = [enabled EXCEPT ![u] = TRUE]
    /\ members' = [g \in Groups |-> IF g \in FixedGroups THEN members[g] \cup {u}
                                                        ELSE members[g]]
    /\ UNCHANGED <<userRoles, subjects>>

\* DELETE /users/{id}: the user leaves its groups and loses its roles, but
\* the permissions that name it keep naming it.  The connector never sends
\* this; administrators do.
DeleteUser(u) ==
    /\ u \in users
    /\ users' = users \ {u}
    /\ enabled' = [enabled EXCEPT ![u] = FALSE]
    /\ members' = [g \in Groups |-> members[g] \ {u}]
    /\ userRoles' = [userRoles EXCEPT ![u] = {}]
    /\ UNCHANGED subjects

----------------------------------------------------------------------------
(* The container by itself: any request, in any order. *)

APINext ==
    \/ \E u \in Users :
         \/ CreateUser(u)
         \/ DeleteUser(u)
         \/ \E on \in BOOLEAN : SetUserEnabled(u, on)
         \/ \E g \in Groups : AddGroupMember(g, u) \/ RemoveGroupMember(g, u)
         \/ \E roles \in SUBSET Roles : SetUserRoles(u, roles)
    \/ \E p \in Permissions :
         /\ subjects'[p] \in SUBSET Subjects
         /\ UpdatePermission(p, subjects'[p])

APISpec == APIInit /\ [][APINext]_apiVars
=============================================================================
