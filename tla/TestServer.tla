----------------------------- MODULE TestServer -----------------------------
(***************************************************************************)
(* cmd/test-server: the mock container the connector is tested against, as *)
(* it keeps its state.  TenableAPI takes a container as five functions and *)
(* a request as one step; here a user is found through three indexes, a    *)
(* membership, a role and a count are each written down twice, and the     *)
(* handlers of the two membership routes take the lock twice.              *)
(*                                                                         *)
(* A user's id, and the UUID newDeterministicUUID makes of it, is a        *)
(* number; 0 is the zero UUID, which is that of the group All Users.  A    *)
(* list is the number of times it holds each user: nothing depends on the  *)
(* order.  An optional value is {} or {v}.                                 *)
(***************************************************************************)
EXTENDS Naturals, FiniteSets

CONSTANTS
    Groups, AllUsers,   \* AllUsers: the one group with membership_fixed
    GroupUUIDs,         \* what a permission's subject may have for a group
    Roles,
    Permissions,
    User, UserGroup,    \* the subject types that come with a UUID
    WideTypes,          \* the subject types AllUsers and AllAdmins
    Tag, AllAssets,     \* the object types, with a UUID and without
    TagUUIDs,           \* the tags there are
    Rests,              \* a permission's name and actions
    MaxColons,          \* bound: colons in the name of a tag
    MaxUserID,          \* bound: users are created up to this id
    MaxEvents,          \* bound: requests and tasks from outside
    Seed,               \* seeds.go: the users, numbered from 1
    SeedMembers,        \* seeds.go: groupMembers
    SeedPermission      \* seeds.go: the permissions

Ids == 1..MaxUserID
SeedIds == DOMAIN Seed

VARIABLES
    nextUserID,         \* the last id given out
    users,              \* the UUIDs that lead to a user
    usersByID,          \* the ids that lead to a user
    userList,           \* the list GET /users shows
    object,             \* object[u]: the struct the three lead to
    groupMembers,       \* groupMembers[g]: the list of member UUIDs of g
    userCount,          \* userCount[g]: Group.UserCount
    userRoles,          \* userRoles[u]: the roles GET .../roles shows
    permission,         \* permission[p]: what is stored of p
    checked,            \* membership requests past the first of their locks
    events              \* bound only: events so far

userVars   == <<nextUserID, users, usersByID, userList, object>>
memberVars == <<groupMembers, userCount>>
serverVars == <<userVars, memberVars, userRoles, permission, checked, events>>

Objects == [enabled : BOOLEAN, groups : SUBSET Groups, roles : SUBSET Roles]

OtherTypes == {UserGroup} \cup WideTypes

\* A User names an id, a UserGroup a group; AllUsers and AllAdmins come without
\* a UUID, or with the zero UUID once the connector has written them back.
Subject ==
    [type : {User}, uuid : {{u} : u \in Ids}]
      \cup [type : {UserGroup}, uuid : {{g} : g \in GroupUUIDs}]
      \cup [type : WideTypes, uuid : {{}, {0}}]

\* A Tag names a tag, and of its name only the colons matter; AllAssets is
\* like AllUsers.
PermissionObject ==
    [type : {Tag}, uuid : {{t} : t \in TagUUIDs}, colons : 0..MaxColons]
      \cup [type : {AllAssets}, uuid : {{}, {0}}, colons : {0}]

PermissionRows ==
    [rest : Rests, objects : SUBSET PermissionObject, subjects : SUBSET Subject]

ASSUME BoundsAreNumbers ==
    MaxUserID \in Nat \ {0} /\ MaxEvents \in Nat /\ MaxColons \in Nat
ASSUME AllUsersIsAGroup == AllUsers \in Groups /\ 0 \in GroupUUIDs
ASSUME UUIDsAreDistinct == GroupUUIDs \cap Ids = {}
ASSUME TypesAreDistinct ==
    /\ User \notin OtherTypes /\ UserGroup \notin WideTypes
    /\ Ids \cap OtherTypes = {}
    /\ Tag # AllAssets

\* The literals of seeds.go fit together: GroupUUIDs and groupMembers say
\* the same, everybody is in All Users, and nobody else is named.
ASSUME SeedIsConsistent ==
    /\ \E n \in 0..MaxUserID : SeedIds = 1..n
    /\ Seed \in [SeedIds -> Objects]
    /\ \A u \in SeedIds : \A r, s \in Seed[u].roles : r = s
    /\ SeedMembers \in [Groups -> SUBSET SeedIds]
    /\ SeedMembers[AllUsers] = SeedIds
    /\ \A u \in SeedIds : \A g \in Groups :
         u \in SeedMembers[g] <=> g \in Seed[u].groups
    /\ SeedPermission \in [Permissions -> PermissionRows]
    /\ \A p \in Permissions : \A s \in SeedPermission[p].subjects :
         s.type = User => s.uuid \subseteq SeedIds

----------------------------------------------------------------------------
(* Lists. *)

Lists == [Ids -> Nat]

ListOf(set) == [u \in Ids |-> IF u \in set THEN 1 ELSE 0]
Contains(list, u) == list[u] > 0
AppendTo(list, u) == [list EXCEPT ![u] = @ + 1]

\* A mutant of DeleteFrom that takes one of the user's entries away.
DeleteOneFrom(list, u) == [list EXCEPT ![u] = @ - 1]

\* slices.DeleteFunc: every entry of the user.
DeleteFrom(list, u) == [list EXCEPT ![u] = 0]

Length(list) == Cardinality(UNION {{u} \X (1..list[u]) : u \in Ids})

RecomputeGroupCounts(lists) == [g \in Groups |-> Length(lists[g])]

SetMembers(lists) ==
    /\ groupMembers' = lists
    /\ userCount' = RecomputeGroupCounts(lists)

----------------------------------------------------------------------------
ServerTypeOK ==
    /\ nextUserID \in 0..MaxUserID
    /\ users \in SUBSET Ids
    /\ usersByID \in SUBSET Ids
    /\ userList \in Lists
    /\ object \in [Ids -> Objects]
    /\ groupMembers \in [Groups -> Lists]
    /\ userCount \in [Groups -> Nat]
    /\ userRoles \in [Ids -> SUBSET Roles]
    /\ permission \in [Permissions -> PermissionRows]
    /\ checked \in SUBSET ({"add", "remove"} \X (Groups \ {AllUsers}) \X Ids)
    /\ events \in Nat

Nobody == [enabled |-> FALSE, groups |-> {}, roles |-> {}]

\* seed: every user is put into the three indexes; userRoles is copied from
\* RbacRoles, groupMembers has a literal of its own.
ServerInit ==
    /\ nextUserID = Cardinality(SeedIds)
    /\ users = SeedIds
    /\ usersByID = SeedIds
    /\ userList = ListOf(SeedIds)
    /\ object = [u \in Ids |-> IF u \in SeedIds THEN Seed[u] ELSE Nobody]
    /\ groupMembers = [g \in Groups |-> ListOf(SeedMembers[g])]
    /\ userCount = RecomputeGroupCounts(groupMembers)
    /\ userRoles = [u \in Ids |-> IF u \in SeedIds THEN Seed[u].roles ELSE {}]
    /\ permission = SeedPermission
    /\ checked = {}
    /\ events = 0

----------------------------------------------------------------------------
(* What GET /groups/{id}/users answers: the members that exist. *)

ListGroupMembers(g) == {u \in users : Contains(groupMembers[g], u)}

----------------------------------------------------------------------------
(* The users. *)

\* A mutant of CreateUser that numbers users by how many there are.
CreateUserByCount(u) ==
    /\ u \in Ids /\ u = Cardinality(users) + 1
    /\ nextUserID' = u
    /\ users' = users \cup {u}
    /\ usersByID' = usersByID \cup {u}
    /\ userList' = AppendTo(userList, u)
    /\ object' = [object EXCEPT ![u] = [Nobody EXCEPT !.enabled = TRUE, !.groups = {AllUsers}]]
    /\ SetMembers([groupMembers EXCEPT ![AllUsers] = AppendTo(groupMembers[AllUsers], u)])
    /\ UNCHANGED <<userRoles, permission, checked>>

\* POST /users: a new id, enabled, in All Users, without a role.
CreateUser(u) ==
    /\ u \in Ids /\ u = nextUserID + 1
    /\ nextUserID' = u
    /\ users' = users \cup {u}
    /\ usersByID' = usersByID \cup {u}
    /\ userList' = AppendTo(userList, u)
    /\ object' = [object EXCEPT ![u] = [Nobody EXCEPT !.enabled = TRUE, !.groups = {AllUsers}]]
    /\ SetMembers([groupMembers EXCEPT ![AllUsers] = AppendTo(groupMembers[AllUsers], u)])
    /\ UNCHANGED <<userRoles, permission, checked>>

\* A mutant of DeleteUser that leaves the user in the lists of members.
DeleteUserOnly(u) ==
    /\ u \in usersByID
    /\ users' = users \ {u}
    /\ usersByID' = usersByID \ {u}
    /\ userList' = DeleteFrom(userList, u)
    /\ userRoles' = [userRoles EXCEPT ![u] = {}]
    /\ UNCHANGED <<nextUserID, object, memberVars, permission, checked>>

\* DELETE /users/{id}: out of the indexes, the roles and every group, but
\* not out of the permissions.
DeleteUser(u) ==
    /\ u \in usersByID
    /\ users' = users \ {u}
    /\ usersByID' = usersByID \ {u}
    /\ userList' = DeleteFrom(userList, u)
    /\ userRoles' = [userRoles EXCEPT ![u] = {}]
    /\ SetMembers([g \in Groups |-> DeleteFrom(groupMembers[g], u)])
    /\ UNCHANGED <<nextUserID, object, permission, checked>>

\* PUT /users/{id}/enabled.
SetUserEnabled(u, on) ==
    /\ u \in usersByID
    /\ object' = [object EXCEPT ![u].enabled = on]
    /\ UNCHANGED <<nextUserID, users, usersByID, userList, memberVars,
                   userRoles, permission, checked>>

\* PUT /users/{id}: a body without "enabled" leaves the flag alone.
UpdateUser(u, enabled) ==
    /\ u \in usersByID
    /\ \E on \in IF enabled = {} THEN {object[u].enabled} ELSE enabled :
         object' = [object EXCEPT ![u].enabled = on]
    /\ UNCHANGED <<nextUserID, users, usersByID, userList, memberVars,
                   userRoles, permission, checked>>

\* PUT /access-control/v1/users/{uuid}/roles: both records of the roles.
SetUserRoles(u, roles) ==
    /\ u \in users
    /\ userRoles' = [userRoles EXCEPT ![u] = roles]
    /\ object' = [object EXCEPT ![u].roles = roles]
    /\ UNCHANGED <<nextUserID, users, usersByID, userList, memberVars,
                   permission, checked>>

----------------------------------------------------------------------------
(* Memberships: a handler looks whether the group is fixed, gives the lock *)
(* up, and takes it again for the change itself.                           *)

GroupMembershipFixed(verb, g, u) ==
    /\ g # AllUsers
    /\ checked' = checked \cup {<<verb, g, u>>}
    /\ UNCHANGED <<userVars, memberVars, userRoles, permission>>

\* The handler goes on; no such user (404) and nothing to do change nothing.
Proceeds(verb, g, u) ==
    /\ <<verb, g, u>> \in checked
    /\ checked' = checked \ {<<verb, g, u>>}
    /\ UNCHANGED <<nextUserID, users, usersByID, userList, userRoles, permission>>

\* A mutant of AddGroupMember that takes the user the first lock found.
AddGroupMemberUnseen(g, u) ==
    /\ Proceeds("add", g, u)
    /\ SetMembers([groupMembers EXCEPT ![g] = AppendTo(DeleteFrom(groupMembers[g], u), u)])
    /\ object' = [object EXCEPT ![u].groups = @ \cup {g}]

AddGroupMember(g, u) ==
    /\ Proceeds("add", g, u)
    /\ LET noChange == u \notin usersByID \/ Contains(groupMembers[g], u) IN
       \/ noChange /\ UNCHANGED <<object, memberVars>>
       \/ /\ ~noChange
          /\ SetMembers([groupMembers EXCEPT ![g] = AppendTo(groupMembers[g], u)])
          /\ object' = [object EXCEPT ![u].groups = @ \cup {g}]

RemoveGroupMember(g, u) ==
    /\ Proceeds("remove", g, u)
    /\ LET noChange == u \notin usersByID \/ ~Contains(groupMembers[g], u) IN
       \/ noChange /\ UNCHANGED <<object, memberVars>>
       \/ /\ ~noChange
          /\ SetMembers([groupMembers EXCEPT ![g] = DeleteFrom(groupMembers[g], u)])
          /\ object' = [object EXCEPT ![u].groups = @ \ {g}]

----------------------------------------------------------------------------
(* Permissions. *)

\* PUT /api/v3/access-control/permissions/{uuid} stores the body as it is.
UpdatePermission(p, row) ==
    /\ permission' = [permission EXCEPT ![p] = row]
    /\ UNCHANGED <<userVars, memberVars, userRoles, checked>>

\* An administrator names users who exist and groups, and what comes without a
\* UUID without one.
Nameable ==
    {s \in Subject : /\ s.type = User => s.uuid \subseteq users
                     /\ s.type \in WideTypes => s.uuid = {}}

NameableObjects == {o \in PermissionObject : o.type = AllAssets => o.uuid = {}}

\* What an administrator may make of a permission: other text, one object or
\* one subject more or less.
EditsOf(p) ==
    LET row == permission[p] IN
    {[row EXCEPT !.rest = rest] : rest \in Rests}
      \cup {[row EXCEPT !.objects = row.objects \cup {o}] : o \in NameableObjects}
      \cup {[row EXCEPT !.objects = row.objects \ {o}] : o \in row.objects}
      \cup {[row EXCEPT !.subjects = row.subjects \cup {s}] : s \in Nameable}
      \cup {[row EXCEPT !.subjects = row.subjects \ {s}] : s \in row.subjects}

----------------------------------------------------------------------------
(* Requests that no task of the connector sends. *)

Counted == events < MaxEvents /\ events' = events + 1

AdminStep ==
    /\ Counted
    /\ \/ \E u \in Ids :
            \/ CreateUser(u)
            \/ DeleteUser(u)
            \/ \E enabled \in {{}, {TRUE}, {FALSE}} : UpdateUser(u, enabled)
            \/ \E roles \in {{r} : r \in Roles} : SetUserRoles(u, roles)
            \/ \E g \in Groups, verb \in {"add", "remove"} :
                 GroupMembershipFixed(verb, g, u)
       \/ \E p \in Permissions : \E row \in EditsOf(p) : UpdatePermission(p, row)

\* The second half of a membership request is on its way already.
HandlerStep ==
    /\ UNCHANGED events
    /\ \E g \in Groups, u \in Ids : AddGroupMember(g, u) \/ RemoveGroupMember(g, u)
=============================================================================
