----------------------- MODULE AccountLifecycleProofs ------------------------
(***************************************************************************)
(* Proofs about AccountLifecycle, for all users, groups, roles,            *)
(* permissions, attempts, actions, rewrites and bounds.                    *)
(*                                                                         *)
(* Whatever a step does, to the container it is one of a few moves.  Core  *)
(* says of the container what the moves keep; what a step of an attempt,   *)
(* an action or a rewrite does to its own row is proved apart from that.   *)
(***************************************************************************)
EXTENDS AccountLifecycle, FiniteSetTheorems, TLAPS

coreVars == <<userVars, memberVars, userRoles, permission, checked>>

\* The types of the container, but for the counts.
CoreTypeOK ==
    /\ nextUserID \in 0..MaxUserID
    /\ users \in SUBSET Ids
    /\ usersByID \in SUBSET Ids
    /\ userList \in Lists
    /\ object \in [Ids -> Objects]
    /\ groupMembers \in [Groups -> Lists]
    /\ userRoles \in [Ids -> SUBSET Roles]
    /\ permission \in [Permissions -> PermissionRows]
    /\ checked \in SUBSET ({"add", "remove"} \X (Groups \ {AllUsers}) \X Ids)

\* Each edge is written down twice, alike.
MembersFit ==
    \A g \in Groups, u \in Ids :
      groupMembers[g][u] = IF u \in users /\ g \in object[u].groups THEN 1 ELSE 0

RolesFit ==
    \A u \in Ids : userRoles[u] = IF u \in users THEN object[u].roles ELSE {}

CountsFit == userCount = RecomputeGroupCounts(groupMembers)

\* Everybody is in All Users.
EverybodyFits == \A u \in users : AllUsers \in object[u].groups

\* A permission names no user whose id was not given out.
NamesGivenOut(row) == \A u \in Ids : Names(row, u) => u <= nextUserID

Core ==
    /\ CoreTypeOK
    /\ IndexesAgree
    /\ MembersFit
    /\ RolesFit
    /\ CountsFit
    /\ EverybodyFits
    /\ \A p \in Permissions : NamesGivenOut(permission[p])

\* What a step may do to the container.
Move ==
    \/ \E u \in Ids :
         \/ CreateUser(u)
         \/ DeleteUser(u)
         \/ \E on \in BOOLEAN : SetUserEnabled(u, on)
         \/ \E roles \in SUBSET Roles : SetUserRoles(u, roles)
         \/ \E g \in Groups, verb \in {"add", "remove"} : GroupMembershipFixed(verb, g, u)
         \/ \E g \in Groups : AddGroupMember(g, u) \/ RemoveGroupMember(g, u)
    \/ \E p \in Permissions, row \in PermissionRows :
         /\ NamesGivenOut(row)
         /\ UpdatePermission(p, row)
    \/ UNCHANGED coreVars

----------------------------------------------------------------------------
(* The lists.                                                              *)

(* A list that holds nobody twice is as long as it has members.            *)
LEMMA LengthOfPlainList ==
    ASSUME NEW list \in [Ids -> {0, 1}]
    PROVE  /\ Length(list) = Cardinality({u \in Ids : Contains(list, u)})
           /\ Length(list) \in Nat
<1> DEFINE S == {u \in Ids : Contains(list, u)}
           T == UNION {{u} \X (1..list[u]) : u \in Ids}
           f == [u \in S |-> <<u, 1>>]
<1>1. IsFiniteSet(S)
  <2>1. IsFiniteSet(Ids)
    BY FS_Interval, BoundsAreNumbers DEF Ids
  <2> QED
    BY <2>1, FS_Subset
<1>2. T = {<<u, 1>> : u \in S}
  <2>1. ASSUME NEW u \in Ids
        PROVE  {u} \X (1..list[u]) = IF u \in S THEN {<<u, 1>>} ELSE {}
    <3>1. CASE list[u] = 0
      BY <3>1 DEF Contains
    <3>2. CASE list[u] = 1
      BY <3>2 DEF Contains
    <3> QED
      BY <3>1, <3>2
  <2> QED
    BY <2>1
<1>3. f \in Bijection(S, T)
  <2>1. f \in [S -> T]
    BY <1>2
  <2>2. \A a, b \in S : f[a] = f[b] => a = b
    OBVIOUS
  <2>3. \A t \in T : \E u \in S : f[u] = t
    BY <1>2
  <2> QED
    BY <2>1, <2>2, <2>3 DEF Bijection, Injection, Surjection, IsInjective
<1>4. Cardinality(T) = Cardinality(S)
  BY <1>1, <1>3, FS_Bijection DEF ExistsBijection
<1>5. Cardinality(S) \in Nat
  BY <1>1, FS_CardinalityType
<1> QED
  BY <1>4, <1>5 DEF Length

(* The counts are those of the members shown. *)
LEMMA CountsOfMembers ==
    ASSUME Core
    PROVE  /\ userCount \in [Groups -> Nat]
           /\ \A g \in Groups : userCount[g] = Cardinality(ListGroupMembers(g))
<1>1. ASSUME NEW g \in Groups
      PROVE  /\ Length(groupMembers[g]) \in Nat
             /\ Length(groupMembers[g]) = Cardinality(ListGroupMembers(g))
  <2>1. groupMembers[g] \in [Ids -> {0, 1}]
    BY DEF Core, CoreTypeOK, MembersFit, Lists
  <2>2. ListGroupMembers(g) = {u \in Ids : Contains(groupMembers[g], u)}
    BY DEF Core, CoreTypeOK, MembersFit, ListGroupMembers, Contains
  <2> QED
    BY <2>1, <2>2, LengthOfPlainList
<1> QED
  BY <1>1 DEF Core, CountsFit, RecomputeGroupCounts

----------------------------------------------------------------------------
(* The moves keep Core.                                                    *)

LEMMA CreateUserKeepsCore ==
    ASSUME Core, NEW u \in Ids, CreateUser(u)
    PROVE  Core'
<1>1. u = nextUserID + 1 /\ u \notin users
  BY DEF Core, CoreTypeOK, IndexesAgree, CreateUser, Ids
<1>2. CoreTypeOK'
  <2>1. nextUserID' \in 0..MaxUserID
    BY DEF CreateUser, Ids
  <2>2. userList' \in Lists
    BY DEF Core, CoreTypeOK, CreateUser, AppendTo, Lists
  <2>3. object' \in [Ids -> Objects]
    BY AllUsersIsAGroup DEF Core, CoreTypeOK, CreateUser, Objects, Nobody
  <2>4. groupMembers' \in [Groups -> Lists]
    <3>1. AppendTo(groupMembers[AllUsers], u) \in Lists
      BY AllUsersIsAGroup DEF Core, CoreTypeOK, AppendTo, Lists
    <3> QED
      BY <3>1 DEF Core, CoreTypeOK, CreateUser, SetMembers
  <2> QED
    BY <2>1, <2>2, <2>3, <2>4 DEF Core, CoreTypeOK, CreateUser
<1>3. IndexesAgree'
  <2>1. users' = usersByID' /\ users' = users \cup {u}
    BY DEF Core, IndexesAgree, CreateUser
  <2>2. userList' = ListOf(users')
    BY <1>1, <2>1 DEF Core, CoreTypeOK, IndexesAgree, CreateUser, ListOf, AppendTo
  <2>3. \A v \in users' : v <= nextUserID'
    BY <2>1, <1>1 DEF Core, CoreTypeOK, IndexesAgree, CreateUser, Ids
  <2> QED
    BY <2>1, <2>2, <2>3 DEF IndexesAgree
<1>4. \A v \in Ids :
        object'[v] = IF v = u THEN [Nobody EXCEPT !.enabled = TRUE, !.groups = {AllUsers}]
                              ELSE object[v]
  BY DEF Core, CoreTypeOK, CreateUser
<1>5. object'[u].groups = {AllUsers} /\ object'[u].roles = {}
  BY <1>4 DEF Nobody
<1>6. users' = users \cup {u}
  BY DEF CreateUser
<1>7. MembersFit'
  <2> SUFFICES ASSUME NEW g \in Groups, NEW v \in Ids
               PROVE  groupMembers'[g][v] =
                        IF v \in users' /\ g \in object'[v].groups THEN 1 ELSE 0
    BY DEF MembersFit
  <2>1. groupMembers[g][v] = IF v \in users /\ g \in object[v].groups THEN 1 ELSE 0
    BY DEF Core, MembersFit
  <2>2. groupMembers'[g] = IF g = AllUsers THEN AppendTo(groupMembers[AllUsers], u)
                                           ELSE groupMembers[g]
    BY DEF Core, CoreTypeOK, CreateUser, SetMembers
  <2>3. groupMembers'[g][v] = IF g = AllUsers /\ v = u THEN groupMembers[g][v] + 1
                                                       ELSE groupMembers[g][v]
    BY <2>2 DEF Core, CoreTypeOK, AppendTo, Lists
  <2>4. CASE v = u
    BY <2>1, <2>3, <2>4, <1>1, <1>5, <1>6
  <2>5. CASE v # u
    BY <2>1, <2>3, <2>5, <1>4, <1>6
  <2> QED
    BY <2>4, <2>5
<1>8. RolesFit'
  BY <1>1, <1>4, <1>5, <1>6 DEF Core, RolesFit, CreateUser
<1>9. CountsFit'
  BY DEF CountsFit, CreateUser, SetMembers, RecomputeGroupCounts
<1>10. EverybodyFits'
  BY <1>4, <1>5, <1>6 DEF Core, CoreTypeOK, EverybodyFits
<1>11. (\A p \in Permissions : NamesGivenOut(permission[p]))'
  BY <1>1 DEF Core, CoreTypeOK, NamesGivenOut, CreateUser, Ids
<1> QED
  BY <1>2, <1>3, <1>7, <1>8, <1>9, <1>10, <1>11 DEF Core

LEMMA DeleteUserKeepsCore ==
    ASSUME Core, NEW u \in Ids, DeleteUser(u)
    PROVE  Core'
<1>1. /\ users' = users \ {u}
      /\ UNCHANGED <<nextUserID, object, permission, checked>>
  BY DEF DeleteUser
<1>2. \A g \in Groups, v \in Ids :
        groupMembers'[g][v] = IF v = u THEN 0 ELSE groupMembers[g][v]
  BY DEF Core, CoreTypeOK, DeleteUser, SetMembers, DeleteFrom, Lists
<1>3. CoreTypeOK'
  <2>1. userList' \in Lists
    BY DEF Core, CoreTypeOK, DeleteUser, DeleteFrom, Lists
  <2>2. groupMembers' \in [Groups -> Lists]
    <3>1. \A g \in Groups : DeleteFrom(groupMembers[g], u) \in Lists
      BY DEF Core, CoreTypeOK, DeleteFrom, Lists
    <3> QED
      BY <3>1 DEF DeleteUser, SetMembers
  <2> QED
    BY <2>1, <2>2 DEF Core, CoreTypeOK, DeleteUser
<1>4. IndexesAgree'
  <2>1. userList' = ListOf(users')
    BY <1>1 DEF Core, CoreTypeOK, IndexesAgree, DeleteUser, ListOf, DeleteFrom
  <2> QED
    BY <1>1, <2>1 DEF Core, IndexesAgree, DeleteUser
<1>5. MembersFit'
  BY <1>1, <1>2 DEF Core, MembersFit
<1>6. RolesFit'
  BY <1>1 DEF Core, CoreTypeOK, RolesFit, DeleteUser
<1>7. CountsFit'
  BY DEF CountsFit, DeleteUser, SetMembers, RecomputeGroupCounts
<1>8. EverybodyFits'
  BY <1>1 DEF Core, EverybodyFits
<1>9. (\A p \in Permissions : NamesGivenOut(permission[p]))'
  BY <1>1 DEF Core, NamesGivenOut
<1> QED
  BY <1>3, <1>4, <1>5, <1>6, <1>7, <1>8, <1>9 DEF Core

LEMMA SetUserEnabledKeepsCore ==
    ASSUME Core, NEW u \in Ids, NEW on \in BOOLEAN, SetUserEnabled(u, on)
    PROVE  Core'
<1>1. UNCHANGED <<nextUserID, users, usersByID, userList, memberVars, userRoles,
                  permission, checked>>
  BY DEF SetUserEnabled
<1>2. /\ object' \in [Ids -> Objects]
      /\ \A v \in Ids : /\ object'[v].groups = object[v].groups
                        /\ object'[v].roles = object[v].roles
  BY DEF Core, CoreTypeOK, SetUserEnabled, Objects
<1>3. CoreTypeOK' /\ IndexesAgree'
  BY <1>1, <1>2 DEF Core, CoreTypeOK, IndexesAgree, memberVars
<1>4. MembersFit'
  BY <1>1, <1>2 DEF Core, MembersFit, memberVars
<1>5. RolesFit' /\ EverybodyFits'
  BY <1>1, <1>2 DEF Core, CoreTypeOK, RolesFit, EverybodyFits
<1>6. CountsFit'
  BY <1>1 DEF Core, CountsFit, memberVars, RecomputeGroupCounts
<1>7. (\A p \in Permissions : NamesGivenOut(permission[p]))'
  BY <1>1 DEF Core, NamesGivenOut
<1> QED
  BY <1>3, <1>4, <1>5, <1>6, <1>7 DEF Core

LEMMA SetUserRolesKeepsCore ==
    ASSUME Core, NEW u \in Ids, NEW roles \in SUBSET Roles, SetUserRoles(u, roles)
    PROVE  Core'
<1>1. UNCHANGED <<nextUserID, users, usersByID, userList, memberVars,
                  permission, checked>>
  BY DEF SetUserRoles
<1>2. /\ object' \in [Ids -> Objects]
      /\ \A v \in Ids : /\ object'[v].groups = object[v].groups
                        /\ object'[v].roles = IF v = u THEN roles ELSE object[v].roles
  BY DEF Core, CoreTypeOK, SetUserRoles, Objects
<1>3. userRoles' = [userRoles EXCEPT ![u] = roles] /\ u \in users
  BY DEF SetUserRoles
<1>4. CoreTypeOK' /\ IndexesAgree'
  BY <1>1, <1>2, <1>3 DEF Core, CoreTypeOK, IndexesAgree, memberVars
<1>5. MembersFit'
  BY <1>1, <1>2 DEF Core, MembersFit, memberVars
<1>6. RolesFit' /\ EverybodyFits'
  BY <1>1, <1>2, <1>3 DEF Core, CoreTypeOK, RolesFit, EverybodyFits
<1>7. CountsFit'
  BY <1>1 DEF Core, CountsFit, memberVars, RecomputeGroupCounts
<1>8. (\A p \in Permissions : NamesGivenOut(permission[p]))'
  BY <1>1 DEF Core, NamesGivenOut
<1> QED
  BY <1>4, <1>5, <1>6, <1>7, <1>8 DEF Core

(* A membership changes in both records, or in none. *)
LEMMA MembershipKeepsCore ==
    ASSUME Core, NEW g \in Groups \ {AllUsers}, NEW u \in Ids,
           AddGroupMember(g, u) \/ RemoveGroupMember(g, u)
    PROVE  Core'
<1>1. /\ UNCHANGED <<nextUserID, users, usersByID, userList, userRoles, permission>>
      /\ checked' \subseteq checked
  BY DEF AddGroupMember, RemoveGroupMember, Proceeds
<1>2. CASE UNCHANGED <<object, memberVars>>
  <2>1. CoreTypeOK' /\ IndexesAgree'
    BY <1>1, <1>2 DEF Core, CoreTypeOK, IndexesAgree, memberVars
  <2>2. MembersFit' /\ RolesFit' /\ EverybodyFits'
    BY <1>1, <1>2 DEF Core, MembersFit, RolesFit, EverybodyFits, memberVars
  <2>3. CountsFit'
    BY <1>2 DEF Core, CountsFit, memberVars, RecomputeGroupCounts
  <2>4. (\A p \in Permissions : NamesGivenOut(permission[p]))'
    BY <1>1 DEF Core, NamesGivenOut
  <2> QED
    BY <2>1, <2>2, <2>3, <2>4 DEF Core
<1>3. ASSUME NEW list \in Lists, NEW groups \in SUBSET Groups,
             u \in users,
             SetMembers([groupMembers EXCEPT ![g] = list]),
             object' = [object EXCEPT ![u].groups = groups],
             \A h \in Groups \ {g} : h \in groups <=> h \in object[u].groups,
             list[u] = IF g \in groups THEN 1 ELSE 0,
             \A v \in Ids \ {u} : list[v] = groupMembers[g][v]
      PROVE  Core'
  <2>1. /\ object' \in [Ids -> Objects]
        /\ \A v \in Ids : /\ object'[v].roles = object[v].roles
                          /\ object'[v].groups = IF v = u THEN groups ELSE object[v].groups
    BY <1>3 DEF Core, CoreTypeOK, Objects
  <2>2. groupMembers' = [groupMembers EXCEPT ![g] = list]
    BY <1>3 DEF SetMembers
  <2>3. CoreTypeOK' /\ IndexesAgree'
    BY <1>1, <2>1, <2>2 DEF Core, CoreTypeOK, IndexesAgree
  <2>4. MembersFit'
    <3> SUFFICES ASSUME NEW h \in Groups, NEW v \in Ids
                 PROVE  groupMembers'[h][v] =
                          IF v \in users' /\ h \in object'[v].groups THEN 1 ELSE 0
      BY DEF MembersFit
    <3>1. groupMembers[h][v] = IF v \in users /\ h \in object[v].groups THEN 1 ELSE 0
      BY DEF Core, MembersFit
    <3>2. groupMembers'[h] = IF h = g THEN list ELSE groupMembers[h]
      BY <2>2 DEF Core, CoreTypeOK
    <3>3. users' = users
      BY <1>1
    <3>4. CASE v = u /\ h = g
      BY <3>2, <3>3, <3>4, <2>1, <1>3
    <3>5. CASE v = u /\ h # g
      BY <3>1, <3>2, <3>3, <3>5, <2>1, <1>3
    <3>6. CASE v # u
      BY <3>1, <3>2, <3>3, <3>6, <2>1, <1>3
    <3> QED
      BY <3>4, <3>5, <3>6
  <2>5. RolesFit' /\ EverybodyFits'
    BY <1>1, <1>3, <2>1, AllUsersIsAGroup DEF Core, CoreTypeOK, RolesFit, EverybodyFits
  <2>6. CountsFit'
    BY <1>3 DEF CountsFit, SetMembers, RecomputeGroupCounts
  <2>7. (\A p \in Permissions : NamesGivenOut(permission[p]))'
    BY <1>1 DEF Core, NamesGivenOut
  <2> QED
    BY <2>3, <2>4, <2>5, <2>6, <2>7 DEF Core
<1>4. groupMembers[g] \in Lists /\ object[u].groups \subseteq Groups
  BY DEF Core, CoreTypeOK, Objects
<1>5. u \in usersByID => u \in users
  BY DEF Core, IndexesAgree
<1>6. groupMembers[g][u] = IF u \in users /\ g \in object[u].groups THEN 1 ELSE 0
  BY DEF Core, MembersFit
<1>7. CASE AddGroupMember(g, u) /\ ~UNCHANGED <<object, memberVars>>
  <2> DEFINE list == AppendTo(groupMembers[g], u)
             groups == object[u].groups \cup {g}
  <2>1. /\ u \in users
        /\ ~Contains(groupMembers[g], u)
        /\ SetMembers([groupMembers EXCEPT ![g] = list])
        /\ object' = [object EXCEPT ![u].groups = groups]
    BY <1>5, <1>7 DEF AddGroupMember, Core, CoreTypeOK
  <2>2. list \in Lists /\ list[u] = 1
    BY <1>4, <1>6, <2>1 DEF AppendTo, Lists, Contains
  <2>3. \A v \in Ids \ {u} : list[v] = groupMembers[g][v]
    BY <1>4 DEF AppendTo, Lists
  <2>4. groups \in SUBSET Groups /\ g \in groups
    BY <1>4
  <2>5. \A h \in Groups \ {g} : h \in groups <=> h \in object[u].groups
    OBVIOUS
  <2> HIDE DEF list, groups
  <2> QED
    BY <2>1, <2>2, <2>3, <2>4, <2>5, <1>3
<1>8. CASE RemoveGroupMember(g, u) /\ ~UNCHANGED <<object, memberVars>>
  <2> DEFINE list == DeleteFrom(groupMembers[g], u)
             groups == object[u].groups \ {g}
  <2>1. /\ u \in users
        /\ SetMembers([groupMembers EXCEPT ![g] = list])
        /\ object' = [object EXCEPT ![u].groups = groups]
    BY <1>5, <1>8 DEF RemoveGroupMember, Core, CoreTypeOK
  <2>2. list \in Lists /\ list[u] = 0
    BY <1>4 DEF DeleteFrom, Lists
  <2>3. \A v \in Ids \ {u} : list[v] = groupMembers[g][v]
    BY <1>4 DEF DeleteFrom, Lists
  <2>4. groups \in SUBSET Groups /\ g \notin groups
    BY <1>4
  <2>5. \A h \in Groups \ {g} : h \in groups <=> h \in object[u].groups
    OBVIOUS
  <2> HIDE DEF list, groups
  <2> QED
    BY <2>1, <2>2, <2>3, <2>4, <2>5, <1>3
<1> QED
  BY <1>2, <1>7, <1>8

LEMMA UpdatePermissionKeepsCore ==
    ASSUME Core, NEW p \in Permissions, NEW row \in PermissionRows,
           NamesGivenOut(row), UpdatePermission(p, row)
    PROVE  Core'
<1>1. UNCHANGED <<userVars, memberVars, userRoles, checked>>
  BY DEF UpdatePermission
<1>2. permission' = [permission EXCEPT ![p] = row]
  BY DEF UpdatePermission
<1>3. CoreTypeOK' /\ IndexesAgree'
  BY <1>1, <1>2 DEF Core, CoreTypeOK, IndexesAgree, userVars, memberVars
<1>4. MembersFit' /\ RolesFit' /\ EverybodyFits'
  BY <1>1 DEF Core, MembersFit, RolesFit, EverybodyFits, userVars, memberVars
<1>5. CountsFit'
  BY <1>1 DEF Core, CountsFit, memberVars, RecomputeGroupCounts
<1>6. (\A q \in Permissions : NamesGivenOut(permission[q]))'
  BY <1>1, <1>2 DEF Core, CoreTypeOK, NamesGivenOut, userVars
<1> QED
  BY <1>3, <1>4, <1>5, <1>6 DEF Core

(* Nothing changes but the requests on their way. *)
LEMMA LookingKeepsCore ==
    ASSUME Core, CoreTypeOK', UNCHANGED <<userVars, memberVars, userRoles, permission>>
    PROVE  Core'
<1>1. IndexesAgree' /\ MembersFit' /\ RolesFit' /\ EverybodyFits'
  BY DEF Core, IndexesAgree, MembersFit, RolesFit, EverybodyFits, userVars, memberVars
<1>2. CountsFit'
  BY DEF Core, CountsFit, memberVars, RecomputeGroupCounts
<1>3. (\A p \in Permissions : NamesGivenOut(permission[p]))'
  BY DEF Core, NamesGivenOut, userVars
<1> QED
  BY <1>1, <1>2, <1>3 DEF Core

(* A membership request past its first lock is about a group that is not    *)
(* fixed.                                                                  *)
LEMMA CheckedGroupsAreOrdinary ==
    ASSUME Core, NEW g \in Groups, NEW u \in Ids,
           AddGroupMember(g, u) \/ RemoveGroupMember(g, u)
    PROVE  g \in Groups \ {AllUsers}
BY DEF Core, CoreTypeOK, AddGroupMember, RemoveGroupMember, Proceeds

LEMMA MoveKeepsCore ==
    ASSUME Core, Move
    PROVE  Core'
<1>1. ASSUME NEW u \in Ids, NEW g \in Groups, NEW verb \in {"add", "remove"},
             GroupMembershipFixed(verb, g, u)
      PROVE  Core'
  <2>1. CoreTypeOK'
    BY <1>1 DEF Core, CoreTypeOK, GroupMembershipFixed, userVars, memberVars
  <2> QED
    BY <1>1, <2>1, LookingKeepsCore DEF GroupMembershipFixed
<1>2. CASE UNCHANGED coreVars
  <2>1. CoreTypeOK'
    BY <1>2 DEF Core, CoreTypeOK, coreVars, userVars, memberVars
  <2> QED
    BY <1>2, <2>1, LookingKeepsCore DEF coreVars
<1> QED
  BY <1>1, <1>2, CreateUserKeepsCore, DeleteUserKeepsCore, SetUserEnabledKeepsCore,
     SetUserRolesKeepsCore, MembershipKeepsCore, CheckedGroupsAreOrdinary,
     UpdatePermissionKeepsCore
     DEF Move

----------------------------------------------------------------------------
(* A user that appears inherits nothing.                                   *)

InheritsNothing ==
    \A u \in users' \ users :
      /\ \A g \in Groups : Contains(groupMembers'[g], u) <=> g = AllUsers
      /\ userRoles'[u] = {}
      /\ \A p \in Permissions : ~Names(permission'[p], u)

LEMMA MoveInheritsNothing ==
    ASSUME Core, Move
    PROVE  InheritsNothing
<1>1. ASSUME NEW u \in Ids, CreateUser(u)
      PROVE  InheritsNothing
  <2>1. u = nextUserID + 1 /\ u \notin users /\ users' = users \cup {u}
    BY <1>1 DEF Core, CoreTypeOK, IndexesAgree, CreateUser, Ids
  <2>2. object'[u].groups = {AllUsers}
    BY <1>1 DEF Core, CoreTypeOK, CreateUser, Nobody
  <2>3. MembersFit'
    BY <1>1, CreateUserKeepsCore DEF Core
  <2>4. \A g \in Groups : Contains(groupMembers'[g], u) <=> g = AllUsers
    BY <2>1, <2>2, <2>3 DEF MembersFit, Contains
  <2>5. userRoles'[u] = {}
    BY <1>1, <2>1 DEF Core, RolesFit, CreateUser
  <2>6. \A p \in Permissions : ~Names(permission'[p], u)
    <3> SUFFICES ASSUME NEW p \in Permissions, Names(permission[p], u)
                 PROVE  FALSE
      BY <1>1 DEF CreateUser
    <3>1. u <= nextUserID
      BY DEF Core, NamesGivenOut
    <3> QED
      BY <3>1, <2>1 DEF Core, CoreTypeOK
  <2> QED
    BY <2>1, <2>4, <2>5, <2>6 DEF InheritsNothing
<1>2. ASSUME users' \subseteq users
      PROVE  InheritsNothing
  BY <1>2 DEF InheritsNothing
<1> QED
  BY <1>1, <1>2 DEF Move, coreVars, userVars, DeleteUser, SetUserEnabled, SetUserRoles,
     GroupMembershipFixed, AddGroupMember, RemoveGroupMember, Proceeds, UpdatePermission

----------------------------------------------------------------------------
(* The moves are those of TenableAPI.                                      *)

\* What TenableAPI calls enabled, members and subjects.
Enabled == [u \in Ids |-> u \in usersByID /\ object[u].enabled]
Members == [g \in Groups |-> {u \in Ids : Contains(groupMembers[g], u)}]
SubjectsOf(row) ==
    {s.type : s \in {x \in row.subjects : x.type # User}}
      \cup {u \in Ids : \E s \in row.subjects : s.type = User /\ s.uuid = {u}}
Named == [p \in Permissions |-> SubjectsOf(permission[p])]

LEMMA CreateUserIsOne ==
    ASSUME Core, NEW u \in Ids, CreateUser(u)
    PROVE  API!CreateUser(u)
<1>1. /\ usersByID = users /\ usersByID' = users' /\ users' = users \cup {u}
      /\ u \notin users
  BY DEF Core, CoreTypeOK, IndexesAgree, CreateUser, Ids
<1>2. \A v \in Ids :
        object'[v] = IF v = u THEN [Nobody EXCEPT !.enabled = TRUE, !.groups = {AllUsers}]
                              ELSE object[v]
  BY DEF Core, CoreTypeOK, CreateUser
<1>3. object'[u].enabled /\ object'[u].groups = {AllUsers}
  BY <1>2 DEF Nobody
<1>4. Enabled' = [Enabled EXCEPT ![u] = TRUE]
  BY <1>1, <1>2, <1>3 DEF Enabled
<1>5. \A g \in Groups :
        Members'[g] = IF g \in {AllUsers} THEN Members[g] \cup {u} ELSE Members[g]
  <2> SUFFICES ASSUME NEW g \in Groups, NEW v \in Ids
               PROVE  v \in Members'[g] <=> \/ g = AllUsers /\ v = u
                                           \/ v \in Members[g]
    BY <1>1 DEF Members
  <2>1. v \in Members'[g] <=> v \in users' /\ g \in object'[v].groups
    BY CreateUserKeepsCore DEF Core, MembersFit, Members, Contains
  <2>2. v \in Members[g] <=> v \in users /\ g \in object[v].groups
    BY DEF Core, MembersFit, Members, Contains
  <2> QED
    BY <2>1, <2>2, <1>1, <1>2, <1>3
<1>6. Members' = [g \in Groups |-> IF g \in {AllUsers} THEN Members[g] \cup {u}
                                                      ELSE Members[g]]
  BY <1>5 DEF Members
<1>7. UNCHANGED <<userRoles, Named>>
  BY DEF CreateUser, Named
<1> QED
  BY <1>1, <1>4, <1>6, <1>7
     DEF API!CreateUser, Enabled, Members, Named, SubjectsOf

LEMMA DeleteUserIsOne ==
    ASSUME Core, NEW u \in Ids, DeleteUser(u)
    PROVE  API!DeleteUser(u)
<1>1. /\ u \in usersByID /\ usersByID' = usersByID \ {u}
      /\ UNCHANGED <<object, permission>>
      /\ userRoles' = [userRoles EXCEPT ![u] = {}]
  BY DEF DeleteUser
<1>2. Enabled' = [Enabled EXCEPT ![u] = FALSE]
  BY <1>1 DEF Enabled
<1>3. \A g \in Groups, v \in Ids :
        Contains(groupMembers'[g], v) <=> v # u /\ Contains(groupMembers[g], v)
  BY DEF Core, CoreTypeOK, DeleteUser, SetMembers, DeleteFrom, Lists, Contains
<1>4. Members' = [g \in Groups |-> Members[g] \ {u}]
  BY <1>3 DEF Members
<1>5. UNCHANGED Named
  BY <1>1 DEF Named
<1> QED
  BY <1>1, <1>2, <1>4, <1>5 DEF API!DeleteUser, Enabled, Members, Named, SubjectsOf

LEMMA SetUserEnabledIsOne ==
    ASSUME Core, NEW u \in Ids, NEW on \in BOOLEAN, SetUserEnabled(u, on)
    PROVE  API!SetUserEnabled(u, on)
<1>1. /\ u \in usersByID
      /\ UNCHANGED <<usersByID, groupMembers, userRoles, permission>>
      /\ \A v \in Ids : object'[v].enabled = IF v = u THEN on ELSE object[v].enabled
  BY DEF Core, CoreTypeOK, Objects, SetUserEnabled, memberVars
<1>2. Enabled' = [Enabled EXCEPT ![u] = on]
  BY <1>1 DEF Enabled
<1>3. UNCHANGED <<Members, Named>>
  BY <1>1 DEF Members, Named
<1> QED
  BY <1>1, <1>2, <1>3 DEF API!SetUserEnabled, Enabled, Members, Named, SubjectsOf

LEMMA SetUserRolesIsOne ==
    ASSUME Core, NEW u \in Ids, NEW roles \in SUBSET Roles, SetUserRoles(u, roles)
    PROVE  API!SetUserRoles(u, roles)
<1>1. /\ u \in usersByID
      /\ userRoles' = [userRoles EXCEPT ![u] = roles]
      /\ UNCHANGED <<usersByID, groupMembers, permission>>
      /\ \A v \in Ids : object'[v].enabled = object[v].enabled
  BY DEF Core, CoreTypeOK, IndexesAgree, Objects, SetUserRoles, memberVars
<1>2. UNCHANGED <<Enabled, Members, Named>>
  BY <1>1 DEF Enabled, Members, Named
<1> QED
  BY <1>1, <1>2 DEF API!SetUserRoles, Enabled, Members, Named, SubjectsOf

\* The variables of TenableAPI keep their values.
APIUnchanged == UNCHANGED <<usersByID, Enabled, Members, userRoles, Named>>

LEMMA MembershipIsOne ==
    ASSUME Core, NEW g \in Groups \ {AllUsers}, NEW u \in Ids,
           AddGroupMember(g, u) \/ RemoveGroupMember(g, u)
    PROVE  APIUnchanged \/ API!AddGroupMember(g, u) \/ API!RemoveGroupMember(g, u)
<1>1. UNCHANGED <<usersByID, userRoles, permission>>
  BY DEF AddGroupMember, RemoveGroupMember, Proceeds
<1>2. \A v \in Ids : object'[v].enabled = object[v].enabled
  <2>1. \/ object' = object
        \/ \E groups : object' = [object EXCEPT ![u].groups = groups]
    BY DEF AddGroupMember, RemoveGroupMember
  <2>2. object \in [Ids -> Objects]
    BY DEF Core, CoreTypeOK
  <2>3. ASSUME NEW groups, object' = [object EXCEPT ![u].groups = groups], NEW v \in Ids
        PROVE  object'[v].enabled = object[v].enabled
    <3>1. CASE v = u
      <4>1. object'[u] = [object[u] EXCEPT !.groups = groups]
        BY <2>2, <2>3
      <4>2. object[u] \in Objects
        BY <2>2
      <4> QED
        BY <3>1, <4>1, <4>2 DEF Objects
    <3>2. CASE v # u
      BY <2>2, <2>3, <3>2
    <3> QED
      BY <3>1, <3>2
  <2> QED
    BY <2>1, <2>3
<1>3. UNCHANGED <<Enabled, Named>>
  BY <1>1, <1>2 DEF Enabled, Named
<1>4. CASE UNCHANGED <<object, memberVars>>
  BY <1>1, <1>3, <1>4 DEF APIUnchanged, Members, memberVars
<1>5. CASE AddGroupMember(g, u) /\ ~UNCHANGED <<object, memberVars>>
  <2>1. /\ u \in usersByID
        /\ groupMembers' = [groupMembers EXCEPT ![g] = AppendTo(groupMembers[g], u)]
    BY <1>5 DEF AddGroupMember, SetMembers
  <2>2. \A v \in Ids : Contains(AppendTo(groupMembers[g], u), v)
                         <=> v = u \/ Contains(groupMembers[g], v)
    BY DEF Core, CoreTypeOK, Lists, Contains, AppendTo
  <2>3. Members' = [Members EXCEPT ![g] = Members[g] \cup {u}]
    BY <2>1, <2>2 DEF Core, CoreTypeOK, Members
  <2> QED
    BY <2>1, <2>3, <1>1, <1>3 DEF API!AddGroupMember, Enabled, Members, Named, SubjectsOf
<1>6. CASE RemoveGroupMember(g, u) /\ ~UNCHANGED <<object, memberVars>>
  <2>1. /\ u \in usersByID
        /\ groupMembers' = [groupMembers EXCEPT ![g] = DeleteFrom(groupMembers[g], u)]
    BY <1>6 DEF RemoveGroupMember, SetMembers
  <2>2. \A v \in Ids : Contains(DeleteFrom(groupMembers[g], u), v)
                         <=> v # u /\ Contains(groupMembers[g], v)
    BY DEF Core, CoreTypeOK, Lists, Contains, DeleteFrom
  <2>3. Members' = [Members EXCEPT ![g] = Members[g] \ {u}]
    BY <2>1, <2>2 DEF Core, CoreTypeOK, Members
  <2> QED
    BY <2>1, <2>3, <1>1, <1>3 DEF API!RemoveGroupMember, Enabled, Members, Named, SubjectsOf
<1> QED
  BY <1>4, <1>5, <1>6

LEMMA UpdatePermissionIsOne ==
    ASSUME Core, NEW p \in Permissions, NEW row \in PermissionRows,
           UpdatePermission(p, row)
    PROVE  /\ Named'[p] \in SUBSET (Ids \cup OtherTypes)
           /\ API!UpdatePermission(p, Named'[p])
<1>1. /\ permission' = [permission EXCEPT ![p] = row]
      /\ UNCHANGED <<usersByID, object, groupMembers, userRoles>>
  BY DEF UpdatePermission, userVars, memberVars
<1>2. \A q \in Permissions : Named'[q] = IF q = p THEN SubjectsOf(row) ELSE Named[q]
  BY <1>1 DEF Core, CoreTypeOK, Named
<1>3. Named' = [Named EXCEPT ![p] = Named'[p]]
  BY <1>2 DEF Named
<1>4. SubjectsOf(row) \in SUBSET (Ids \cup OtherTypes)
  BY DEF SubjectsOf, PermissionRows, Subject, OtherTypes
<1>5. UNCHANGED <<usersByID, Enabled, Members, userRoles>>
  BY <1>1 DEF Enabled, Members
<1> QED
  BY <1>2, <1>3, <1>4, <1>5 DEF API!UpdatePermission, Enabled, Members, Named, SubjectsOf

LEMMA MoveIsOne ==
    ASSUME Core, Move
    PROVE  [API!APINext]_(API!apiVars)
<1>1. ASSUME APIUnchanged
      PROVE  UNCHANGED API!apiVars
  BY <1>1 DEF APIUnchanged, API!apiVars, Enabled, Members, Named, SubjectsOf
<1>2. ASSUME UNCHANGED <<userVars, memberVars, userRoles, permission>>
      PROVE  APIUnchanged
  BY <1>2 DEF APIUnchanged, Enabled, Members, Named, userVars, memberVars
<1>3. ASSUME NEW u \in Ids, NEW g \in Groups, NEW verb \in {"add", "remove"},
             GroupMembershipFixed(verb, g, u)
      PROVE  APIUnchanged
  BY <1>2, <1>3 DEF GroupMembershipFixed
<1>4. ASSUME UNCHANGED coreVars
      PROVE  APIUnchanged
  BY <1>2, <1>4 DEF coreVars
<1>5. ASSUME NEW u \in Ids,
             \/ CreateUser(u)
             \/ DeleteUser(u)
             \/ \E on \in BOOLEAN : SetUserEnabled(u, on)
             \/ \E roles \in SUBSET Roles : SetUserRoles(u, roles)
      PROVE  API!APINext
  BY <1>5, CreateUserIsOne, DeleteUserIsOne, SetUserEnabledIsOne, SetUserRolesIsOne
     DEF API!APINext
<1>6. ASSUME NEW u \in Ids, NEW g \in Groups,
             AddGroupMember(g, u) \/ RemoveGroupMember(g, u)
      PROVE  API!APINext \/ APIUnchanged
  BY <1>6, MembershipIsOne, CheckedGroupsAreOrdinary DEF API!APINext
<1>7. ASSUME NEW p \in Permissions, NEW row \in PermissionRows, UpdatePermission(p, row)
      PROVE  API!APINext
  BY <1>7, UpdatePermissionIsOne DEF API!APINext, API!Subjects, Named, SubjectsOf
<1> QED
  BY <1>1, <1>3, <1>4, <1>5, <1>6, <1>7 DEF Move

----------------------------------------------------------------------------
(* The actions: what holds of a row, whatever the container does.          *)

Ended(row) == row.handler \in {"close", "closed"}

ActionFits(row) ==
    /\ row.handler = "idle" => /\ row.status = "none" /\ row.caller = "idle"
                               /\ row.told = "none"
    /\ row.handler = "ready" => row.status = "PENDING" \/ row.cancelled
    /\ row.handler \in {"put", "publish"} => row.status = "RUNNING" \/ row.cancelled
    /\ Ended(row) => row.status = Outcome(row) /\ ~row.cancelled
    /\ row.cancelled => row.status = "FAILED" /\ row.caller \in {"cancelling", "gone"}
    /\ row.result = "ok" => row.applied
    /\ row.told \in Settled => Ended(row) /\ row.told = Outcome(row)

(* A handler's step leaves a row that fits. *)
LEMMA HandlerFits ==
    ASSUME NEW x \in Actions, action \in [Actions -> ActionRows],
           ActionFits(action[x]), HandlerRuns(x)
    PROVE  \E row \in ActionRows : ActionFits(row) /\ Becomes(x, row)
<1> DEFINE old == action[x]
<1>1. old \in ActionRows
  OBVIOUS
<1>2. CASE HandlerStarts(x)
  <2> DEFINE row == [WithStatus(old, "RUNNING") EXCEPT !.handler = "put"]
  <2>1. row \in ActionRows
    BY <1>1 DEF WithStatus, ActionRows, Statuses, Settled
  <2>2. ActionFits(row)
    BY <1>1, <1>2 DEF HandlerStarts, ActionFits, ActionRows, WithStatus, Accepts,
                      Ended, Outcome, Settled
  <2> QED
    BY <1>2, <2>1, <2>2 DEF HandlerStarts
<1>3. ASSUME NEW result \in {"ok", "error"}, NEW applied \in BOOLEAN,
             old.handler = "put", result = "ok" => applied,
             Becomes(x, [old EXCEPT !.handler = "publish", !.result = result,
                                    !.applied = applied])
      PROVE  \E row \in ActionRows : ActionFits(row) /\ Becomes(x, row)
  <2> DEFINE row == [old EXCEPT !.handler = "publish", !.result = result,
                                !.applied = applied]
  <2>1. row \in ActionRows
    BY <1>1, <1>3 DEF ActionRows
  <2>2. ActionFits(row)
    BY <1>1, <1>3 DEF ActionFits, ActionRows, Ended, Settled
  <2> QED
    BY <1>3, <2>1, <2>2
<1>4. CASE HandlerPuts(x)
  BY <1>3, <1>4 DEF HandlerPuts
<1>5. CASE HandlerPutFails(x)
  <2> DEFINE row == [old EXCEPT !.handler = "publish", !.result = "error"]
  <2>1. row \in ActionRows
    BY <1>1 DEF ActionRows
  <2>2. ActionFits(row)
    BY <1>1, <1>5 DEF HandlerPutFails, ActionFits, ActionRows, Ended, Settled
  <2> QED
    BY <1>5, <2>1, <2>2 DEF HandlerPutFails
<1>6. CASE HandlerPublishes(x)
  <2> DEFINE row  == [WithOutcome(old, Outcome(old)) EXCEPT !.handler = "close"]
             kept == WithOutcome(old, Outcome(old))
  <2>1. row \in ActionRows
    <3>1. Outcome(old) \in Statuses
      BY DEF Outcome, Statuses, Settled
    <3>2. kept \in ActionRows
      <4>1. kept = [old EXCEPT !.status = Outcome(old), !.cancelled = FALSE] \/ kept = old
        BY DEF WithOutcome
      <4> HIDE DEF kept, old
      <4> QED
        BY <1>1, <3>1, <4>1 DEF ActionRows
    <3> HIDE DEF kept
    <3>3. [kept EXCEPT !.handler = "close"] \in ActionRows
      BY <3>2 DEF ActionRows
    <3> QED
      BY <3>3 DEF kept
  <2>2. /\ row.status = Outcome(old) /\ ~row.cancelled /\ row.result = old.result
        /\ row.applied = old.applied /\ row.told = old.told /\ row.handler = "close"
    BY <1>1, <1>6 DEF HandlerPublishes, ActionFits, ActionRows, WithOutcome, Accepts,
                      Settled, Outcome
  <2>3. old.told \notin Settled
    BY <1>6 DEF HandlerPublishes, ActionFits, Ended
  <2>4. ActionFits(row)
    BY <1>1, <2>2, <2>3 DEF ActionFits, Ended, Outcome
  <2> QED
    BY <1>6, <2>1, <2>4 DEF HandlerPublishes
<1>7. CASE HandlerCloses(x)
  <2> DEFINE row == [old EXCEPT !.handler = "closed"]
  <2>1. row \in ActionRows
    BY <1>1 DEF ActionRows
  <2>2. ActionFits(row)
    BY <1>1, <1>7 DEF HandlerCloses, ActionFits, ActionRows, Ended, Outcome
  <2> QED
    BY <1>7, <2>1, <2>2 DEF HandlerCloses
<1> QED
  BY <1>2, <1>4, <1>5, <1>6, <1>7 DEF HandlerRuns

(* A record that is settled and not cancelled has its outcome. *)
LEMMA ToldFits ==
    ASSUME NEW x \in Actions, action \in [Actions -> ActionRows],
           ActionFits(action[x]), action[x].handler # "idle", ~action[x].cancelled
    PROVE  ActionFits(Told(x)) /\ Told(x) \in ActionRows
<1>1. Told(x) \in ActionRows
  <2> DEFINE old == action[x]
  <2>1. old \in ActionRows
    OBVIOUS
  <2> HIDE DEF old
  <2>2. [old EXCEPT !.caller = "told", !.told = old.status] \in ActionRows
    BY <2>1 DEF ActionRows
  <2> QED
    BY <2>2 DEF Told, old
<1>2. action[x].status \in Settled => Ended(action[x])
  BY DEF ActionFits, ActionRows, Ended, Settled
<1> QED
  BY <1>1, <1>2 DEF Told, ActionFits, ActionRows, Ended, Outcome

LEMMA CallerFits ==
    ASSUME NEW x \in Actions, action \in [Actions -> ActionRows],
           ActionFits(action[x]),
           \/ CallReturns(x)
           \/ CallCancelled(x)
           \/ CancelledReturns(x)
           \/ GetActionStatus(x)
    PROVE  \E row \in ActionRows : ActionFits(row) /\ Becomes(x, row)
<1> DEFINE old == action[x]
<1>1. old \in ActionRows
  OBVIOUS
<1>2. old.caller # "idle" /\ old.handler # "idle"
  BY DEF CallReturns, CallCancelled, CancelledReturns, GetActionStatus, ActionFits
<1>3. CASE CallReturns(x) \/ GetActionStatus(x)
  <2>1. ~old.cancelled
    BY <1>3 DEF CallReturns, GetActionStatus, ActionFits
  <2> QED
    BY <1>2, <1>3, <2>1, ToldFits DEF CallReturns, GetActionStatus
<1>4. CASE CallCancelled(x)
  <2> DEFINE row == [WithCancel(old) EXCEPT !.caller = "cancelling"]
  <2>1. row \in ActionRows
    BY <1>1 DEF WithCancel, ActionRows, Statuses, Settled
  <2>2. ActionFits(row)
    BY <1>1, <1>2, <1>4 DEF CallCancelled, ActionFits, ActionRows, WithCancel, Accepts,
                           Ended, Outcome, Settled
  <2> QED
    BY <1>4, <2>1, <2>2 DEF CallCancelled
<1>5. CASE CancelledReturns(x)
  <2>1. CASE old.status = "COMPLETE"
    <3>1. ~old.cancelled
      BY <2>1 DEF ActionFits
    <3> QED
      BY <1>2, <1>5, <2>1, <3>1, ToldFits DEF CancelledReturns
  <2>2. CASE old.status # "COMPLETE"
    <3> DEFINE row == [old EXCEPT !.caller = "gone"]
    <3>1. row \in ActionRows
      BY <1>1 DEF ActionRows
    <3>2. ActionFits(row)
      BY <1>1, <1>2 DEF ActionFits, ActionRows, Ended, Outcome
    <3> QED
      BY <1>5, <2>2, <3>1, <3>2 DEF CancelledReturns
  <2> QED
    BY <2>1, <2>2
<1> QED
  BY <1>3, <1>4, <1>5

LEMMA InvokeFits ==
    ASSUME NEW x \in Actions, action \in [Actions -> ActionRows],
           ActionFits(action[x]), Invoke(x)
    PROVE  \E row \in ActionRows : ActionFits(row) /\ Becomes(x, row)
<1>1. PICK on \in BOOLEAN, who \in Targets :
        Becomes(x, [action[x] EXCEPT !.on = on, !.who = who, !.status = "PENDING",
                                     !.handler = "ready", !.caller = "waiting"])
  BY DEF Invoke
<1> DEFINE row == [action[x] EXCEPT !.on = on, !.who = who, !.status = "PENDING",
                                    !.handler = "ready", !.caller = "waiting"]
<1>2. action[x].status = "none" /\ action[x] \in ActionRows
  BY DEF Invoke
<1>3. row \in ActionRows
  BY <1>2, TargetsAreIds DEF ActionRows, Statuses, Settled
<1>4. action[x].told \notin Settled /\ ~action[x].cancelled
  BY <1>2 DEF ActionFits, Ended, Outcome, Settled
<1>5. ActionFits(row)
  BY <1>2, <1>4 DEF ActionFits, ActionRows, Ended, Settled
<1> QED
  BY <1>1, <1>3, <1>5

\* Of every action.
ActionsFit ==
    /\ action \in [Actions -> ActionRows]
    /\ \A x \in Actions : ActionFits(action[x])

LEMMA ActionStepFits ==
    ASSUME ActionsFit, NEW x \in Actions, ActionStep(x)
    PROVE  ActionsFit'
<1>1. PICK row \in ActionRows : ActionFits(row) /\ Becomes(x, row)
  BY HandlerFits, CallerFits, InvokeFits DEF ActionStep, ActionsFit
<1>2. action' \in [Actions -> ActionRows]
  BY <1>1 DEF ActionsFit, Becomes
<1>3. \A y \in Actions : action'[y] = IF y = x THEN row ELSE action[y]
  BY <1>1 DEF ActionsFit, Becomes
<1> QED
  BY <1>1, <1>2, <1>3 DEF ActionsFit

----------------------------------------------------------------------------
(* The attempts.                                                           *)

AttemptFits(row) ==
    /\ row.pc # "done" => row.outcome = "none"
    /\ row.pc = "deliver" => row.answer = row.made
    /\ row.outcome = "ok" => row.answer = row.made
    /\ row.made # {} <=> \/ row.pc = "deliver"
                         \/ row.outcome \in {"ok", "answerLost", "undelivered"}
    /\ \A u, v \in row.made : u = v

AttemptsFit ==
    /\ attempt \in [Attempts -> AttemptRows]
    /\ \A a \in Attempts :
         /\ AttemptFits(attempt[a])
         /\ \A u \in attempt[a].made : u <= nextUserID
         /\ \A b \in Attempts \ {a} : attempt[a].made \cap attempt[b].made = {}

(* Ids are given out in ascending order. *)
LEMMA MoveGivesOutIds ==
    ASSUME Core, Move
    PROVE  nextUserID' \in Nat /\ nextUserID <= nextUserID'
<1>1. nextUserID \in Nat
  BY BoundsAreNumbers DEF Core, CoreTypeOK
<1>2. ASSUME NEW u \in Ids, CreateUser(u)
      PROVE  nextUserID' = nextUserID + 1
  BY <1>2 DEF CreateUser
<1>3. (\E u \in Ids : CreateUser(u)) \/ UNCHANGED nextUserID
  BY DEF Move, coreVars, userVars, DeleteUser, SetUserEnabled, SetUserRoles,
     GroupMembershipFixed, AddGroupMember, RemoveGroupMember, Proceeds, UpdatePermission
<1> QED
  BY <1>1, <1>2, <1>3

(* A row that makes nothing, or a user that has just appeared. *)
LEMMA AttemptKeepsFit ==
    ASSUME Core, AttemptsFit, NEW a \in Attempts, NEW row \in AttemptRows,
           Moves(a, row), AttemptFits(row),
           nextUserID' \in Nat, nextUserID <= nextUserID',
           \/ row.made \subseteq attempt[a].made
           \/ \A u \in row.made : u = nextUserID + 1 /\ u = nextUserID'
    PROVE  AttemptsFit'
<1>1. attempt' \in [Attempts -> AttemptRows]
  BY DEF AttemptsFit, Moves
<1>2. \A b \in Attempts : attempt'[b] = IF b = a THEN row ELSE attempt[b]
  BY DEF AttemptsFit, Moves
<1>3. nextUserID \in Nat
  BY BoundsAreNumbers DEF Core, CoreTypeOK
<1>4. \A b \in Attempts : attempt[b].made \in SUBSET Nat /\ row.made \in SUBSET Nat
  BY DEF AttemptsFit, AttemptRows, Ids
<1>5. ASSUME NEW b \in Attempts
      PROVE  \A u \in attempt'[b].made : u <= nextUserID'
  BY <1>2, <1>3, <1>4 DEF AttemptsFit
<1>6. ASSUME NEW b \in Attempts \ {a}
      PROVE  row.made \cap attempt[b].made = {}
  BY <1>3, <1>4 DEF AttemptsFit
<1>7. ASSUME NEW b \in Attempts, NEW c \in Attempts \ {b}
      PROVE  attempt'[b].made \cap attempt'[c].made = {}
  BY <1>2, <1>6 DEF AttemptsFit
<1>8. \A b \in Attempts : AttemptFits(attempt'[b])
  BY <1>2 DEF AttemptsFit
<1> QED
  BY <1>1, <1>5, <1>7, <1>8 DEF AttemptsFit

(* An attempt begins, ends, or makes a user. *)
LEMMA AttemptStepFits ==
    ASSUME Core, AttemptsFit, NEW a \in Attempts, AttemptStep(a)
    PROVE  AttemptsFit' /\ Move
<1> DEFINE old == attempt[a]
<1>1. old \in AttemptRows /\ AttemptFits(old)
  BY DEF AttemptsFit
<1>2. nextUserID \in Nat
  BY BoundsAreNumbers DEF Core, CoreTypeOK
<1>3. CASE UNCHANGED coreVars
  <2>1. nextUserID' \in Nat /\ nextUserID <= nextUserID'
    BY <1>2, <1>3 DEF coreVars, userVars
  <2>2. ASSUME NEW outcome \in {"turnedDown", "refused", "failed"},
               old.pc \in {"idle", "post"}, EndsAs(a, outcome)
        PROVE  AttemptsFit'
    <3> DEFINE row == [old EXCEPT !.pc = "done", !.outcome = outcome]
    <3>1. row \in AttemptRows
      BY <1>1 DEF AttemptRows
    <3>2. AttemptFits(row) /\ row.made \subseteq old.made
      BY <1>1, <2>2 DEF AttemptFits, AttemptRows
    <3> HIDE DEF row
    <3>3. Moves(a, row)
      BY <2>2 DEF EndsAs, row
    <3> QED
      BY <2>1, <3>1, <3>2, <3>3, AttemptKeepsFit
  <2>3. ASSUME NEW outcome \in {"ok", "undelivered"},
               old.pc = "deliver", EndsAs(a, outcome)
        PROVE  AttemptsFit'
    <3> DEFINE row == [old EXCEPT !.pc = "done", !.outcome = outcome]
    <3>1. row \in AttemptRows
      BY <1>1 DEF AttemptRows
    <3>2. AttemptFits(row) /\ row.made \subseteq old.made
      BY <1>1, <2>3 DEF AttemptFits, AttemptRows
    <3> HIDE DEF row
    <3>3. Moves(a, row)
      BY <2>3 DEF EndsAs, row
    <3> QED
      BY <2>1, <3>1, <3>2, <3>3, AttemptKeepsFit
  <2>4. ASSUME NEW named \in BOOLEAN, NEW length \in Lengths,
               Moves(a, [NoAttempt EXCEPT !.pc = "post", !.named = named,
                                          !.password = GeneratedLength(length)])
        PROVE  AttemptsFit'
    <3> DEFINE row == [NoAttempt EXCEPT !.pc = "post", !.named = named,
                                        !.password = GeneratedLength(length)]
    <3>1. GeneratedLength(length) \in Nat
      BY LengthsAreValid DEF GeneratedLength, Min2
    <3>2. row \in AttemptRows
      BY <3>1 DEF AttemptRows, NoAttempt
    <3>3. AttemptFits(row) /\ row.made \subseteq old.made
      BY DEF AttemptFits, NoAttempt
    <3> HIDE DEF row
    <3>4. Moves(a, row)
      BY <2>4 DEF row
    <3> QED
      BY <2>1, <3>2, <3>3, <3>4, AttemptKeepsFit
  <2>5. ASSUME BeginAttempt(a)
        PROVE  AttemptsFit'
    <3>1. PICK order \in Orders :
            \/ EndsAs(a, "turnedDown")
            \/ Moves(a, [NoAttempt EXCEPT !.pc = "post", !.named = (order.profile = "full"),
                                          !.password = GeneratedLength(order.length)])
      BY <2>5 DEF BeginAttempt
    <3>2. order.length \in Lengths /\ (order.profile = "full") \in BOOLEAN
      BY DEF Orders
    <3> QED
      BY <2>2, <2>4, <2>5, <3>1, <3>2 DEF BeginAttempt
  <2>6. ASSUME PostFails(a)
        PROVE  AttemptsFit'
    BY <2>2, <2>6 DEF PostFails
  <2>7. ASSUME Deliver(a)
        PROVE  AttemptsFit'
    BY <2>3, <2>7 DEF Deliver
  <2>8. ~PostUser(a)
    <3> SUFFICES ASSUME NEW u \in Ids, CreateUser(u)
                 PROVE  FALSE
      BY DEF PostUser
    <3>1. nextUserID' = nextUserID + 1
      BY DEF CreateUser
    <3> QED
      BY <1>2, <1>3, <3>1 DEF coreVars, userVars
  <2> QED
    BY <1>3, <2>5, <2>6, <2>7, <2>8 DEF AttemptStep, Move
<1>4. CASE PostUser(a)
  <2>1. PICK u \in Ids :
          /\ CreateUser(u)
          /\ \/ Moves(a, [old EXCEPT !.pc = "deliver", !.made = {u}, !.answer = {u}])
             \/ Moves(a, [old EXCEPT !.pc = "done", !.made = {u}, !.outcome = "answerLost"])
    BY <1>4 DEF PostUser
  <2>2. u = nextUserID + 1 /\ u = nextUserID'
    BY <2>1 DEF CreateUser
  <2>3. old.pc = "post"
    BY <1>4 DEF PostUser
  <2>4. PICK row \in AttemptRows : Moves(a, row) /\ AttemptFits(row) /\ row.made = {u}
    <3> DEFINE row1 == [old EXCEPT !.pc = "deliver", !.made = {u}, !.answer = {u}]
               row2 == [old EXCEPT !.pc = "done", !.made = {u}, !.outcome = "answerLost"]
    <3>1. row1 \in AttemptRows /\ AttemptFits(row1) /\ row1.made = {u}
      BY <1>1, <2>3 DEF AttemptRows, AttemptFits
    <3>2. row2 \in AttemptRows /\ AttemptFits(row2) /\ row2.made = {u}
      BY <1>1, <2>3 DEF AttemptRows, AttemptFits
    <3> QED
      BY <2>1, <3>1, <3>2
  <2>5. nextUserID' \in Nat /\ nextUserID <= nextUserID'
    BY <1>2, <2>2
  <2>6. AttemptsFit'
    BY <2>2, <2>4, <2>5, AttemptKeepsFit
  <2> QED
    BY <2>1, <2>6 DEF Move
<1>5. ASSUME BeginAttempt(a) \/ PostFails(a) \/ Deliver(a)
      PROVE  UNCHANGED coreVars
  BY <1>5 DEF BeginAttempt, PostFails, Deliver, serverVars, coreVars
<1> QED
  BY <1>3, <1>4, <1>5 DEF AttemptStep

----------------------------------------------------------------------------
(* What the connector's types make of a permission.                        *)

(* A subject without a UUID, and an object, is one with the zero UUID.      *)
LEMMA DecodedIsKnown ==
    /\ \A s \in Subject : /\ Decoded(s) \in Subject
                          /\ Bare(Decoded(s)) = Bare(s)
                          /\ \A u \in Ids : Decoded(s).uuid = {u} <=> s.uuid = {u}
    /\ \A o \in PermissionObject : /\ Decoded(o) \in PermissionObject
                                   /\ Bare(Decoded(o)) = Bare(o)
                                   /\ Decoded(o).colons = o.colons
<1>1. 0 \notin Ids
  BY DEF Ids
<1>2. ASSUME NEW s \in Subject, s.uuid = {}
      PROVE  Decoded(s) = [type |-> s.type, uuid |-> {0}] /\ s.type \in WideTypes
  BY <1>2 DEF Decoded, Subject
<1>3. ASSUME NEW o \in PermissionObject, o.uuid = {}
      PROVE  /\ Decoded(o) = [type |-> AllAssets, uuid |-> {0}, colons |-> 0]
             /\ o.type = AllAssets /\ o.colons = 0
  <2>1. o \in [type : {AllAssets}, uuid : {{}, {0}}, colons : {0}]
    BY <1>3 DEF PermissionObject
  <2>2. o = [type |-> AllAssets, uuid |-> {}, colons |-> 0]
    BY <1>3, <2>1
  <2> QED
    BY <2>2 DEF Decoded
<1>4. ASSUME NEW x, x.uuid # {}
      PROVE  Decoded(x) = x
  BY <1>4 DEF Decoded
<1>5. ASSUME NEW s \in Subject
      PROVE  /\ Decoded(s) \in Subject
             /\ Bare(Decoded(s)) = Bare(s)
             /\ \A u \in Ids : Decoded(s).uuid = {u} <=> s.uuid = {u}
  <2>1. CASE s.uuid = {}
    <3>1. Decoded(s) \in Subject
      BY <1>2, <2>1 DEF Subject
    <3>2. Decoded(s).uuid = {0} /\ Decoded(s).type = s.type
      BY <1>2, <2>1
    <3>3. Decoded(Decoded(s)) = Decoded(s)
      BY <1>4, <3>2
    <3> QED
      BY <1>1, <2>1, <3>1, <3>2, <3>3 DEF Bare
  <2>2. CASE s.uuid # {}
    BY <1>4, <2>2
  <2> QED
    BY <2>1, <2>2
<1>6. ASSUME NEW o \in PermissionObject
      PROVE  /\ Decoded(o) \in PermissionObject
             /\ Bare(Decoded(o)) = Bare(o)
             /\ Decoded(o).colons = o.colons
  <2>1. CASE o.uuid = {}
    <3>1. Decoded(o) \in PermissionObject
      BY <1>3, <2>1 DEF PermissionObject
    <3>2. Decoded(o).uuid = {0} /\ Decoded(o).type = o.type /\ Decoded(o).colons = o.colons
      BY <1>3, <2>1
    <3>3. Decoded(Decoded(o)) = Decoded(o)
      BY <1>4, <3>2
    <3> QED
      BY <3>1, <3>2, <3>3 DEF Bare
  <2>2. CASE o.uuid # {}
    BY <1>4, <2>2
  <2> QED
    BY <2>1, <2>2
<1> QED
  BY <1>5, <1>6

LEMMA DecodeKeeps ==
    ASSUME NEW row \in PermissionRows
    PROVE  /\ Decode(row) \in PermissionRows
           /\ Decode(row).rest = row.rest
           /\ Decode(row).objects = {Decoded(o) : o \in row.objects}
           /\ Decode(row).subjects = {Decoded(s) : s \in row.subjects}
           /\ \A u \in Ids : Names(Decode(row), u) <=> Names(row, u)
<1> DEFINE objects == {Decoded(o) : o \in row.objects}
           subjects == {Decoded(s) : s \in row.subjects}
<1>1. row.subjects \subseteq Subject /\ row.objects \subseteq PermissionObject
  BY DEF PermissionRows
<1>2. objects \in SUBSET PermissionObject /\ subjects \in SUBSET Subject
  BY <1>1, DecodedIsKnown
<1>3. \A u \in Ids : (\E s \in subjects : s.uuid = {u}) <=> Names(row, u)
  BY <1>1, DecodedIsKnown DEF Names
<1>4. Decode(row) = [row EXCEPT !.objects = objects, !.subjects = subjects]
  BY DEF Decode
<1> HIDE DEF objects, subjects
<1>5. Decode(row) = [rest |-> row.rest, objects |-> objects, subjects |-> subjects]
  BY <1>4 DEF PermissionRows
<1>6. Decode(row) \in PermissionRows
  BY <1>2, <1>5 DEF PermissionRows
<1>7. \A u \in Ids : Names(Decode(row), u) <=> Names(row, u)
  BY <1>3, <1>5 DEF Names
<1> QED
  BY <1>5, <1>6, <1>7 DEF objects, subjects

(* Of a tag parseTagNames takes one colon, if there is one.                *)
LEMMA TagParsedIsKnown ==
    \A o \in PermissionObject : /\ TagParsed(o) \in PermissionObject
                                /\ Bare(TagParsed(o)) = Bare(o)
                                /\ o.colons - TagParsed(o).colons \in {0, 1}
<1> SUFFICES ASSUME NEW o \in PermissionObject
             PROVE  /\ TagParsed(o) \in PermissionObject
                    /\ Bare(TagParsed(o)) = Bare(o)
                    /\ o.colons - TagParsed(o).colons \in {0, 1}
  OBVIOUS
<1>1. o.colons \in Nat
  BY BoundsAreNumbers DEF PermissionObject
<1>2. CASE o.type = Tag /\ o.colons > 0
  <2>1. o \in [type : {Tag}, uuid : {{t} : t \in TagUUIDs}, colons : 0..MaxColons]
    BY <1>2, TypesAreDistinct DEF PermissionObject
  <2>2. TagParsed(o) = [type |-> Tag, uuid |-> o.uuid, colons |-> o.colons - 1]
    BY <1>2, <2>1 DEF TagParsed
  <2>3. o.colons - 1 \in 0..MaxColons
    BY <1>1, <1>2, <2>1, BoundsAreNumbers
  <2>4. TagParsed(o) \in PermissionObject
    BY <2>1, <2>2, <2>3 DEF PermissionObject
  <2>5. o.uuid # {} /\ o.type = Tag
    BY <2>1
  <2>6. Bare(TagParsed(o)) = Bare(o)
    BY <2>2, <2>5 DEF Bare, Decoded
  <2> QED
    BY <1>1, <2>2, <2>4, <2>6
<1>3. CASE ~(o.type = Tag /\ o.colons > 0)
  BY <1>1, <1>3 DEF TagParsed
<1> QED
  BY <1>2, <1>3

LEMMA EncodeKeeps ==
    ASSUME NEW row \in PermissionRows
    PROVE  /\ Encode(row) \in PermissionRows
           /\ Encode(row).rest = row.rest
           /\ Encode(row).objects = {TagParsed(o) : o \in row.objects}
           /\ Encode(row).subjects = row.subjects
<1> DEFINE objects == {TagParsed(o) : o \in row.objects}
<1>1. objects \in SUBSET PermissionObject
  BY TagParsedIsKnown DEF PermissionRows
<1>2. Encode(row) = [row EXCEPT !.objects = objects]
  BY DEF Encode
<1> HIDE DEF objects
<1>3. Encode(row) = [rest |-> row.rest, objects |-> objects, subjects |-> row.subjects]
  BY <1>2 DEF PermissionRows
<1> QED
  BY <1>1, <1>3 DEF PermissionRows, objects

LEMMA EditsKeep ==
    ASSUME NEW row \in PermissionRows, NEW u \in Ids
    PROVE  /\ WithUser(row, u) \in PermissionRows
           /\ WithoutUser(row, u) \in PermissionRows
           /\ \A v \in Ids : Names(WithUser(row, u), v) <=> v = u \/ Names(row, v)
           /\ \A v \in Ids : Names(WithoutUser(row, u), v) <=> v # u /\ Names(row, v)
           /\ ButUser(WithUser(row, u), u) = ButUser(row, u)
           /\ ButUser(WithoutUser(row, u), u) = ButUser(row, u)
           /\ WithUser(row, u).objects = row.objects
           /\ WithoutUser(row, u).objects = row.objects
<1> DEFINE new == [type |-> User, uuid |-> {u}]
           more == row.subjects \cup {new}
           less == {s \in row.subjects : s.uuid # {u}}
<1>1. new \in Subject /\ row.subjects \subseteq Subject
  BY DEF Subject, PermissionRows
<1>2. more \in SUBSET Subject /\ less \in SUBSET Subject
  BY <1>1
<1>3. /\ WithUser(row, u) = [row EXCEPT !.subjects = more]
      /\ WithoutUser(row, u) = [row EXCEPT !.subjects = less]
  BY DEF WithUser, WithoutUser, PermissionRows
<1>4. Bare(new) = new
  BY DEF Bare, Decoded
<1>5. \A s \in Subject : s.uuid = {u} => Bare(s) = new
  <2> SUFFICES ASSUME NEW s \in Subject, s.uuid = {u}
               PROVE  Bare(s) = new
    OBVIOUS
  <2>1. u # 0 /\ u \notin GroupUUIDs
    BY UUIDsAreDistinct DEF Ids
  <2>2. s.type = User
    BY <2>1 DEF Subject
  <2> QED
    BY <2>2 DEF Bare, Decoded
<1>6. /\ {Bare(s) : s \in more} \ {new} = {Bare(s) : s \in row.subjects} \ {new}
      /\ {Bare(s) : s \in less} \ {new} = {Bare(s) : s \in row.subjects} \ {new}
  BY <1>1, <1>4, <1>5
<1>7. /\ \A v \in Ids : (\E s \in more : s.uuid = {v}) <=> v = u \/ Names(row, v)
      /\ \A v \in Ids : (\E s \in less : s.uuid = {v}) <=> v # u /\ Names(row, v)
  <2>1. new.uuid = {u} /\ \A v \in Ids : {u} = {v} <=> u = v
    OBVIOUS
  <2> QED
    BY <2>1 DEF Names
<1>8. \A x : ButUser(x, u) = [rest |-> x.rest, objects |-> {Bare(o) : o \in x.objects},
                               subjects |-> {Bare(s) : s \in x.subjects} \ {new}]
  BY DEF ButUser
<1> HIDE DEF more, less, new
<1>9. /\ WithUser(row, u) = [rest |-> row.rest, objects |-> row.objects, subjects |-> more]
      /\ WithoutUser(row, u) = [rest |-> row.rest, objects |-> row.objects, subjects |-> less]
  BY <1>3 DEF PermissionRows
<1>10. WithUser(row, u) \in PermissionRows /\ WithoutUser(row, u) \in PermissionRows
  BY <1>2, <1>9 DEF PermissionRows
<1>11. /\ ButUser(WithUser(row, u), u) = ButUser(row, u)
       /\ ButUser(WithoutUser(row, u), u) = ButUser(row, u)
  BY <1>6, <1>8, <1>9
<1> QED
  BY <1>7, <1>9, <1>10, <1>11 DEF Names

----------------------------------------------------------------------------
(* The rewrites.                                                           *)

Edited(row, op, u) == IF op = "grant" THEN WithUser(row, u) ELSE WithoutUser(row, u)

\* A copy is what was read, edited for its own user.
CopyFits(row) ==
    /\ row.pc = "user" => row.copy = Decode(row.base)
    /\ row.pc = "put" => row.copy = Edited(Decode(row.base), row.op, row.who)
    /\ row.pc \in {"user", "put"} => NamesGivenOut(row.copy)

RewritesFit ==
    /\ rewrite \in [Rewriters -> RewriteRows]
    /\ \A r \in Rewriters : CopyFits(rewrite[r])

LEMMA NoRewriteFits ==
    /\ NoRewrite \in RewriteRows
    /\ CopyFits(NoRewrite)
    /\ NoRewrite.pc = "idle"
    /\ [NoRewrite EXCEPT !.pc = "done"] \in RewriteRows
    /\ [NoRewrite EXCEPT !.pc = "done"].pc = "done"
<1> DEFINE p == CHOOSE q \in Permissions : TRUE
<1>1. p \in Permissions
  BY PermissionsExist
<1>2. SeedPermission[p] \in PermissionRows
  BY <1>1, SeedIsConsistent
<1>3. 1 \in Ids
  BY BoundsAreNumbers DEF Ids
<1> HIDE DEF p
<1>4. NoRewrite = [op |-> "grant", who |-> 1, on |-> p, pc |-> "idle",
                   copy |-> SeedPermission[p], base |-> SeedPermission[p]]
  BY DEF NoRewrite, p
<1> QED
  BY <1>1, <1>2, <1>3, <1>4 DEF RewriteRows, CopyFits

(* Every copy that fits still fits after a move. *)
LEMMA CopiesStayFit ==
    ASSUME Core, Move, NEW row \in RewriteRows, CopyFits(row)
    PROVE  CopyFits(row)'
<1>1. nextUserID \in Nat /\ nextUserID' \in Nat /\ nextUserID <= nextUserID'
  BY MoveGivesOutIds, BoundsAreNumbers DEF Core, CoreTypeOK
<1>2. NamesGivenOut(row.copy) => NamesGivenOut(row.copy)'
  <2> SUFFICES ASSUME NamesGivenOut(row.copy), NEW u \in Ids, Names(row.copy, u)
               PROVE  u <= nextUserID'
    BY DEF NamesGivenOut
  <2>1. u \in Nat /\ u <= nextUserID
    BY DEF NamesGivenOut, Ids
  <2> QED
    BY <1>1, <2>1
<1> QED
  BY <1>2 DEF CopyFits

LEMMA OthersKeepRewrites ==
    ASSUME Core, RewritesFit, Move, UNCHANGED rewrite
    PROVE  RewritesFit'
<1>1. \A r \in Rewriters : CopyFits(rewrite[r])'
  <2> SUFFICES ASSUME NEW r \in Rewriters
               PROVE  CopyFits(rewrite[r])'
    OBVIOUS
  <2> DEFINE row == rewrite[r]
  <2>1. row \in RewriteRows /\ CopyFits(row) /\ row' = row
    BY DEF RewritesFit
  <2>2. PICK old : old = row
    OBVIOUS
  <2>3. CopyFits(old)'
    BY <2>1, <2>2, CopiesStayFit
  <2> QED
    BY <2>1, <2>2, <2>3
<1> QED
  BY <1>1 DEF RewritesFit

LEMMA RowKeepsFit ==
    ASSUME Core, RewritesFit, Move,
           NEW r \in Rewriters, NEW row \in RewriteRows, Keeps(r, row),
           CopyFits(row)
    PROVE  RewritesFit'
<1>1. rewrite' \in [Rewriters -> RewriteRows]
  BY DEF RewritesFit, Keeps
<1>2. \A x \in Rewriters : rewrite'[x] = IF x = r THEN row ELSE rewrite[x]
  BY DEF RewritesFit, Keeps
<1>3. ASSUME NEW x \in Rewriters
      PROVE  CopyFits(rewrite[x])'
  <2>1. PICK old \in RewriteRows :
          old = rewrite'[x] /\ CopyFits(old)
    BY <1>2 DEF RewritesFit
  <2>2. CopyFits(old)'
    BY <2>1, CopiesStayFit
  <2> QED
    BY <2>1, <2>2
<1> QED
  BY <1>1, <1>3 DEF RewritesFit

LEMMA RewriteStepFits ==
    ASSUME Core, RewritesFit, NEW r \in Rewriters, RewriteStep(r)
    PROVE  RewritesFit' /\ Move
<1> DEFINE old == rewrite[r]
<1>1. /\ old \in RewriteRows /\ CopyFits(old)
      /\ old.on \in Permissions /\ old.who \in Ids
      /\ old.copy \in PermissionRows /\ old.base \in PermissionRows
  BY DEF RewritesFit, RewriteRows
<1>2. ASSUME Move, EndsRewrite(r)
      PROVE  RewritesFit'
  <2> DEFINE row == [NoRewrite EXCEPT !.pc = "done"]
  <2>1. row \in RewriteRows /\ CopyFits(row)
    BY NoRewriteFits DEF CopyFits
  <2> HIDE DEF row
  <2>2. Keeps(r, row)
    BY <1>2 DEF EndsRewrite, row
  <2> QED
    BY <1>2, <2>1, <2>2, RowKeepsFit
<1>3. ASSUME UNCHANGED serverVars
      PROVE  Move
  BY <1>3 DEF Move, serverVars, coreVars
<1>4. CASE ReadsPermission(r)
  <2>1. Move
    BY <1>4 DEF ReadsPermission, Move, coreVars
  <2>2. PICK op \in {"grant", "revoke"}, u \in Subjected, p \in Permissions :
          Keeps(r, [op |-> op, who |-> u, on |-> p, pc |-> "user",
                    copy |-> Decode(permission[p]), base |-> permission[p]])
    BY <1>4 DEF ReadsPermission
  <2> DEFINE row == [op |-> op, who |-> u, on |-> p, pc |-> "user",
                     copy |-> Decode(permission[p]), base |-> permission[p]]
  <2>3. permission[p] \in PermissionRows /\ NamesGivenOut(permission[p])
    BY DEF Core, CoreTypeOK
  <2>4. row \in RewriteRows
    BY <2>3, DecodeKeeps, SubjectedAreIds DEF RewriteRows
  <2>5. NamesGivenOut(Decode(permission[p]))
    BY <2>3, DecodeKeeps DEF NamesGivenOut
  <2>6. CopyFits(row)
    BY <2>3, <2>5, DecodeKeeps DEF CopyFits
  <2> HIDE DEF row
  <2>7. Keeps(r, row)
    BY <2>2 DEF row
  <2> QED
    BY <2>1, <2>4, <2>6, <2>7, RowKeepsFit
<1>5. CASE ReadsUser(r)
  <2>1. Move
    BY <1>3, <1>5 DEF ReadsUser
  <2>2. old.pc = "user" /\ old.who \in usersByID
    BY <1>5 DEF ReadsUser
  <2>3. old.who <= nextUserID
    BY <2>2 DEF Core, IndexesAgree
  <2>4. ASSUME NEW copy, copy = Edited(old.copy, old.op, old.who),
               Keeps(r, [old EXCEPT !.pc = "put", !.copy = copy])
        PROVE  RewritesFit'
    <3> DEFINE row == [old EXCEPT !.pc = "put", !.copy = copy]
    <3>1. copy \in PermissionRows
      BY <1>1, <2>4, EditsKeep DEF Edited
    <3>2. NamesGivenOut(copy)
      BY <1>1, <2>2, <2>3, <2>4, EditsKeep DEF Edited, NamesGivenOut, CopyFits
    <3>3. row \in RewriteRows /\ row.pc = "put" /\ row.copy = copy /\ row.op = old.op
          /\ row.who = old.who /\ row.on = old.on /\ row.base = old.base
      BY <1>1, <3>1 DEF RewriteRows
    <3> HIDE DEF row
    <3>4. CopyFits(row)
      BY <1>1, <2>2, <2>4, <3>2, <3>3 DEF CopyFits
    <3>5. Keeps(r, row)
      BY <2>4 DEF row
    <3> QED
      BY <2>1, <3>3, <3>4, <3>5, RowKeepsFit
  <2>5. CASE /\ old.op = "grant"
             /\ Keeps(r, [old EXCEPT !.pc = "put", !.copy = WithUser(old.copy, old.who)])
    BY <2>1, <2>4, <2>5 DEF Edited
  <2>6. CASE /\ old.op = "revoke"
             /\ Keeps(r, [old EXCEPT !.pc = "put", !.copy = WithoutUser(old.copy, old.who)])
    BY <2>1, <2>4, <2>6 DEF Edited
  <2>7. CASE EndsRewrite(r)
    BY <1>2, <2>1, <2>7
  <2> QED
    BY <1>5, <2>5, <2>6, <2>7 DEF ReadsUser
<1>6. CASE PutsPermission(r)
  <2> DEFINE row == Encode(old.copy)
  <2>1. old.pc = "put" /\ UpdatePermission(old.on, row) /\ EndsRewrite(r)
    BY <1>6 DEF PutsPermission
  <2>2. row \in PermissionRows /\ row.subjects = old.copy.subjects
    BY <1>1, EncodeKeeps
  <2>3. NamesGivenOut(row)
    BY <1>1, <2>1, <2>2 DEF NamesGivenOut, Names, CopyFits
  <2> HIDE DEF row
  <2>4. Move
    BY <1>1, <2>1, <2>2, <2>3 DEF Move
  <2> QED
    BY <1>2, <2>1, <2>4
<1>7. CASE RewriteFails(r)
  BY <1>2, <1>3, <1>7 DEF RewriteFails
<1> QED
  BY <1>4, <1>5, <1>6, <1>7 DEF RewriteStep

----------------------------------------------------------------------------
(* Every step is a move.                                                   *)

Inv ==
    /\ Core
    /\ events \in Nat
    /\ ActionsFit
    /\ AttemptsFit
    /\ RewritesFit

(* What an administrator may make of a permission. *)
LEMMA EditsFit ==
    ASSUME Core, NEW p \in Permissions, NEW row \in EditsOf(p)
    PROVE  /\ row \in PermissionRows
           /\ NamesGivenOut(row)
<1> DEFINE old == permission[p]
<1>1. old \in PermissionRows /\ NamesGivenOut(old)
  BY DEF Core, CoreTypeOK
<1>2. ASSUME NEW s \in Nameable, NEW u \in Ids, s.uuid = {u}
      PROVE  u <= nextUserID
  <2>1. u # 0 /\ u \notin GroupUUIDs
    BY UUIDsAreDistinct DEF Ids
  <2>2. s.type = User
    BY <1>2, <2>1 DEF Nameable, Subject
  <2>3. s.uuid \subseteq users
    BY <2>2 DEF Nameable
  <2> QED
    BY <1>2, <2>3 DEF Core, IndexesAgree
<1>3. ASSUME \/ \E rest \in Rests : row = [old EXCEPT !.rest = rest]
             \/ \E o \in NameableObjects : row = [old EXCEPT !.objects = old.objects \cup {o}]
             \/ \E o \in old.objects : row = [old EXCEPT !.objects = old.objects \ {o}]
      PROVE  /\ row \in PermissionRows
             /\ NamesGivenOut(row)
  <2>1. row \in PermissionRows /\ row.subjects = old.subjects
    BY <1>1, <1>3 DEF PermissionRows, NameableObjects
  <2> QED
    BY <1>1, <2>1 DEF NamesGivenOut, Names
<1>4. ASSUME NEW s \in Nameable, row = [old EXCEPT !.subjects = old.subjects \cup {s}]
      PROVE  /\ row \in PermissionRows
             /\ NamesGivenOut(row)
  <2>1. row \in PermissionRows /\ row.subjects = old.subjects \cup {s}
    BY <1>1, <1>4 DEF PermissionRows, Nameable
  <2> QED
    BY <1>1, <1>2, <2>1 DEF NamesGivenOut, Names
<1>5. ASSUME NEW s \in old.subjects, row = [old EXCEPT !.subjects = old.subjects \ {s}]
      PROVE  /\ row \in PermissionRows
             /\ NamesGivenOut(row)
  <2>1. row \in PermissionRows /\ row.subjects = old.subjects \ {s}
    BY <1>1, <1>5 DEF PermissionRows
  <2> QED
    BY <1>1, <2>1 DEF NamesGivenOut, Names
<1>6. \/ \E rest \in Rests : row = [old EXCEPT !.rest = rest]
      \/ \E o \in NameableObjects : row = [old EXCEPT !.objects = old.objects \cup {o}]
      \/ \E o \in old.objects : row = [old EXCEPT !.objects = old.objects \ {o}]
      \/ \E s \in Nameable : row = [old EXCEPT !.subjects = old.subjects \cup {s}]
      \/ \E s \in old.subjects : row = [old EXCEPT !.subjects = old.subjects \ {s}]
  BY DEF EditsOf
<1> QED
  BY <1>3, <1>4, <1>5, <1>6

LEMMA ContainerMoves ==
    ASSUME Core, AdminStep \/ HandlerStep
    PROVE  Move
<1>1. ASSUME NEW u \in Ids, NEW enabled \in {{}, {TRUE}, {FALSE}}, UpdateUser(u, enabled)
      PROVE  \E on \in BOOLEAN : SetUserEnabled(u, on)
  <2>1. object[u].enabled \in BOOLEAN
    BY DEF Core, CoreTypeOK, Objects
  <2>2. PICK on \in IF enabled = {} THEN {object[u].enabled} ELSE enabled :
          object' = [object EXCEPT ![u].enabled = on]
    BY <1>1 DEF UpdateUser
  <2>3. on \in BOOLEAN
    BY <2>1, <2>2
  <2> QED
    BY <1>1, <2>2, <2>3 DEF UpdateUser, SetUserEnabled
<1>2. ASSUME NEW p \in Permissions, NEW row \in EditsOf(p), UpdatePermission(p, row)
      PROVE  Move
  BY <1>2, EditsFit DEF Move
<1>3. CASE AdminStep
  BY <1>1, <1>2, <1>3 DEF AdminStep, Move
<1>4. CASE HandlerStep
  BY <1>4 DEF HandlerStep, Move
<1> QED
  BY <1>3, <1>4

LEMMA ActionStepMoves ==
    ASSUME Core, ActionsFit, NEW x \in Actions, ActionStep(x)
    PROVE  Move
<1>1. ASSUME HandlerPuts(x)
      PROVE  Move
  <2>1. action[x].who \in Ids /\ action[x].on \in BOOLEAN
    BY DEF ActionsFit, ActionRows
  <2> QED
    BY <1>1, <2>1 DEF HandlerPuts, Move
<1>2. ASSUME UNCHANGED serverVars \/ Invoke(x)
      PROVE  Move
  BY <1>2 DEF Invoke, Move, serverVars, coreVars
<1> QED
  BY <1>1, <1>2 DEF ActionStep, HandlerRuns, HandlerStarts, HandlerPutFails,
     HandlerPublishes, HandlerCloses, CallReturns, CallCancelled, CancelledReturns,
     GetActionStatus

LEMMA NextIsMove ==
    ASSUME Inv, [Next]_vars
    PROVE  Move
<1>1. CASE UNCHANGED vars
  BY <1>1 DEF vars, serverVars, Move, coreVars
<1>2. CASE Container
  BY <1>2, ContainerMoves DEF Container, Inv
<1>3. ASSUME NEW a \in Attempts, Attempt(a)
      PROVE  Move
  BY <1>3, AttemptStepFits DEF Attempt, Inv
<1>4. ASSUME NEW x \in Actions, Act(x)
      PROVE  Move
  BY <1>4, ActionStepMoves DEF Act, Inv
<1>5. ASSUME NEW r \in Rewriters, Rewrite(r)
      PROVE  Move
  BY <1>5, RewriteStepFits DEF Rewrite, Inv
<1> QED
  BY <1>1, <1>2, <1>3, <1>4, <1>5 DEF Next

----------------------------------------------------------------------------
(* The invariant.                                                          *)

LEMMA SeedFits ==
    ASSUME ServerInit
    PROVE  Core
<1>1. PICK n \in 0..MaxUserID : SeedIds = 1..n
  BY SeedIsConsistent
<1>2. Cardinality(SeedIds) = n
  BY <1>1, FS_Interval, BoundsAreNumbers
<1>3. SeedIds \subseteq Ids
  BY <1>1, BoundsAreNumbers DEF Ids
<1>4. nextUserID = n /\ users = SeedIds /\ usersByID = SeedIds
  BY <1>2 DEF ServerInit
<1>5. \A u \in SeedIds : Seed[u] \in Objects
  BY SeedIsConsistent
<1>6. object \in [Ids -> Objects]
  BY <1>5 DEF ServerInit, Objects, Nobody
<1>7. \A g \in Groups, u \in Ids :
        groupMembers[g][u] = IF u \in SeedMembers[g] THEN 1 ELSE 0
  BY DEF ServerInit, ListOf
<1>8. CoreTypeOK
  <2>1. nextUserID \in 0..MaxUserID
    BY <1>4
  <2>2. userList \in Lists /\ groupMembers \in [Groups -> Lists]
    BY DEF ServerInit, ListOf, Lists
  <2>3. userRoles \in [Ids -> SUBSET Roles]
    BY <1>5 DEF ServerInit, Objects
  <2> QED
    BY <1>3, <1>4, <1>6, <2>1, <2>2, <2>3, SeedIsConsistent DEF ServerInit, CoreTypeOK
<1>9. IndexesAgree
  BY <1>1, <1>4 DEF ServerInit, IndexesAgree
<1>10. \A u \in SeedIds : object[u] = Seed[u]
  BY <1>3 DEF ServerInit
<1>11. MembersFit
  BY <1>4, <1>7, <1>10, SeedIsConsistent DEF MembersFit
<1>12. RolesFit
  BY <1>4, <1>10 DEF ServerInit, RolesFit
<1>13. CountsFit
  BY DEF ServerInit, CountsFit
<1>14. EverybodyFits
  BY <1>4, <1>10, SeedIsConsistent, AllUsersIsAGroup DEF EverybodyFits
<1>15. ASSUME NEW p \in Permissions
       PROVE  NamesGivenOut(permission[p])
  <2> SUFFICES ASSUME NEW u \in Ids, NEW s \in SeedPermission[p].subjects, s.uuid = {u}
               PROVE  u <= nextUserID
    BY DEF ServerInit, NamesGivenOut, Names
  <2>1. s \in Subject
    BY SeedIsConsistent DEF PermissionRows
  <2>2. s.type = User
    BY <2>1, UUIDsAreDistinct DEF Subject, Ids
  <2>3. u \in SeedIds
    BY <2>2, SeedIsConsistent
  <2> QED
    BY <2>3, <1>1, <1>4
<1> QED
  BY <1>8, <1>9, <1>11, <1>12, <1>13, <1>14, <1>15 DEF Core

LEMMA InitHasInv ==
    Init => Inv
<1> SUFFICES ASSUME Init
             PROVE  Inv
  OBVIOUS
<1>1. Core
  BY SeedFits DEF Init
<1>2. events \in Nat
  BY DEF Init, ServerInit
<1>3. ActionsFit
  <2>1. NoAction \in ActionRows /\ ActionFits(NoAction)
    BY BoundsAreNumbers DEF NoAction, ActionRows, ActionFits, Ended, Settled, Ids
  <2> QED
    BY <2>1 DEF Init, ActionsInit, ActionsFit
<1>4. AttemptsFit
  <2>1. NoAttempt \in AttemptRows /\ AttemptFits(NoAttempt) /\ NoAttempt.made = {}
    BY DEF NoAttempt, AttemptRows, AttemptFits
  <2> QED
    BY <2>1 DEF Init, AttemptsInit, AttemptsFit
<1>5. RewritesFit
  BY NoRewriteFits DEF Init, RewritesInit, RewritesFit
<1> QED
  BY <1>1, <1>2, <1>3, <1>4, <1>5 DEF Inv

(* Who takes no step keeps fitting. *)
LEMMA OthersKeepAttempts ==
    ASSUME Core, AttemptsFit, Move, UNCHANGED attempt
    PROVE  AttemptsFit'
<1>1. nextUserID \in Nat /\ nextUserID' \in Nat /\ nextUserID <= nextUserID'
  BY MoveGivesOutIds, BoundsAreNumbers DEF Core, CoreTypeOK
<1>2. \A a \in Attempts : attempt[a].made \in SUBSET Nat
  BY DEF AttemptsFit, AttemptRows, Ids
<1> QED
  BY <1>1, <1>2 DEF AttemptsFit

LEMMA NextKeepsInv ==
    Inv /\ [Next]_vars => Inv'
<1> SUFFICES ASSUME Inv, [Next]_vars
             PROVE  Inv'
  OBVIOUS
<1>1. Move /\ Core'
  BY NextIsMove, MoveKeepsCore DEF Inv
<1>2. events' \in Nat
  <2>1. Counted \/ UNCHANGED events
    BY DEF Next, vars, Container, AdminStep, HandlerStep, Attempt, AttemptStep, BeginAttempt,
       PostUser, PostFails, Deliver, Act, ActionStep, HandlerRuns, Invoke, HandlerStarts,
       HandlerPuts, HandlerPutFails, HandlerPublishes, HandlerCloses, CallReturns,
       CallCancelled, CancelledReturns, GetActionStatus, Rewrite, RewriteStep,
       ReadsPermission, ReadsUser, PutsPermission, RewriteFails, serverVars
  <2> QED
    BY <2>1 DEF Inv, Counted
<1>3. ActionsFit'
  <2>1. CASE UNCHANGED action
    BY <2>1 DEF Inv, ActionsFit
  <2>2. CASE \E x \in Actions : ActionStep(x)
    BY <2>2, ActionStepFits DEF Inv
  <2> QED
    BY <2>1, <2>2 DEF Next, vars, Container, Attempt, Act, Rewrite
<1>4. AttemptsFit'
  <2>1. CASE UNCHANGED attempt
    BY <1>1, <2>1, OthersKeepAttempts DEF Inv
  <2>2. CASE \E a \in Attempts : AttemptStep(a)
    BY <2>2, AttemptStepFits DEF Inv
  <2> QED
    BY <2>1, <2>2 DEF Next, vars, Container, Attempt, Act, Rewrite
<1>5. RewritesFit'
  <2>1. CASE UNCHANGED rewrite
    BY <1>1, <2>1, OthersKeepRewrites DEF Inv
  <2>2. CASE \E r \in Rewriters : RewriteStep(r)
    BY <2>2, RewriteStepFits DEF Inv
  <2> QED
    BY <2>1, <2>2 DEF Next, vars, Container, Attempt, Act, Rewrite
<1> QED
  BY <1>1, <1>2, <1>3, <1>4, <1>5 DEF Inv

LEMMA InvAlwaysHolds ==
    Spec => []Inv
<1> QED
  BY InitHasInv, NextKeepsInv, PTL DEF Spec

----------------------------------------------------------------------------
(* The theorems.                                                           *)

(* Every variable of the container, the attempts, the actions and the      *)
(* rewrites keeps its type (state.go:100, actions.go:64).                  *)
THEOREM TypeCorrect == Spec => []TypeOK
<1>1. Inv => TypeOK
  BY CountsOfMembers
     DEF Inv, TypeOK, ServerTypeOK, Core, CoreTypeOK, ActionsFit, AttemptsFit, RewritesFit
<1> QED
  BY <1>1, InvAlwaysHolds, PTL

(* The three indexes of users agree, whatever is created and deleted       *)
(* (state.go:171-213).                                                     *)
THEOREM IndexesAlwaysAgree == Spec => []IndexesAgree
<1>1. Inv => IndexesAgree
  BY DEF Inv, Core
<1> QED
  BY <1>1, InvAlwaysHolds, PTL

(* Both records of every membership and role agree, and every count is     *)
(* that of the members shown, although a membership request gives up the   *)
(* lock between its two steps (handlers.go:204-256).                       *)
THEOREM EdgesAlwaysAgree == Spec => []EdgesAgree
<1>1. Inv => EdgesAgree
  BY CountsOfMembers DEF Inv, Core, MembersFit, RolesFit, EdgesAgree
<1> QED
  BY <1>1, InvAlwaysHolds, PTL

(* A new user inherits nothing from a deleted one (state.go:171-213),      *)
(* whatever copy a grant writes back.                                      *)
THEOREM NobodyEverInherits == Spec => NobodyInherits
<1>1. Inv /\ [Next]_vars =>
        [\A u \in users' \ users :
           /\ \A g \in Groups : Contains(groupMembers'[g], u) <=> g = AllUsers
           /\ userRoles'[u] = {}
           /\ \A p \in Permissions : ~Names(permission'[p], u)]_vars
  BY NextIsMove, MoveInheritsNothing DEF Inv, InheritsNothing
<1> QED
  BY <1>1, InvAlwaysHolds, PTL DEF Spec, NobodyInherits

(* The mock with its indexes, double records and two-step requests         *)
(* implements the container Connector and Sync are checked against.        *)
THEOREM ImplementsAPI == Spec => RefinesAPI
<1>1. Init => API!APIInit
  <2> SUFFICES ASSUME Init
               PROVE  API!APIInit
    OBVIOUS
  <2>1. Core
    BY SeedFits DEF Init
  <2>2. /\ usersByID \in SUBSET Ids
        /\ Enabled \in [Ids -> BOOLEAN] /\ \A u \in Ids \ usersByID : ~Enabled[u]
    BY <2>1 DEF Core, CoreTypeOK, Objects, Enabled
  <2>3. /\ Members \in [Groups -> SUBSET usersByID]
        /\ \A g \in {AllUsers} : Members[g] = usersByID
    BY <2>1, AllUsersIsAGroup
       DEF Core, CoreTypeOK, IndexesAgree, MembersFit, EverybodyFits, Members, Contains
  <2>4. /\ userRoles \in [Ids -> {{r} : r \in Roles} \cup {{}}]
        /\ \A u \in Ids \ usersByID : userRoles[u] = {}
    <3>1. ASSUME NEW u \in SeedIds
          PROVE  Seed[u].roles \in {{r} : r \in Roles} \cup {{}}
      <4>1. Seed[u].roles \subseteq Roles
        BY SeedIsConsistent DEF Objects
      <4>2. \A r, s \in Seed[u].roles : r = s
        BY SeedIsConsistent
      <4>3. CASE Seed[u].roles # {}
        <5>1. PICK r \in Seed[u].roles : TRUE
          BY <4>3
        <5>2. Seed[u].roles = {r}
          BY <4>2, <5>1
        <5> QED
          BY <4>1, <5>1, <5>2
      <4> QED
        BY <4>3
    <3>2. userRoles = [u \in Ids |-> IF u \in SeedIds THEN Seed[u].roles ELSE {}]
          /\ usersByID = SeedIds
      BY DEF Init, ServerInit
    <3> QED
      BY <3>1, <3>2
  <2>5. Named \in [Permissions -> SUBSET (usersByID \cup OtherTypes)]
    <3> SUFFICES ASSUME NEW p \in Permissions, NEW s \in SeedPermission[p].subjects
                 PROVE  /\ s.type # User => s.type \in OtherTypes
                        /\ \A u \in Ids : s.type = User /\ s.uuid = {u} => u \in usersByID
      BY DEF Named, SubjectsOf, Init, ServerInit
    <3>1. s \in Subject /\ (s.type = User => s.uuid \subseteq SeedIds)
      BY SeedIsConsistent DEF PermissionRows
    <3> QED
      BY <3>1 DEF Subject, OtherTypes, Init, ServerInit
  <2> QED
    BY <2>2, <2>3, <2>4, <2>5 DEF API!APIInit, Enabled, Members, Named, SubjectsOf
<1>2. Inv /\ [Next]_vars => [API!APINext]_(API!apiVars)
  BY NextIsMove, MoveIsOne DEF Inv
<1> QED
  BY <1>1, <1>2, InvAlwaysHolds, PTL DEF Spec, RefinesAPI, API!APISpec

(* No account appears that no attempt answers for, and none twice          *)
(* (users.go:180-233).                                                     *)
THEOREM AccountsAlwaysAccountedFor == Spec => []AccountsAreAccountedFor
<1>1. Inv => AccountsAreAccountedFor
  BY DEF Inv, AttemptsFit, AttemptFits, AccountsAreAccountedFor
<1> QED
  BY <1>1, InvAlwaysHolds, PTL

(* A handler's outcome is the action's, whenever the call is cancelled     *)
(* (SDK actions.go:161-288).                                               *)
THEOREM OutcomesAlwaysWin == Spec => []OutcomesWin
<1>1. Inv => OutcomesWin
  BY DEF Inv, ActionsFit, ActionFits, Ended, OutcomesWin
<1> QED
  BY <1>1, InvAlwaysHolds, PTL

(* Nobody sees an action COMPLETE whose request did not take effect        *)
(* (actions.go:86-156).                                                    *)
THEOREM CompleteAlwaysApplied == Spec => []CompleteMeansApplied
<1>1. ASSUME NEW row \in ActionRows, ActionFits(row),
             "COMPLETE" \in {row.status, row.told}
      PROVE  row.applied
  BY <1>1 DEF ActionFits, ActionRows, Ended, Outcome, Settled
<1>2. Inv => CompleteMeansApplied
  BY <1>1 DEF Inv, ActionsFit, CompleteMeansApplied
<1> QED
  BY <1>2, InvAlwaysHolds, PTL

(* A rewrite writes the permission back as it read it, but for its own     *)
(* user, the UUIDs that were missing and one colon of each tag             *)
(* (permissions.go:184-277), whatever others changed since: it undoes      *)
(* their changes and nothing more.                                         *)
THEOREM RewritesStayFaithful == Spec => RewritesAreFaithful
<1> DEFINE Faithful(row, now) ==
      /\ ButUser(now, row.who) = ButUser(row.base, row.who)
      /\ Names(now, row.who) <=> row.op = "grant"
      /\ \A o \in now.objects : \E b \in row.base.objects :
           Bare(o) = Bare(b) /\ b.colons - o.colons \in {0, 1}
<1>1. ASSUME Inv, NEW r \in Rewriters, PutsPermission(r)
      PROVE  Faithful(rewrite[r], permission'[rewrite[r].on])
  <2> DEFINE row  == rewrite[r]
             u    == row.who
             read == Decode(row.base)
             sent == Encode(row.copy)
  <2>1. /\ row \in RewriteRows /\ CopyFits(row) /\ row.pc = "put"
        /\ u \in Ids /\ row.on \in Permissions
        /\ row.base \in PermissionRows /\ row.copy \in PermissionRows
    BY <1>1 DEF Inv, RewritesFit, RewriteRows, PutsPermission
  <2>2. row.copy = Edited(read, row.op, u)
    BY <2>1 DEF CopyFits
  <2>3. permission'[row.on] = sent
    BY <1>1, <2>1 DEF PutsPermission, UpdatePermission, Inv, Core, CoreTypeOK
  <2>4. /\ read \in PermissionRows /\ read.rest = row.base.rest
        /\ read.objects = {Decoded(o) : o \in row.base.objects}
        /\ read.subjects = {Decoded(s) : s \in row.base.subjects}
    BY <2>1, DecodeKeeps
  <2>5. /\ sent.rest = row.copy.rest
        /\ sent.objects = {TagParsed(o) : o \in row.copy.objects}
        /\ sent.subjects = row.copy.subjects
    BY <2>1, EncodeKeeps
  <2>6. /\ row.base.objects \subseteq PermissionObject
        /\ row.base.subjects \subseteq Subject
        /\ row.copy.objects \subseteq PermissionObject
    BY <2>1 DEF PermissionRows
  <2>7. ButUser(read, u) = ButUser(row.base, u)
    <3>1. {Bare(o) : o \in read.objects} = {Bare(o) : o \in row.base.objects}
      BY <2>4, <2>6, DecodedIsKnown
    <3>2. {Bare(s) : s \in read.subjects} = {Bare(s) : s \in row.base.subjects}
      BY <2>4, <2>6, DecodedIsKnown
    <3> HIDE DEF read
    <3> QED
      BY <2>4, <3>1, <3>2 DEF ButUser
  <2>8. ButUser(sent, u) = ButUser(row.copy, u)
    <3>1. {Bare(o) : o \in sent.objects} = {Bare(o) : o \in row.copy.objects}
      BY <2>5, <2>6, TagParsedIsKnown
    <3> HIDE DEF sent
    <3> QED
      BY <2>5, <3>1 DEF ButUser
  <2>9. ButUser(row.copy, u) = ButUser(read, u) /\ row.copy.objects = read.objects
    BY <2>1, <2>2, <2>4, EditsKeep DEF Edited
  <2>10. Names(sent, u) <=> row.op = "grant"
    <3>1. Names(sent, u) <=> Names(row.copy, u)
      BY <2>5 DEF Names
    <3>2. row.op \in {"grant", "revoke"}
      BY <2>1 DEF RewriteRows
    <3> QED
      BY <2>1, <2>2, <2>4, <3>1, <3>2, EditsKeep DEF Edited
  <2>11. ASSUME NEW o \in sent.objects
         PROVE  \E b \in row.base.objects : Bare(o) = Bare(b) /\ b.colons - o.colons \in {0, 1}
    <3>1. PICK c \in row.copy.objects : o = TagParsed(c)
      BY <2>5
    <3>2. PICK b \in row.base.objects : c = Decoded(b)
      BY <2>4, <2>9, <3>1
    <3>3. Bare(o) = Bare(b) /\ c.colons = b.colons
      BY <2>6, <3>1, <3>2, TagParsedIsKnown, DecodedIsKnown
    <3>4. c.colons - o.colons \in {0, 1}
      BY <2>6, <3>1, TagParsedIsKnown
    <3> QED
      BY <3>3, <3>4
  <2> HIDE DEF sent, read
  <2> QED
    BY <2>3, <2>7, <2>8, <2>9, <2>10, <2>11
<1> HIDE DEF Faithful
<1>2. Inv /\ [Next]_vars =>
        [\A r \in Rewriters :
           PutsPermission(r) => Faithful(rewrite[r], permission'[rewrite[r].on])]_vars
  BY <1>1
<1> QED
  BY <1>2, InvAlwaysHolds, PTL DEF Spec, RewritesAreFaithful, Faithful
=============================================================================
