-------------------------------- MODULE Seeds --------------------------------
(***************************************************************************)
(* cmd/test-server/seeds.go: the container the mock starts with.  Users    *)
(* are numbered from 1 (1001 in the code); a group's number, where a       *)
(* permission names it, is its ID.  A membership is written down with the  *)
(* user and with the group, each by hand.                                  *)
(***************************************************************************)
EXTENDS AccountLifecycle

CONSTANTS Everybody, Admins     \* the subject types without a UUID

SeededGroups == {"All Users", "Engineering", "Product", "Operations", "Contractors"}

SeededRoles == {"Administrator", "Scan Manager", "Basic", "Security Analyst"}

Alice == 1
Bob   == 2
Carol == 3
Dave  == 4
Eve   == 5
Frank == 6

\* GroupUUIDs, besides All Users; RbacRoles; Enabled.
SeededUser(groups, roles, enabled) ==
    [enabled |-> enabled, groups |-> {"All Users"} \cup groups, roles |-> roles]

\* The users literal, in its order.
SeededUsers == <<
    SeededUser({"Engineering"}, {"Administrator"}, TRUE),
    SeededUser({"Engineering", "Product"}, {"Scan Manager"}, TRUE),
    SeededUser({"Product"}, {"Basic"}, FALSE),
    SeededUser({}, {"Basic"}, TRUE),
    SeededUser({"Operations"}, {"Security Analyst"}, TRUE),
    SeededUser({}, {}, TRUE)>>

\* s.groupMembers.
SeededMembers == [g \in SeededGroups |->
    CASE g = "All Users"   -> {Alice, Bob, Carol, Dave, Eve, Frank}
      [] g = "Engineering" -> {Alice, Bob}
      [] g = "Product"     -> {Bob, Carol}
      [] g = "Operations"  -> {Eve}
      [] g = "Contractors" -> {}]

SeededGroupUUIDs == {0, 101, 102, 103, 104}

UserSubject(u) == [type |-> User, uuid |-> {u}]

\* The subjects of the four permissions.
SeededSubjects == [
    assets    |-> {UserSubject(Alice), [type |-> UserGroup, uuid |-> {101}]},
    tag       |-> {UserSubject(Eve)},
    allUsers  |-> {[type |-> Everybody, uuid |-> {}]},
    allAdmins |-> {[type |-> Admins, uuid |-> {}], UserSubject(Bob)}]

Everything == [type |-> AllAssets, uuid |-> {}, colons |-> 0]

\* Their objects; the tag is called Location:Headquarters.
SeededObjects == [
    assets    |-> {Everything},
    tag       |-> {[type |-> Tag, uuid |-> {201}, colons |-> 1]},
    allUsers  |-> {Everything},
    allAdmins |-> {Everything}]

\* The literals fit together: what is written with the user is written with
\* the group, everybody is in All Users, has a role at most, and a permission
\* names users that exist and groups that do.
ASSUME LiteralsFitTogether ==
    /\ DOMAIN SeededUsers = Alice..Frank
    /\ \A u \in Alice..Frank :
         /\ SeededUsers[u].groups = {g \in SeededGroups : u \in SeededMembers[g]}
         /\ SeededUsers[u].roles \in {{}} \cup {{r} : r \in SeededRoles}
    /\ SeededMembers["All Users"] = Alice..Frank
    /\ \A p \in DOMAIN SeededSubjects : \A s \in SeededSubjects[p] :
         s.uuid \subseteq IF s.type = User THEN Alice..Frank ELSE SeededGroupUUIDs
=============================================================================
