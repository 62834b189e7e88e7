------------------------- MODULE MCAccountLifecycle -------------------------
(***************************************************************************)
(* An instance of AccountLifecycle for TLC: what is left of the mock's     *)
(* seed with two of its users, the groups and roles of the configuration,  *)
(* and one permission that names what all of the seed's permissions name.  *)
(***************************************************************************)
EXTENDS Seeds

CONSTANTS plain

\* Alice is enabled, an administrator and in Engineering; Carol is neither.
Kept == <<Alice, Carol>>

KeptUsers == [i \in DOMAIN Kept |->
    [SeededUsers[Kept[i]] EXCEPT !.groups = @ \cap Groups, !.roles = @ \cap Roles]]

KeptMembers == [g \in Groups |-> {i \in DOMAIN Kept : Kept[i] \in SeededMembers[g]}]

Subjects == UNION {SeededSubjects[p] : p \in DOMAIN SeededSubjects}

KeptGroupUUIDs == {0, 101}

KeptPermission == [p \in Permissions |->
    [rest     |-> plain,
     objects  |-> UNION {SeededObjects[q] : q \in DOMAIN SeededObjects},
     subjects |-> {s \in Subjects : s.type # User}
                    \cup {UserSubject(i) : i \in
                            {j \in DOMAIN Kept : UserSubject(Kept[j]) \in Subjects}}]]
=============================================================================
