------------------------------ MODULE Rewrites ------------------------------
(***************************************************************************)
(* permissions.go on the wire: PermissionBuilder treats what a permission  *)
(* says as a set of subjects that a grant reads and writes back.  Here the *)
(* copy is what the connector's types make of the answer and the body what *)
(* they make of the copy: a missing UUID of a subject or an object, and    *)
(* the names of tags.  The permission's name and actions go back as they   *)
(* were read.                                                              *)
(*                                                                         *)
(* A rewrite is one run of Grant or Revoke; a retry is another one.  The   *)
(* cache and enable-on-provision are off: Connector has them.              *)
(***************************************************************************)
EXTENDS TestServer

CONSTANTS
    Rewriters,          \* runs of Grant and Revoke
    Subjected           \* the users they may be about

ASSUME PermissionsExist == Permissions # {}
ASSUME SubjectedAreIds == Subjected \subseteq Ids

VARIABLE rewrite        \* rewrite[r]: what r is asked, where it is, its copy

\* base, a history variable: the permission as it was when r read it.
RewriteRows ==
    [op   : {"grant", "revoke"},
     who  : Ids,
     on   : Permissions,
     pc   : {"idle", "user", "put", "done"},
     copy : PermissionRows,
     base : PermissionRows]

\* A rewrite that is not running; it has no copy.
NoRewrite ==
    LET p == CHOOSE q \in Permissions : TRUE IN
    [op |-> "grant", who |-> 1, on |-> p, pc |-> "idle",
     copy |-> SeedPermission[p], base |-> SeedPermission[p]]

RewritesInit == rewrite = [r \in Rewriters |-> NoRewrite]

----------------------------------------------------------------------------
(* The connector's types. *)

\* TenableObject holds its UUID as an array: none is read as the zero UUID.
Decoded(x) == IF x.uuid = {} THEN [x EXCEPT !.uuid = {0}] ELSE x

\* A mutant of Decode that skips the objects without a UUID.
DecodeKnown(row) ==
    [row EXCEPT !.objects = {o \in row.objects : o.uuid # {}},
                !.subjects = {Decoded(s) : s \in row.subjects}]

\* Subjects and objects alike are TenableObjects.
Decode(row) ==
    [row EXCEPT !.objects = {Decoded(o) : o \in row.objects},
                !.subjects = {Decoded(s) : s \in row.subjects}]

\* parseTagNames turns the first colon of a tag's name into a comma.
TagParsed(o) == IF o.type = Tag /\ o.colons > 0 THEN [o EXCEPT !.colons = @ - 1] ELSE o

\* PermissionUpdateBody: omitempty leaves no array out, so a zero UUID is
\* sent; an empty list is, but it is read as an empty one.  The name of every
\* tag in the list is parsed.
Encode(row) == [row EXCEPT !.objects = {TagParsed(o) : o \in row.objects}]

\* A grant and a revoke look for the UUID, whatever the subject's type.
Names(row, u) == \E s \in row.subjects : s.uuid = {u}

WithUser(row, u) ==
    [row EXCEPT !.subjects = @ \cup {[type |-> User, uuid |-> {u}]}]

WithoutUser(row, u) ==
    [row EXCEPT !.subjects = {s \in @ : s.uuid # {u}}]

----------------------------------------------------------------------------
Keeps(r, row) == rewrite' = [rewrite EXCEPT ![r] = row]

EndsRewrite(r) == Keeps(r, [NoRewrite EXCEPT !.pc = "done"])

\* GetPermissionDetails.
ReadsPermission(r) ==
    /\ rewrite[r].pc = "idle"
    /\ Counted
    /\ \E op \in {"grant", "revoke"}, u \in Subjected, p \in Permissions :
         Keeps(r, [op |-> op, who |-> u, on |-> p, pc |-> "user",
                   copy |-> Decode(permission[p]), base |-> permission[p]])
    /\ UNCHANGED <<userVars, memberVars, userRoles, permission, checked>>

\* GetUserDetails; then the copy is edited, unless there is nothing to do.
ReadsUser(r) ==
    LET row == rewrite[r] IN
    /\ row.pc = "user"
    /\ row.who \in usersByID
    /\ \/ /\ row.op = "grant" /\ ~Names(row.copy, row.who)
          /\ Keeps(r, [row EXCEPT !.pc = "put", !.copy = WithUser(row.copy, row.who)])
       \/ /\ row.op = "revoke" /\ Names(row.copy, row.who)
          /\ Keeps(r, [row EXCEPT !.pc = "put", !.copy = WithoutUser(row.copy, row.who)])
       \/ /\ (row.op = "grant") <=> Names(row.copy, row.who)
          /\ EndsRewrite(r)
    /\ UNCHANGED serverVars

\* UpdatePermission, whether or not its answer arrives.
PutsPermission(r) ==
    /\ rewrite[r].pc = "put"
    /\ UpdatePermission(rewrite[r].on, Encode(rewrite[r].copy))
    /\ EndsRewrite(r)
    /\ UNCHANGED events

\* No such user, or a request that fails and changes nothing.
RewriteFails(r) ==
    /\ rewrite[r].pc \in {"user", "put"}
    /\ EndsRewrite(r)
    /\ UNCHANGED serverVars

RewriteStep(r) ==
    ReadsPermission(r) \/ ReadsUser(r) \/ PutsPermission(r) \/ RewriteFails(r)
=============================================================================
