----------------------------- MODULE Connector ------------------------------
(***************************************************************************)
(* The running connector: tasks of every builder, sharing one client and   *)
(* its cache, against one Tenable VM container.                            *)
(***************************************************************************)
EXTENDS GroupBuilder, RoleBuilder, PermissionBuilder, UserBuilder

CONSTANTS
    Deletable,      \* users an administrator may delete meanwhile
    Editable        \* subjects administrators may put on a permission or take off

ASSUME DeletableAreUsers == Deletable \subseteq Users
ASSUME EditableAreSubjects == Editable \subseteq Subjects

VARIABLE touched    \* history: the subjects of each permission administrators
                    \* edited while the connector had a copy of the list

vars == <<apiVars, clientVars, runVars, touched>>

Init ==
    /\ APIInit
    /\ ClientInit
    /\ RunInit
    /\ touched = [p \in Permissions |-> {}]

\* The requests between which a handler has its own copy of a permission.
Copying == {"getSubject", "putPerm"}

\* The copies of p's subjects that are answers, in the cache or on their way
\* there, and those of the handlers about to write them back.
Answered(p) == cache.perm[p] \cup UNION {unstored[t].perm[p] : t \in Tasks}

Drafts(p) == {task[t].draft : t \in {x \in Tasks : task[x].pc \in Copying /\ On(x) = p}}

Copies(p) == Answered(p) \cup Drafts(p)

\* Once there is no copy of the list, the next one will be as edited.
Forget == touched' = [p \in Permissions |-> IF Copies(p)' = {} THEN {} ELSE touched[p]]

\* An administrator deletes a user in Tenable.
AdminDeletes ==
    /\ \E u \in Deletable : DeleteUser(u)
    /\ UNCHANGED <<clientVars, runVars, touched>>

\* An administrator puts somebody who exists on a permission, or takes
\* somebody off it.
AdminEdits ==
    /\ \E p \in Permissions, s \in Editable :
         /\ \/ /\ s \in (users \cup OtherSubjects) \ subjects[p]
               /\ UpdatePermission(p, subjects[p] \cup {s})
            \/ /\ s \in subjects[p]
               /\ UpdatePermission(p, subjects[p] \ {s})
         /\ touched' = [touched EXCEPT ![p] = IF Copies(p) = {} THEN @ ELSE @ \cup {s}]
    /\ UNCHANGED <<clientVars, runVars>>

Expire == Evict /\ UNCHANGED runVars /\ Forget

\* A task sends its next request once the answer of the last one is stored.
Step(t) ==
    /\ unstored[t] = EmptyCache
    /\ \/ RunnerStep(t)
       \/ GroupStep(t)
       \/ RoleStep(t)
       \/ PermissionStep(t)
       \/ PutEnabled(t)
    /\ Forget

Looks(t) == unstored[t] = EmptyCache /\ LooksUp(t) /\ Forget

Stores(t) == Store(t) /\ UNCHANGED runVars /\ Forget

Next ==
    \/ \E t \in Tasks : Step(t) \/ Looks(t) \/ Stores(t)
    \/ Expire
    \/ AdminDeletes
    \/ AdminEdits

\* A request ends: the SDK's HTTP client gives it 5 minutes, and its answer
\* is stored.  The runner asks for the next task as soon as it has a slot.
\* Nothing makes an entry leave the cache.
Spec == Init /\ [][Next]_vars /\ \A t \in Tasks : WF_vars(Step(t) \/ Stores(t))

TypeOK ==
    /\ APITypeOK
    /\ CacheTypeOK
    /\ TaskTypeOK
    /\ touched \in [Permissions -> SUBSET Subjects]

----------------------------------------------------------------------------
(* Whatever the cache, the failures and the interleaving. *)

\* A subject of p is a bystander when no task is asked to grant or revoke it
\* on p as a user.
Bystanders(p) ==
    {s \in Subjects :
       \A t \in Tasks : ~(On(t) = p /\ Who(t) = s /\ s \in Users)}

\* The bystanders whose place on p no administrator changed while there was
\* a copy of it.
Untouched(p) == Bystanders(p) \ touched[p]

\* Two lists of p's subjects that treat those alike.
Alike(p, list) == list \cap Untouched(p) = subjects[p] \cap Untouched(p)

\* Every copy of a permission's subjects - in the cache, on its way there, in
\* a handler about to write it back - is right about every subject but those
\* a task is asked about and those an administrator edited since there are
\* copies (permissions.go:222,267: a handler edits its copy by the principal
\* only).
CopiesAgree == \A p \in Permissions : \A list \in Copies(p) : Alike(p, list)

\* Rewriting the list of subjects drops or adds no user no request names, no
\* group, not AllUsers and not AllAdmins, however old the copy that is
\* written back, however many tasks rewrite the list at once - except one
\* that an administrator put on the permission or took off it while the
\* connector had a copy: permissions.go:223 writes the copy of line 191 back
\* as it is and so does revert such an edit.
BystandersKept ==
    [][AdminEdits \/ \A p \in Permissions : Alike(p, subjects'[p])]_vars

\* Every task ends, whatever fails and however often: the retry loop of the
\* SDK is bounded and a refused request is not retried.
AllTasksEnd == \A t \in Tasks : <>(task[t].pc = "done")

\* The most requests an attempt has left, counting the one it sends next.
RequestsLeft(pc) ==
    CASE pc = "queued" -> 6
      [] pc = "getUser" -> 5
      [] pc \in {"getMembers", "getPerm", "getRoles"} -> 4
      [] pc \in {"addMember", "getSubject", "listRoles"} -> 3
      [] pc \in {"getStatus", "delMember", "putRole", "putPerm"} -> 2
      [] pc \in {"enable", "setEnabled"} -> 1
      [] OTHER -> 0

Left(t) == RequestsLeft(task[t].pc) + 5 * (MaxRetries - task[t].tries)

\* No handler goes back to a request and no error starts it again for free:
\* every step a task takes uses up some of the requests it has left, which
\* are never less than none (sdk/retry/retry.go:78, at most MaxRetries more
\* attempts).
EveryStepCounts ==
    [][\A t \in Tasks :
         task'[t] # task[t] => /\ task'[t].tries <= MaxRetries
                               /\ Left(t)' < Left(t)]_vars

----------------------------------------------------------------------------
(* What holds while answers are fresh. *)

Holds(r) ==
    \/ r.on \in Groups /\ r.who \in members[r.on]
    \/ r.on \in Roles /\ r.on \in userRoles[r.who]
    \/ r.on \in Permissions /\ r.who \in subjects[r.on]

Ends(t) == task[t].pc # "done" /\ task'[t].pc = "done"

\* A grant that succeeds with the option on leaves its user enabled
\* (connector.go:81), when nothing else runs meanwhile.
ReEnabled ==
    [][\A t \in Tasks :
         Ends(t) /\ Op(t) = "grant" /\ EnableOnProvision /\ task'[t].outcome # "failed"
           => enabled'[Who(t)]]_vars

\* A role revoke writes only to a user who holds the role being revoked, so
\* a second revoke writes nothing (roles_test.go:90-95).
RevokeWritesOnlyHeldRoles ==
    \A t \in Tasks : At(t, "putRole") /\ Op(t) = "revoke" => Holds(task[t].req)

\* What a task reports is so: granted or already there, the access is there;
\* revoked or already revoked, it is not (the
\* GrantAlreadyExists and GrantAlreadyRevoked annotations of the builders).
ReportsAreTrue ==
    [][\A t \in Tasks :
         Ends(t) /\ Op(t) \in {"grant", "revoke"} /\ task'[t].outcome # "failed"
           => (Holds(task[t].req)' <=> Op(t) = "grant")]_vars

\* The part of ReportsAreTrue docs/connector.mdx:26 states for roles: a role
\* revoke that succeeds leaves the user without the role.
RevokedRolesAreGone ==
    [][\A t \in Tasks :
         /\ Ends(t)
         /\ Op(t) = "revoke" /\ On(t) \in Roles
         /\ task'[t].outcome # "failed"
         => ~Holds(task[t].req)']_vars

----------------------------------------------------------------------------
(* The tasks seen as the promise sees them. *)

Status(t) ==
    CASE task[t].pc \in Sending -> "running"
      [] task[t].pc = "queued"  -> "queued"
      [] OTHER -> IF task[t].outcome = "failed" THEN "failed" ELSE "ok"

\* The access part is done once there is an outcome to report, the login
\* part once the user was read enabled.
Seen(t) ==
    {x \in {"access", "login"} :
       /\ task[t].pc \in Sending
       /\ x = "access" => task[t].outcome # "none"
       /\ x = "login" => task[t].awake /\ EnableOnProvision}

Access ==
    {a \in Users \X Groups : a[1] \in members[a[2]]}
      \cup {a \in Users \X Roles : a[2] \in userRoles[a[1]]}
      \cup {a \in Subjects \X Permissions : a[1] \in subjects[a[2]]}

Promise == INSTANCE AccessPromise WITH
    req     <- [t \in Tasks |-> task[t].req],
    status  <- [t \in Tasks |-> Status(t)],
    seen    <- [t \in Tasks |-> Seen(t)],
    access  <- Access,
    enabled <- enabled

PromiseKept == Promise!Spec
=============================================================================
