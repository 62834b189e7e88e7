-------------------------- MODULE AccountLifecycle ---------------------------
(***************************************************************************)
(* The life of an account: created by a task or an administrator, enabled  *)
(* and disabled by actions, put into groups, given roles, named by         *)
(* permissions and deleted, all at once, in one container.                 *)
(***************************************************************************)
EXTENDS Accounts, ActionManager, Rewrites

vars == <<serverVars, attempt, action, rewrite>>

Init ==
    /\ ServerInit
    /\ AttemptsInit
    /\ ActionsInit
    /\ RewritesInit

Container == (AdminStep \/ HandlerStep) /\ UNCHANGED <<attempt, action, rewrite>>

Attempt(a) == AttemptStep(a) /\ UNCHANGED <<action, rewrite>>

Act(x) == ActionStep(x) /\ UNCHANGED <<attempt, rewrite>>

Rewrite(r) == RewriteStep(r) /\ UNCHANGED <<attempt, action>>

Handle(x) == HandlerRuns(x) /\ UNCHANGED <<attempt, rewrite>>

Next ==
    \/ Container
    \/ \E a \in Attempts : Attempt(a)
    \/ \E x \in Actions : Act(x)
    \/ \E r \in Rewriters : Rewrite(r)

\* A handler runs to its end: it gets a context of its own with a timeout of
\* an hour, so its one request is answered or fails.
Spec == Init /\ [][Next]_vars /\ \A x \in Actions : WF_vars(Handle(x))

TypeOK ==
    /\ ServerTypeOK
    /\ attempt \in [Attempts -> AttemptRows]
    /\ action \in [Actions -> ActionRows]
    /\ rewrite \in [Rewriters -> RewriteRows]

----------------------------------------------------------------------------
(* The container. *)

\* A user is found by its id exactly when it is found by its UUID, is listed
\* once, and has an id that was given out (state.go:107-109: three
\* indexes that every method updates by hand).
IndexesAgree ==
    /\ users = usersByID
    /\ userList = ListOf(users)
    /\ \A u \in users : u <= nextUserID

\* A user that exists says it is in a group exactly when the group's list has
\* it, once, and so for the roles; one that does not exist is in no list; and
\* the count of a group is that of the members it shows (state.go:119-120,
\* 428: each written down twice, a membership after a lock was given up).
EdgesAgree ==
    /\ \A g \in Groups, u \in Ids :
         groupMembers[g][u] = IF u \in users /\ g \in object[u].groups THEN 1 ELSE 0
    /\ \A u \in Ids : userRoles[u] = IF u \in users THEN object[u].roles ELSE {}
    /\ \A g \in Groups : userCount[g] = Cardinality(ListGroupMembers(g))

\* A user that appears inherits nothing from a user deleted before: it is in
\* All Users only, holds no role and no permission names it, although a
\* deleted user stays named (state.go:197-213) and a grant that read its
\* user before may name it later still (permissions.go:222).
NobodyInherits ==
    [][\A u \in users' \ users :
         /\ \A g \in Groups : Contains(groupMembers'[g], u) <=> g = AllUsers
         /\ userRoles'[u] = {}
         /\ \A p \in Permissions : ~Names(permission'[p], u)]_vars

\* The container seen as TenableAPI sees it.
API == INSTANCE TenableAPI WITH
    Users         <- Ids,
    FixedGroups   <- {AllUsers},
    OtherSubjects <- OtherTypes,
    users         <- usersByID,
    enabled       <- [u \in Ids |-> u \in usersByID /\ object[u].enabled],
    members       <- [g \in Groups |-> {u \in Ids : Contains(groupMembers[g], u)}],
    subjects      <- [p \in Permissions |->
                        {s.type : s \in {x \in permission[p].subjects : x.type # User}}
                          \cup {u \in Ids : \E s \in permission[p].subjects :
                                              s.type = User /\ s.uuid = {u}}]

\* Three indexes, two locks and two records of each edge do what the five
\* functions of TenableAPI do in one step each, with everything of the
\* connector that Connector leaves to it running at the same time.
RefinesAPI == API!APISpec

----------------------------------------------------------------------------
(* The accounts. *)

\* No attempt makes two accounts, no account is made by two attempts, an
\* attempt that succeeds hands over its own, and of those that do not
\* succeed only a lost answer (users.go:213) or keys found
\* unusable afterwards (connectorbuilder/accounts.go:118) leave one behind.
AccountsAreAccountedFor ==
    \A a \in Attempts :
      LET row == attempt[a] IN
      /\ \A b \in Attempts \ {a} : row.made \cap attempt[b].made = {}
      /\ row.outcome = "ok" => row.answer = row.made
      /\ row.made # {} <=> \/ row.pc = "deliver"
                           \/ row.outcome \in {"ok", "answerLost", "undelivered"}
      /\ \A u, v \in row.made : u = v
      /\ \A u \in row.made : u <= nextUserID

\* The comment on the request body (models.go:63): passwords must be at least
\* 12 characters long.
PasswordsAreLongEnough ==
    \A a \in Attempts : attempt[a].pc = "post" => attempt[a].password >= 12

----------------------------------------------------------------------------
(* The actions. *)

\* Once the handler has published, the record says what became of its request
\* and no cancellation changes that, whichever came first (actions.go:207,
\* 990: the cancellation and the outcome race for the lock); and whoever was
\* told an end without being cancelled was told that one.
OutcomesWin ==
    \A x \in Actions :
      LET row == action[x] IN
      /\ row.handler \in {"close", "closed"} => row.status = Outcome(row) /\ ~row.cancelled
      /\ row.told \in Settled => row.handler \in {"close", "closed"} /\ row.told = Outcome(row)

\* An action that is COMPLETE set the flag it was asked to set, once, while
\* it ran (actions.go:103,139 of the connector).
CompleteMeansApplied ==
    \A x \in Actions :
      "COMPLETE" \in {action[x].status, action[x].told} => action[x].applied

\* An action that was invoked gets the outcome of its handler, for good, even
\* when nobody waits for it any more.
ActionsSettle ==
    \A x \in Actions :
      action[x].status # "none" ~> [](action[x].status \in Settled /\ ~action[x].cancelled)

----------------------------------------------------------------------------
(* The permissions. *)

\* An object or a subject without its name, and with the UUID it is sent with.
Bare(x) == [type |-> x.type, uuid |-> Decoded(x).uuid]

\* Everything a permission says but the names and whether u is a subject.
ButUser(row, u) ==
    [rest     |-> row.rest,
     objects  |-> {Bare(o) : o \in row.objects},
     subjects |-> {Bare(s) : s \in row.subjects} \ {[type |-> User, uuid |-> {u}]}]

\* A rewrite leaves the permission as it was when it was read, but for its own
\* user, for the UUIDs that were missing (models.go:106) and for one colon of
\* each tag (client_helper.go:44).  So one that meets what it read changes
\* nothing else; one that meets a later change undoes all of it (permissions.go:223) and
\* nothing more: it drops no user, group, AllUsers, AllAdmins or object but
\* those named since, and brings back only what was named then.
RewritesAreFaithful ==
    [][\A r \in Rewriters :
         LET row == rewrite[r]
             now == permission'[row.on] IN
         PutsPermission(r) =>
           /\ ButUser(now, row.who) = ButUser(row.base, row.who)
           /\ Names(now, row.who) <=> row.op = "grant"
           /\ \A o \in now.objects : \E b \in row.base.objects :
                Bare(o) = Bare(b) /\ b.colons - o.colons \in {0, 1}]_vars
=============================================================================
