# A formal model of baton-tenable-vm

baton-tenable-vm connects ConductorOne to Tenable Vulnerability Management. It
is asked to carry out tasks - grant or revoke a group membership, a role or a
permission, enable or disable an account, create an account, synchronise
everything - and does each with a handful of HTTP requests against a Tenable VM
container. Nothing is persisted, there is no lock and no conditional write: what
makes it right or wrong is the order of the requests, what a failed or
unanswered one leaves behind, and how old the answers are it decides on.

This directory holds TLA+ modules of that behaviour, the TLC runs that check
them on small instances, and proofs that TLAPS checks for every instance.
Paths without a prefix are relative to the repository; `sdk/` stands for
`vendor/github.com/conductorone/baton-sdk/pkg/`.

    tlc -workers 2 -config sequential.cfg MCConnector
    tlc -workers 2 -config sync_recent.cfg MCSync
    tlc -workers 2 -config account_lifecycle.cfg MCAccountLifecycle
    tlapm ConnectorProofs.tla
    tlapm TaskProofs.tla
    tlapm PromiseProofs.tla
    tlapm SyncProofs.tla
    tlapm AccountLifecycleProofs.tla

## Inventory

| component | code | state | operations |
|---|---|---|---|
| Tenable VM API | `cmd/test-server/state.go`, `handlers.go`, `seeds.go` | users in three indexes, enabled flags, group members, role lists (both recorded twice), counts, permissions | the GET routes; set enabled, add and remove a member, replace the role list, replace the subjects, delete, create and update a user |
| HTTP client and its cache | `pkg/client/client.go`, `sdk/uhttp` | one in-memory cache of GET answers per process | one method per route; lookup, store, expiry, eviction, clearing |
| Task runner and retries | `sdk/connectorrunner`, `sdk/connectorbuilder`, `sdk/retry` | tasks in flight, attempts so far | claim a slot, dispatch by resource type, retry, report |
| Group provisioning | `pkg/connector/groups.go` | local variables of a handler | Grant, Revoke |
| Role provisioning | `pkg/connector/roles.go` | the same | Grant, Revoke |
| Permission provisioning | `pkg/connector/permissions.go` | the same, with an edited copy of the subjects | Grant, Revoke |
| Account actions | `pkg/connector/actions.go`, `users.go`, `sdk/actions` | one record per invocation: status, provisional or not; a detached handler; the caller | enable_account, disable_account, cancellation, status; Delete (which disables) |
| Re-enabling | `pkg/connector/connector.go` | the option `enable-on-provision` | reEnableUserIfNeeded, called by every Grant |
| Account creation | `users.go`, `helper.go`, `sdk/connectorbuilder/accounts.go` | none that outlives the call | CreateAccount: password, POST, encryption |
| Synchronisation | the List, Entitlements and Grants methods, `sdk/sync`, `sdk/tasks/c1api/full_sync.go` | the sync that runs, what it has got; the last upload | list users, groups, roles, permissions; translate UUIDs into ids; grants of a group; seal, clear the caches, upload |
| Permission codec | `pkg/client/client_helper.go`, `models.go` | none | the JSON types of a permission, parseTagNames |
| Base URL | `pkg/client/client_helper.go` | none | normalizeBaseURL |
| Configuration, command line, mock process | `pkg/config`, `cmd/*/main.go`, `errors.go` | none | declarations and wiring |

How they interact: the runner (one slot in one-shot mode, three in a service,
`sdk/field/defaults.go:25`) calls a builder; the builder calls the client, one
request after the other; all builders share one client, and all GETs one cache.
The client's PUT, POST and DELETE do not touch the cache. A builder that returns
an error may be called again from the start by the SDK's retry loop.

What is hard here, and what makes each component right:

* **Requests of different tasks interleave.** A permission is rewritten as a
  whole from a copy read earlier, and an administrator may have edited it since.
  Right means: nobody but the principals of the tasks gains or loses anything,
  except those an administrator edited behind a copy, whose edit is lost
  (`BystandersKept`).
* **Answers may be old.** The cache holds an answer for an hour and every hit
  stores it again; an answer is stored some time after it was given, whatever
  happened in between. Right means: a stale copy is stale about the tasks'
  principals and about what administrators edited behind it, and about nobody
  else (`CopiesAgree`). Reports that rest on a stale answer may be false; the
  findings below are of this kind.
* **Requests fail after, before or without their effect.** A lost answer makes
  a task meet its own effect at the retry; a failure half way leaves access
  granted to a disabled user. Right means: what is done by then is a part of
  what was asked, and success is reported only when all of it is done
  (`PromiseKept`, `ReEnabled`, `ReportsAreTrue`).
* **Refusals.** Groups with a fixed membership, the Basic role, subjects that
  are not users. Right means: nothing changes and nothing is retried.
* **A sync is many requests.** It reads users, permissions and members one
  after the other, some from the cache, while administrators and tasks change
  the container, and lists of members that tasks asked for come into the cache
  after a sync has cleared it. Right means: it reports nothing older than what
  the last sealed sync left behind, misses nothing that was true all along
  (`ReportsAreRecent`, with what such a list does to memberships),
  names only users it lists (`GranteesAreListed`), and gets back to the truth
  when the container settles (`SyncsCatchUp`).
* **Everything ends.** The retry loop is bounded, and a task waiting for the
  only slot gets it (`AllTasksEnd`): every step uses up one of the requests a task
  has left (`EveryStepCounts`). An action nobody waits for gets its outcome
  all the same (`ActionsSettle`).
* **The mock writes everything down more than once.** A user is found by UUID,
  by id and in a list; a membership is in the group and in the user, a role in
  the user and in a table, and a count beside them; the membership routes look
  at the group under one lock and change it under another. Right means: the
  records agree (`IndexesAgree`, `EdgesAgree`), nobody comes into what a deleted
  user left (`NobodyInherits`), and it all amounts to one simple step per
  request (`RefinesAPI`).
* **The POST that makes an account cannot be taken back.** Its answer may be
  lost, and the keys its password is encrypted with are only validated
  afterwards. Right means: it is known which outcomes leave an account behind,
  and no attempt makes two (`AccountsAreAccountedFor`).
* **An action outlives its call.** The call may be cancelled while the handler
  runs, and both write to the record. Right means: the handler's outcome stands
  in the end (`OutcomesWin`), and COMPLETE means that the flag was set
  (`CompleteMeansApplied`).
* **A permission goes through the connector's types and back.** Right means:
  it goes back as it was read, but for the user it is about and for what the
  types and the tag names cannot hold; what others changed since is undone, and
  that is all that is (`RewritesAreFaithful`).

## Modules

| module | models | builds on |
|---|---|---|
| `TenableAPI` | the container, one atomic step per request | |
| `Client` | the client's methods and the cache they go through | `TenableAPI` |
| `TaskRunner` | slots, tasks, the retry loop, failures, re-enabling | `Client` |
| `GroupBuilder`, `RoleBuilder`, `PermissionBuilder`, `UserBuilder` | the handlers, one action per request | `TaskRunner` |
| `Connector` | their composition, the properties, the refinement mapping | the four builders |
| `AccessPromise` | what a caller wants of the tasks, without requests | |
| `MCConnector` | request sets and start states for TLC | `Connector` |
| `Sync` | full syncs and what changes meanwhile; its own properties | `Client` |
| `MCSync` | start states for TLC | `Sync` |
| `TestServer` | the mock container as it keeps its state, one step per section with its lock | |
| `Accounts` | CreateAccount and what the SDK does around it | `TestServer` |
| `ActionManager` | actions: record, detached handler, caller | `TestServer` |
| `Rewrites` | Grant and Revoke of a permission as they go over the wire | `TestServer` |
| `AccountLifecycle` | their composition over one container, the properties, the refinement of `TenableAPI` | the three above |
| `Seeds` | the container of `seeds.go`, literal by literal | `AccountLifecycle` |
| `MCAccountLifecycle` | what is left of it with two users, for TLC | `Seeds` |
| `ClientProofs` | lemmas about the container and the cache that both proofs use | `Client`, `TLAPS` |
| `ConnectorProofs` | theorems about `Connector` | `Connector`, `ClientProofs` |
| `TaskProofs` | theorems about the moves of a task and what is so at each request | `ConnectorProofs` |
| `PromiseProofs` | theorems about what tasks do and report; the refinement of `AccessPromise` | `TaskProofs` |
| `SyncProofs` | theorems about `Sync` | `Sync`, `ClientProofs` |
| `AccountLifecycleProofs` | theorems about `AccountLifecycle` | `AccountLifecycle`, `TLAPS` |

### How code becomes actions

`task[t]` is one call of the SDK for one task. Its `pc` names the request it
sends next; `req` is what it was asked; `tries` counts retries; `awake`,
`draft` and `outcome` are the handler's local variables: `user.Enabled`, the
edited `permission.Subjects`, and the result it is about to return. A step
sends the request, takes the answer and runs the handler up to its next request
or its return. Between two requests a handler touches only its own variables,
so a finer grain would show nothing more - except inside the client.

A GET goes through `Do` of the SDK's client (`sdk/uhttp/wrapper.go:747`), which
looks in the cache (760), asks the server (772) and stores the answer (833, also
when the cache gave it), under no common lock. `Client` has the three apart:

| part of `Do` | actions |
|---|---|
| no entry: the request goes out | `Misses` (in `LooksUp`, `LooksForMembers`) |
| the entry, or the server's answer, at the moment it is given | `GetUserDetails`, `GetGroupMembers`, `GetUserRoles`, `GetPermissionDetails` |
| the answer is stored | `Store` (in `Stores`, `StoreMembers`) |

`asked[t]` is a GET that is out, `unstored[t]` an answer that is not in the cache
yet. Between any two of the steps other tasks, administrators, evictions and
ClearCaches may come. The handler's own code between the answer and its next
request is part of the second step, and the next request waits for the store:
what it does in between nobody else can see.

| requests of a handler, in order | actions |
|---|---|
| `groups.go` Grant: list members; add; read user; enable | `GrantReadsMembers`, `AddMember`, `ReadStatus`, `EnableUser` |
| `groups.go` Revoke: list members; remove | `RevokeReadsMembers`, `RemoveMember` |
| `roles.go` Grant: read user; read roles; write; enable | `RoleReadsUser`, `GrantReadsRoles`, `AssignRole`, `EnableUser` |
| `roles.go` Revoke: read user; read roles; list roles; write | `RoleReadsUser`, `RevokeReadsRoles`, `FindBasicRole`, `DemoteToBasic` |
| `permissions.go` Grant: read permission; read user; write; enable | `ReadPermission`, `GrantReadsSubject`, `PutPermission`, `EnableUser` |
| `permissions.go` Revoke: read permission; read user; write | `ReadPermission`, `RevokeReadsSubject`, `PutPermission` |
| `actions.go`, `users.go` Delete: set the flag | `PutEnabled` |

Every request has four outcomes: it is carried out and answered; it is carried
out and the answer is lost (`AnswerLost`, inside the action); it fails and
changes nothing (`RequestFails`); the server refuses it (`Refused`: 403 for a
fixed group, 404 for a user who is gone). `Fail` decides what an error means:
the SDK retries Unavailable and DeadlineExceeded of Grant and Revoke at most
three times, from the handler's first request; everything else ends the task. A
GET the cache can answer does none of this: it succeeds.

A sync is the record `sync`: `todo` are the requests it has left, `got` the facts
it has stored in its file, `draft` the permissions whose subjects it is about to
translate. A fact is a pair such as <<u1, "enabled">>, <<u1, basic>>, <<u1, g1>>
or <<o1, p1>>: a user resource with its status, a role, a membership, a grant of a
permission.

| part of a sync | actions |
|---|---|
| a task asks for one, or the command line does | `Begin` |
| `users.go` List and Grants: list the users with their roles | `ListUsers` |
| `permissions.go` List: list permissions; list users; translate every subject | `ListPermissions`, `ResolveSubjects`, `SubjectUnknown` |
| `groups.go` Grants: list the members of each group, after all resources | `ListMembers` |
| sealed, `Cleanup` (ClearCaches), uploaded | `Finish` |
| a request fails after the SDK's retries; the file is thrown away | `ListFails` |

`ContainerChanges` is everybody else: administrators, and the writes of tasks.
`TaskListsMembers` is a grant or revoke that is given the members of a group,
`StoreMembers` the moment its list comes into the cache a sync reads, which may be
after `Finish` has cleared it. `ListsExpire` is the cache's lifetime and size limit.
`window` is a history variable: the facts true at some time, and those true all
the time, since the last sync was sealed (with the cache off: since this one
began). `memberWindow` is the same since the last sync that was sealed while no
list of members was waiting to be stored: nothing in the code bounds the age of a
list of members by a later moment.

In `Connector`, `AdminEdits` is an administrator who puts a subject on a permission
or takes one off. The history variable `touched` has the subjects edited so while
the connector had a copy of the list - cached, waiting to be stored, or held by a
handler - and forgets them when there is no copy left.

`AccountLifecycle` has the container's variables under the names of the struct
`State`, and three functions beside them: `attempt[a]` is one call of
CreateAccount, `action[x]` one invocation of an account action with the record
(`status`, `cancelled`), the goroutine that runs the handler (`handler`, `result`)
and the call (`caller`, `told`), and `rewrite[r]` one run of Grant or Revoke on a
permission. `made`, `applied` and `base` are history variables.

| code | actions |
|---|---|
| `state.go`: one locked method per write | `CreateUser`, `DeleteUser`, `SetUserEnabled`, `UpdateUser`, `SetUserRoles`, `UpdatePermission` |
| `handlers.go` addGroupMember, removeGroupMember: look, unlock, lock, change | `GroupMembershipFixed`, then `AddGroupMember` or `RemoveGroupMember` |
| `users.go` CreateAccount: order, password; POST; encryption | `BeginAttempt`, `PostUser`, `PostFails`, `Deliver` |
| `sdk/actions/actions.go` invokeRegisteredAction, the goroutine | `Invoke`, `HandlerStarts`, `HandlerPuts`, `HandlerPutFails`, `HandlerPublishes`, `HandlerCloses` |
| the same, its caller's three-way wait; GetActionStatus | `CallReturns`, `CallCancelled`, `CancelledReturns`, `GetActionStatus` |
| `permissions.go` Grant and Revoke with `models.go`: read and decode; read the user and edit; encode and write | `ReadsPermission`, `ReadsUser`, `PutsPermission`, `RewriteFails` |

`AdminStep` is a request from elsewhere, `HandlerStep` the second half of a
membership request. In `ActionManager` a step is a section that holds the
record's lock, except that a caller that is answered reads the record in the
same step; the code takes the lock there once as well.

### What is abstracted

* Users are named by one value where the code has an id, a UUID and a username.
* The subjects of a permission are a set. The code appends to a list, and only
  a user its copy does not name, so no subject appears twice.
* In `Connector` and `Sync` the text of a permission besides its subjects (name,
  actions, objects) is left out; `Rewrites` has it.
* The role list answered by GET /access-control/v1/roles is the constant
  `Roles`: the connector never changes it. A list without Basic ends a revoke as
  a failure that is not retried, which is one of the outcomes of `RequestFails`.
* In `Connector`, ClearCaches is several evictions, since no sync runs there; in
  `Sync` it is one step, part of `Finish`.
* In `Sync` the three steps of a GET are apart for the lists of members, which
  tasks ask for too. The lists of users and permissions are asked for by the one
  sync that runs and by nobody else, so nothing can come between that would see
  or change their entries.
* reEnableUserIfNeeded is sent the flag the handler holds. A role grant reads
  it before the write, a group grant after it.
* A crash of the process loses the tasks in flight and the cache, and is not an
  action: the container is left as after a failed task.
* Groups and roles of the container are constants, so their lists and the
  resources made of them always say the same and are left out.
* In `Sync` the lists of users and permissions do not expire while a sync runs,
  and fit into the cache: a sync takes less than the hour an entry lives, every
  hit renews it, and `permissions.go:48-52` notes the 5 MB limit as what makes a
  lookup per permission too dear. Entries of single groups may be evicted at any
  time.
* A request that the SDK retries within a sync and that then succeeds is a
  stutter; only its final failure is an action. A group that is gone (NotFound, a
  warning and no grants) does not occur, since no group is ever deleted.
* The subjects AllUsers and AllAdmins are other subjects outside
  `SubjectGroups`; List skips them (`permissions.go:134-153`).
* In `TestServer` a user's id and the UUID made of it (`state.go:444`) are one
  number, and 0 is the zero UUID; a list is the number of times it holds each
  user, since nothing depends on its order. The UUIDs in `seeds.go` are literals
  of another form, so none is given out again.
* A permission's name and actions are one value (`rest`), which is read and sent
  back whole. Its objects and subjects are sets of types with their UUIDs, either
  of which may lack one; of a tag's name only the number of colons is kept, since
  replacing one is all the connector does to it. The name of a subject is left
  out.
* A password is its length. Every password GenerateRandomPassword makes without
  constraints has a character of each of the four kinds, so isPasswordValid is
  content with the first (`password.go:82`, `helper.go:65`).
* A panic in an action's handler is not modelled: its recovery is the SDK's, and
  the handlers do nothing that panics.
* In `Rewrites` the cache and `enable-on-provision` are off and a retry is
  another rewrite; `PermissionBuilder` has all three, on sets of subjects.

## Abstract specification

`AccessPromise` is what the caller wants, without requests, copies or a cache. A
request has parts: the access it names, and, for a grant with
`enable-on-provision`, the login. A task sees to its parts, each in one step and
in any order, may fail at any time and keep what it did, and may end well only
when it has seen to every part since its last attempt began. It changes nothing
else, turns down anything that is not about a user, and never takes Basic from
one who holds it.

`Connector!Promise` maps tasks to it: access is read off members, role lists and
subjects; the access part is seen to once there is an outcome to report, the
login part once the user was read enabled with the option on. `PromiseKept` says
that every step of the connector is one step of the promise or none.

## Runs

The runs of `MCConnector` start from `WatchedSpec`: u1, whom the requests are about, is enabled
or not, a member or not, with any role or none, a subject or not; the other
users are enabled members with the Basic role, and u2 is a subject. They are
bystanders, so their other states would only repeat these. Tasks are
interchangeable, which the symmetry uses where no liveness is checked.
Deadlock is not checked there: when every task has ended nothing is left to do.
Neither is it in the runs of `AccountLifecycle`, where nothing is left to do when
the events from outside are used up.
It is in the runs of `MCSync`, where another sync can always begin.

| run | question | properties |
|---|---|---|
| `sequential` | one task at a time, fresh answers, every kind of request, any two failures | `RevokeWritesOnlyHeldRoles`, `PromiseKept`, `ReEnabled`, `ReportsAreTrue` |
| `groups_concurrent` | three tasks at once on one user's memberships and login, one group fixed | `PromiseKept` |
| `permissions_cached` | two tasks at once rewrite one permission from stale copies while an administrator edits it and a user is deleted: who is touched? | `CopiesAgree`, `BystandersKept` |
| `every_task_ends` | two tasks, one slot, failures, refusals, a user deleted meanwhile | `TypeOK`, `AllTasksEnd`, `EveryStepCounts` |
| `sync_recent` | syncs close together, any change under them, a task that lists members at the same time, a failed request or upload | `SyncTypeOK`, `AnswersAreRecent`, `GranteesAreListed`, `ReportsAreRecent` |
| `sync_catches_up` | syncs further apart than entries live, nobody deleted: do reports end up right? | `SyncsCatchUp` |
| `sync_stuck` | violation: the same with syncs closer together and no failure at all | `SyncsCatchUp` |
| `account_lifecycle` | two attempts to create an account, an action, two rewrites and an administrator at once: does every part keep its promise, and the container its records? | `TypeOK`, `IndexesAgree`, `EdgesAgree`, `NobodyInherits`, `RefinesAPI`, `AccountsAreAccountedFor`, `OutcomesWin`, `CompleteMeansApplied`, `ActionsSettle`, `RewritesAreFaithful` |
| `short_passwords` | violation: does every password have 12 characters? | `PasswordsAreLongEnough` |
| `stale_reenable` | violation: is a disabled user re-enabled by a grant when answers may be cached? | `ReEnabled` |
| `stale_second_revoke` | violation: does a second role revoke write nothing? | `RevokeWritesOnlyHeldRoles` |
| `stale_role_revoke` | violation: is a revoked role gone? | `RevokedRolesAreGone` |

Bounds, and why they are enough:

* `MaxRetries` is 3 in the code and 1 in the passing runs: an attempt differs
  from the one before it only in what it finds on the server, and one retry
  shows a handler its own effect. The violation runs need no failure and use 3.
* `MaxFaults` bounds the requests that fail or lose their answer. Two reach
  every pair: a failure in a first attempt and one in its retry, or one in each
  of two tasks. In `every_task_ends` it is 4, one for each attempt of each
  task, so the bound never takes a choice away and the liveness result does not
  depend on it.
* `Slots` is 1 (one-shot mode) or the number of tasks (a service has 3).
* Two tasks make any pair of requests, before, after or during one another;
  `groups_concurrent` has three since a grant has four requests between which a
  disable and another grant may both fall.
* `Editable` is empty but for `permissions_cached`, where it has o1, which stands
  for a group or a user no task is about; u2 is a bystander nobody edits. A
  subject is edited any number of times. That run has no groups, u3 as a second
  principal, and one failure: with the cache's steps apart it has 1.9 million
  states all the same.
* The runs of `MCSync` start with u1 alone, in no group, and have two users, one
  group, one role and one permission: u2 is the user created under a sync. They
  have one task (task1) beside the syncs (sync1), which lists members any number
  of times: an old list is kept away from the cache by being under way, and one
  task suffices to hold it while a sync is sealed.
* `MaxChanges` is 3 in `sync_recent`, enough for a user to be created, named in
  the permission and deleted within one sync; `MaxFaults` is 1, a failed
  request or upload between two syncs. In the other two it is 2 (create and
  name) and the syncs after the last change go on for ever, which is what
  `SyncsCatchUp` is about.
* `SyncsFarApart` makes the lists expire before each sync: they are read only by
  syncs, so nothing else renews them. `Deletable` is empty for `SyncsCatchUp`,
  since the subject a deleted user leaves behind (`cmd/test-server/state.go:197`
  keeps it) fails every later sync, rightly or wrongly; what Tenable does with
  such subjects is not said anywhere in the repository.
* `MaxEvents` bounds what comes from outside in the runs of `AccountLifecycle`: a
  request of an administrator, an attempt, an invocation or a rewrite that
  begins. In `account_lifecycle` it is 3: two rewrites and an administrator who
  changes the permission or deletes the user between them; a membership being
  added, the user deleted and another created; an attempt, an action on the user
  it made and its deletion; an action with one event to spare, while its call is
  cancelled at any point. What an event starts runs on without a bound.
* `MaxUserID` 4 leaves room for two new users beside the two of the seed; two
  with the same id would need only one deletion and one creation. `MaxColons` 2
  lets a tag lose its colons one by one; the administrator adds tags with any
  number of them.
* The container of the `AccountLifecycle` runs is that of `seeds.go` cut down to
  Alice (enabled, administrator, in Engineering) and Carol (disabled, in neither),
  to the groups All Users and Engineering (UUIDs 0 and 101), and to one permission
  with the objects and subjects of all four, which are of every type: a tag (201)
  and AllAssets, a user, a group, AllUsers and AllAdmins. The administrator may
  add and take away any of them. That the whole seed is
  consistent, each membership of its six users written down twice, is the
  assumption `LiteralsFitTogether` of `Seeds`, which TLC evaluates.
* `Lengths` is {16} where lengths do not matter and {8, 16} in
  `short_passwords`; the SDK's validation lets 8 to 64 through.

## Fairness

`AllTasksEnd` assumes weak fairness of `Step(t) \/ Stores(t)` for every task and
nothing else: of what a task does next, be it a request that ends or an answer
that is stored, which is a call in memory (`sdk/uhttp/wrapper.go:833`). A request ends because the SDK's HTTP client gives it five minutes
(`sdk/uhttp/client.go:77`), with an answer or an error; the runner polls for the
next task whenever it has a slot. Nothing is assumed of the cache (entries may
stay for ever: every hit renews them) or of administrators. The safety
properties assume no fairness.

`SyncsCatchUp` assumes weak fairness of `SyncStep`: the next sync is asked for
again and again, which the service does at regular intervals
(`docs/connector.mdx:128`), and a request that does not fail is answered. It also
assumes weak fairness of `StoreMembers(t)`, as above. The property itself supposes
that tasks stop listing members at some time: as long as they go on, each sync may
clear the cache while a task holds an old list, read from the cache and about to
be put back there, and the next sync may report it. Changes
and failures are bounded, which says that they stop; it is no fairness of
theirs. Nothing makes an entry expire, except `Begin` when syncs are far apart.

`ActionsSettle` assumes weak fairness of `Handle(x)`, the goroutine of an action,
and nothing of its caller: Go runs a goroutine that can run, and its one request
ends by the context's timeout of an hour (`sdk/actions/actions.go:953`) if not
by the client's of five minutes.

## Findings

The first three need nothing but the default configuration (the SDK caches GET
answers for an hour unless `BATON_DISABLE_HTTP_CACHE` is set), one task after
the other, and no failure.

1. `stale_reenable`: a grant reads its user and caches the answer; the user is
   disabled by `disable_account`; a second grant reads the cached answer and
   leaves the user disabled. `pkg/connector/connector.go:81` says the helper
   re-enables a user if they are disabled and the option is on.
2. `stale_second_revoke`: a role is revoked, then revoked again; the second
   revoke reads the cached role list and writes Basic again.
   `pkg/connector/roles_test.go:94` fails on that, and passes because it makes a
   new client for each revoke.
3. `stale_role_revoke`: a role grant caches the role list from before the grant;
   the revoke that follows finds the role not held, reports it already revoked
   and leaves it. `docs/connector.mdx:26` says that revoking moves the user to
   Basic.
4. `sync_stuck`: a sync lists the users; an administrator creates a user and
   names it in a permission; the same sync lists the permissions and translates
   the subject with the cached list, which does not know it (`helper.go:78`), so
   the sync fails. Only a sync that is sealed clears the cache and every hit
   renews an entry, so every sync begun within an hour of the one before it
   fails the same way, for good. `docs/connector.mdx:128` promises syncs at
   regular intervals. With syncs further apart than the hour,
   `sync_catches_up` shows that reports become right again.

5. `short_passwords`: an order for a password of 8 characters yields one of 8.
   `helper.go:59` takes the smaller of 12 and the length asked for where the
   larger would do; `pkg/client/models.go:63` says that passwords must be at
   least 12 characters long. An order for more than 12 gets 12. The mock does
   not look at the password; an API that enforces its rule would turn the order
   down.

## Proofs

`ConnectorProofs` proves, for all values of the constants that satisfy the
modules' assumptions - any number of users, tasks, slots, retries, failures, the
cache on or off:

* `TypeCorrect`: `Spec => []TypeOK`. `TypeOK` is inductive as it stands because
  it includes `SendsItsOwn`: a task sends only requests of the handler its
  target belongs to, so that for instance the target of a task about to write
  subjects is a permission. Without it the type of `subjects` could not be kept.
* `CopiesAlwaysAgree`: `Spec => []CopiesAgree`. `CopiesAgree` is inductive
  relative to `TypeOK`. It speaks of the subjects that no task is about and that
  are not in `touched`. A copy comes from the server or from another copy, where
  it agrees already, and goes on to the cache unchanged however late; a handler
  edits it only by its own principal, who is no bystander; a write makes the
  server equal to such a copy, so that the copies of all others agree with it as
  they did with the old list; an administrator's edit puts its subject into
  `touched` unless there is no copy (`EditsKeepCopies`); and `touched` is emptied
  only when there is none.
* `BystandersAreKept`: `Spec => BystandersKept`, from the same lemma about one
  step (`StepKeeps`), since a step that changes the subjects sends a draft that
  agrees with them. What it does not say is part of its statement: an edit made
  behind a copy may be lost.

`TaskProofs` proves of the same composition, still with or without the cache and
whoever is deleted meanwhile:

* `OrderIsKept`: `Spec => []Always`, the invariant the theorems about tasks rest
  on. `RowFits` says what a handler's local variables may be at each request: an
  outcome is held only while the user is being re-enabled, the flag read from the
  user only by a grant that has not written yet, `tries` is at most `MaxRetries`.
  The other parts say that only users who exist are members, that a user has at
  most one role, and that at most `Slots` tasks run. `StepIsMove` reduces
  all steps of a task to four moves - a retry, an end, the way into
  re-enabling, the next request - and each part is proved once per move.
* `StepsRunOut`: `Spec => EveryStepCounts`. `Left(t)`, the requests of this
  attempt and of all attempts to come, is at most 6 + 5 * `MaxRetries` and goes
  down at every step of `t`. It is the measure behind `AllTasksEnd`, whose fairness
  is beyond the prover. `MaxRetries` is a number (3 in `resource_provisioner.go:84`);
  the retryer's own reading of 0 as no limit is not used by this code.

`PromiseProofs` proves what the tasks are for. Its hypotheses are `Undisturbed`,
on the constants - no cache, nobody deletes users or edits permissions - and
`Alone`, on the requests:
one slot, or no task whose request `Disturbs` another's. A request disturbs a
permission rewrite if it is about the same permission; a role change, if it is
about a role of the same user; a role or permission grant that is to re-enable its
user, if it disables that user. Nothing disturbs a request about a group or a
login, so any number of these may run at once. The hypotheses are what the code
needs: the `stale_` runs show what the cache does to one task at a time, a deletion
takes access away that no task was asked about, two rewrites of one permission or
two role changes of one user overwrite each other (see the hazards of kind
interleaving), and a user disabled after a grant read it enabled stays disabled.

* `MemoryIsTrue`: `Spec /\ Alone => []Inv`. `Inv` adds to `Always` that the cache
  is empty and that what a handler has read and relies on is still so: the edited
  list of subjects is the server's but for the principal, a role about to be taken
  away is held, a user read enabled is enabled. This is what makes the properties
  inductive: without it a step that writes could write from anything. One slot
  needs `SlotsHold`, so that nobody else is between two requests; many slots need
  that the writes of others leave alone what a handler remembers
  (`WritesLeaveAlone`). `OthersMemoryFits` has both cases.
* `PromiseIsKept`: `Spec /\ Alone => PromiseKept`, the refinement of
  `AccessPromise`. `StepWorks` shows of every step of every handler which parts of
  the request it sees to and how the task goes on; the lemmas about pairs say what
  each write does to `Access`.
* `ReportsAreAlwaysTrue`: `ReportsAreTrue` - of one slot or, for several, with
  `Unopposed` too: no task revokes a membership that another grants, since that one
  may be gone again while its user is still being re-enabled. A task ends well
  only with all parts seen to (`SuccessIsWhole`), and what it saw to stays
  (`AccessStays`).
* `RevokesTakeRolesAway`: `RevokedRolesAreGone` under the same hypotheses. The run
  `stale_role_revoke` refutes it with one slot and nobody deleted, so the cache
  alone is the reason.
* `GrantsReEnable`: `ReEnabled`, and `RevokesWriteOnlyHeldRoles`:
  `RevokeWritesOnlyHeldRoles`, from `Inv`; likewise refuted with the cache by
  `stale_reenable` and `stale_second_revoke`.

`SyncProofs` proves of `Sync`, again for all values of the constants, any number
of changes and failures, syncs close or far apart:

* `SyncTypeCorrect`: `SyncSpec => []SyncTypeOK`, inductive as it stands.
* `AnswersStayRecent`: `SyncSpec => []AnswersAreRecent`. Every answer in the cache
  or on its way to it, and everything a running sync has got for the requests it
  is done with, has all facts of its kind that were true throughout its window
  and none that never were. The window is `memberWindow` for memberships and
  `window` for the rest. The inductive invariant adds `WindowOK`: the windows
  contain what is true now, so a fresh answer qualifies; a change of the container
  only widens them; sealing a sync empties the cache and resets `window` in the
  same step, and `memberWindow` only when nothing is waiting to be stored, so that
  no list of members is left that the new window would have to vouch for. With
  `window` in its place the theorem would be false, and the code is the reason:
  a task is given the members, one of them is removed, the sync is sealed and
  clears the cache, the task's list is stored. Without the cache the invariant also
  needs that nothing is cached or about to be, since `Begin` resets the windows.
* `ReportsStayRecent`: `SyncSpec => ReportsAreRecent`. A sync with nothing left to
  do has every kind of fact, and there are no other kinds (`TruthIsCovered`).
* `GranteesAreAlwaysListed`: with the cache on, `SyncSpec => []GranteesAreListed`.
  The inductive invariant is `ListedInv`: once one of the two requests for the
  users was answered, that answer stays cached for the rest of the sync, so the
  resources and the translated subjects come from the same list. With the cache
  off it is false: the second list may know a user the first did not.

`AccountLifecycleProofs` proves of `AccountLifecycle`, for any number of users,
groups, attempts, actions, rewrites and events, and any consistent seed:

* `TypeCorrect`, `IndexesAlwaysAgree`, `EdgesAlwaysAgree`,
  `AccountsAlwaysAccountedFor`, `OutcomesAlwaysWin`, `CompleteAlwaysApplied`: each
  is a part of one inductive invariant, `Inv`, or follows from it. `Core` is its
  part about the container. It is stronger than the two properties about it:
  the membership of All Users is that of `users`, nobody holds or is named
  anything under an id that was not given out yet, no group lists a user twice.
  The other parts say for an attempt, an action and a rewrite what its fields
  may be at each `pc`; for a rewrite, that its copy is what the codec and the edit
  make of `base`.
* The container is changed by steps of all kinds. `NextIsMove` reduces them to a
  handful of moves - a user appears, goes, changes a flag, a role or a
  membership, or a permission is written - so that each fact about the container
  is proved once per move and not once per action.
* `ImplementsAPI`: `Spec => RefinesAPI`. The first state is one of `APIInit`, and
  each move is the `TenableAPI` request of the same name under the mapping in
  `AccountLifecycle!API`, or a stutter; agreement of the indexes and edges is what
  makes the mapped functions change in one place only.
* `NobodyEverInherits`: a new id is larger than all given out, and `Core` says
  that nothing names such an id; nor does a rewrite's copy.
* `RewritesStayFaithful`: `Spec => RewritesAreFaithful`. `RewritesFit`, a part of
  `Inv`, says that a copy is what the decoding and the edit make of `base`, the
  permission as it was read. Decoding a missing UUID as 0 keeps the type of an
  object or a subject and names no user, since ids start at 1; the edit touches
  one user; encoding touches the names of tags. So what is written is `base` again
  but for these, whatever the permission has become meanwhile: every change made
  since the read is undone, and nothing besides.

The assumptions used are those named in the modules: the kinds of targets and
facts are distinct, users are not other subjects, requests are of the known
kinds, the seed is consistent, no group's UUID is a user's. Only model-checked:
`AllTasksEnd`, `SyncsCatchUp` and `ActionsSettle`, which as liveness under fairness
are out of the prover's reach.

## Not modelled, and the plan

What there is of the connector's control is modelled, and every safety property
the runs check is a theorem. Left to prove, most important first: measures for the
liveness of actions and syncs like the one `StepsRunOut` has for tasks; what a
stale cache can and cannot do to the reports of tasks.

Not modelled:

* normalizeBaseURL: a pure function on the characters of a string, called once;
  `client_helper_test.go` has a table of its cases.
* The configuration schema, `main` functions, the mock's listener, authentication
  header and error texts: declarations, wiring and pure I/O.
* Headers, rate limits and the annotations that carry them; delays between
  attempts, heartbeats and polling; pages of a list (the API has none); the
  expansion of group grants, which is the SDK's.
* Profiles of resources: names, emails, last logins, and the group's count, which
  stays 0 because the connector looks for `users_count`
  (`cmd/test-server/README.md:91` records that).
* The cleaning up of old actions: nothing in the repository calls it.
* The SDK's file format, storage engine and upload protocol: the connector sees
  only that a sync is sealed or fails.
