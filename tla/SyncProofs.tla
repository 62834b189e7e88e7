----------------------------- MODULE SyncProofs -----------------------------
(***************************************************************************)
(* Proofs about Sync, for all users, groups, roles, permissions and        *)
(* bounds, with or without the cache, however far apart the syncs are.     *)
(*                                                                         *)
(* SyncTypeOK is inductive.  AnswersAreRecent is, together with it and     *)
(* with WindowOK: what is true now was true at some time, and nothing that *)
(* is not true now was true all along.                                     *)
(***************************************************************************)
EXTENDS Sync, ClientProofs

----------------------------------------------------------------------------
(* The facts the container's state is made of.                             *)

(* What GET /users says of the users, and nothing else.                    *)
LEMMA UserFactsOfTruth ==
    ASSUME APITypeOK
    PROVE  /\ UserFacts \subseteq UserKind
           /\ UserFacts \subseteq Truth
           /\ Truth \cap UserKind \subseteq UserFacts
<1>1. StatusFacts \subseteq Users \X {"enabled", "disabled"}
  BY DEF APITypeOK, StatusFacts
<1>2. RoleFacts \subseteq Users \X Roles
  BY DEF APITypeOK, RoleFacts
<1>3. UserFacts \subseteq UserKind
  BY <1>1, <1>2 DEF UserFacts, UserKind
<1>4. ASSUME NEW f \in SubjectFacts(subjects)
      PROVE  f \notin UserKind
  <2>1. f[2] \in Permissions
    BY DEF SubjectFacts
  <2> QED
    BY <2>1, KindsAreDistinct DEF UserKind
<1>5. ASSUME NEW f \in {x \in users \X Groups : x[1] \in members[x[2]]}
      PROVE  f \notin UserKind
  <2>1. f[2] \in Groups
    OBVIOUS
  <2> QED
    BY <2>1, KindsAreDistinct DEF UserKind
<1> QED
  BY <1>3, <1>4, <1>5 DEF Truth

(* What GET permissions says of the subjects a sync can report.            *)
LEMMA SubjectFactsOfTruth ==
    ASSUME APITypeOK
    PROVE  /\ SubjectFacts(subjects) \subseteq SubjectKind
           /\ SubjectFacts(subjects) \subseteq Truth
           /\ Truth \cap SubjectKind \subseteq SubjectFacts(subjects)
<1>1. SubjectFacts(subjects) \subseteq SubjectKind
  BY DEF SubjectFacts, SubjectKind
<1>2. ASSUME NEW f \in UserFacts
      PROVE  f \notin SubjectKind
  <2>1. f[2] \in Roles \cup {"enabled", "disabled"}
    BY UserFactsOfTruth DEF UserKind
  <2> QED
    BY <2>1, KindsAreDistinct DEF SubjectKind
<1>3. ASSUME NEW f \in {x \in users \X Groups : x[1] \in members[x[2]]}
      PROVE  f \notin SubjectKind
  <2>1. f[2] \in Groups
    OBVIOUS
  <2> QED
    BY <2>1, KindsAreDistinct DEF SubjectKind
<1> QED
  BY <1>1, <1>2, <1>3 DEF Truth

(* What GET /groups/{id}/users says of a group.                            *)
LEMMA MemberFactsOfTruth ==
    ASSUME APITypeOK, NEW g \in Groups
    PROVE  /\ MemberFacts(MemberList(g), g) \subseteq MemberKind(g)
           /\ MemberFacts(MemberList(g), g) \subseteq Truth
           /\ Truth \cap MemberKind(g) \subseteq MemberFacts(MemberList(g), g)
<1>1. MemberFacts(MemberList(g), g) = {<<u, g>> : u \in members[g] \cap users}
  <2>1. ASSUME NEW f \in MemberFacts(MemberList(g), g)
        PROVE  \E u \in members[g] \cap users : f = <<u, g>>
    <3>1. PICK m \in MemberList(g) : f = <<m[1], g>>
      BY DEF MemberFacts
    <3>2. PICK u \in members[g] \cap users : m = <<u, enabled[u]>>
      BY DEF MemberList
    <3> QED
      BY <3>1, <3>2
  <2>2. ASSUME NEW u \in members[g] \cap users
        PROVE  <<u, g>> \in MemberFacts(MemberList(g), g)
    <3>1. <<u, enabled[u]>> \in MemberList(g)
      BY DEF MemberList
    <3>2. <<u, enabled[u]>>[1] = u
      OBVIOUS
    <3> QED
      BY <3>1, <3>2 DEF MemberFacts
  <2> QED
    BY <2>1, <2>2
<1>2. MemberFacts(MemberList(g), g) \subseteq MemberKind(g)
  BY <1>1 DEF APITypeOK, MemberKind
<1>3. MemberFacts(MemberList(g), g) \subseteq Truth
  BY <1>1 DEF APITypeOK, Truth
<1>4. ASSUME NEW f \in Truth \cap MemberKind(g)
      PROVE  f \in MemberFacts(MemberList(g), g)
  <2>1. f[2] = g /\ f = <<f[1], f[2]>>
    BY DEF MemberKind
  <2>2. f \notin UserFacts
    BY <2>1, UserFactsOfTruth, KindsAreDistinct DEF UserKind
  <2>3. f \notin SubjectFacts(subjects)
    BY <2>1, SubjectFactsOfTruth, KindsAreDistinct DEF SubjectKind
  <2>4. f \in {x \in users \X Groups : x[1] \in members[x[2]]}
    BY <2>2, <2>3 DEF Truth
  <2> QED
    BY <1>1, <2>1, <2>4
<1> QED
  BY <1>2, <1>3, <1>4

(* There are no other facts.                                               *)
LEMMA TruthIsCovered ==
    ASSUME APITypeOK, NEW f \in Truth
    PROVE  \/ f \in UserKind
           \/ f \in SubjectKind
           \/ \E g \in Groups : f \in MemberKind(g)
<1>1. CASE f \in UserFacts
  BY <1>1, UserFactsOfTruth
<1>2. CASE f \in SubjectFacts(subjects)
  BY <1>2, SubjectFactsOfTruth
<1>3. CASE f \in {x \in users \X Groups : x[1] \in members[x[2]]}
  <2>1. f[2] \in Groups /\ f \in Users \X {f[2]}
    BY <1>3 DEF APITypeOK
  <2> QED
    BY <2>1 DEF MemberKind
<1> QED
  BY <1>1, <1>2, <1>3 DEF Truth

LEMMA KindsAreFacts ==
    /\ UserKind \subseteq Facts
    /\ SubjectKind \subseteq Facts
    /\ \A g \in Groups : MemberKind(g) \subseteq Facts
  BY DEF UserKind, SubjectKind, MemberKind, Facts

LEMMA TruthIsTyped ==
    ASSUME APITypeOK
    PROVE  Truth \subseteq Facts
  BY TruthIsCovered, KindsAreFacts

(* The same of the container after a step.                                 *)
LEMMA NextTruthIsTyped == APITypeOK' => Truth' \subseteq Facts
<1>1. APITypeOK => Truth \subseteq Facts
  BY TruthIsTyped
<1>2. (APITypeOK => Truth \subseteq Facts)'
  BY <1>1, PTL
<1> QED
  BY <1>2 DEF Facts, Grantable

----------------------------------------------------------------------------
(* Types.                                                                  *)

(* What the lists are answered with, from the cache or not, has the type   *)
(* of what the cache holds.                                                *)
LEMMA ListAnswersAreTyped ==
    ASSUME SyncTypeOK
    PROVE  /\ UserListAnswers \subseteq SUBSET Facts
           /\ PermissionListAnswers \subseteq [Permissions -> SUBSET Subjects]
           /\ \A t \in Tasks, g \in Groups : MemberAnswers(t, g) \subseteq MemberLists
<1>1. UserFacts \in SUBSET Facts
  BY UserFactsOfTruth, KindsAreFacts DEF SyncTypeOK
<1>2. subjects \in [Permissions -> SUBSET Subjects]
  BY DEF SyncTypeOK, APITypeOK
<1>3. lists.users \in SUBSET SUBSET Facts
  BY DEF SyncTypeOK
<1>4. lists.permissions \in SUBSET [Permissions -> SUBSET Subjects]
  BY DEF SyncTypeOK
<1>5. UserListAnswers \subseteq SUBSET Facts
  BY <1>1, <1>3 DEF UserListAnswers, Served
<1>6. PermissionListAnswers \subseteq [Permissions -> SUBSET Subjects]
  BY <1>2, <1>4 DEF PermissionListAnswers, Served
<1>7. \A t \in Tasks, g \in Groups : MemberAnswers(t, g) \subseteq MemberLists
  BY AnswersAreTyped DEF SyncTypeOK
<1> QED
  BY <1>5, <1>6, <1>7

LEMMA GotFactsAreTyped ==
    /\ \A lots : SubjectFacts(lots) \subseteq SubjectKind
    /\ \A g \in Groups : \A list \in MemberLists : MemberFacts(list, g) \subseteq MemberKind(g)
<1>1. \A lots : SubjectFacts(lots) \subseteq SubjectKind
  BY DEF SubjectFacts, SubjectKind
<1>2. ASSUME NEW g \in Groups, NEW list \in MemberLists, NEW f \in MemberFacts(list, g)
      PROVE  f \in MemberKind(g)
  <2>1. PICK m \in list : f = <<m[1], g>>
    BY DEF MemberFacts
  <2> QED
    BY <2>1 DEF MemberLists, MemberKind
<1> QED
  BY <1>1, <1>2

LEMMA IdleIsTyped ==
    Idle \in [on : BOOLEAN, todo : SUBSET Pending,
              draft : [Permissions -> SUBSET Subjects], got : SUBSET Facts]
  BY DEF Idle

(* The cache's lists have the right type after an answer was kept.         *)
LEMMA KeptListsAreTyped ==
    ASSUME SyncTypeOK
    PROVE  /\ NoLists \in [users : SUBSET SUBSET Facts,
                            permissions : SUBSET [Permissions -> SUBSET Subjects]]
           /\ \A facts \in UserListAnswers :
                [lists EXCEPT !.users = Kept(facts)] \in
                  [users : SUBSET SUBSET Facts,
                   permissions : SUBSET [Permissions -> SUBSET Subjects]]
           /\ \A lots \in PermissionListAnswers :
                [lists EXCEPT !.permissions = Kept(lots)] \in
                  [users : SUBSET SUBSET Facts,
                   permissions : SUBSET [Permissions -> SUBSET Subjects]]
<1>1. \A facts \in UserListAnswers : Kept(facts) \in SUBSET SUBSET Facts
  BY ListAnswersAreTyped DEF Kept
<1>2. \A lots \in PermissionListAnswers :
        Kept(lots) \in SUBSET [Permissions -> SUBSET Subjects]
  BY ListAnswersAreTyped DEF Kept
<1> QED
  BY <1>1, <1>2 DEF SyncTypeOK, NoLists

(* Getting on with a request keeps the type of the sync.                   *)
LEMMA GetsOnKeepsTypes ==
    ASSUME SyncTypeOK, NEW request, NEW facts \in SUBSET Facts, GetsOn(request, facts)
    PROVE  /\ sync' \in [on : BOOLEAN, todo : SUBSET Pending,
                         draft : [Permissions -> SUBSET Subjects], got : SUBSET Facts]
           /\ UNCHANGED <<report, changes, faults, window, memberWindow>>
  BY DEF SyncTypeOK, GetsOn

LEMMA SyncInitIsTyped ==
    ASSUME SyncInit
    PROVE  SyncTypeOK
<1>1. APITypeOK
  BY InitialContainerIsTyped DEF SyncInit
<1>2. CacheTypeOK
  BY ClientInitIsTyped DEF SyncInit
<1>3. window \in Windows /\ memberWindow \in Windows
  BY <1>1, TruthIsTyped DEF SyncInit, Now, Windows
<1>4. lists \in [users : SUBSET SUBSET Facts,
                permissions : SUBSET [Permissions -> SUBSET Subjects]]
  BY DEF SyncInit, NoLists
<1>5. changes \in 0..MaxChanges /\ faults \in 0..MaxFaults
  BY SyncOptionsAreTyped DEF SyncInit
<1> QED
  BY <1>1, <1>2, <1>3, <1>4, <1>5, IdleIsTyped DEF SyncInit, SyncTypeOK

(* A step that only reads keeps the types of the container and the cache.  *)
LEMMA ReadingKeepsTypes ==
    ASSUME SyncTypeOK
    PROVE  /\ UNCHANGED <<apiVars, clientVars>> => APITypeOK' /\ CacheTypeOK'
           /\ \A t \in Tasks : GivesUp(t) /\ UNCHANGED apiVars => APITypeOK' /\ CacheTypeOK'
           /\ \A t \in Tasks, g \in Groups : \A list \in MemberAnswers(t, g) :
                GetGroupMembers(t, g, list) => APITypeOK' /\ CacheTypeOK'
<1>1. UNCHANGED <<apiVars, clientVars>> => APITypeOK' /\ CacheTypeOK'
  BY UntouchedTypesStay DEF SyncTypeOK
<1>2. \A t \in Tasks : GivesUp(t) /\ UNCHANGED apiVars => APITypeOK' /\ CacheTypeOK'
  BY UntouchedTypesStay, AskingKeepsTypes DEF SyncTypeOK
<1>3. \A t \in Tasks, g \in Groups : \A list \in MemberAnswers(t, g) :
        GetGroupMembers(t, g, list) => APITypeOK' /\ CacheTypeOK'
  BY GetsKeepTypes, ListAnswersAreTyped DEF SyncTypeOK
<1> QED
  BY <1>1, <1>2, <1>3

LEMMA SyncStepKeepsTypes ==
    ASSUME SyncTypeOK, SyncStep
    PROVE  SyncTypeOK'
<1>1. CASE Begin
  <2>1. window' \in Windows /\ memberWindow' \in Windows
    BY <1>1, TruthIsTyped DEF Begin, SyncTypeOK, Now, Windows
  <2>2. sync' \in [on : BOOLEAN, todo : SUBSET Pending,
                  draft : [Permissions -> SUBSET Subjects], got : SUBSET Facts]
    BY <1>1 DEF Begin, Idle, Pending
  <2> QED
    BY <1>1, <2>1, <2>2, ReadingKeepsTypes, KeptListsAreTyped DEF Begin, SyncTypeOK
<1>2. CASE ListUsers
  <2>1. PICK facts \in UserListAnswers :
          lists' = [lists EXCEPT !.users = Kept(facts)] /\ GetsOn("users", facts)
    BY <1>2 DEF ListUsers
  <2>2. facts \in SUBSET Facts
    BY ListAnswersAreTyped
  <2> QED
    BY <1>2, <2>1, <2>2, ReadingKeepsTypes, KeptListsAreTyped, GetsOnKeepsTypes
       DEF ListUsers, SyncTypeOK
<1>3. CASE ListPermissions
  <2>1. PICK lots \in PermissionListAnswers :
          /\ lists' = [lists EXCEPT !.permissions = Kept(lots)]
          /\ sync' = [sync EXCEPT
               !.todo = (sync.todo \ {"permissions"}) \cup {"subjects"}, !.draft = lots]
    BY <1>3 DEF ListPermissions
  <2>2. lots \in [Permissions -> SUBSET Subjects]
    BY ListAnswersAreTyped
  <2>3. sync' \in [on : BOOLEAN, todo : SUBSET Pending,
                  draft : [Permissions -> SUBSET Subjects], got : SUBSET Facts]
    BY <2>1, <2>2 DEF SyncTypeOK, Pending
  <2> QED
    BY <1>3, <2>1, <2>3, ReadingKeepsTypes, KeptListsAreTyped
       DEF ListPermissions, SyncTypeOK
<1>4. CASE ResolveSubjects
  <2>1. PICK facts \in UserListAnswers :
          /\ lists' = [lists EXCEPT !.users = Kept(facts)]
          /\ GetsOn("subjects", SubjectFacts(sync.draft))
    BY <1>4 DEF ResolveSubjects
  <2>2. SubjectFacts(sync.draft) \in SUBSET Facts
    BY GotFactsAreTyped, KindsAreFacts
  <2> QED
    BY <1>4, <2>1, <2>2, ReadingKeepsTypes, KeptListsAreTyped, GetsOnKeepsTypes
       DEF ResolveSubjects, SyncTypeOK
<1>5. CASE SubjectUnknown
  BY <1>5, ReadingKeepsTypes, KeptListsAreTyped, IdleIsTyped DEF SubjectUnknown, SyncTypeOK
<1>6. ASSUME NEW g \in Groups, ListMembers(g)
      PROVE  SyncTypeOK'
  <2>1. PICK list \in MemberAnswers(syncTask, g) :
          GetGroupMembers(syncTask, g, list) /\ GetsOn(g, MemberFacts(list, g))
    BY <1>6 DEF ListMembers
  <2>2. MemberFacts(list, g) \in SUBSET Facts
    BY ListAnswersAreTyped, GotFactsAreTyped, KindsAreFacts, SyncIsATask
  <2> QED
    BY <1>6, <2>1, <2>2, ReadingKeepsTypes, GetsOnKeepsTypes, SyncIsATask
       DEF ListMembers, SyncTypeOK
<1>7. CASE Finish
  <2>1. APITypeOK'
    BY <1>7 DEF Finish, SyncTypeOK, APITypeOK, apiVars
  <2>2. CacheTypeOK'
    BY <1>7 DEF Finish, SyncTypeOK, CacheTypeOK, Caches, EmptyCache
  <2>3. window' \in Windows /\ memberWindow' \in Windows
    BY <1>7, TruthIsTyped DEF Finish, SyncTypeOK, Now, Windows
  <2>4. report' \in SUBSET SUBSET Facts /\ faults' \in 0..MaxFaults
    BY <1>7, SyncOptionsAreTyped DEF Finish, Upload, SyncTypeOK
  <2> QED
    BY <1>7, <2>1, <2>2, <2>3, <2>4, KeptListsAreTyped, IdleIsTyped DEF Finish, SyncTypeOK
<1> QED
  BY <1>1, <1>2, <1>3, <1>4, <1>5, <1>6, <1>7 DEF SyncStep

(* The container after a change: somebody's write.                         *)
LEMMA ChangesKeepTypes ==
    ASSUME SyncTypeOK, ContainerChanges
    PROVE  SyncTypeOK'
<1>1. APITypeOK'
  <2>1. ASSUME NEW p \in Permissions
        PROVE  /\ \A s \in users \cup OtherSubjects : subjects[p] \cup {s} \in SUBSET Subjects
               /\ \A s : subjects[p] \ {s} \in SUBSET Subjects
    BY DEF SyncTypeOK, APITypeOK, Subjects
  <2> QED
    BY <2>1, WritesKeepTypes, DeletableAreUsers DEF ContainerChanges, SyncTypeOK
<1>2. CacheTypeOK'
  BY UntouchedTypesStay DEF ContainerChanges, SyncTypeOK
<1>3. Truth' \subseteq Facts
  BY <1>1, NextTruthIsTyped
<1>4. window' \in Windows /\ memberWindow' \in Windows
  BY <1>3 DEF ContainerChanges, SyncTypeOK, Widened, Windows
<1>5. changes' \in 0..MaxChanges
  BY SyncOptionsAreTyped DEF ContainerChanges, SyncTypeOK
<1> QED
  BY <1>1, <1>2, <1>4, <1>5 DEF ContainerChanges, SyncTypeOK

LEMMA SurroundingsKeepTypes ==
    ASSUME SyncTypeOK, \/ ListFails
                       \/ \E t \in Tasks, g \in Groups : LooksForMembers(t, g)
                       \/ TasksRead
                       \/ \E t \in Tasks : StoreMembers(t)
                       \/ ListsExpire
    PROVE  SyncTypeOK'
<1>1. CASE ListFails
  BY <1>1, ReadingKeepsTypes, IdleIsTyped, SyncOptionsAreTyped, SyncIsATask
     DEF ListFails, SyncTypeOK
<1>2. ASSUME NEW t \in Tasks, NEW g \in Groups, TaskListsMembers(t, g)
      PROVE  SyncTypeOK'
  <2>1. APITypeOK' /\ CacheTypeOK'
    BY <1>2, ReadingKeepsTypes DEF TaskListsMembers
  <2> QED
    BY <1>2, <2>1 DEF TaskListsMembers, SyncTypeOK
<1>4. ASSUME NEW t \in Tasks, NEW g \in Groups, LooksForMembers(t, g)
      PROVE  SyncTypeOK'
  <2>1. <<"member", g>> \in Gets
    BY DEF Gets
  <2>2. APITypeOK' /\ CacheTypeOK'
    BY <1>4, <2>1, AskingKeepsTypes DEF LooksForMembers, SyncTypeOK
  <2> QED
    BY <1>4, <2>2 DEF LooksForMembers, SyncTypeOK
<1>5. ASSUME NEW t \in Tasks, StoreMembers(t)
      PROVE  SyncTypeOK'
  <2>1. APITypeOK' /\ CacheTypeOK'
    BY <1>5, StoreKeepsTypes DEF StoreMembers, SyncTypeOK
  <2> QED
    BY <1>5, <2>1 DEF StoreMembers, SyncTypeOK
<1>3. CASE ListsExpire
  <2>1. APITypeOK' /\ CacheTypeOK'
    BY <1>3, EvictKeepsTypes, ReadingKeepsTypes DEF ListsExpire, SyncTypeOK
  <2>2. lists' \in [users : SUBSET SUBSET Facts,
                   permissions : SUBSET [Permissions -> SUBSET Subjects]]
    BY <1>3 DEF ListsExpire, SyncTypeOK
  <2> QED
    BY <1>3, <2>1, <2>2 DEF ListsExpire, SyncTypeOK
<1> QED
  BY <1>1, <1>2, <1>3, <1>4, <1>5 DEF TasksRead

LEMMA SyncNextKeepsTypes ==
    ASSUME SyncTypeOK, [SyncNext]_syncVars
    PROVE  SyncTypeOK'
<1>1. CASE UNCHANGED syncVars
  BY <1>1, UntouchedTypesStay DEF SyncTypeOK, syncVars
<1> QED
  BY <1>1, SyncStepKeepsTypes, ChangesKeepTypes, SurroundingsKeepTypes DEF SyncNext

(* Every variable of the syncs keeps its type; in particular nothing but   *)
(* facts about users and groups is ever reported, since the grants of a    *)
(* permission skip subjects of other types (permissions.go:140-153).       *)
THEOREM SyncTypeCorrect == SyncSpec => []SyncTypeOK
<1>1. SyncInit => SyncTypeOK
  BY SyncInitIsTyped
<1>2. SyncTypeOK /\ [SyncNext]_syncVars => SyncTypeOK'
  BY SyncNextKeepsTypes
<1> QED
  BY <1>1, <1>2, PTL DEF SyncSpec

----------------------------------------------------------------------------
(* How old answers are.                                                    *)

\* The windows hold what is true now, a list of users lists users, and with
\* the cache off there are no copies.
WindowOK ==
    /\ window.always \subseteq Truth /\ Truth \subseteq window.ever
    /\ memberWindow.always \subseteq Truth /\ Truth \subseteq memberWindow.ever
    /\ \A facts \in lists.users : facts \subseteq UserKind
    /\ ~sync.on => sync.todo = {}
    /\ ~CacheOn => lists = NoLists /\ \A g \in Groups : MemberCopies(g) = {}

RecentInv == SyncTypeOK /\ WindowOK /\ AnswersAreRecent

CachedIsRecent ==
    /\ \A facts \in lists.users : Recent(facts, UserKind, window)
    /\ \A lots \in lists.permissions : Recent(SubjectFacts(lots), SubjectKind, window)
    /\ \A g \in Groups : \A list \in MemberCopies(g) :
         Recent(MemberFacts(list, g), MemberKind(g), memberWindow)

(* What a list is answered with is recent, from the cache or not.          *)
LEMMA ServedIsRecent ==
    ASSUME RecentInv
    PROVE  /\ \A facts \in UserListAnswers :
                facts \subseteq UserKind /\ Recent(facts, UserKind, window)
           /\ \A lots \in PermissionListAnswers :
                Recent(SubjectFacts(lots), SubjectKind, window)
           /\ \A t \in Tasks, g \in Groups : \A list \in MemberAnswers(t, g) :
                Recent(MemberFacts(list, g), MemberKind(g), memberWindow)
<1>1. UserFacts \subseteq UserKind /\ Recent(UserFacts, UserKind, window)
  BY UserFactsOfTruth DEF RecentInv, WindowOK, SyncTypeOK, Recent
<1>2. Recent(SubjectFacts(subjects), SubjectKind, window)
  BY SubjectFactsOfTruth DEF RecentInv, WindowOK, SyncTypeOK, Recent
<1>3. \A g \in Groups : Recent(MemberFacts(MemberList(g), g), MemberKind(g), memberWindow)
  BY MemberFactsOfTruth DEF RecentInv, WindowOK, SyncTypeOK, Recent
<1>4. CachedIsRecent /\ \A facts \in lists.users : facts \subseteq UserKind
  BY DEF RecentInv, AnswersAreRecent, CachedIsRecent, WindowOK
<1>5. \A t \in Tasks, g \in Groups : \A list \in MemberAnswers(t, g) :
        list = MemberList(g) \/ list \in MemberCopies(g)
  BY EntriesAre DEF MemberAnswers, Answers, Served, MemberCopies
<1>6. \A facts \in UserListAnswers : facts \in lists.users \/ facts = UserFacts
  BY DEF UserListAnswers, Served
<1>7. \A lots \in PermissionListAnswers : lots \in lists.permissions \/ lots = subjects
  BY DEF PermissionListAnswers, Served
<1> QED
  BY <1>1, <1>2, <1>3, <1>4, <1>5, <1>6, <1>7 DEF CachedIsRecent

(* The copies of a list of members there are after a step: a GET makes its *)
(* answer one, if the cache is on, and storing an answer makes none.       *)
LEMMA CopiesOfMembers ==
    ASSUME SyncTypeOK
    PROVE  /\ \A t \in Tasks, g \in Groups : \A list :
                GetGroupMembers(t, g, list) =>
                  \A h \in Groups : MemberCopies(h)' \subseteq
                    MemberCopies(h) \cup IF h = g THEN Kept(list) ELSE {}
           /\ \A t \in Tasks : Store(t) =>
                \A h \in Groups : MemberCopies(h)' \subseteq MemberCopies(h)
           /\ Evict => \A h \in Groups : MemberCopies(h)' \subseteq MemberCopies(h)
           /\ UNCHANGED <<cache, unstored>> =>
                \A h \in Groups : MemberCopies(h)' = MemberCopies(h)
<1>1. unstored \in [Tasks -> Caches] /\ cache \in Caches
  BY DEF SyncTypeOK, CacheTypeOK
<1>2. ASSUME NEW t \in Tasks, NEW g \in Groups, NEW list, GetGroupMembers(t, g, list),
             NEW h \in Groups
      PROVE  MemberCopies(h)' \subseteq MemberCopies(h) \cup IF h = g THEN Kept(list) ELSE {}
  <2>1. \A x \in Tasks : unstored'[x].member[h] \subseteq
          unstored[x].member[h] \cup IF h = g THEN Kept(list) ELSE {}
    BY <1>1, <1>2 DEF GetGroupMembers, Caches
  <2>2. cache' = cache
    BY <1>2 DEF GetGroupMembers
  <2> QED
    BY <2>1, <2>2 DEF MemberCopies
<1>3. ASSUME NEW t \in Tasks, Store(t), NEW h \in Groups
      PROVE  MemberCopies(h)' \subseteq MemberCopies(h)
  <2>1. cache'.member[h] \subseteq cache.member[h] \cup unstored[t].member[h]
    BY <1>3 DEF Store, Served
  <2>2. \A x \in Tasks : unstored'[x].member[h] \subseteq unstored[x].member[h]
    BY <1>1, <1>3 DEF Store, EmptyCache
  <2> QED
    BY <2>1, <2>2 DEF MemberCopies
<1>4. ASSUME Evict, NEW h \in Groups
      PROVE  MemberCopies(h)' \subseteq MemberCopies(h)
  <2>1. cache'.member[h] \subseteq cache.member[h]
    BY <1>1, <1>4 DEF Evict, Caches
  <2> QED
    BY <1>4, <2>1 DEF Evict, MemberCopies
<1>5. UNCHANGED <<cache, unstored>> => \A h \in Groups : MemberCopies(h)' = MemberCopies(h)
  BY DEF MemberCopies
<1> QED
  BY <1>2, <1>3, <1>4, <1>5

(* The cache is as recent as the answers it keeps.                         *)
LEMMA KeptIsRecent ==
    ASSUME RecentInv, UNCHANGED <<window, memberWindow>>
    PROVE  /\ UNCHANGED <<cache, unstored, lists>> => CachedIsRecent'
           /\ \A facts \in UserListAnswers :
                lists' = [lists EXCEPT !.users = Kept(facts)] /\ UNCHANGED <<cache, unstored>>
                  => CachedIsRecent'
           /\ \A lots \in PermissionListAnswers :
                lists' = [lists EXCEPT !.permissions = Kept(lots)]
                     /\ UNCHANGED <<cache, unstored>>
                  => CachedIsRecent'
           /\ \A t \in Tasks, g \in Groups : \A list \in MemberAnswers(t, g) :
                GetGroupMembers(t, g, list) /\ UNCHANGED lists => CachedIsRecent'
           /\ \A t \in Tasks : Store(t) /\ UNCHANGED lists => CachedIsRecent'
<1>1. CachedIsRecent /\ SyncTypeOK
  BY DEF RecentInv, AnswersAreRecent, CachedIsRecent
<1>2. UNCHANGED <<cache, unstored, lists>> => CachedIsRecent'
  BY <1>1, CopiesOfMembers DEF CachedIsRecent, Recent
<1>3. ASSUME NEW facts \in UserListAnswers,
             lists' = [lists EXCEPT !.users = Kept(facts)], UNCHANGED <<cache, unstored>>
      PROVE  CachedIsRecent'
  <2>1. lists'.users \subseteq {facts} /\ lists'.permissions = lists.permissions
    BY <1>3 DEF RecentInv, SyncTypeOK, Kept
  <2>2. \A h \in Groups : MemberCopies(h)' = MemberCopies(h)
    BY <1>1, <1>3, CopiesOfMembers
  <2> QED
    BY <1>1, <1>3, <2>1, <2>2, ServedIsRecent DEF CachedIsRecent, Recent
<1>4. ASSUME NEW lots \in PermissionListAnswers,
             lists' = [lists EXCEPT !.permissions = Kept(lots)], UNCHANGED <<cache, unstored>>
      PROVE  CachedIsRecent'
  <2>1. lists'.permissions \subseteq {lots} /\ lists'.users = lists.users
    BY <1>4 DEF RecentInv, SyncTypeOK, Kept
  <2>2. \A h \in Groups : MemberCopies(h)' = MemberCopies(h)
    BY <1>1, <1>4, CopiesOfMembers
  <2> QED
    BY <1>1, <1>4, <2>1, <2>2, ServedIsRecent DEF CachedIsRecent, Recent
<1>5. ASSUME NEW t \in Tasks, NEW g \in Groups, NEW list \in MemberAnswers(t, g),
             GetGroupMembers(t, g, list), UNCHANGED lists
      PROVE  CachedIsRecent'
  <2>1. \A h \in Groups : \A copy \in MemberCopies(h)' :
          copy \in MemberCopies(h) \/ (h = g /\ copy = list)
    BY <1>1, <1>5, CopiesOfMembers DEF Kept
  <2> QED
    BY <1>1, <1>5, <2>1, ServedIsRecent DEF CachedIsRecent, Recent
<1>6. ASSUME NEW t \in Tasks, Store(t), UNCHANGED lists
      PROVE  CachedIsRecent'
  <2>1. \A h \in Groups : MemberCopies(h)' \subseteq MemberCopies(h)
    BY <1>1, <1>6, CopiesOfMembers
  <2> QED
    BY <1>1, <1>6, <2>1 DEF CachedIsRecent, Recent
<1> QED
  BY <1>2, <1>3, <1>4, <1>5, <1>6

(* The kinds of facts do not meet: what is called by a request's name, a   *)
(* role, a permission or a group is nothing else.                          *)
LEMMA KindsDoNotMeet ==
    /\ UserKind \cap SubjectKind = {}
    /\ \A g \in Groups : MemberKind(g) \cap SubjectKind = {}
    /\ \A g \in Groups : MemberKind(g) \cap UserKind = {}
    /\ \A g, h \in Groups : g # h => MemberKind(g) \cap MemberKind(h) = {}
  BY KindsAreDistinct DEF UserKind, SubjectKind, MemberKind

(* The sync gets on with one request, whose facts are recent.              *)
LEMMA GetsOnIsRecent ==
    ASSUME RecentInv, sync.on,
           NEW request \in {"users", "subjects"} \cup Groups, NEW facts,
           GetsOn(request, facts),
           request = "users" => facts \subseteq UserKind /\ Recent(facts, UserKind, window),
           request = "subjects" =>
             facts \subseteq SubjectKind /\ Recent(facts, SubjectKind, window),
           request \in Groups =>
             /\ facts \subseteq MemberKind(request)
             /\ Recent(facts, MemberKind(request), memberWindow)
    PROVE  GotIsRecent'
<1>1. /\ sync'.todo = sync.todo \ {request}
      /\ sync'.got = sync.got \cup facts
      /\ sync'.draft = sync.draft
      /\ sync'.on = sync.on
      /\ UNCHANGED <<window, memberWindow>>
  BY DEF GetsOn, RecentInv, SyncTypeOK
<1>2. GotIsRecent
  BY DEF RecentInv, AnswersAreRecent
<1>3. /\ facts \cap UserKind \subseteq window.ever
      /\ facts \cap SubjectKind \subseteq window.ever
  BY KindsDoNotMeet DEF Recent
<1>4. ASSUME NEW g \in Groups
      PROVE  facts \cap MemberKind(g) \subseteq memberWindow.ever
  <2>1. request \in Groups => request = g \/ MemberKind(request) \cap MemberKind(g) = {}
    BY KindsDoNotMeet
  <2> QED
    BY <2>1, KindsDoNotMeet DEF Recent
<1>5. /\ sync'.got \cap (UserKind \cup SubjectKind) \subseteq window.ever
      /\ \A g \in Groups : sync'.got \cap MemberKind(g) \subseteq memberWindow.ever
  BY <1>1, <1>2, <1>3, <1>4 DEF GotIsRecent
<1>6. "users" \notin sync'.todo => Recent(sync'.got, UserKind, window)
  BY <1>1, <1>2, <1>5 DEF GotIsRecent, Recent
<1>7. "subjects" \in sync'.todo => Recent(SubjectFacts(sync'.draft), SubjectKind, window)
  BY <1>1, <1>2 DEF GotIsRecent
<1>8. {"permissions", "subjects"} \cap sync'.todo = {} =>
        Recent(sync'.got, SubjectKind, window)
  <2>1. request # "permissions"
    BY GroupsAreNoWords
  <2> QED
    BY <1>1, <1>2, <1>5, <2>1 DEF GotIsRecent, Recent
<1>9. ASSUME NEW g \in Groups \ sync'.todo
      PROVE  Recent(sync'.got, MemberKind(g), memberWindow)
  <2>1. g = request \/ g \notin sync.todo
    BY <1>1
  <2>2. memberWindow.always \cap MemberKind(g) \subseteq sync'.got
    BY <1>1, <1>2, <2>1 DEF GotIsRecent, Recent
  <2> QED
    BY <1>5, <2>2 DEF Recent
<1> QED
  BY <1>1, <1>5, <1>6, <1>7, <1>8, <1>9 DEF GotIsRecent, Recent, SubjectFacts

(* What the sync has got stays recent while it and the windows stay.       *)
LEMMA GotStaysRecent ==
    ASSUME RecentInv, UNCHANGED <<sync, window, memberWindow>>
    PROVE  GotIsRecent'
  BY DEF RecentInv, AnswersAreRecent, GotIsRecent, Recent, SubjectFacts

LEMMA SameContainerSameTruth == UNCHANGED apiVars => UNCHANGED Truth
  BY DEF apiVars, Truth, UserFacts, StatusFacts, RoleFacts, SubjectFacts

(* A step that reads keeps the windows as they were, and the cache off.    *)
LEMMA ReadingKeepsWindow ==
    ASSUME RecentInv, UNCHANGED <<apiVars, window, memberWindow>>,
           ~sync'.on => sync'.todo = {},
           \A facts \in lists'.users : facts \subseteq UserKind,
           ~CacheOn => lists' = NoLists /\ \A g \in Groups : MemberCopies(g)' = {}
    PROVE  WindowOK'
<1>1. UNCHANGED Truth
  BY SameContainerSameTruth
<1> QED
  BY <1>1 DEF RecentInv, WindowOK, UserKind, NoLists

(* With the cache off nothing is kept.                                     *)
LEMMA CacheOffStaysEmpty ==
    ASSUME RecentInv, ~CacheOn
    PROVE  /\ \A answer : [lists EXCEPT !.users = Kept(answer)] = NoLists
           /\ \A answer : [lists EXCEPT !.permissions = Kept(answer)] = NoLists
           /\ \A t \in Tasks, g \in Groups : \A list : GetGroupMembers(t, g, list) =>
                \A h \in Groups : MemberCopies(h)' = {}
           /\ \A t \in Tasks : Store(t) => \A h \in Groups : MemberCopies(h)' = {}
           /\ Evict => \A h \in Groups : MemberCopies(h)' = {}
           /\ UNCHANGED <<cache, unstored>> => \A h \in Groups : MemberCopies(h)' = {}
<1>1. SyncTypeOK /\ lists = NoLists /\ \A g \in Groups : MemberCopies(g) = {}
  BY DEF RecentInv, WindowOK
<1>2. \A answer : Kept(answer) = {}
  BY DEF Kept
<1>3. \A answer : [lists EXCEPT !.users = Kept(answer)] = NoLists
  BY <1>1, <1>2 DEF NoLists
<1>4. \A answer : [lists EXCEPT !.permissions = Kept(answer)] = NoLists
  BY <1>1, <1>2 DEF NoLists
<1>5. ASSUME NEW t \in Tasks, NEW g \in Groups, NEW list, GetGroupMembers(t, g, list),
             NEW h \in Groups
      PROVE  MemberCopies(h)' = {}
  <2>1. MemberCopies(h)' \subseteq MemberCopies(h) \cup IF h = g THEN Kept(list) ELSE {}
    BY <1>1, <1>5, CopiesOfMembers
  <2> QED
    BY <1>1, <1>2, <2>1
<1>6. \A t \in Tasks : Store(t) => \A h \in Groups : MemberCopies(h)' \subseteq {}
  BY <1>1, CopiesOfMembers
<1>7. Evict => \A h \in Groups : MemberCopies(h)' \subseteq {}
  BY <1>1, CopiesOfMembers
<1>8. UNCHANGED <<cache, unstored>> => \A h \in Groups : MemberCopies(h)' = {}
  BY <1>1, CopiesOfMembers
<1> QED
  BY <1>3, <1>4, <1>5, <1>6, <1>7, <1>8

(* A user list that is kept lists users.                                   *)
LEMMA KeptUserListsListUsers ==
    ASSUME RecentInv, NEW facts \in UserListAnswers,
           lists' = [lists EXCEPT !.users = Kept(facts)]
    PROVE  \A list \in lists'.users : list \subseteq UserKind
  BY ServedIsRecent DEF RecentInv, SyncTypeOK, Kept

(* A sync begins with nothing got, nothing done, and, without the cache,   *)
(* windows of its own.                                                     *)
LEMMA BeginIsRecent ==
    ASSUME RecentInv, Begin
    PROVE  WindowOK' /\ AnswersAreRecent'
<1>1. /\ sync'.on
      /\ sync'.todo = {"users", "permissions"} \cup Groups
      /\ sync'.got = {}
  BY DEF Begin, Idle
<1>2. UNCHANGED Truth
  BY SameContainerSameTruth DEF Begin
<1>3. \A g \in Groups : MemberCopies(g)' = MemberCopies(g)
  BY CopiesOfMembers DEF Begin, clientVars, RecentInv
<1>4. lists'.users \subseteq lists.users /\ lists'.permissions \subseteq lists.permissions
  BY DEF Begin, NoLists
<1>5. WindowOK'
  BY <1>1, <1>2, <1>3, <1>4 DEF Begin, RecentInv, WindowOK, Now, NoLists, UserKind
<1>6. GotIsRecent'
  BY <1>1, GroupsAreNoWords DEF GotIsRecent
<1>7. CASE CacheOn
  <2>1. UNCHANGED <<window, memberWindow>>
    BY <1>7 DEF Begin
  <2> QED
    BY <1>3, <1>4, <1>5, <1>6, <2>1 DEF RecentInv, AnswersAreRecent, Recent, SubjectFacts
<1>8. CASE ~CacheOn
  <2>1. lists'.users = {} /\ lists'.permissions = {} /\ \A g \in Groups : MemberCopies(g)' = {}
    BY <1>3, <1>4, <1>8 DEF RecentInv, WindowOK, NoLists
  <2> QED
    BY <1>5, <1>6, <2>1 DEF AnswersAreRecent
<1> QED
  BY <1>7, <1>8

(* The caches are cleared: only answers under way are left, and if there   *)
(* are none a new window of the members begins.                            *)
LEMMA FinishIsRecent ==
    ASSUME RecentInv, Finish
    PROVE  WindowOK' /\ AnswersAreRecent'
<1>1. UNCHANGED Truth
  BY SameContainerSameTruth DEF Finish
<1>2. GotIsRecent' /\ sync'.todo = {}
  BY DEF Finish, Idle, GotIsRecent
<1>3. lists'.users = {} /\ lists'.permissions = {} /\ lists' = NoLists
  BY DEF Finish, NoLists
<1>4. \A g \in Groups : MemberCopies(g)' = UNION {unstored[t].member[g] : t \in Tasks}
  BY DEF Finish, EmptyCache, MemberCopies
<1>5. \A g \in Groups : MemberCopies(g)' \subseteq MemberCopies(g)
  BY <1>4 DEF MemberCopies
<1>6. NothingUnderWay => \A g \in Groups : MemberCopies(g)' = {}
  BY <1>4 DEF NothingUnderWay, EmptyCache
<1>7. WindowOK'
  BY <1>1, <1>2, <1>3, <1>5 DEF Finish, RecentInv, WindowOK, Now
<1>8. ASSUME NEW g \in Groups, NEW list \in MemberCopies(g)'
      PROVE  Recent(MemberFacts(list, g), MemberKind(g), memberWindow)'
  <2>1. memberWindow' = memberWindow
    BY <1>6, <1>8 DEF Finish
  <2> QED
    BY <1>5, <1>8, <2>1 DEF RecentInv, AnswersAreRecent, Recent, MemberFacts, MemberKind
<1> QED
  BY <1>2, <1>3, <1>7, <1>8 DEF AnswersAreRecent

LEMMA SyncStepIsRecent ==
    ASSUME RecentInv, SyncStep
    PROVE  WindowOK' /\ AnswersAreRecent'
<1> USE DEF CachedIsRecent, clientVars
<1>0. sync.todo # {} => sync.on
  BY DEF RecentInv, WindowOK
<1>1. CASE ListUsers
  <2>1. PICK facts \in UserListAnswers :
          lists' = [lists EXCEPT !.users = Kept(facts)] /\ GetsOn("users", facts)
    BY <1>1 DEF ListUsers
  <2>2. facts \subseteq UserKind /\ Recent(facts, UserKind, window)
    BY ServedIsRecent
  <2>3. GotIsRecent'
    BY <1>0, <1>1, <2>1, <2>2, GetsOnIsRecent, GroupsAreNoWords DEF ListUsers
  <2>4. WindowOK'
    BY <1>0, <1>1, <2>1, ReadingKeepsWindow, CacheOffStaysEmpty, KeptUserListsListUsers
       DEF ListUsers, GetsOn, RecentInv, SyncTypeOK, WindowOK
  <2> QED
    BY <1>1, <2>1, <2>3, <2>4, KeptIsRecent DEF ListUsers, GetsOn, AnswersAreRecent
<1>2. CASE ListPermissions
  <2>1. PICK lots \in PermissionListAnswers :
          /\ lists' = [lists EXCEPT !.permissions = Kept(lots)]
          /\ sync' = [sync EXCEPT
               !.todo = (sync.todo \ {"permissions"}) \cup {"subjects"}, !.draft = lots]
    BY <1>2 DEF ListPermissions
  <2>2. /\ sync'.on = sync.on
        /\ sync'.todo = (sync.todo \ {"permissions"}) \cup {"subjects"}
        /\ sync'.got = sync.got
        /\ sync'.draft = lots
    BY <2>1 DEF RecentInv, SyncTypeOK
  <2>3. Recent(SubjectFacts(lots), SubjectKind, window) /\ UNCHANGED <<window, memberWindow>>
    BY <1>2, ServedIsRecent DEF ListPermissions
  <2>4. GotIsRecent'
    BY <1>0, <1>2, <2>2, <2>3, GroupsAreNoWords
       DEF ListPermissions, RecentInv, AnswersAreRecent, GotIsRecent, Recent, SubjectFacts
  <2>5. \A facts \in lists'.users : facts \subseteq UserKind
    BY <2>1 DEF RecentInv, SyncTypeOK, WindowOK
  <2>6. WindowOK'
    BY <1>0, <1>2, <2>1, <2>2, <2>3, <2>5, ReadingKeepsWindow, CacheOffStaysEmpty
       DEF ListPermissions
  <2> QED
    BY <1>2, <2>1, <2>3, <2>4, <2>6, KeptIsRecent DEF ListPermissions, AnswersAreRecent
<1>3. CASE ResolveSubjects
  <2>1. PICK facts \in UserListAnswers :
          /\ lists' = [lists EXCEPT !.users = Kept(facts)]
          /\ GetsOn("subjects", SubjectFacts(sync.draft))
    BY <1>3 DEF ResolveSubjects
  <2>2. /\ SubjectFacts(sync.draft) \subseteq SubjectKind
        /\ Recent(SubjectFacts(sync.draft), SubjectKind, window)
    BY <1>0, <1>3, GotFactsAreTyped
       DEF ResolveSubjects, RecentInv, AnswersAreRecent, GotIsRecent
  <2>3. GotIsRecent'
    BY <1>0, <1>3, <2>1, <2>2, GetsOnIsRecent, GroupsAreNoWords DEF ResolveSubjects
  <2>4. WindowOK'
    BY <1>0, <1>3, <2>1, ReadingKeepsWindow, CacheOffStaysEmpty, KeptUserListsListUsers
       DEF ResolveSubjects, GetsOn, RecentInv, SyncTypeOK, WindowOK
  <2> QED
    BY <1>3, <2>1, <2>3, <2>4, KeptIsRecent DEF ResolveSubjects, GetsOn, AnswersAreRecent
<1>4. CASE SubjectUnknown
  <2>1. PICK facts \in UserListAnswers : lists' = [lists EXCEPT !.users = Kept(facts)]
    BY <1>4 DEF SubjectUnknown
  <2>2. GotIsRecent' /\ sync'.todo = {}
    BY <1>4 DEF SubjectUnknown, Idle, GotIsRecent
  <2>3. WindowOK'
    BY <1>4, <2>1, <2>2, ReadingKeepsWindow, CacheOffStaysEmpty, KeptUserListsListUsers
       DEF SubjectUnknown
  <2> QED
    BY <1>4, <2>1, <2>2, <2>3, KeptIsRecent DEF SubjectUnknown, AnswersAreRecent
<1>5. ASSUME NEW g \in Groups, ListMembers(g)
      PROVE  WindowOK' /\ AnswersAreRecent'
  <2>1. PICK list \in MemberAnswers(syncTask, g) :
          GetGroupMembers(syncTask, g, list) /\ GetsOn(g, MemberFacts(list, g))
    BY <1>5 DEF ListMembers
  <2>2. list \in MemberLists
    BY ListAnswersAreTyped, SyncIsATask DEF RecentInv
  <2>3. /\ MemberFacts(list, g) \subseteq MemberKind(g)
        /\ Recent(MemberFacts(list, g), MemberKind(g), memberWindow)
    BY <2>2, ServedIsRecent, GotFactsAreTyped, SyncIsATask
  <2>4. GotIsRecent'
    BY <1>0, <1>5, <2>1, <2>3, GetsOnIsRecent, GroupsAreNoWords DEF ListMembers
  <2>5. WindowOK'
    BY <1>0, <1>5, <2>1, ReadingKeepsWindow, CacheOffStaysEmpty, SyncIsATask
       DEF ListMembers, GetsOn, GetGroupMembers, RecentInv, SyncTypeOK, WindowOK
  <2> QED
    BY <1>5, <2>1, <2>4, <2>5, KeptIsRecent, SyncIsATask
       DEF ListMembers, GetsOn, AnswersAreRecent
<1> QED
  BY <1>1, <1>2, <1>3, <1>4, <1>5, BeginIsRecent, FinishIsRecent DEF SyncStep

(* A change of the container widens the windows.                           *)
LEMMA ChangesKeepRecent ==
    ASSUME RecentInv, ContainerChanges
    PROVE  WindowOK' /\ AnswersAreRecent'
<1>1. /\ window' = Widened(window) /\ memberWindow' = Widened(memberWindow)
      /\ UNCHANGED <<clientVars, lists, sync>>
  BY DEF ContainerChanges
<1>2. \A g \in Groups : MemberCopies(g)' = MemberCopies(g)
  BY <1>1, CopiesOfMembers DEF RecentInv, clientVars
<1>3. /\ window'.ever = window.ever \cup Truth'
      /\ window'.always = window.always \cap Truth'
      /\ memberWindow'.ever = memberWindow.ever \cup Truth'
      /\ memberWindow'.always = memberWindow.always \cap Truth'
  BY <1>1 DEF Widened
<1>4. WindowOK'
  BY <1>1, <1>2, <1>3 DEF RecentInv, WindowOK, UserKind, NoLists
<1>5. GotIsRecent'
  BY <1>1, <1>3 DEF RecentInv, AnswersAreRecent, GotIsRecent, Recent, SubjectFacts,
                    UserKind, SubjectKind, MemberKind, Grantable
<1> QED
  BY <1>1, <1>2, <1>3, <1>4, <1>5 DEF RecentInv, AnswersAreRecent, Recent, SubjectFacts,
     UserKind, SubjectKind, MemberKind, Grantable, MemberFacts

(* A step of the client that leaves the container, the syncs and their     *)
(* lists alone.                                                            *)
LEMMA ReadsOfOthersAreRecent ==
    ASSUME RecentInv, UNCHANGED <<apiVars, lists, sync, window, memberWindow>>,
           \/ UNCHANGED <<cache, unstored>>
           \/ \E t \in Tasks, g \in Groups : \E list \in MemberAnswers(t, g) :
                GetGroupMembers(t, g, list)
           \/ \E t \in Tasks : Store(t)
    PROVE  WindowOK' /\ AnswersAreRecent'
<1>1. CachedIsRecent'
  BY KeptIsRecent
<1>2. GotIsRecent'
  BY GotStaysRecent
<1>3. ~CacheOn => lists' = NoLists /\ \A g \in Groups : MemberCopies(g)' = {}
  BY CacheOffStaysEmpty DEF RecentInv, WindowOK
<1>4. WindowOK'
  BY <1>3, ReadingKeepsWindow DEF RecentInv, WindowOK
<1> QED
  BY <1>1, <1>2, <1>4 DEF CachedIsRecent, AnswersAreRecent

(* What others do.                                                         *)
LEMMA SurroundingsAreRecent ==
    ASSUME RecentInv, \/ ListFails
                      \/ \E t \in Tasks, g \in Groups : LooksForMembers(t, g)
                      \/ TasksRead
                      \/ \E t \in Tasks : StoreMembers(t)
                      \/ ListsExpire
    PROVE  WindowOK' /\ AnswersAreRecent'
<1>1. CASE ListFails
  <2>1. GotIsRecent' /\ sync'.todo = {}
    BY <1>1 DEF ListFails, Idle, GotIsRecent
  <2>2. UNCHANGED <<apiVars, cache, unstored, lists, window, memberWindow>>
    BY <1>1 DEF ListFails, GivesUp
  <2>3. WindowOK'
    BY <2>1, <2>2, ReadingKeepsWindow, CacheOffStaysEmpty DEF RecentInv, WindowOK
  <2> QED
    BY <2>1, <2>2, <2>3, KeptIsRecent DEF CachedIsRecent, AnswersAreRecent
<1>2. ASSUME NEW t \in Tasks, NEW g \in Groups, LooksForMembers(t, g)
      PROVE  WindowOK' /\ AnswersAreRecent'
  BY <1>2, ReadsOfOthersAreRecent DEF LooksForMembers, Misses
<1>3. ASSUME NEW t \in Tasks, NEW g \in Groups, TaskListsMembers(t, g)
      PROVE  WindowOK' /\ AnswersAreRecent'
  <2>1. \/ UNCHANGED <<cache, unstored, apiVars>>
        \/ \E list \in MemberAnswers(t, g) : GetGroupMembers(t, g, list)
    BY <1>3 DEF TaskListsMembers, GivesUp
  <2>2. UNCHANGED <<apiVars, lists, sync, window, memberWindow>>
    BY <1>3 DEF TaskListsMembers, GetGroupMembers
  <2> QED
    BY <2>1, <2>2, ReadsOfOthersAreRecent
<1>4. ASSUME NEW t \in Tasks, StoreMembers(t)
      PROVE  WindowOK' /\ AnswersAreRecent'
  BY <1>4, ReadsOfOthersAreRecent DEF StoreMembers, Store
<1>5. CASE ListsExpire
  <2>1. /\ lists'.users \subseteq lists.users
        /\ lists'.permissions \subseteq lists.permissions
        /\ lists' \in [users : SUBSET SUBSET Facts,
                       permissions : SUBSET [Permissions -> SUBSET Subjects]]
    BY <1>5 DEF ListsExpire, RecentInv, SyncTypeOK
  <2>2. UNCHANGED <<apiVars, sync, window, memberWindow>>
    BY <1>5 DEF ListsExpire, Evict
  <2>3. \A g \in Groups : MemberCopies(g)' \subseteq MemberCopies(g)
    BY <1>5, CopiesOfMembers DEF ListsExpire, clientVars, RecentInv
  <2>4. WindowOK'
    BY <2>1, <2>2, <2>3, ReadingKeepsWindow DEF RecentInv, WindowOK, NoLists
  <2>5. GotIsRecent'
    BY <2>2, GotStaysRecent
  <2> QED
    BY <2>1, <2>2, <2>3, <2>4, <2>5 DEF RecentInv, AnswersAreRecent, Recent, SubjectFacts
<1> QED
  BY <1>1, <1>2, <1>3, <1>4, <1>5 DEF TasksRead

LEMMA InitIsRecent ==
    ASSUME SyncInit
    PROVE  RecentInv
<1>1. SyncTypeOK
  BY SyncInitIsTyped
<1>2. /\ lists = NoLists /\ lists.users = {} /\ lists.permissions = {}
      /\ \A g \in Groups : MemberCopies(g) = {}
      /\ ~sync.on /\ sync.todo = {}
  BY DEF SyncInit, ClientInit, NoLists, EmptyCache, Idle, MemberCopies
<1>3. WindowOK
  BY <1>2 DEF SyncInit, WindowOK, Now
<1> QED
  BY <1>1, <1>2, <1>3 DEF RecentInv, AnswersAreRecent, GotIsRecent

LEMMA SyncNextKeepsRecent ==
    ASSUME RecentInv, [SyncNext]_syncVars
    PROVE  RecentInv'
<1>1. SyncTypeOK'
  BY SyncNextKeepsTypes DEF RecentInv
<1>2. CASE UNCHANGED syncVars
  <2>1. UNCHANGED <<apiVars, cache, unstored, lists, sync, window, memberWindow>>
    BY <1>2 DEF syncVars, clientVars
  <2> QED
    BY <1>1, <2>1, ReadsOfOthersAreRecent DEF RecentInv
<1> QED
  BY <1>1, <1>2, SyncStepIsRecent, ChangesKeepRecent, SurroundingsAreRecent
     DEF SyncNext, RecentInv

(* No answer in the cache or on its way to it, and nothing the running     *)
(* sync has got, is older than the last time the caches were cleared       *)
(* (connectorbuilder.go:379) or, for lists of members, the last time they  *)
(* were cleared with no task's answer waiting to be stored                 *)
(* (wrapper.go:833), for any number of changes, tasks, failed requests and *)
(* evictions.  WindowOK makes it inductive: the windows hold what is true  *)
(* now, and there are no copies when the cache is off.                     *)
THEOREM AnswersStayRecent == SyncSpec => []AnswersAreRecent
<1>1. SyncInit => RecentInv
  BY InitIsRecent
<1>2. RecentInv /\ [SyncNext]_syncVars => RecentInv'
  BY SyncNextKeepsRecent
<1>3. RecentInv => AnswersAreRecent
  BY DEF RecentInv
<1> QED
  BY <1>1, <1>2, <1>3, PTL DEF SyncSpec

(* A sync that is done has, of every kind of fact, all that was true       *)
(* throughout and nothing that never was.                                  *)
LEMMA WhatIsReportedIsRecent ==
    ASSUME RecentInv, sync.on, sync.todo = {}
    PROVE  /\ Recent(sync.got, UserKind \cup SubjectKind, window)
           /\ \A g \in Groups : Recent(sync.got, MemberKind(g), memberWindow)
<1>1. /\ Recent(sync.got, UserKind, window)
      /\ Recent(sync.got, SubjectKind, window)
      /\ \A g \in Groups : Recent(sync.got, MemberKind(g), memberWindow)
  BY DEF RecentInv, AnswersAreRecent, GotIsRecent
<1> QED
  BY <1>1 DEF Recent

(* Every sync that ends well reports no user, role or subject that was not *)
(* there at some time since the one before it was sealed, and leaves out   *)
(* none that was there all along (the List and Grants methods, with        *)
(* ClearCaches at the end of a sync), however its requests, those of tasks *)
(* and the changes of the container interleave.  Of members it says the    *)
(* same since the last seal with no list of members under way, since such  *)
(* a list is stored after the clear (wrapper.go:833) and the next sync     *)
(* reports it.                                                             *)
THEOREM ReportsStayRecent == SyncSpec => ReportsAreRecent
<1>1. SyncInit => RecentInv
  BY InitIsRecent
<1>2. RecentInv /\ [SyncNext]_syncVars => RecentInv'
  BY SyncNextKeepsRecent
<1>3. RecentInv =>
        [sync.on /\ sync.todo = {} /\ ~sync'.on
           => /\ Recent(sync.got, UserKind \cup SubjectKind, window)
              /\ \A g \in Groups : Recent(sync.got, MemberKind(g), memberWindow)]_syncVars
  BY WhatIsReportedIsRecent
<1> QED
  BY <1>1, <1>2, <1>3, PTL DEF SyncSpec, ReportsAreRecent

----------------------------------------------------------------------------
(* Who a sync reports.                                                     *)

(* A list of users stays cached as long as the sync needs it, is part of   *)
(* what the sync has got and names the grantees.                           *)
OneList ==
    sync.on =>
      /\ "users" \notin sync.todo =>
           lists.users # {} /\ \A facts \in lists.users : facts \subseteq sync.got
      /\ {"permissions", "subjects"} \cap sync.todo = {} =>
           /\ lists.users # {}
           /\ \A facts \in lists.users : \A f \in sync.got \cap SubjectKind :
                f[1] \in Users => f[1] \in Named(facts)
      /\ {"permissions", "subjects"} \cap sync.todo # {} => sync.got \cap SubjectKind = {}

ListedInv ==
    /\ SyncTypeOK
    /\ ~sync.on => sync.todo = {}
    /\ ~({"permissions", "subjects"} \subseteq sync.todo)
    /\ \A facts \in lists.users : facts \subseteq UserKind
    /\ OneList
    /\ GranteesAreListed

(* With the cache, a list of users is read as the one list there is.       *)
LEMMA UsersAreReadOnce ==
    ASSUME ListedInv, CacheOn, NEW facts \in UserListAnswers
    PROVE  /\ facts \subseteq UserKind
           /\ lists.users # {} => facts \in lists.users
           /\ Kept(facts) = {facts}
<1>1. UserFacts \subseteq UserKind
  BY UserFactsOfTruth DEF ListedInv, SyncTypeOK
<1> QED
  BY <1>1 DEF ListedInv, UserListAnswers, Served, Kept

(* The two requests that read the list of users.                           *)
LEMMA ReadingUsersKeepsOneList ==
    ASSUME ListedInv, CacheOn, NEW facts \in UserListAnswers,
           lists' = [lists EXCEPT !.users = Kept(facts)],
           \/ "users" \in sync.todo /\ GetsOn("users", facts)
           \/ /\ "subjects" \in sync.todo
              /\ KnowsSubjects(facts, sync.draft)
              /\ GetsOn("subjects", SubjectFacts(sync.draft))
    PROVE  OneList' /\ \A list \in lists'.users : list \subseteq UserKind
<1>1. lists'.users = {facts}
  BY UsersAreReadOnce DEF ListedInv, SyncTypeOK
<1>2. sync.on
  BY DEF ListedInv
<1>3. facts \subseteq UserKind /\ (lists.users # {} => facts \in lists.users)
  BY UsersAreReadOnce
<1>4. CASE "users" \in sync.todo /\ GetsOn("users", facts)
  <2>1. sync'.todo = sync.todo \ {"users"} /\ sync'.got = sync.got \cup facts
    BY <1>4 DEF GetsOn, ListedInv, SyncTypeOK
  <2>2. sync'.got \cap SubjectKind = sync.got \cap SubjectKind
    BY <1>3, <2>1, KindsDoNotMeet
  <2>3. {"permissions", "subjects"} \cap sync'.todo = {"permissions", "subjects"} \cap sync.todo
    BY <2>1
  <2> QED
    BY <1>1, <1>2, <1>3, <2>1, <2>2, <2>3 DEF ListedInv, OneList, Named
<1>5. CASE /\ "subjects" \in sync.todo
           /\ KnowsSubjects(facts, sync.draft)
           /\ GetsOn("subjects", SubjectFacts(sync.draft))
  <2>1. /\ sync'.todo = sync.todo \ {"subjects"}
        /\ sync'.got = sync.got \cup SubjectFacts(sync.draft)
    BY <1>5 DEF GetsOn, ListedInv, SyncTypeOK
  <2>2. sync.got \cap SubjectKind = {}
    BY <1>2, <1>5 DEF ListedInv, OneList
  <2>3. ASSUME NEW f \in sync'.got \cap SubjectKind, f[1] \in Users
        PROVE  f[1] \in Named(facts)
    <3>1. f \in SubjectFacts(sync.draft)
      BY <2>1, <2>2, <2>3
    <3>2. f[2] \in Permissions /\ f[1] \in sync.draft[f[2]] \cap Users
      BY <2>3, <3>1 DEF SubjectFacts
    <3> QED
      BY <1>5, <3>2 DEF KnowsSubjects, UserSubjects
  <2>4. "users" \notin sync'.todo => facts \subseteq sync'.got
    BY <1>2, <1>3, <2>1 DEF ListedInv, OneList
  <2>5. {"permissions", "subjects"} \cap sync'.todo = {}
    BY <1>5, <2>1 DEF ListedInv
  <2> QED
    BY <1>1, <1>3, <2>1, <2>3, <2>4, <2>5 DEF OneList, Named
<1> QED
  BY <1>4, <1>5

(* A step that leaves the lists alone and adds no grant of a permission.   *)
LEMMA OtherwiseOneListStays ==
    ASSUME ListedInv, UNCHANGED <<lists, sync>>
    PROVE  OneList' /\ \A list \in lists'.users : list \subseteq UserKind
  BY DEF ListedInv, OneList, Named

LEMMA ListedInvIsKept ==
    ASSUME ListedInv, CacheOn, SyncTypeOK', [SyncNext]_syncVars
    PROVE  ListedInv'
<1> DEFINE Rest == /\ ~sync'.on => sync'.todo = {}
                   /\ ~({"permissions", "subjects"} \subseteq sync'.todo)
                   /\ OneList'
                   /\ \A list \in lists'.users : list \subseteq UserKind
<1>1. CASE Begin
  <2>1. /\ sync'.on /\ sync'.got = {}
        /\ sync'.todo = {"users", "permissions"} \cup Groups
        /\ lists'.users \subseteq lists.users
    BY <1>1 DEF Begin, Idle, NoLists
  <2>2. report' = report
    BY <1>1 DEF Begin
  <2>3. Rest
    BY <2>1, GroupsAreNoWords DEF ListedInv, OneList
  <2> QED
    BY <2>2, <2>3 DEF ListedInv, GranteesAreListed, Named
<1>2. CASE ListUsers \/ ResolveSubjects
  <2>1. PICK facts \in UserListAnswers :
          /\ lists' = [lists EXCEPT !.users = Kept(facts)]
          /\ \/ "users" \in sync.todo /\ GetsOn("users", facts)
             \/ /\ "subjects" \in sync.todo
                /\ KnowsSubjects(facts, sync.draft)
                /\ GetsOn("subjects", SubjectFacts(sync.draft))
    BY <1>2 DEF ListUsers, ResolveSubjects
  <2>2. OneList' /\ \A list \in lists'.users : list \subseteq UserKind
    BY <2>1, ReadingUsersKeepsOneList
  <2>3. sync.todo # {} /\ sync.on
    BY <2>1 DEF ListedInv
  <2>4. PICK request, got : GetsOn(request, got)
    BY <2>1
  <2>5. sync'.on = sync.on /\ sync'.todo \subseteq sync.todo /\ report' = report
    BY <2>4 DEF GetsOn, ListedInv, SyncTypeOK
  <2> QED
    BY <2>2, <2>3, <2>5 DEF ListedInv, GranteesAreListed, Named
<1>3. CASE ListPermissions
  <2>1. /\ sync'.on = sync.on /\ sync'.got = sync.got
        /\ sync'.todo = (sync.todo \ {"permissions"}) \cup {"subjects"}
        /\ lists'.users = lists.users
        /\ report' = report
    BY <1>3 DEF ListPermissions, ListedInv, SyncTypeOK
  <2>2. "permissions" \in sync.todo
    BY <1>3 DEF ListPermissions
  <2>3. Rest
    BY <2>1, <2>2 DEF ListedInv, OneList, Named
  <2> QED
    BY <2>1, <2>3 DEF ListedInv, GranteesAreListed, Named
<1>4. CASE SubjectUnknown \/ ListFails
  <2>1. /\ sync' = Idle /\ report' = report
        /\ \/ lists' = lists
           \/ \E facts \in UserListAnswers : lists' = [lists EXCEPT !.users = Kept(facts)]
    BY <1>4 DEF SubjectUnknown, ListFails
  <2>2. ~sync'.on /\ sync'.todo = {}
    BY <2>1 DEF Idle
  <2>3. \A list \in lists'.users : list \subseteq UserKind
    <3>1. CASE lists' = lists
      BY <3>1 DEF ListedInv
    <3>2. ASSUME NEW facts \in UserListAnswers, lists' = [lists EXCEPT !.users = Kept(facts)]
          PROVE  \A list \in lists'.users : list \subseteq UserKind
      <4>1. lists'.users = {facts}
        BY <3>2, UsersAreReadOnce DEF ListedInv, SyncTypeOK
      <4> QED
        BY <4>1, UsersAreReadOnce
    <3> QED
      BY <2>1, <3>1, <3>2
  <2> QED
    BY <2>1, <2>2, <2>3 DEF ListedInv, OneList, GranteesAreListed, Named
<1>5. ASSUME NEW g \in Groups, ListMembers(g)
      PROVE  ListedInv'
  <2>1. PICK list \in MemberAnswers(syncTask, g) : GetsOn(g, MemberFacts(list, g))
    BY <1>5 DEF ListMembers
  <2>2. /\ sync'.on = sync.on
        /\ sync'.todo = sync.todo \ {g}
        /\ sync'.got = sync.got \cup MemberFacts(list, g)
        /\ report' = report
        /\ lists' = lists
    BY <1>5, <2>1 DEF ListMembers, GetsOn, ListedInv, SyncTypeOK
  <2>3. MemberFacts(list, g) \cap SubjectKind = {}
    BY <2>1, KindsDoNotMeet, ListAnswersAreTyped, GotFactsAreTyped, SyncIsATask DEF ListedInv
  <2>4. sync'.got \cap SubjectKind = sync.got \cap SubjectKind
    BY <2>2, <2>3
  <2>5. g \notin {"users", "permissions", "subjects"}
    BY GroupsAreNoWords
  <2>6. Rest
    BY <2>2, <2>4, <2>5 DEF ListedInv, OneList, Named
  <2> QED
    BY <2>2, <2>6 DEF ListedInv, GranteesAreListed, Named
<1>6. CASE Finish
  <2>1. sync.on /\ sync.todo = {} /\ (report' = {sync.got} \/ report' = report)
    BY <1>6 DEF Finish, Upload
  <2>2. ~sync'.on /\ sync'.todo = {} /\ lists'.users = {}
    BY <1>6 DEF Finish, Idle, NoLists
  <2>3. ASSUME NEW f \in sync.got, f[2] \in Permissions, f[1] \in Users
        PROVE  f[1] \in Named(sync.got)
    <3>1. f \in SubjectKind
      BY <2>3, KindsAreDistinct DEF ListedInv, SyncTypeOK, Facts, SubjectKind
    <3>2. PICK facts \in lists.users : facts \subseteq sync.got /\ f[1] \in Named(facts)
      BY <2>1, <2>3, <3>1 DEF ListedInv, OneList
    <3> QED
      BY <3>2 DEF Named
  <2>4. GranteesAreListed'
    BY <2>1, <2>3 DEF ListedInv, GranteesAreListed, Named
  <2> QED
    BY <2>2, <2>4 DEF ListedInv, OneList
<1>7. CASE \/ ContainerChanges
           \/ \E t \in Tasks, g \in Groups : LooksForMembers(t, g)
           \/ TasksRead
           \/ \E t \in Tasks : StoreMembers(t)
           \/ UNCHANGED syncVars
  <2>1. UNCHANGED <<lists, sync, report>>
    BY <1>7 DEF ContainerChanges, LooksForMembers, TasksRead, TaskListsMembers, StoreMembers,
       syncVars
  <2> QED
    BY <2>1, OtherwiseOneListStays DEF ListedInv, GranteesAreListed, Named
<1>8. CASE ListsExpire
  <2>1. /\ UNCHANGED <<sync, report>>
        /\ lists'.users \subseteq lists.users
        /\ sync.on => lists' = lists
    BY <1>8 DEF ListsExpire, ListedInv, SyncTypeOK
  <2>2. Rest
    BY <2>1, OtherwiseOneListStays DEF ListedInv, OneList
  <2> QED
    BY <2>1, <2>2 DEF ListedInv, GranteesAreListed, Named
<1> QED
  BY <1>1, <1>2, <1>3, <1>4, <1>5, <1>6, <1>7, <1>8 DEF SyncNext, SyncStep

(* With the cache on, as it is by default, no report names a user as the   *)
(* grantee of a permission without having listed that user: the second     *)
(* GET of the users within a sync (permissions.go:48-58) is answered with  *)
(* the list of the first, whatever happened to the container in between.   *)
THEOREM GranteesAreAlwaysListed == CacheOn => (SyncSpec => []GranteesAreListed)
<1> SUFFICES ASSUME CacheOn PROVE SyncSpec => []GranteesAreListed
  OBVIOUS
<1>1. SyncInit => ListedInv
  BY SyncInitIsTyped DEF SyncInit, ListedInv, OneList, GranteesAreListed, Idle, NoLists
<1>2. ListedInv /\ [SyncNext]_syncVars => ListedInv'
  BY ListedInvIsKept, SyncNextKeepsTypes DEF ListedInv
<1>3. ListedInv => GranteesAreListed
  BY DEF ListedInv
<1> QED
  BY <1>1, <1>2, <1>3, PTL DEF SyncSpec
=============================================================================
