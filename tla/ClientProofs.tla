---------------------------- MODULE ClientProofs ----------------------------
(***************************************************************************)
(* Lemmas about the container and the client's cache, for the proofs of    *)
(* the modules that are built on them.                                     *)
(***************************************************************************)
EXTENDS Client, TLAPS

(* The containers the program starts with have the right types. *)
LEMMA InitialContainerIsTyped ==
    ASSUME APIInit
    PROVE  APITypeOK
<1>1. users \subseteq Users /\ enabled \in [Users -> BOOLEAN]
  BY DEF APIInit
<1>2. members \in [Groups -> SUBSET Users]
  BY <1>1 DEF APIInit
<1>3. userRoles \in [Users -> SUBSET Roles]
  BY DEF APIInit
<1>4. subjects \in [Permissions -> SUBSET Subjects]
  BY <1>1 DEF APIInit, Subjects
<1> QED
  BY <1>1, <1>2, <1>3, <1>4 DEF APITypeOK

(* The client a process starts with has the right types, and a step that   *)
(* leaves the client or the container alone keeps theirs.                  *)
LEMMA ClientInitIsTyped == ClientInit => CacheTypeOK
<1>1. EmptyCache \in Caches
  BY DEF EmptyCache, Caches
<1> QED
  BY <1>1 DEF ClientInit, CacheTypeOK

LEMMA UntouchedTypesStay ==
    /\ APITypeOK /\ UNCHANGED apiVars => APITypeOK'
    /\ CacheTypeOK /\ UNCHANGED clientVars => CacheTypeOK'
  BY DEF APITypeOK, apiVars, CacheTypeOK, clientVars

(* Losing an entry, storing an answer, a GET that is sent and one that     *)
(* fails keep the types.                                                   *)
LEMMA EvictKeepsTypes ==
    ASSUME APITypeOK, CacheTypeOK, Evict
    PROVE  APITypeOK' /\ CacheTypeOK'
<1>1. cache \in Caches
  BY DEF CacheTypeOK
<1>2. /\ \A u \in Users : /\ [cache EXCEPT !.user[u] = {}] \in Caches
                         /\ [cache EXCEPT !.role[u] = {}] \in Caches
      /\ \A g \in Groups : [cache EXCEPT !.member[g] = {}] \in Caches
      /\ \A p \in Permissions : [cache EXCEPT !.perm[p] = {}] \in Caches
  BY <1>1 DEF Caches
<1>3. cache' \in Caches
  BY <1>2 DEF Evict
<1> QED
  BY <1>3, UntouchedTypesStay DEF Evict, CacheTypeOK

LEMMA StoreKeepsTypes ==
    ASSUME NEW t \in Tasks, APITypeOK, CacheTypeOK, Store(t)
    PROVE  APITypeOK' /\ CacheTypeOK'
<1>1. cache' \in Caches
  BY DEF Store, CacheTypeOK, Caches, Served
<1>2. EmptyCache \in Caches
  BY DEF EmptyCache, Caches
<1> QED
  BY <1>1, <1>2, UntouchedTypesStay DEF Store, CacheTypeOK

LEMMA AskingKeepsTypes ==
    ASSUME NEW t \in Tasks, CacheTypeOK
    PROVE  /\ \A get \in Gets : Misses(t, get) => CacheTypeOK' /\ (APITypeOK => APITypeOK')
           /\ GivesUp(t) => CacheTypeOK'
<1>1. \A get \in Gets : Misses(t, get) => CacheTypeOK' /\ (APITypeOK => APITypeOK')
  BY UntouchedTypesStay DEF Misses, CacheTypeOK
<1>2. GivesUp(t) => CacheTypeOK'
  BY DEF GivesUp, CacheTypeOK
<1> QED
  BY <1>1, <1>2

(* What a GET answers has the type of what the cache holds for it.         *)
LEMMA EntriesAre ==
    /\ \A u \in Users : Entry(<<"user", u>>) = cache.user[u]
    /\ \A g \in Groups : Entry(<<"member", g>>) = cache.member[g]
    /\ \A u \in Users : Entry(<<"role", u>>) = cache.role[u]
    /\ \A p \in Permissions : Entry(<<"perm", p>>) = cache.perm[p]
  BY DEF Entry

LEMMA AnswersAreTyped ==
    ASSUME NEW t \in Tasks, APITypeOK, CacheTypeOK
    PROVE  /\ \A u \in Users : UserAnswers(t, u) \subseteq BOOLEAN
           /\ \A g \in Groups : MemberAnswers(t, g) \subseteq MemberLists
           /\ \A u \in Users : RoleAnswers(t, u) \subseteq SUBSET Roles
           /\ \A p \in Permissions : PermAnswers(t, p) \subseteq SUBSET Subjects
<1>1. \A u \in Users : UserDetails(u) \subseteq BOOLEAN
  BY DEF APITypeOK, UserDetails
<1>2. \A g \in Groups : MemberList(g) \in MemberLists
  BY DEF APITypeOK, MemberList, MemberLists
<1>3. \A u \in Users : RolesOf(u) \subseteq SUBSET Roles
  BY DEF APITypeOK, RolesOf
<1>4. \A p \in Permissions : subjects[p] \in SUBSET Subjects
  BY DEF APITypeOK
<1>a. cache \in Caches
  BY DEF CacheTypeOK
<1>b. ASSUME NEW get, NEW T, NEW fresh, fresh \subseteq T, Entry(get) \subseteq T
      PROVE  Answers(t, get, fresh) \subseteq T
  BY <1>b DEF Answers, Served
<1>5. ASSUME NEW u \in Users
      PROVE  UserAnswers(t, u) \subseteq BOOLEAN
  <2>1. Entry(<<"user", u>>) \subseteq BOOLEAN
    BY <1>a, EntriesAre DEF Caches
  <2>2. UserDetails(u) \subseteq BOOLEAN
    BY <1>1
  <2> QED
    BY <2>1, <2>2, <1>b DEF UserAnswers
<1>6. ASSUME NEW g \in Groups
      PROVE  MemberAnswers(t, g) \subseteq MemberLists
  <2>1. Entry(<<"member", g>>) \subseteq MemberLists
    BY <1>a, EntriesAre DEF Caches
  <2>2. {MemberList(g)} \subseteq MemberLists
    BY <1>2
  <2> QED
    BY <2>1, <2>2, <1>b DEF MemberAnswers
<1>7. ASSUME NEW u \in Users
      PROVE  RoleAnswers(t, u) \subseteq SUBSET Roles
  <2>1. Entry(<<"role", u>>) \subseteq SUBSET Roles
    BY <1>a, EntriesAre DEF Caches
  <2>2. RolesOf(u) \subseteq SUBSET Roles
    BY <1>3
  <2> QED
    BY <2>1, <2>2, <1>b DEF RoleAnswers
<1>8. ASSUME NEW p \in Permissions
      PROVE  PermAnswers(t, p) \subseteq SUBSET Subjects
  <2>1. Entry(<<"perm", p>>) \subseteq SUBSET Subjects
    BY <1>a, EntriesAre DEF Caches
  <2>2. {subjects[p]} \subseteq SUBSET Subjects
    BY <1>4
  <2> QED
    BY <2>1, <2>2, <1>b DEF PermAnswers
<1> QED
  BY <1>5, <1>6, <1>7, <1>8

(* A GET that is answered keeps the types. *)
LEMMA GetsKeepTypes ==
    ASSUME NEW t \in Tasks, APITypeOK, CacheTypeOK
    PROVE  /\ \A u \in Users : \A a \in BOOLEAN :
                GetUserDetails(t, u, a) => CacheTypeOK' /\ APITypeOK'
           /\ \A g \in Groups : \A a \in MemberLists :
                GetGroupMembers(t, g, a) => CacheTypeOK' /\ APITypeOK'
           /\ \A u \in Users : \A a \in SUBSET Roles :
                GetUserRoles(t, u, a) => CacheTypeOK' /\ APITypeOK'
           /\ \A p \in Permissions : \A a \in SUBSET Subjects :
                GetPermissionDetails(t, p, a) => CacheTypeOK' /\ APITypeOK'
<1>1. UNCHANGED apiVars => APITypeOK'
  BY UntouchedTypesStay
<1> DEFINE asked2 == [asked EXCEPT ![t] = {}]
<1>2. asked2 \in [Tasks -> SUBSET Gets]
  BY DEF CacheTypeOK
<1> HIDE DEF asked2
<1>3. ASSUME NEW c \in Caches
      PROVE  asked' = asked2 /\ UNCHANGED cache /\ unstored' = [unstored EXCEPT ![t] = c]
               => CacheTypeOK'
  BY <1>2 DEF CacheTypeOK
<1>4. unstored[t] \in Caches
  BY DEF CacheTypeOK
<1>5. ASSUME NEW u \in Users, NEW a \in BOOLEAN, GetUserDetails(t, u, a)
      PROVE  CacheTypeOK'
  <2>1. [unstored[t] EXCEPT !.user[u] = Kept(a)] \in Caches
    BY <1>4 DEF Caches, Kept
  <2> QED
    BY <2>1, <1>3, <1>5 DEF GetUserDetails, asked2
<1>6. ASSUME NEW g \in Groups, NEW a \in MemberLists, GetGroupMembers(t, g, a)
      PROVE  CacheTypeOK'
  <2>1. [unstored[t] EXCEPT !.member[g] = Kept(a)] \in Caches
    BY <1>4 DEF Caches, Kept
  <2> QED
    BY <2>1, <1>3, <1>6 DEF GetGroupMembers, asked2
<1>7. ASSUME NEW u \in Users, NEW a \in SUBSET Roles, GetUserRoles(t, u, a)
      PROVE  CacheTypeOK'
  <2>1. [unstored[t] EXCEPT !.role[u] = Kept(a)] \in Caches
    BY <1>4 DEF Caches, Kept
  <2> QED
    BY <2>1, <1>3, <1>7 DEF GetUserRoles, asked2
<1>8. ASSUME NEW p \in Permissions, NEW a \in SUBSET Subjects,
             GetPermissionDetails(t, p, a)
      PROVE  CacheTypeOK'
  <2>1. [unstored[t] EXCEPT !.perm[p] = Kept(a)] \in Caches
    BY <1>4 DEF Caches, Kept
  <2> QED
    BY <2>1, <1>3, <1>8 DEF GetPermissionDetails, asked2
<1> QED
  BY <1>1, <1>5, <1>6, <1>7, <1>8
     DEF GetUserDetails, GetGroupMembers, GetUserRoles, GetPermissionDetails

(* The writes keep the container's type. *)
LEMMA WritesKeepTypes ==
    ASSUME APITypeOK
    PROVE  /\ \A u \in Users : \A on \in BOOLEAN : SetUserEnabled(u, on) => APITypeOK'
           /\ \A g \in Groups : \A u \in Users :
                /\ AddGroupMember(g, u) => APITypeOK'
                /\ RemoveGroupMember(g, u) => APITypeOK'
           /\ \A u \in Users : \A roles : SetUserRoles(u, roles) => APITypeOK'
           /\ \A p \in Permissions : \A list \in SUBSET Subjects :
                UpdatePermission(p, list) => APITypeOK'
           /\ \A u \in Users : DeleteUser(u) => APITypeOK'
           /\ \A u \in Users : CreateUser(u) => APITypeOK'
<1>1. \A u \in Users : \A on \in BOOLEAN : SetUserEnabled(u, on) => APITypeOK'
  BY DEF APITypeOK, SetUserEnabled
<1>2. \A g \in Groups : \A u \in Users : AddGroupMember(g, u) => APITypeOK'
  BY DEF APITypeOK, AddGroupMember
<1>3. \A g \in Groups : \A u \in Users : RemoveGroupMember(g, u) => APITypeOK'
  BY DEF APITypeOK, RemoveGroupMember
<1>4. \A u \in Users : \A roles : SetUserRoles(u, roles) => APITypeOK'
  BY DEF APITypeOK, SetUserRoles
<1>5. \A p \in Permissions : \A list \in SUBSET Subjects :
        UpdatePermission(p, list) => APITypeOK'
  BY DEF APITypeOK, UpdatePermission
<1>6. \A u \in Users : DeleteUser(u) => APITypeOK'
  BY DEF APITypeOK, DeleteUser
<1>7. \A u \in Users : CreateUser(u) => APITypeOK'
  BY DEF APITypeOK, CreateUser
<1> QED
  BY <1>1, <1>2, <1>3, <1>4, <1>5, <1>6, <1>7
=============================================================================
