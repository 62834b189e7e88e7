\* Everything that happens to an account at once: attempts to create one,
\* an action, two rewrites of the permission and an administrator, three
\* of them in any run.
SPECIFICATION Spec
CONSTANTS
    plain = plain
    Everybody = Everybody
    Admins = Admins
    Groups = {"All Users", "Engineering"}
    AllUsers = "All Users"
    GroupUUIDs <- KeptGroupUUIDs
    Roles = {"Administrator"}
    Permissions = {p1}
    User = User
    UserGroup = UserGroup
    WideTypes = {Everybody, Admins}
    Tag = Tag
    AllAssets = AllAssets
    TagUUIDs = {201}
    Rests = {plain, renamed}
    MaxColons = 2
    MaxUserID = 4
    MaxEvents = 3
    Seed <- KeptUsers
    SeedMembers <- KeptMembers
    SeedPermission <- KeptPermission
    Attempts = {a1, a2}
    Lengths = {16}
    Actions = {x1}
    Targets = {1, 2}
    Rewriters = {r1, r2}
    Subjected = {1, 2}
INVARIANTS
    TypeOK
    IndexesAgree
    EdgesAgree
    AccountsAreAccountedFor
    OutcomesWin
    CompleteMeansApplied
PROPERTIES
    NobodyInherits
    RewritesAreFaithful
    RefinesAPI
    ActionsSettle
CHECK_DEADLOCK FALSE
