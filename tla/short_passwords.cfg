\* One attempt asks for a password of 8 or 16 characters.
SPECIFICATION Spec
CONSTANTS
    plain = plain
    Everybody = Everybody
    Admins = Admins
    Groups = {"All Users", "Engineering"}
    AllUsers = "All Users"
    GroupUUIDs <- KeptGroupUUIDs
    Roles = {"Administrator"}
    Permissions = {p1}
    User = User
    UserGroup = UserGroup
    WideTypes = {Everybody, Admins}
    Tag = Tag
    AllAssets = AllAssets
    TagUUIDs = {201}
    Rests = {plain, renamed}
    MaxColons = 2
    MaxUserID = 4
    MaxEvents = 2
    Seed <- KeptUsers
    SeedMembers <- KeptMembers
    SeedPermission <- KeptPermission
    Attempts = {a1}
    Lengths = {8, 16}
    Actions = {x1}
    Targets = {1, 2}
    Rewriters = {r1, r2}
    Subjected = {1, 2}
INVARIANT PasswordsAreLongEnough
CHECK_DEADLOCK FALSE
