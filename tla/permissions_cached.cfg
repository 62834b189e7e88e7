\* Two tasks at once on one permission while cached answers go stale, an
\* administrator edits the permission and deletes a user; u2 looks on.
SPECIFICATION WatchedSpec
CONSTANTS
    u1 = u1
    u2 = u2
    Users = {u1, u2, u3}
    Groups = {}
    FixedGroups = {}
    Roles = {basic}
    BasicRole = basic
    Permissions = {p1}
    OtherSubjects = {o1}
    Deletable = {u1}
    Editable = {o1}
    Tasks = {t1, t2}
    Requests <- PermissionsButU2
    Slots = 2
    CacheOn = TRUE
    EnableOnProvision = FALSE
    MaxRetries = 1
    MaxFaults = 1
SYMMETRY TaskSymmetry
INVARIANTS CopiesAgree
PROPERTIES BystandersKept
CHECK_DEADLOCK FALSE
