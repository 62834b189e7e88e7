\* One task at a time, no failures: a role revoked twice is written twice.
SPECIFICATION WatchedSpec
CONSTANTS
    u1 = u1
    u2 = u2
    Users = {u1, u2}
    Groups = {g1}
    FixedGroups = {}
    Roles = {basic, admin}
    BasicRole = basic
    Permissions = {p1}
    OtherSubjects = {o1}
    Deletable = {}
    Editable = {}
    Tasks = {t1, t2}
    Requests <- RoleRevokes
    Slots = 1
    CacheOn = TRUE
    EnableOnProvision = TRUE
    MaxRetries = 3
    MaxFaults = 0
INVARIANT RevokeWritesOnlyHeldRoles
CHECK_DEADLOCK FALSE
