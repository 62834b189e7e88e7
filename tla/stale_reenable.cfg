\* One task at a time, no failures: a login disabled after its user was read
\* stays disabled through a later grant.
SPECIFICATION WatchedSpec
CONSTANTS
    u1 = u1
    u2 = u2
    Users = {u1, u2}
    Groups = {g1}
    FixedGroups = {}
    Roles = {basic, admin}
    BasicRole = basic
    Permissions = {p1}
    OtherSubjects = {o1}
    Deletable = {}
    Editable = {}
    Tasks = {t1, t2, t3}
    Requests <- GrantsAndDisable
    Slots = 1
    CacheOn = TRUE
    EnableOnProvision = TRUE
    MaxRetries = 3
    MaxFaults = 0
PROPERTY ReEnabled
CHECK_DEADLOCK FALSE
