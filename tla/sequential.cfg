\* One task at a time, every answer fresh: a one-shot run, or a service
\* with one slot, without the HTTP cache.
SPECIFICATION WatchedSpec
CONSTANTS
    u1 = u1
    u2 = u2
    Users = {u1, u2}
    Groups = {g1}
    FixedGroups = {}
    Roles = {basic, admin}
    BasicRole = basic
    Permissions = {p1}
    OtherSubjects = {o1}
    Deletable = {}
    Editable = {}
    Tasks = {t1, t2}
    Requests <- AboutOneUser
    Slots = 1
    CacheOn = FALSE
    EnableOnProvision = TRUE
    MaxRetries = 1
    MaxFaults = 2
SYMMETRY TaskSymmetry
INVARIANTS RevokeWritesOnlyHeldRoles
PROPERTIES PromiseKept ReEnabled ReportsAreTrue
CHECK_DEADLOCK FALSE
