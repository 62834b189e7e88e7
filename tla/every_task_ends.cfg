\* Requests of every kind about one user, who may be deleted meanwhile, one
\* slot for two tasks, every attempt may fail: two attempts of two tasks.
SPECIFICATION WatchedSpec
CONSTANTS
    u1 = u1
    u2 = u2
    Users = {u1, u2}
    Groups = {g1}
    FixedGroups = {g1}
    Roles = {basic, admin}
    BasicRole = basic
    Permissions = {p1}
    OtherSubjects = {}
    Deletable = {u1}
    Editable = {}
    Tasks = {t1, t2}
    Requests <- AboutOneUser
    Slots = 1
    CacheOn = TRUE
    EnableOnProvision = TRUE
    MaxRetries = 1
    MaxFaults = 4
INVARIANTS TypeOK
PROPERTIES AllTasksEnd EveryStepCounts
CHECK_DEADLOCK FALSE
