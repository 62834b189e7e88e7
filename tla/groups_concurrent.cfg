\* Three tasks at once on the same user and groups, one of them a group whose
\* membership is fixed, without the HTTP cache.
SPECIFICATION WatchedSpec
CONSTANTS
    u1 = u1
    u2 = u2
    Users = {u1, u2}
    Groups = {g1, everyone}
    FixedGroups = {everyone}
    Roles = {basic}
    BasicRole = basic
    Permissions = {}
    OtherSubjects = {}
    Deletable = {}
    Editable = {}
    Tasks = {t1, t2, t3}
    Requests <- GroupsAndLogins
    Slots = 3
    CacheOn = FALSE
    EnableOnProvision = TRUE
    MaxRetries = 1
    MaxFaults = 2
SYMMETRY TaskSymmetry
PROPERTIES PromiseKept
CHECK_DEADLOCK FALSE
