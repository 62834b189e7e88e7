\* Syncs closer together than the lists live, no failed request: one that met
\* a user created meanwhile fails, and so do all that follow it.
SPECIFICATION SmallSpec
CONSTANTS
    u1 = u1
    o1 = o1
    Users = {u1, u2}
    Groups = {g1}
    FixedGroups = {}
    Roles = {basic}
    Permissions = {p1}
    OtherSubjects = {o1, allUsers}
    Tasks = {sync1, task1}
    syncTask = sync1
    SubjectGroups = {o1}
    Deletable = {}
    SyncsFarApart = FALSE
    CacheOn = TRUE
    MaxChanges = 2
    MaxFaults = 0
PROPERTY SyncsCatchUp
