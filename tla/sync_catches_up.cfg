\* Syncs further apart than the lists live, nobody is deleted: after the last
\* change and the last failure they report what there is.
SPECIFICATION SmallSpec
CONSTANTS
    u1 = u1
    o1 = o1
    Users = {u1, u2}
    Groups = {g1}
    FixedGroups = {}
    Roles = {basic}
    Permissions = {p1}
    OtherSubjects = {o1, allUsers}
    Tasks = {sync1, task1}
    syncTask = sync1
    SubjectGroups = {o1}
    Deletable = {}
    SyncsFarApart = TRUE
    CacheOn = TRUE
    MaxChanges = 2
    MaxFaults = 1
PROPERTIES SyncsCatchUp
