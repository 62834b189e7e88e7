\* Syncs one right after the other, answers as old as the cache lets them
\* get, three changes of the container, one failed request.
SPECIFICATION SmallSpec
CONSTANTS
    u1 = u1
    o1 = o1
    Users = {u1, u2}
    Groups = {g1}
    FixedGroups = {}
    Roles = {basic}
    Permissions = {p1}
    OtherSubjects = {o1, allUsers}
    Tasks = {sync1, task1}
    syncTask = sync1
    SubjectGroups = {o1}
    Deletable = {u1}
    SyncsFarApart = FALSE
    CacheOn = TRUE
    MaxChanges = 3
    MaxFaults = 1
INVARIANTS SyncTypeOK AnswersAreRecent GranteesAreListed
PROPERTIES ReportsAreRecent
