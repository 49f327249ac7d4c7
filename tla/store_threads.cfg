SPECIFICATION FairSpec
CONSTANTS
    Threads = {t1, t2}
    NoThread = NoThread
    RequestIds = {r1}
    NoRequest = NoRequest
    Limits <- SomeLimits
    MaxLimit = 1
    FirstTables <- AnyTable
    MaxSaves = 2
    MaxRestarts = 1
INVARIANTS
    TypeOK
    ConnectedIsMigrated
    IdsFollowCommits
    SavesAreKept
    ReadIsRecent
PROPERTIES
    NothingIsDropped
    StoreIsALog
    LockComesFree
