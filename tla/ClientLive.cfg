SPECIFICATION MCFairSpec
CONSTANTS
    Parts = {"writes", "online", "watch", "limbo"}
    Users = {u1, u2}
    kMaxPendingWrites = 2
    MaxWrites = 3
    MaxWaits = 0
    MaxFaults = 2
    Targets = {t1, t2, t3}
    Cached = {t2, t3}
    WaitForSync = {t3}
    StateBreaks = 2
    Calls = 2
    Fields = {x}
    Values = {1}
    Absent = 0
    LocalWrites = 0
    LocalVersions = 1
    Docs = {d1}
    WatchVersions = 2
    Listens = 2
    WatchBreaks = 1
    Rejects = 0
    Queries = {q1}
    LimboDocs = {d1, d2}
    NoWrite = NoWrite
    max_concurrent_limbo_resolutions = 1
    LimboChanges = 2
    LimboCalls = 1
PROPERTIES
    Implements Resolved EveryoneHears Served LimboEnds
CHECK_DEADLOCK FALSE
