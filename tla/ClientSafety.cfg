SPECIFICATION MCSpec
CONSTANTS
    Parts = {"writes", "online", "local", "watch", "limbo"}
    Users = {u1, u2}
    kMaxPendingWrites = 2
    MaxWrites = 3
    MaxWaits = 1
    MaxFaults = 3
    Targets = {t1, t2, t3}
    Cached = {t2, t3}
    WaitForSync = {t3}
    StateBreaks = 2
    Calls = 3
    Fields = {x, y}
    Values = {1}
    Absent = 0
    LocalWrites = 2
    LocalVersions = 3
    Docs = {d1, d2}
    WatchVersions = 2
    Listens = 2
    WatchBreaks = 1
    Rejects = 1
    Queries = {q1, q2}
    LimboDocs = {d1, d2}
    NoWrite = NoWrite
    max_concurrent_limbo_resolutions = 1
    LimboChanges = 2
    LimboCalls = 2
INVARIANTS
    TypesOK
    PipelineIsPrefix StreamServesPipeline CallbackHasWrite AnswerIsTrue StoredInOrder
    AssertsHold OnlineIsOpen OfflineIsTold
    OverlayHasBatch NothingHidden LastWriteShows SettledIsServer
    TokenIsTrue LimboIsLookedUp NoLookupLeaks
PROPERTIES
    WaitIsOver NoFlap
CHECK_DEADLOCK FALSE
