CONSTANTS
    p1 = p1
    p2 = p2
    Instance <- MCInstance
    Item = {1, 2}
    PageSize = 1
    Deployment <- MCDeployment
    Handler = {"h1", "h2"}
    Import = {"file"}
    ImportRow <- MCImportRow
    Unwanted <- MCUnwanted
    SalesFile = {"old", "older"}
    SalesRow <- MCSalesRow
    Hash <- MCHash
    TooLate <- MCTooLate
    Caller = {"a", "b", "c"}
    MaxAttempts = 2
    MaxGuesses = 5
    Asker = {"a", "b", "c"}
    Quota = {0, 1, 3}
    MaxUsed = 6
SPECIFICATION MCSpec
INVARIANTS
    NightlyOnce
    RowsTakeEffect
    LimitsHold
PROPERTIES
    SnapshotNeverRegresses
    ShutdownLosesNothing
    QueueDrains
    StalenessBounded
    ImportEnds
    KnowledgeSaved
    LockLifts
CHECK_DEADLOCK FALSE
