SPECIFICATION Spec
CONSTANTS
    Flushers = {s1, s2}
    NoAck = NoAck
    QUEUE_DEPTH = 2
    MAX_BATCH = 2
    MaxRecords = 4
INVARIANTS TypeOK FlushCoversEarlierRecords NothingVanishes StoredOnceInOrder
PROPERTY FlushReturns
CHECK_DEADLOCK FALSE
