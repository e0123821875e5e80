SPECIFICATION Spec
CONSTANTS
    Main = "session"
    Tasks = {"turn", "tool"}
    Replies = {"allow", "deny", "error"}
    Bounds <- MCBounds
    IpcPosture = "fail_closed"
    QUEUE_DEPTH = 1
    MaxLives = 2
    MaxFaults = 1
INVARIANTS TypeOK CsvWellFormed SidecarTruthful FlushMeansWritten ReviewedIsRecorded HistoryIsTransparent
PROPERTY EverySendReturns
CHECK_DEADLOCK FALSE
