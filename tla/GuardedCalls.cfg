SPECIFICATION CallsSpec
CONSTANTS
    Calls <- RetryCalls
    Thread <- RetryThread
    Action <- RetryAction
    CallId <- RetryCallId
    Plans <- RetryPlans
    FailClosed = TRUE
    Keys <- RetryKeys
    NoKey = NoKey
    rmA = rmA
    rmB = rmB
    clean = clean
    Texts <- MCTexts
    Tools = {"bash", "codex"}
    Turns = {"turn"}
    Requests <- RetryRequests
    ToolCalls = {}
    Edits = {}
    Rules <- MCRules
    Scan <- MCScan
    Garbage = {}
    Noise <- MCNoise
    Sim <- MCSim
    Faults = {"none", "events", "index"}
    MaxSeq = 4
    RestartSeq = 4
    MaxRestarts = 2
INVARIANTS CallsTypeOK AdmittedWasReviewed
PROPERTIES EveryCallEnds OneRulingPerKey
CHECK_DEADLOCK FALSE
