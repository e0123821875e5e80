SPECIFICATION CallsSpec
CONSTANTS
    Calls <- TwoCalls
    Thread <- TwoThread
    Action <- TwoAction
    CallId <- TwoCallId
    Plans <- TwoPlans
    FailClosed = TRUE
    Keys <- TwoKeys
    NoKey = NoKey
    rmA = rmA
    rmB = rmB
    clean = clean
    Texts <- MCTexts
    Tools = {"bash", "codex"}
    Turns = {"turn"}
    Requests <- TwoRequests
    ToolCalls = {}
    Edits = {}
    Rules <- MCRules
    Scan <- MCScan
    Garbage = {}
    Noise <- MCNoise
    Sim <- MCSim
    Faults = {"none"}
    MaxSeq = 4
    RestartSeq = 4
    MaxRestarts = 1
INVARIANT AdmittedWasReviewed
CHECK_DEADLOCK FALSE
