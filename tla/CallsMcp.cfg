SPECIFICATION CallsSpec
CONSTANTS
    Calls <- McpCalls
    Thread <- McpThread
    Action <- McpAction
    CallId <- McpCallId
    Plans <- McpPlans
    FailClosed = TRUE
    Keys <- McpKeys
    NoKey = NoKey
    rmA = rmA
    rmB = rmB
    clean = clean
    Texts <- MCTexts
    Tools = {"bash", "codex"}
    Turns = {"turn"}
    Requests <- McpRequests
    ToolCalls = {}
    Edits = {}
    Rules <- MCRules
    Scan <- MCScan
    Garbage = {}
    Noise <- MCNoise
    Sim <- MCSim
    Faults = {"none"}
    MaxSeq = 4
    RestartSeq = 4
    MaxRestarts = 0
INVARIANT AdmittedWasReviewed
CHECK_DEADLOCK FALSE
