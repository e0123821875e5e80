SPECIFICATION Spec
CONSTANTS
    Keys = {k1, k2, NoKey}
    NoKey = NoKey
    rmA = rmA
    rmB = rmB
    dd = dd
    lint = lint
    advert = advert
    Texts <- MCTexts
    Tools = {"bash", "codex"}
    Turns = {"turn"}
    Requests <- MCRequests
    ToolCalls <- MCToolCalls
    Edits = {rmA}
    Rules <- MCRules
    Scan <- MCScan
    Garbage = {lint}
    Noise <- MCNoise
    Sim <- MCSim
    Faults = {"none", "events", "index", "rules", "session", "settings"}
    MaxSeq = 2
    RestartSeq = 2
    MaxRestarts = 0
INVARIANTS QuestionsMatchReviews KeysHaveOwnReview
PROPERTY VerdictFinal
SYMMETRY KeySymmetry
CHECK_DEADLOCK FALSE
