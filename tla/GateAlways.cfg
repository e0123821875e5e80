SPECIFICATION Spec
CONSTANTS
    Keys = {k1, k2, k3}
    NoKey = NoKey
    rmA = rmA
    rmB = rmB
    dd = dd
    lint = lint
    advert = advert
    Texts <- MCTexts
    Tools = {"bash", "codex"}
    Turns = {"turn"}
    Requests <- CoreRequests
    ToolCalls <- MCToolCalls
    Edits = {}
    Rules <- MCRules
    Scan <- MCScan
    Garbage = {lint}
    Noise <- MCNoise
    Sim <- MCSim
    Faults = {"none"}
    MaxSeq = 4
    RestartSeq = 4
    MaxRestarts = 0
PROPERTY AlwaysSkipsThePopup
SYMMETRY KeySymmetry
CHECK_DEADLOCK FALSE
