SPECIFICATION Spec
CONSTANTS
    Calls <- MCCalls
    Parallel = {"fetch"}
    Payload = {"shell"}
    Orchestrated = {"shell"}
    Selections = {"here", "there", "bare"}
    Bare = {"bare"}
    Instances <- MCInstances
INVARIANT RewriteIsWhatRuns
CHECK_DEADLOCK FALSE
