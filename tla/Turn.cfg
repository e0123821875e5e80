SPECIFICATION Spec
CONSTANTS
    Calls <- MCCalls
    Parallel = {"fetch"}
    Payload = {"shell"}
    Orchestrated = {"shell"}
    Selections = {"here", "there", "bare"}
    Bare = {"bare"}
    Instances <- MCInstances
INVARIANTS TypeOK DenialHolds ContextWasRuled UnsandboxedWasApproved LifecycleMatchesResponse ExclusiveRunsAlone
PROPERTY CancelEndsAll
CHECK_DEADLOCK FALSE
