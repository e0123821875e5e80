SPECIFICATION Spec
CONSTANTS
    MaxAsks = 2
    MaxFlashes = 0
PROPERTY EveryQuestionSettles
CHECK_DEADLOCK FALSE
