SPECIFICATION Spec
CONSTANTS
    MaxAsks = 3
    MaxFlashes = 2
INVARIANTS TypeOK FlashNeverCoversQuestion QuestionStaysOnScreen HiddenWhenIdle
PROPERTY NewestQuestionSettles
CHECK_DEADLOCK FALSE
