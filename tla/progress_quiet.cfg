CONSTANTS
    Adaptors <- MCAdaptors
    MaxPolls = 3
    MaxRounds = 3
SPECIFICATION Spec
PROPERTIES AnswerNotPaintedOver
CHECK_DEADLOCK FALSE
