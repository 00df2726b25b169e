SPECIFICATION Spec
CONSTANTS
    LastStep = 1
    Required = {0, 1}
    Founder = FALSE
    Slots = {r1}
    MaxEdits = 1
    MaxPublish = 1
    Lossy = FALSE
INVARIANT FinishedStaysFinished
CHECK_DEADLOCK FALSE
