SPECIFICATION TimeSpec
CONSTANTS
    Second = 4
    Timeout = 5
    PollTime = 2
    Starts <- AnyStart
    MaxStep = 5
    MaxSteps = 2
INVARIANTS
    WaitIsTimely TimerIsRight ArithmeticIsClose
PROPERTIES
    WaitEnds
CHECK_DEADLOCK FALSE
