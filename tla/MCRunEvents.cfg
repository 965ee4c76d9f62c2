SPECIFICATION FairSpec
CONSTANTS
    Supervisor = Supervisor
    Stdout = Stdout
    Stderr = Stderr
    MaxLines = 1
    MaxStored = 3
    Capacity = 2
INVARIANTS
    FinishedIsLast
    NothingBetween
PROPERTY PageSeesFinished
CHECK_DEADLOCK FALSE
