SPECIFICATION Spec
CONSTANTS
    Supervisor = Supervisor
    Stdout = Stdout
    Stderr = Stderr
    MaxLines = 1
    MaxStored = 8
    Capacity = 8
INVARIANT OutputShown
CHECK_DEADLOCK FALSE
