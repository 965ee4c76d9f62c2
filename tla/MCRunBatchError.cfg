SPECIFICATION Spec
CONSTANTS
    MaxJobs = 1
    NumServices = 1
    Timeout = 4
    Interval = 2
    Slow = 1
    Commands = {"batch"}
INVARIANT StartedIsCleanedUp
CHECK_DEADLOCK FALSE
