SPECIFICATION Spec
CONSTANTS
    MaxJobs = 1
    NumServices = 2
    Timeout = 4
    Interval = 2
    Slow = 1
    Commands = {"cases"}
INVARIANT AlwaysCleansUp
CHECK_DEADLOCK FALSE
