SPECIFICATION FairSpec
CONSTANTS
    MaxJobs = 2
    NumServices = 2
    Timeout = 4
    Interval = 2
    Slow = 1
    Commands = {"cases", "workflow", "batch"}
INVARIANTS
    UnitsNeedEnvironment
    PolicyKept
    ExitFaithful
    GivesUpForAReason
PROPERTIES
    LogsBeforeTeardown
    RunExits
CHECK_DEADLOCK FALSE
