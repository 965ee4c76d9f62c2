SPECIFICATION FairSpec
CONSTANTS
    MaxSlots = 2
    NumMonitors = 1
    NumLive = 1
    MaxLines = 2
INVARIANTS
    EveryCaptureReported
    CaptureReportsFaithful
    TasksEnd
    CapturesKept
PROPERTIES
    FinishReturns
