SPECIFICATION FairSpec
CONSTANTS
    Runner = Runner
    Handlers = {h1, h2}
    NumUnits = 2
    MaxCallbacks = 3
INVARIANTS
    OnePlace
    OwnCallbacksReported
    ReportsFaithful
PROPERTY RunEnds
CHECK_DEADLOCK FALSE
