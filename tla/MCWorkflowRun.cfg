SPECIFICATION Spec
CONSTANTS
    Workflows <- MCWorkflows
    Steps <- MCSteps
INVARIANTS
    Compensation
    HooksPaired
    VerdictFaithful
    BranchesSeeReports
PROPERTIES
    FailFastStops
CHECK_DEADLOCK FALSE
