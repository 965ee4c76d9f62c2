SPECIFICATION Spec
CONSTANTS
    Cases <- MCCases
    Steps <- MCSteps
    Names = {"x", "y"}
    Items = {"one", "two"}
    Arrays <- MCArrays
    Written = "written"
    Unset = "unset"
INVARIANTS
    Scoped
    VerdictFaithful
    EndsAsWorkflowSees
PROPERTIES
    CaseEndsAtLast
CHECK_DEADLOCK FALSE
