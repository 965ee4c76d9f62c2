SPECIFICATION Spec
CONSTANTS
    Runner = Runner
    Handlers = {h1}
    NumUnits = 1
    MaxCallbacks = 2
PROPERTY DeliveredIsReported
CHECK_DEADLOCK FALSE
