SPECIFICATION FairSpec
CONSTANTS
    NumSlots = 2
    NumTasks = 4
    Jobs = 2
    NoSlot = NoSlot
INVARIANTS
    PermitMeansSlot
    NoUnitLost
    WindowKept
    NeverStarved
PROPERTIES
    ImplementsPool
    FailFastStops
    EverySlotComesBack
CHECK_DEADLOCK FALSE
