\* One load, the two VMX regions may be refused.
CONSTANTS
    Clients = {p1}
    MayFail <- RegionFailures
    MaxLoads = 1
SPECIFICATION Spec
INVARIANT AllocationFailureStops
CHECK_DEADLOCK FALSE
