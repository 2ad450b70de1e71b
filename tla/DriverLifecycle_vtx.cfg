\* On every processor, one load without failures.
CONSTANTS
    Clients = {p1}
    MayFail <- NoFailure
    MaxLoads = 1
SPECIFICATION Spec
INVARIANT OnlyWithVmx
CHECK_DEADLOCK FALSE
