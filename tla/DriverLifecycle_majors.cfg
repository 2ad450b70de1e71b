\* One load without failures.
CONSTANTS
    Clients = {p1}
    MayFail <- NoFailure
    MaxLoads = 1
SPECIFICATION Spec
INVARIANT RestHandled
CHECK_DEADLOCK FALSE
