\* Three loads, two clients, every operation may fail.
\* The machine really stops at a bug check, or when nobody uses the driver.
CONSTANTS
    Clients = {p1, p2}
    MayFail <- EveryFailure
    MaxLoads = 3
SPECIFICATION FairSpec
INVARIANTS
    TypeOK
    CapturedKeepsImage
    LoadedIsUsable
    FailedLoadUndone
    NoNameCollision
    ContextNeverFreed
    UnloadLeaksContext
PROPERTIES
    LoadEnds
CHECK_DEADLOCK FALSE
