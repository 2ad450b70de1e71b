\* Two calls of PopulateActiveVMCS on three processors, one without the MSR of the
\* secondary controls.  The thread may be moved twice in the second, or the machine may
\* lack one or two of the fields that the driver writes or shows.  The machine
\* really stops at a fault and after the last call.
CONSTANTS
    Cpus = {c1, c2, c3}
    SecondaryCpus = {c1, c2}
    MaxCalls = 2
    MaxMoves = 2
    UnsupportedSets <- OneOrTwoMissing
SPECIFICATION Spec
CONSTRAINT MovedOrMissing
INVARIANTS
    TypeOK
    EntryStateComplete
    StatusTellsLate
    MixingNeedsMoves
    DumpShowsWhole
PROPERTIES
    BlocksImplemented
CHECK_DEADLOCK FALSE
