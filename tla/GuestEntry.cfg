\* Tables of two entries of two bytes; processors with and without the TRUE
\* capability MSRs, secondary controls, SMX and a lock that the firmware has set;
\* the selectors that a 64-bit Windows system has, and those that a program may
\* leave in DS, ES and FS; LAR's undefined bits zero or the limit's.  The machine
\* really stops at a fault and at VM entry.
CONSTANTS
    N = 2
    EntrySize = 2
    Processors <- AllProcessors
    Gdt        <- WindowsGdt
    Loadable   <- WindowsSelectors
    GsBase     <- KernelGsBase
    FsBases    <- WrittenFsBases
    Leftovers  <- LarLeftovers
    Undefined  <- LimitBits
SPECIFICATION Spec
INVARIANTS
    TypeOK
    RegistersSound
    ControlsSound
    SegmentsSound
    EntryHangsOnSegments
    LeftoversContained
    GuestMemoryTrue
CHECK_DEADLOCK FALSE
