\* DriverEntry's call, then a client's, on two processors; every operation may fail.
\* The machine really stops at a bug check and after the last call.
CONSTANTS
    Nobody = Nobody
    Cpus = {c1, c2}
    Threads = {loader, t1}
    Loader = loader
    Serialized = TRUE
    Migrates = TRUE
    MaxCalls = 1
    MayRefuse = {"vmxon", "vmclear", "vmptrld", "vmwrite", "vmlaunch", "entry"}
    SmxCpus = {c1, c2}
    LockedWrite = {"faults", "ignored"}
SPECIFICATION FairSpec
INVARIANTS
    TypeOK
    NotCorrupted
    QuiescentWhenIdle
    LaunchReady
    HostStackOwned
    CrashExplained
PROPERTIES
    CallEnds
    GuestNeverStops
    SessionImplemented
CHECK_DEADLOCK FALSE
