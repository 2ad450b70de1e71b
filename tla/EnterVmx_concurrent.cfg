\* After DriverEntry's call, two clients' at a time on two processors; threads may
\* be moved. VMPTRLD, VMLAUNCH and VM entry may fail, VMXON where two calls meet.
\* The machine really stops at a bug check and after the last call.
CONSTANTS
    Nobody = Nobody
    Cpus = {c1, c2}
    Threads = {loader, t1, t2}
    Loader = loader
    Serialized = FALSE
    Migrates = TRUE
    MaxCalls = 1
    MayRefuse = {"vmptrld", "vmlaunch", "entry"}
    SmxCpus = {c1, c2}
    LockedWrite = {"faults", "ignored"}
SPECIFICATION Spec
INVARIANTS
    CapturedKeepsVmx
    VmxOffWhenIdle
    OneAttemptPerProcessor
    ReturnedMeansFailed
    GuestStuckAtCpuid
PROPERTIES
    CaptureIsForever
SYMMETRY Symmetry
CHECK_DEADLOCK FALSE
