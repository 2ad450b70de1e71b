\* DriverEntry's call on one processor that may refuse VMXON.
CONSTANTS
    Nobody = Nobody
    Cpus = {c1}
    Threads = {loader}
    Loader = loader
    Serialized = TRUE
    Migrates = FALSE
    MaxCalls = 1
    MayRefuse = {"vmxon"}
    SmxCpus = {c1}
    LockedWrite = {"faults"}
SPECIFICATION Spec
INVARIANT FailedVmxonStops
CHECK_DEADLOCK FALSE
