\* DriverEntry's VMLAUNCH fails; then two clients call at the same time. Three
\* processors, so that none writes its locked MSR twice; nobody is moved.
CONSTANTS
    Nobody = Nobody
    Cpus = {c1, c2, c3}
    Threads = {loader, t1, t2}
    Loader = loader
    Serialized = FALSE
    Migrates = FALSE
    MaxCalls = 1
    MayRefuse = {"vmlaunch"}
    SmxCpus = {c1, c2, c3}
    LockedWrite = {"faults"}
SPECIFICATION Spec
INVARIANT NotCorrupted
CHECK_DEADLOCK FALSE
