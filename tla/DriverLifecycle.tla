--------------------------- MODULE DriverLifecycle ---------------------------
(***************************************************************************)
(* The driver between its image entering memory and leaving it: the checks *)
(* and allocations of DriverEntry, the device with its symbolic link and   *)
(* dispatch table, the requests of clients, unloading and loading again.   *)
(* EnterVmxHandler appears with the three outcomes that EnterVmx gives it. *)
(*                                                                         *)
(* The I/O manager is external: it lets nobody open the device before      *)
(* DriverEntry has returned, and calls DriverUnload only when no handle is *)
(* open.  Pool memory outlives the image, and new memory is not zeroed.    *)
(***************************************************************************)
EXTENDS CpuDetection, NtStatus, FiniteSets

CONSTANTS
    Clients,    \* processes that open the device
    MayFail,    \* operations that may fail on this machine
    MaxLoads    \* bound on the number of loads (the model's only bound)

\* The fields of processorContext, in the order of their allocation, and all
\* the blocks that the driver ever allocates.
Fields == {"vmxon_region", "vmcs_region", "ept_pml4_entries", "msr_bitmap",
           "guest_stack", "host_stack"}
Blocks == Fields \cup {"Device", "processorContext", "pdpte_entries", "pde_entries"}

ASSUME FailAssumption ==
    MayFail \subseteq Blocks \cup {"IoCreateDevice", "IoDeleteSymbolicLink", "IoCreateSymbolicLink"}
ASSUME LoadsAssumption == MaxLoads \in Nat

VARIABLES
    machine,       \* the processor: its vendor string and the ECX of CPUID leaf 1
    image,         \* "absent", "loading" (DriverEntry runs) or "loaded"
    step,          \* DriverEntry's next step, or "none"
    status,        \* DriverEntry's status
    kGuypervisor,  \* "null", or "device": points to a Device object
    kProcessorContext,  \* "null", or "context": points to a processorContext
    field,         \* field[f]: "garbage", "null" or "memory"
    deviceObject,  \* the device object exists in the I/O manager
    dosDeviceName, \* the symbolic link exists
    refused,       \* history: in this load, IoDeleteSymbolicLink left an old link in place
    majors,        \* majors[i]: the handler of major function i, or "default"
    heap,          \* heap[b]: blocks b that are allocated
    before,        \* history: heap when the image was last loaded
    loads,         \* number of loads so far
    unloading,     \* the service manager has asked to unload the driver
    client,        \* client[p]: "closed", "open" or "calling"
    captured,      \* clients whose call was captured with its processor
    crash          \* why the machine stopped, or "none"

entryVars  == <<step, status, kGuypervisor, kProcessorContext, field>>
ioVars     == <<deviceObject, dosDeviceName, refused, majors>>
memoryVars == <<heap, before>>
vars == <<machine, image, entryVars, ioVars, memoryVars, loads, unloading, client, captured, crash>>

Majors == 0 .. 27
IRP_MJ_CREATE  == 0
IRP_MJ_CLOSE   == 2
IRP_MJ_WRITE   == 4
IRP_MJ_DEVICE_CONTROL   == 14
IRP_MJ_MAXIMUM_FUNCTION == 27

Handlers == {"default", "GeneralHandlerIRP", "CreateHandlerIRP", "CloseHandlerIRP",
             "WriteHandlerIRP", "IOCTLHandlerIRP"}
Steps    == {"none", "cpu", "device", "init", "symlink", "context", "regions", "ept",
             "enter", "captured", "cleanup", "return"}
Causes   == {"none", "null", "wild", "free", "handler"}

Machines == [vendor : {kVendorName, AmdVendor}, ecx : SUBSET {VmxBit, XsaveBit}]

Init ==
    /\ machine \in Machines
    /\ image = "absent"
    /\ step = "none"
    /\ status = STATUS_SUCCESS
    /\ kGuypervisor = "null"
    /\ kProcessorContext = "null"
    /\ field = [f \in Fields |-> "garbage"]
    /\ deviceObject = FALSE
    /\ dosDeviceName = FALSE
    /\ refused = FALSE
    /\ majors = [i \in Majors |-> "default"]
    /\ heap = [b \in Blocks |-> 0]
    /\ before = [b \in Blocks |-> 0]
    /\ loads = 0
    /\ unloading = FALSE
    /\ client = [p \in Clients |-> "closed"]
    /\ captured = {}
    /\ crash = "none"

-----------------------------------------------------------------------------
(* Helpers *)

At(s) == crash = "none" /\ image = "loading" /\ step = s

\* An operation b that may fail: of an allocation, FALSE is a null pointer.
Allocations(b) == IF b \in MayFail THEN BOOLEAN ELSE {TRUE}

Allocated(old, blocks) == [b \in Blocks |-> IF b \in blocks THEN old[b] + 1 ELSE old[b]]
Freed(old, blocks)     == [b \in Blocks |-> IF b \in blocks THEN old[b] - 1 ELSE old[b]]

\* A step that fails is tried again.
BadCheckStatus(s, next) ==
    /\ status' = s
    /\ step' = IF NT_SUCCESS(s) THEN next ELSE step

\* if (!NT_SUCCESS(s)) goto cleanup; else go on at next.
CheckStatus(s, next) ==
    /\ status' = s
    /\ step' = IF NT_SUCCESS(s) THEN next ELSE "cleanup"

Bugcheck(cause) ==
    /\ crash' = cause
    /\ UNCHANGED <<machine, image, entryVars, ioVars, memoryVars, loads, unloading, client, captured>>

\* The handlers that InitDevice installs.
AddFunctions ==
    [i \in Majors |->
        CASE i = IRP_MJ_CREATE         -> "CreateHandlerIRP"
          [] i = IRP_MJ_CLOSE          -> "CloseHandlerIRP"
          [] i = IRP_MJ_DEVICE_CONTROL -> "IOCTLHandlerIRP"
          [] i = IRP_MJ_WRITE          -> "WriteHandlerIRP"
          [] OTHER -> IF i < IRP_MJ_MAXIMUM_FUNCTION THEN "GeneralHandlerIRP" ELSE "default"]

-----------------------------------------------------------------------------
(* DriverEntry *)

\* The I/O manager maps the image, whose globals are null, makes a driver object
\* with the default handlers, and calls it.
Load ==
    /\ crash = "none"
    /\ image = "absent"
    /\ loads < MaxLoads
    /\ image' = "loading"
    /\ step' = "cpu"
    /\ status' = STATUS_SUCCESS
    /\ loads' = loads + 1
    /\ kGuypervisor' = "null"
    /\ kProcessorContext' = "null"
    /\ majors' = [i \in Majors |-> "default"]
    /\ before' = heap
    /\ refused' = FALSE
    /\ UNCHANGED <<machine, field, deviceObject, dosDeviceName, heap, unloading, client,
                   captured, crash>>

CheckProcessor ==
    /\ At("cpu")
    /\ \E stack \in {kVendorName, AmdVendor} :
          CheckStatus(IF /\ VendorIsIntel(machine.vendor, stack)
                         /\ SupportsVtxOperation(machine.ecx)
                      THEN STATUS_SUCCESS ELSE STATUS_NOT_SUPPORTED, "device")
    /\ UNCHANGED <<machine, image, kGuypervisor, kProcessorContext, field, ioVars,
                   memoryVars, loads, unloading, client, captured, crash>>

\* operator new returns null when the pool is empty, and the constructor then
\* writes through it.
NewDevice ==
    /\ At("device")
    /\ \E ok \in Allocations("Device") :
          IF ok
          THEN /\ kGuypervisor' = "device"
               /\ heap' = Allocated(heap, {"Device"})
               /\ step' = "init"
               /\ UNCHANGED <<machine, image, status, kProcessorContext, field, ioVars,
                              before, loads, unloading, client, captured, crash>>
          ELSE Bugcheck("null")

\* What IoCreateDevice and IoCreateSymbolicLink return.
CreateResults(operation, exists) ==
    IF exists THEN {STATUS_OBJECT_NAME_COLLISION}
    ELSE {STATUS_SUCCESS} \cup
         (IF operation \in MayFail THEN {STATUS_INSUFFICIENT_RESOURCES} ELSE {})

InitDevice ==
    /\ At("init")
    /\ \E s \in CreateResults("IoCreateDevice", deviceObject) :
          /\ deviceObject' = (deviceObject \/ s = STATUS_SUCCESS)
          /\ CheckStatus(s, "symlink")
    /\ majors' = AddFunctions
    /\ UNCHANGED <<machine, image, kGuypervisor, kProcessorContext, field, dosDeviceName, refused,
                   memoryVars, loads, unloading, client, captured, crash>>

\* Without the deletion of an old link.
BadCreateSymlink ==
    /\ At("symlink")
    /\ \E s \in CreateResults("IoCreateSymbolicLink", dosDeviceName) :
          /\ dosDeviceName' = (dosDeviceName \/ s = STATUS_SUCCESS)
          /\ CheckStatus(s, "context")
    /\ UNCHANGED <<machine, image, kGuypervisor, kProcessorContext, field, deviceObject,
                   refused, majors, memoryVars, loads, unloading, client, captured, crash>>

\* A link that an earlier load left behind is deleted first; whether the system
\* did so is not looked at.
CreateSymlink ==
    /\ At("symlink")
    /\ \E deleted \in Allocations("IoDeleteSymbolicLink") :
          /\ refused' = (dosDeviceName /\ ~deleted)
          /\ \E s \in CreateResults("IoCreateSymbolicLink", dosDeviceName /\ ~deleted) :
                /\ dosDeviceName' = ((dosDeviceName /\ ~deleted) \/ s = STATUS_SUCCESS)
                /\ CheckStatus(s, "context")
    /\ UNCHANGED <<machine, image, kGuypervisor, kProcessorContext, field, deviceObject,
                   majors, memoryVars, loads, unloading, client, captured, crash>>

\* new processorContext leaves the fields as the pool had them.
NewProcessorContext ==
    /\ At("context")
    /\ \E ok \in Allocations("processorContext") :
          IF ok
          THEN /\ kProcessorContext' = "context"
               /\ heap' = Allocated(heap, {"processorContext"})
               /\ field' = [f \in Fields |-> "garbage"]
               /\ step' = "regions"
               /\ UNCHANGED <<machine, image, status, kGuypervisor, ioVars, before, loads,
                              unloading, client, captured, crash>>
          ELSE Bugcheck("null")

\* InitializeProcessorContext gets to field f: a refused region ends it, and
\* the later fields keep their garbage.
Reached(f, got) ==
    /\ f # "vmxon_region" => "vmxon_region" \in got
    /\ f \notin {"vmxon_region", "vmcs_region"} => "vmcs_region" \in got

\* The fields when the blocks in got can be allocated and the others cannot.
Fill(got) ==
    [f \in Fields |-> IF ~Reached(f, got) THEN "garbage"
                      ELSE IF f \in got THEN "memory" ELSE "null"]

\* The status: NT_ERROR of a code is not that code.
FillStatus(got) ==
    IF "vmxon_region" \notin got THEN NT_ERROR(STATUS_FAILED_TO_ALLOCATE_MEMORY)
    ELSE IF "vmcs_region" \notin got THEN STATUS_FAILED_TO_ALLOCATE_MEMORY
    ELSE STATUS_SUCCESS

\* Of the other four fields only ept_pml4_entries is used here: RtlZeroMemory
\* writes through it.
InitializeProcessorContext ==
    /\ At("regions")
    /\ \E got \in SUBSET Fields :
          /\ Fields \ got \subseteq MayFail
          /\ IF Fill(got)["ept_pml4_entries"] = "null"
             THEN Bugcheck("null")
             ELSE /\ field' = Fill(got)
                  /\ heap' = Allocated(heap, {f \in Fields : field'[f] = "memory"})
                  /\ CheckStatus(FillStatus(got), "ept")
                  /\ UNCHANGED <<machine, image, kGuypervisor, kProcessorContext, ioVars,
                                 before, loads, unloading, client, captured, crash>>

\* The tables are zeroed and written through ept_pml4_entries, whatever it
\* points to: a garbage pointer faults or destroys what it happens to hit.
InitializeEPT ==
    /\ At("ept")
    /\ \/ /\ \E okPdpte \in Allocations("pdpte_entries"), okPde \in Allocations("pde_entries") :
                ~(okPdpte /\ okPde)
          /\ Bugcheck("null")
       \/ /\ field["ept_pml4_entries"] = "garbage"
          /\ Bugcheck("wild")
       \/ /\ heap' = Allocated(heap, {"pdpte_entries", "pde_entries"})
          /\ CheckStatus(STATUS_SUCCESS, "enter")
          /\ UNCHANGED <<machine, image, kGuypervisor, kProcessorContext, field, ioVars,
                         before, loads, unloading, client, captured, crash>>

\* EnterVmxHandler, as EnterVmx describes it: it faults (always, if a region
\* is missing), keeps its processor for ever, or comes back.
\* (A handler that checked its regions would come back without them.)
RegionsPresent == field["vmxon_region"] = "memory" /\ field["vmcs_region"] = "memory"
BadEnterOutcomes == {"crash", "captured", "returns"}
EnterOutcomes    == IF RegionsPresent THEN {"crash", "captured", "returns"} ELSE {"crash"}

CallEnterVmx ==
    /\ At("enter")
    /\ \E outcome \in EnterOutcomes :
          IF outcome = "crash" THEN Bugcheck("handler")
          ELSE /\ step' = IF outcome = "captured" THEN "captured" ELSE "cleanup"
               /\ UNCHANGED <<machine, image, status, kGuypervisor, kProcessorContext, field,
                              ioVars, memoryVars, loads, unloading, client, captured, crash>>

\* What FreeProcessorContext gives back: a pointer that it sets to null first
\* is then deleted as null, so only the contiguous blocks are.
Contiguous == {"vmxon_region", "vmcs_region", "msr_bitmap"}
FreeProcessorContext(old) == Freed(old, {f \in Contiguous : field[f] = "memory"})

\* The cleanup label without deletion of the device.
BadCleanup ==
    /\ At("cleanup")
    /\ step' = "return"
    /\ UNCHANGED <<machine, image, status, kGuypervisor, kProcessorContext, field, ioVars,
                   memoryVars, loads, unloading, client, captured, crash>>

\* IoDeleteDevice of a device that was never created faults; so would freeing
\* a field that holds garbage.
Cleanup ==
    /\ At("cleanup")
    /\ LET device  == ~NT_SUCCESS(status) /\ kGuypervisor = "device"
           context == ~NT_SUCCESS(status) /\ kProcessorContext = "context"
           kept    == IF device THEN Freed(heap, {"Device"}) ELSE heap
       IN  /\ crash' = IF device /\ ~deviceObject THEN "null"
                       ELSE IF context /\ \E f \in Contiguous : field[f] = "garbage" THEN "free"
                       ELSE "none"
           /\ deviceObject' = (deviceObject /\ ~device)
           /\ heap' = IF context THEN FreeProcessorContext(kept) ELSE kept
    /\ step' = "return"
    /\ UNCHANGED <<machine, image, status, kGuypervisor, kProcessorContext, field,
                   dosDeviceName, refused, majors, before, loads, unloading, client, captured>>

\* If DriverEntry fails the I/O manager unmaps the image at once.
ReturnFromEntry ==
    /\ At("return")
    /\ image' = IF NT_SUCCESS(status) THEN "loaded" ELSE "absent"
    /\ step' = "none"
    /\ UNCHANGED <<machine, status, kGuypervisor, kProcessorContext, field, ioVars,
                   memoryVars, loads, unloading, client, captured, crash>>

-----------------------------------------------------------------------------
(* Clients, and unloading *)

clientFrame == <<machine, image, entryVars, ioVars, memoryVars, loads, unloading>>

\* CreateHandlerIRP and CloseHandlerIRP change nothing.
Open(p) ==
    /\ crash = "none"
    /\ image = "loaded" /\ ~unloading
    /\ deviceObject /\ dosDeviceName
    /\ majors[IRP_MJ_CREATE] = "CreateHandlerIRP"
    /\ client[p] = "closed"
    /\ client' = [client EXCEPT ![p] = "open"]
    /\ UNCHANGED <<clientFrame, captured, crash>>

Close(p) ==
    /\ crash = "none"
    /\ client[p] = "open"
    /\ majors[IRP_MJ_CLOSE] = "CloseHandlerIRP"
    /\ client' = [client EXCEPT ![p] = "closed"]
    /\ UNCHANGED <<clientFrame, captured, crash>>

\* DeviceIoControl(IOCTL_ENTER_VMX): the request reaches IOCTLHandlerIRP.
DeviceIoControl(p) ==
    /\ crash = "none"
    /\ client[p] = "open"
    /\ majors[IRP_MJ_DEVICE_CONTROL] = "IOCTLHandlerIRP"
    /\ client' = [client EXCEPT ![p] = "calling"]
    /\ UNCHANGED <<clientFrame, captured, crash>>

\* The request is completed before its handler has come back.
BadIOCTLHandlerIRP(p) ==
    /\ crash = "none"
    /\ client[p] = "calling" /\ p \notin captured
    /\ \E outcome \in EnterOutcomes \ {"crash"} :
          /\ captured' = IF outcome = "captured" THEN captured \cup {p} ELSE captured
          /\ client' = [client EXCEPT ![p] = "open"]
    /\ UNCHANGED <<clientFrame, crash>>

\* The request is completed when, and only if, EnterVmxHandler comes back.
IOCTLHandlerIRP(p) ==
    /\ crash = "none"
    /\ client[p] = "calling" /\ p \notin captured
    /\ \E outcome \in EnterOutcomes :
          \/ outcome = "crash" /\ Bugcheck("handler")
          \/ /\ outcome = "captured"
             /\ captured' = captured \cup {p}
             /\ UNCHANGED <<clientFrame, client, crash>>
          \/ /\ outcome = "returns"
             /\ client' = [client EXCEPT ![p] = "open"]
             /\ UNCHANGED <<clientFrame, captured, crash>>

RequestUnload ==
    /\ crash = "none"
    /\ image = "loaded" /\ ~unloading
    /\ unloading' = TRUE
    /\ UNCHANGED <<machine, image, entryVars, ioVars, memoryVars, loads, client, captured, crash>>

\* Unloading that forgets the device.
BadDriverUnload ==
    /\ crash = "none"
    /\ unloading
    /\ \A p \in Clients : client[p] = "closed"
    /\ image' = "absent"
    /\ unloading' = FALSE
    /\ UNCHANGED <<machine, entryVars, ioVars, memoryVars, loads, client, captured, crash>>

\* It deletes the device; the link and the processor context stay.
DriverUnload ==
    /\ crash = "none"
    /\ unloading
    /\ \A p \in Clients : client[p] = "closed"
    /\ deviceObject' = FALSE
    /\ heap' = Freed(heap, {"Device"})
    /\ image' = "absent"
    /\ unloading' = FALSE
    /\ UNCHANGED <<machine, entryVars, dosDeviceName, refused, majors, before, loads, client,
                   captured, crash>>

DriverEntry ==
    \/ CheckProcessor
    \/ NewDevice
    \/ InitDevice
    \/ CreateSymlink
    \/ NewProcessorContext
    \/ InitializeProcessorContext
    \/ InitializeEPT
    \/ CallEnterVmx
    \/ Cleanup
    \/ ReturnFromEntry

Request(p) ==
    \/ Open(p)
    \/ Close(p)
    \/ DeviceIoControl(p)
    \/ IOCTLHandlerIRP(p)

Next ==
    \/ Load
    \/ DriverEntry
    \/ \E p \in Clients : Request(p)
    \/ RequestUnload
    \/ DriverUnload

Spec == Init /\ [][Next]_vars

\* DriverEntry's thread keeps running, and the I/O manager calls DriverUnload
\* in the end.  Nobody has to load the driver or to make a request.
FairSpec == Spec /\ WF_vars(DriverEntry) /\ WF_vars(DriverUnload)
-----------------------------------------------------------------------------
(* Properties *)

\* Every variable has its type; DriverEntry's status is a success, one of the
\* system's codes, or the 1 that every custom code is.
TypeOK ==
    /\ machine \in Machines
    /\ image \in {"absent", "loading", "loaded"}
    /\ step \in Steps
    /\ status \in {STATUS_SUCCESS, 1, STATUS_INSUFFICIENT_RESOURCES,
                   STATUS_OBJECT_NAME_COLLISION, STATUS_NOT_SUPPORTED}
    /\ kGuypervisor \in {"null", "device"}
    /\ kProcessorContext \in {"null", "context"}
    /\ field \in [Fields -> {"garbage", "null", "memory"}]
    /\ deviceObject \in BOOLEAN
    /\ dosDeviceName \in BOOLEAN
    /\ refused \in BOOLEAN
    /\ majors \in [Majors -> Handlers]
    /\ heap \in [Blocks -> Nat]
    /\ before \in [Blocks -> Nat]
    /\ loads \in 0 .. MaxLoads
    /\ unloading \in BOOLEAN
    /\ client \in [Clients -> {"closed", "open", "calling"}]
    /\ captured \subseteq Clients
    /\ crash \in Causes

\* While a captured processor runs vmexit_handler, whose code is in the image,
\* the image is not unmapped: the caller never returns, so DriverEntry does
\* not end, or the client's handle is never closed.
CapturedKeepsImage == (step = "captured" \/ captured # {}) => image # "absent"

\* A driver that is up has its device, its link and both VMX regions: a
\* refused region passes for a success, but the machine then stops before
\* DriverEntry returns.
LoadedIsUsable ==
    image = "loaded" => deviceObject /\ dosDeviceName /\ RegionsPresent

\* A load that fails leaves nothing behind: no block that was not there
\* before, no device, and no link unless the system kept an earlier load's.
FailedLoadUndone ==
    (image = "absent" /\ ~NT_SUCCESS(status))
        => heap = before /\ ~deviceObject /\ (dosDeviceName => refused)

\* The link that an unloaded driver leaves behind, which names a device that
\* is gone, stands in the way of a later load exactly when the system refuses to
\* delete it: only then does a name collide, and always then.
NoNameCollision ==
    /\ status = STATUS_OBJECT_NAME_COLLISION => refused
    /\ refused => status = STATUS_OBJECT_NAME_COLLISION /\ loads > 1

\* FreeProcessorContext is never called: no failure after the allocation of
\* the context is one that the cleanup label recognises.
ContextNeverFreed == (step = "cleanup" /\ kProcessorContext = "context") => NT_SUCCESS(status)

\* What a load allocates for the processor context, and whether the last load
\* succeeded and its driver has been unloaded again.
ContextBlocks == {"processorContext", "pdpte_entries", "pde_entries"}
                    \cup {f \in Fields : field[f] = "memory"}
Unloaded      == image = "absent" /\ kGuypervisor = "device" /\ NT_SUCCESS(status)

\* Unloading gives back the Device block alone: each load that succeeds costs
\* the context, its fields and two tables, until the machine restarts.
UnloadLeaksContext ==
    Unloaded => heap = Allocated(before, ContextBlocks)

\* A load ends: the driver is up or unmapped, or DriverEntry is captured with
\* its processor, or the machine stops.
LoadEnds == image = "loading" ~> (image # "loading" \/ step = "captured" \/ crash # "none")

\* Why these hold, as one inductive invariant.  Clients hold the device only
\* while the image is loaded, and a captured one is inside its call.
ClientsInside ==
    /\ image # "loaded" => ~unloading /\ captured = {} /\ \A p \in Clients : client[p] = "closed"
    /\ \A p \in captured : client[p] = "calling"
    /\ image = "loading" <=> step # "none"

\* What DriverEntry has made so far, and which of its steps can have failed.
EntryProgress ==
    /\ image = "absent" \/ step \in {"cpu", "device", "init"} => ~deviceObject
    /\ step \in {"cpu", "device"} => kGuypervisor = "null"
    /\ step \in {"init", "symlink", "context", "regions", "ept", "enter", "captured"}
           => kGuypervisor = "device"
    /\ step \in {"symlink", "context", "regions", "ept", "enter", "captured"} => deviceObject
    /\ step \in {"context", "regions", "ept", "enter", "captured"} => dosDeviceName
    /\ step \in {"cpu", "device", "init", "symlink", "context"} => kProcessorContext = "null"
    /\ step \notin {"cleanup", "return", "none"} => NT_SUCCESS(status)
    /\ (step \in {"cleanup", "return"} \/ image = "loaded") /\ NT_SUCCESS(status)
           => deviceObject /\ dosDeviceName /\ RegionsPresent /\ kGuypervisor = "device"
    /\ image = "loaded" => NT_SUCCESS(status)
    /\ step \in {"cleanup", "return"} /\ ~NT_SUCCESS(status) => kProcessorContext = "null"
    /\ step = "cleanup" /\ ~NT_SUCCESS(status) =>
          IF kGuypervisor = "null" THEN ~deviceObject /\ ~SupportsVtxOperation(machine.ecx)
                                   ELSE deviceObject => (dosDeviceName => refused)
    /\ step = "return" /\ ~NT_SUCCESS(status) =>
          ~deviceObject /\ (crash = "none" /\ dosDeviceName => refused)
    /\ image = "absent" /\ ~NT_SUCCESS(status) /\ dosDeviceName => refused
    /\ dosDeviceName \/ kGuypervisor = "device" \/ step = "device"
          => SupportsVtxOperation(machine.ecx)
    /\ dosDeviceName \/ image # "absent" => loads > 0
    /\ dosDeviceName /\ step \in {"cpu", "device", "init", "symlink"} => loads > 1

\* The blocks that this load holds, on top of those of earlier loads.
Held ==
    CASE step \in {"cpu", "device"}                -> {}
      [] step \in {"init", "symlink", "context"}   -> {"Device"}
      [] step = "regions"                          -> {"Device", "processorContext"}
      [] step = "ept"                              -> {"Device", "processorContext"} \cup {f \in Fields : field[f] = "memory"}
      [] step \in {"enter", "captured"}            -> {"Device"} \cup ContextBlocks
      [] step \in {"cleanup", "return"} /\ NT_SUCCESS(status) -> {"Device"} \cup ContextBlocks
      [] step = "cleanup" /\ ~NT_SUCCESS(status)   -> IF kGuypervisor = "null" THEN {} ELSE {"Device"}
      [] step = "return" /\ ~NT_SUCCESS(status)    -> {}
      [] OTHER -> IF image = "loaded" THEN {"Device"} \cup ContextBlocks
                  ELSE IF Unloaded THEN ContextBlocks ELSE {}

\* The pool holds what it held before the load, and this load's blocks.
HeapAccounted == heap = Allocated(before, Held)

\* The inductive invariant of DriverLifecycleProofs.
LifecycleInv == ClientsInside /\ EntryProgress /\ HeapAccounted

\* What comments and messages of the source say, and what the code does not do.

\* VendorIsIntel "Looks for GenuineIntel string": there is a device only on Intel.
OnlyOnIntel == deviceObject => machine.vendor = kVendorName

\* SupportsVtxOperation: "If CPUID.1:ECX.VMX[bit 5] = 1, then VMX operation is
\* supported", so there is a device only where that bit is set.
OnlyWithVmx == deviceObject => VmxBit \in machine.ecx

\* A failed InitializeProcessorContext goes to cleanup, with the error of a
\* "Memory allocation failure": the EPT is built only if both regions exist.
AllocationFailureStops == step = "ept" => RegionsPresent

\* GeneralHandlerIRP is there to "Handle the rest" of the major functions.
RestHandled == image = "loaded" => \A i \in Majors : majors[i] # "default"
=============================================================================
