------------------------ MODULE DriverLifecycleProofs ------------------------
(***************************************************************************)
(* Theorems about DriverLifecycle, for any clients, any bound on the loads *)
(* and any set of operations that may fail.                                *)
(***************************************************************************)
EXTENDS DriverLifecycle, TLAPS

(* The NTSTATUS constants that DriverEntry uses, as numbers.               *)
LEMMA LifecycleCodes ==
    /\ STATUS_SUCCESS = 0
    /\ NT_ERROR(STATUS_FAILED_TO_ALLOCATE_MEMORY) = 0
    /\ STATUS_FAILED_TO_ALLOCATE_MEMORY = 1
    /\ STATUS_NOT_SUPPORTED \in Int /\ STATUS_NOT_SUPPORTED < 0
    /\ STATUS_INSUFFICIENT_RESOURCES \in Int /\ STATUS_INSUFFICIENT_RESOURCES < 0
    /\ STATUS_OBJECT_NAME_COLLISION \in Int /\ STATUS_OBJECT_NAME_COLLISION < 0
    /\ STATUS_NOT_SUPPORTED # STATUS_OBJECT_NAME_COLLISION
    /\ STATUS_INSUFFICIENT_RESOURCES # STATUS_OBJECT_NAME_COLLISION
BY SMT DEF STATUS_SUCCESS, STATUS_FAILED_TO_ALLOCATE_MEMORY, CustomStatus, NT_ERROR,
           BASE_ERROR, STATUS_NOT_SUPPORTED, STATUS_INSUFFICIENT_RESOURCES,
           STATUS_OBJECT_NAME_COLLISION

(* An allocation that fails is reported as a success, whichever it is.     *)
LEMMA FillSucceeds == \A got : FillStatus(got) \in {0, 1}
BY LifecycleCodes DEF FillStatus

(* The vendor check accepts every processor: the part of the vendor string *)
(* that it compares first is never the one it compares it with.            *)
THEOREM EveryVendorAccepted ==
    ASSUME NEW m \in Machines, NEW stack
    PROVE  VendorIsIntel(m.vendor, stack)
<1>1. m.vendor[3] \in {"ntel", "cAMD"}
      BY DEF Machines, kVendorName, AmdVendor
<1>2. VendorString(m.vendor, stack)[1] # "Genu"
      BY <1>1 DEF VendorString
<1>3. kVendorName[1] = "Genu"
      BY DEF kVendorName
<1> QED BY <1>2, <1>3 DEF VendorIsIntel

-----------------------------------------------------------------------------
(* Counting blocks. *)

(* Counting an allocation keeps the counts natural numbers.                *)
LEMMA AllocatedType ==
    ASSUME NEW h \in [Blocks -> Nat], NEW A
    PROVE  Allocated(h, A) \in [Blocks -> Nat]
BY DEF Allocated

(* Allocating no block changes nothing.                                    *)
LEMMA AllocatedNothing ==
    ASSUME NEW h \in [Blocks -> Nat]
    PROVE  h = Allocated(h, {})
BY DEF Allocated

(* Two allocations of different blocks are one of both.                    *)
LEMMA AllocatedTwice ==
    ASSUME NEW h \in [Blocks -> Nat], NEW A, NEW B, A \cap B = {}
    PROVE  Allocated(Allocated(h, A), B) = Allocated(h, A \cup B)
BY DEF Allocated

(* Freeing some of the blocks just allocated leaves the others.            *)
LEMMA FreedAllocated ==
    ASSUME NEW h \in [Blocks -> Nat], NEW A, NEW B, A \cap B = {}
    PROVE  Freed(Allocated(h, A \cup B), A) = Allocated(h, B)
BY DEF Allocated, Freed

-----------------------------------------------------------------------------
(* Types. *)

(* AddFunctions fills the dispatch table with handlers.                    *)
LEMMA HandlerTypes == AddFunctions \in [Majors -> Handlers]
<1>1. \A i \in Majors : AddFunctions[i] \in Handlers
      BY DEF AddFunctions, Handlers
<1> QED BY <1>1 DEF AddFunctions

(* InitializeProcessorContext leaves each field in one of its states.      *)
LEMMA FillTypes == \A got : Fill(got) \in [Fields -> {"garbage", "null", "memory"}]
BY DEF Fill

(* The initial states are typed.                                           *)
LEMMA InitTypes == Init => TypeOK
<1> SUFFICES ASSUME Init PROVE TypeOK
    OBVIOUS
<1>1. heap \in [Blocks -> Nat] /\ before \in [Blocks -> Nat] /\ loads \in 0 .. MaxLoads
      BY LoadsAssumption DEF Init
<1>2. /\ field \in [Fields -> {"garbage", "null", "memory"}]
      /\ majors \in [Majors -> Handlers]
      /\ client \in [Clients -> {"closed", "open", "calling"}]
      BY DEF Init, Handlers
<1>3. step \in Steps /\ crash \in Causes /\ captured \subseteq Clients
      BY DEF Init, Steps, Causes
<1> QED BY <1>1, <1>2, <1>3 DEF Init, TypeOK

(* A bug check keeps the types.                                            *)
LEMMA BugcheckTypes ==
    ASSUME TypeOK, NEW cause \in Causes, Bugcheck(cause)
    PROVE  TypeOK'
BY DEF TypeOK, Bugcheck, entryVars, ioVars, memoryVars

(* What the two deletions of the device leave on the heap.                 *)
LEMMA CleanupHeap ==
    ASSUME TypeOK, LifecycleInv, Cleanup
    PROVE  heap' = Allocated(before, IF NT_SUCCESS(status) THEN {"Device"} \cup ContextBlocks ELSE {})
<1>1. step = "cleanup" /\ image = "loading" /\ heap = Allocated(before, Held)
      BY DEF Cleanup, At, LifecycleInv, HeapAccounted
<1>2. CASE NT_SUCCESS(status)
  <2>1. heap' = heap
        BY <1>2 DEF Cleanup
  <2>2. Held = {"Device"} \cup ContextBlocks
        BY <1>1, <1>2 DEF Held
  <2> QED BY <1>1, <1>2, <2>1, <2>2
<1>3. CASE ~NT_SUCCESS(status)
  <2>1. kProcessorContext = "null"
        BY <1>1, <1>3 DEF LifecycleInv, EntryProgress
  <2>2. heap' = IF kGuypervisor = "device" THEN Freed(heap, {"Device"}) ELSE heap
        BY <1>3, <2>1 DEF Cleanup
  <2>3. Held = IF kGuypervisor = "null" THEN {} ELSE {"Device"}
        BY <1>1, <1>3 DEF Held
  <2>4. Freed(Allocated(before, {"Device"} \cup {}), {"Device"}) = Allocated(before, {})
        BY FreedAllocated DEF TypeOK
  <2>5. {"Device"} \cup {} = {"Device"}
        OBVIOUS
  <2> QED BY <1>1, <1>3, <2>2, <2>3, <2>4, <2>5 DEF TypeOK
<1> QED BY <1>2, <1>3

(* DriverUnload frees a Device block that is there.                        *)
LEMMA UnloadHeap ==
    ASSUME TypeOK, LifecycleInv, DriverUnload
    PROVE  /\ image = "loaded" /\ step = "none" /\ NT_SUCCESS(status)
           /\ heap' = Allocated(before, ContextBlocks)
<1>1. image = "loaded" /\ step = "none" /\ NT_SUCCESS(status)
      BY DEF DriverUnload, LifecycleInv, ClientsInside, EntryProgress, TypeOK
<1>2. heap = Allocated(before, {"Device"} \cup ContextBlocks)
      BY <1>1 DEF LifecycleInv, HeapAccounted, Held
<1>3. {"Device"} \cap ContextBlocks = {}
      BY DEF ContextBlocks, Fields
<1>4. Freed(Allocated(before, {"Device"} \cup ContextBlocks), {"Device"})
         = Allocated(before, ContextBlocks)
      BY <1>3, FreedAllocated DEF TypeOK
<1> QED BY <1>1, <1>2, <1>4 DEF DriverUnload

(* Every step keeps the types, given the invariant.                        *)
LEMMA NextTypes == TypeOK /\ LifecycleInv /\ [Next]_vars => TypeOK'
<1> SUFFICES ASSUME TypeOK, LifecycleInv, [Next]_vars PROVE TypeOK'
    OBVIOUS
<1> USE DEF TypeOK
<1>0. \A c \in {"null", "wild", "free", "handler"} : Bugcheck(c) => TypeOK'
      BY BugcheckTypes DEF Causes
<1>1. CASE Load
  <2>1. majors' \in [Majors -> Handlers]
        BY <1>1 DEF Load, Handlers
  <2>2. loads' \in 0 .. MaxLoads
        BY <1>1, LoadsAssumption DEF Load
  <2>3. refused' \in BOOLEAN
        BY <1>1 DEF Load
  <2> QED BY <1>1, <2>1, <2>2, <2>3 DEF Load, Steps
<1>2. CASE CheckProcessor
      BY <1>2 DEF CheckProcessor, At, CheckStatus, ioVars, memoryVars, Steps
<1>3. CASE NewDevice
      BY <1>3, <1>0, AllocatedType DEF NewDevice, At, ioVars, Steps
<1>4. CASE InitDevice
      BY <1>4, HandlerTypes
      DEF InitDevice, At, CheckStatus, CreateResults, memoryVars, Steps
<1>5. CASE CreateSymlink
      BY <1>5 DEF CreateSymlink, At, CheckStatus, CreateResults, memoryVars, Steps
<1>6. CASE NewProcessorContext
      BY <1>6, <1>0, AllocatedType DEF NewProcessorContext, At, ioVars, Steps
<1>7. CASE InitializeProcessorContext
  <2>1. PICK got \in SUBSET Fields :
           \/ Bugcheck("null")
           \/ /\ field' = Fill(got)
              /\ heap' = Allocated(heap, {f \in Fields : field'[f] = "memory"})
              /\ CheckStatus(FillStatus(got), "ept")
              /\ UNCHANGED <<machine, image, kGuypervisor, kProcessorContext, ioVars,
                             before, loads, unloading, client, captured, crash>>
        BY <1>7 DEF InitializeProcessorContext
  <2>2. CASE Bugcheck("null")
        BY <2>2, <1>0
  <2>3. CASE ~Bugcheck("null")
        BY <2>1, <2>3, FillTypes, FillSucceeds, AllocatedType, LifecycleCodes
        DEF CheckStatus, ioVars, Steps
  <2> QED BY <2>2, <2>3
<1>8. CASE InitializeEPT
  <2>1. \/ Bugcheck("null") \/ Bugcheck("wild")
        \/ /\ heap' = Allocated(heap, {"pdpte_entries", "pde_entries"})
           /\ CheckStatus(STATUS_SUCCESS, "enter")
           /\ UNCHANGED <<machine, image, kGuypervisor, kProcessorContext, field, ioVars,
                          before, loads, unloading, client, captured, crash>>
        BY <1>8 DEF InitializeEPT
  <2> QED BY <2>1, <1>0, AllocatedType DEF CheckStatus, ioVars, Steps
<1>9. CASE CallEnterVmx
      BY <1>9, <1>0 DEF CallEnterVmx, At, ioVars, memoryVars, Steps
<1>10. CASE Cleanup
  <2>1. heap' \in [Blocks -> Nat]
        BY <1>10, CleanupHeap, AllocatedType
  <2> QED BY <1>10, <2>1 DEF Cleanup, At, Causes, Steps
<1>11. CASE ReturnFromEntry
       BY <1>11 DEF ReturnFromEntry, At, ioVars, memoryVars, Steps
<1>12. ASSUME NEW p \in Clients, Open(p) \/ Close(p) \/ DeviceIoControl(p)
       PROVE  TypeOK'
       BY <1>12 DEF Open, Close, DeviceIoControl, clientFrame, entryVars, ioVars, memoryVars
<1>13. ASSUME NEW p \in Clients, IOCTLHandlerIRP(p)
       PROVE  TypeOK'
       BY <1>13, <1>0 DEF IOCTLHandlerIRP, clientFrame, entryVars, ioVars, memoryVars
<1>14. CASE RequestUnload
       BY <1>14 DEF RequestUnload, entryVars, ioVars, memoryVars
<1>15. CASE DriverUnload
  <2>1. heap' \in [Blocks -> Nat]
        BY <1>15, UnloadHeap, AllocatedType
  <2> QED BY <1>15, <2>1 DEF DriverUnload, entryVars
<1>16. CASE UNCHANGED vars
       BY <1>16 DEF vars, entryVars, ioVars, memoryVars
<1> HIDE DEF TypeOK
<1> QED BY <1>1, <1>2, <1>3, <1>4, <1>5, <1>6, <1>7, <1>8, <1>9, <1>10, <1>11, <1>12,
           <1>13, <1>14, <1>15, <1>16
        DEF Next, DriverEntry, Request

-----------------------------------------------------------------------------
(* The invariant. *)

(* The invariant holds before the first load.                              *)
LEMMA InitLifecycle == Init => LifecycleInv
<1> SUFFICES ASSUME Init PROVE LifecycleInv
    OBVIOUS
<1>1. ClientsInside
      BY DEF Init, ClientsInside
<1>2. EntryProgress
      BY LifecycleCodes DEF Init, EntryProgress, NT_SUCCESS
<1>3. HeapAccounted
  <2>1. Held = {} /\ heap = before /\ heap \in [Blocks -> Nat]
        BY DEF Init, Held, Unloaded
  <2> QED BY <2>1, AllocatedNothing DEF HeapAccounted
<1> QED BY <1>1, <1>2, <1>3 DEF LifecycleInv

(* A step that DriverEntry has no part in, and a bug check.                *)
LEMMA EntryFrame ==
    ASSUME EntryProgress, HeapAccounted,
           UNCHANGED <<machine, image, step, status, kGuypervisor, kProcessorContext, field,
                       deviceObject, dosDeviceName, refused, heap, before, loads>>,
           crash' # "none" \/ crash' = crash
    PROVE  EntryProgress' /\ HeapAccounted'
<1>1. EntryProgress'
      BY DEF EntryProgress, RegionsPresent
<1>2. HeapAccounted'
      BY DEF HeapAccounted, Held, ContextBlocks, Unloaded, Allocated
<1> QED BY <1>1, <1>2

(* A bug check keeps the invariant.                                        *)
LEMMA BugcheckLifecycle ==
    ASSUME LifecycleInv, NEW cause \in {"null", "wild", "free", "handler"}, Bugcheck(cause)
    PROVE  LifecycleInv'
<1>1. UNCHANGED <<machine, image, step, status, kGuypervisor, kProcessorContext, field,
                  deviceObject, dosDeviceName, refused, heap, before, loads, unloading, client, captured>>
      BY DEF Bugcheck, entryVars, ioVars, memoryVars
<1>2. crash' # "none"
      BY DEF Bugcheck
<1>3. EntryProgress' /\ HeapAccounted'
      BY <1>1, <1>2, EntryFrame DEF LifecycleInv
<1>4. ClientsInside'
      BY <1>1 DEF LifecycleInv, ClientsInside
<1> QED BY <1>3, <1>4 DEF LifecycleInv

(* Steps of DriverEntry between its first and its last do not concern the  *)
(* clients.                                                                *)
LEMMA EntryClients ==
    ASSUME LifecycleInv, image = "loading", image' = "loading", step' # "none",
           UNCHANGED <<unloading, client, captured>>
    PROVE  ClientsInside'
BY DEF LifecycleInv, ClientsInside

(* A step that allocates more blocks keeps the account.                    *)
LEMMA HeapGrows ==
    ASSUME TypeOK, HeapAccounted, NEW more, Held \cap more = {}, before' = before,
           heap' = Allocated(heap, more), Held' = Held \cup more
    PROVE  HeapAccounted'
<1>1. Allocated(Allocated(before, Held), more) = Allocated(before, Held \cup more)
      BY AllocatedTwice DEF TypeOK
<1>2. heap' = Allocated(before, Held \cup more)
      BY <1>1 DEF HeapAccounted
<1>3. Allocated(before', Held') = Allocated(before, Held \cup more)
      BY DEF Allocated
<1> QED BY <1>2, <1>3 DEF HeapAccounted

(* A step that allocates nothing keeps the account.                        *)
LEMMA HeapKept ==
    ASSUME HeapAccounted, before' = before, heap' = heap, Held' = Held
    PROVE  HeapAccounted'
<1>1. Allocated(before', Held') = Allocated(before, Held)
      BY DEF Allocated
<1> QED BY <1>1 DEF HeapAccounted

(* What CreateSymlink comes to: a new link, none, or the old one.          *)
LEMMA SymlinkOutcomes ==
    ASSUME TypeOK, CreateSymlink
    PROVE  \/ /\ step' = "context" /\ status' = STATUS_SUCCESS
              /\ dosDeviceName' /\ ~refused'
           \/ /\ step' = "cleanup" /\ status' = STATUS_INSUFFICIENT_RESOURCES
              /\ ~dosDeviceName' /\ ~refused'
           \/ /\ step' = "cleanup" /\ status' = STATUS_OBJECT_NAME_COLLISION
              /\ dosDeviceName /\ dosDeviceName' /\ refused'
<1>1. PICK deleted \in BOOLEAN :
         /\ refused' = (dosDeviceName /\ ~deleted)
         /\ \E s \in CreateResults("IoCreateSymbolicLink", dosDeviceName /\ ~deleted) :
               /\ dosDeviceName' = ((dosDeviceName /\ ~deleted) \/ s = STATUS_SUCCESS)
               /\ CheckStatus(s, "context")
      BY DEF CreateSymlink, Allocations
<1>2. CASE dosDeviceName /\ ~deleted
  <2>1. CheckStatus(STATUS_OBJECT_NAME_COLLISION, "context")
        BY <1>1, <1>2 DEF CreateResults
  <2>2. refused' /\ dosDeviceName'
        BY <1>1, <1>2
  <2> QED BY <1>2, <2>1, <2>2, LifecycleCodes DEF CheckStatus, NT_SUCCESS
<1>3. CASE ~(dosDeviceName /\ ~deleted)
  <2>1. PICK s \in {STATUS_SUCCESS, STATUS_INSUFFICIENT_RESOURCES} :
           /\ dosDeviceName' = (s = STATUS_SUCCESS)
           /\ CheckStatus(s, "context")
        BY <1>1, <1>3 DEF CreateResults
  <2>2. ~refused'
        BY <1>1, <1>3
  <2>3. CASE s = STATUS_SUCCESS
    <3>1. dosDeviceName'
          BY <2>1, <2>3
    <3> QED BY <2>1, <2>2, <2>3, <3>1, LifecycleCodes DEF CheckStatus, NT_SUCCESS
  <2>4. CASE s = STATUS_INSUFFICIENT_RESOURCES
    <3>0. s # STATUS_SUCCESS
          BY <2>4, LifecycleCodes
    <3>1. ~dosDeviceName'
          BY <2>1, <3>0
    <3> QED BY <2>1, <2>2, <2>4, <3>1, LifecycleCodes DEF CheckStatus, NT_SUCCESS
  <2> QED BY <2>1, <2>3, <2>4
<1> QED BY <1>2, <1>3

(* Every step keeps the invariant.                                         *)
LEMMA NextLifecycle ==
    ASSUME TypeOK, LifecycleInv, [Next]_vars
    PROVE  LifecycleInv'
<1>0. ClientsInside /\ EntryProgress /\ HeapAccounted
      BY DEF LifecycleInv
<1>1. CASE Load
  <2>1. ClientsInside'
        BY <1>0, <1>1 DEF Load, ClientsInside
  <2>2. EntryProgress'
    <3>1. /\ step' = "cpu" /\ image' = "loading" /\ image = "absent"
          /\ status' = STATUS_SUCCESS
          /\ kGuypervisor' = "null" /\ kProcessorContext' = "null" /\ loads' = loads + 1
          /\ UNCHANGED <<machine, deviceObject, dosDeviceName>>
          BY <1>1 DEF Load
    <3>2. loads \in Nat
          BY DEF TypeOK
    <3> QED BY <1>0, <3>1, <3>2, LifecycleCodes DEF EntryProgress, NT_SUCCESS
  <2>3. HeapAccounted'
    <3>1. Held' = {} /\ before' = heap /\ heap' = heap
          BY <1>1 DEF Load, Held
    <3>2. Allocated(before', {}) = Allocated(heap, {})
          BY <3>1 DEF Allocated
    <3> QED BY <3>1, <3>2, AllocatedNothing DEF HeapAccounted, TypeOK
  <2> QED BY <2>1, <2>2, <2>3 DEF LifecycleInv
<1>2. CASE CheckProcessor
  <2>1. /\ step = "cpu" /\ image = "loading" /\ image' = "loading"
        /\ UNCHANGED <<machine, kGuypervisor, kProcessorContext, field, deviceObject,
                       dosDeviceName, refused, heap, before, loads, unloading, client, captured, crash>>
        BY <1>2 DEF CheckProcessor, At, ioVars, memoryVars
  <2>2. \/ /\ step' = "device" /\ status' = STATUS_SUCCESS
           /\ SupportsVtxOperation(machine.ecx)
        \/ /\ step' = "cleanup" /\ status' = STATUS_NOT_SUPPORTED
           /\ ~SupportsVtxOperation(machine.ecx)
    <3>1. PICK stack :
             CheckStatus(IF /\ VendorIsIntel(machine.vendor, stack)
                            /\ SupportsVtxOperation(machine.ecx)
                         THEN STATUS_SUCCESS ELSE STATUS_NOT_SUPPORTED, "device")
          BY <1>2 DEF CheckProcessor
    <3>2. VendorIsIntel(machine.vendor, stack)
          BY EveryVendorAccepted DEF TypeOK
    <3>3. CASE SupportsVtxOperation(machine.ecx)
          BY <3>1, <3>2, <3>3, LifecycleCodes DEF CheckStatus, NT_SUCCESS
    <3>4. CASE ~SupportsVtxOperation(machine.ecx)
          BY <3>1, <3>2, <3>4, LifecycleCodes DEF CheckStatus, NT_SUCCESS
    <3> QED BY <3>3, <3>4
  <2>3. ClientsInside'
        BY <2>1, <2>2, EntryClients
  <2>4. EntryProgress'
        BY <1>0, <2>1, <2>2, LifecycleCodes DEF EntryProgress, NT_SUCCESS
  <2>5. Held' = Held
        BY <1>0, <2>1, <2>2, LifecycleCodes DEF Held, EntryProgress, NT_SUCCESS
  <2>6. HeapAccounted'
        BY <1>0, <2>1, <2>5, HeapKept
  <2> QED BY <2>3, <2>4, <2>6 DEF LifecycleInv
<1>3. CASE NewDevice
  <2>1. CASE Bugcheck("null")
        BY <2>1, BugcheckLifecycle
  <2>2. CASE ~Bugcheck("null")
    <3>1. /\ step = "device" /\ step' = "init" /\ image = "loading"
          /\ kGuypervisor' = "device" /\ heap' = Allocated(heap, {"Device"})
          /\ UNCHANGED <<machine, image, status, kProcessorContext, field, deviceObject,
                         dosDeviceName, refused, before, loads, unloading, client, captured, crash>>
          BY <1>3, <2>2 DEF NewDevice, At, ioVars
    <3>2. ClientsInside'
          BY <3>1, EntryClients
    <3>3. EntryProgress'
          BY <1>0, <3>1 DEF EntryProgress, NT_SUCCESS
    <3>4. Held = {} /\ Held' = {"Device"}
          BY <3>1 DEF Held
    <3>5. HeapAccounted'
          BY <1>0, <3>1, <3>4, HeapGrows
    <3> QED BY <3>2, <3>3, <3>5 DEF LifecycleInv
  <2> QED BY <2>1, <2>2
<1>4. CASE InitDevice
  <2>1. /\ step = "init" /\ image = "loading" /\ ~deviceObject
        /\ UNCHANGED <<machine, image, kGuypervisor, kProcessorContext, field,
                       dosDeviceName, refused, heap, before, loads, unloading, client, captured, crash>>
        BY <1>0, <1>4 DEF InitDevice, At, memoryVars, EntryProgress
  <2>2. \/ step' = "symlink" /\ status' = STATUS_SUCCESS /\ deviceObject'
        \/ step' = "cleanup" /\ status' = STATUS_INSUFFICIENT_RESOURCES /\ ~deviceObject'
    <3>1. PICK s \in {STATUS_SUCCESS, STATUS_INSUFFICIENT_RESOURCES} :
             /\ deviceObject' = (deviceObject \/ s = STATUS_SUCCESS)
             /\ CheckStatus(s, "symlink")
          BY <1>4, <2>1 DEF InitDevice, CreateResults
    <3>2. CASE s = STATUS_SUCCESS
      <4>1. deviceObject'
            BY <3>1, <3>2
      <4> QED BY <3>1, <3>2, <4>1, LifecycleCodes DEF CheckStatus, NT_SUCCESS
    <3>3. CASE s = STATUS_INSUFFICIENT_RESOURCES
      <4>0. s # STATUS_SUCCESS
            BY <3>3, LifecycleCodes
      <4>1. ~deviceObject'
            BY <2>1, <3>1, <4>0
      <4> QED BY <3>1, <3>3, <4>1, LifecycleCodes DEF CheckStatus, NT_SUCCESS
    <3> QED BY <3>2, <3>3
  <2>3. ClientsInside'
        BY <2>1, <2>2, EntryClients
  <2>4. EntryProgress'
        BY <1>0, <2>1, <2>2, LifecycleCodes DEF EntryProgress, NT_SUCCESS
  <2>5. Held' = Held
        BY <1>0, <2>1, <2>2, LifecycleCodes DEF Held, EntryProgress, NT_SUCCESS
  <2>6. HeapAccounted'
        BY <1>0, <2>1, <2>5, HeapKept
  <2> QED BY <2>3, <2>4, <2>6 DEF LifecycleInv
<1>5. CASE CreateSymlink
  <2>1. /\ step = "symlink" /\ image = "loading"
        /\ UNCHANGED <<machine, image, kGuypervisor, kProcessorContext, field,
                       deviceObject, heap, before, loads, unloading, client, captured, crash>>
        BY <1>5 DEF CreateSymlink, At, memoryVars
  <2>2. \/ step' = "context" /\ status' = STATUS_SUCCESS /\ dosDeviceName'
        \/ step' = "cleanup" /\ status' = STATUS_INSUFFICIENT_RESOURCES /\ ~dosDeviceName'
        \/ /\ step' = "cleanup" /\ status' = STATUS_OBJECT_NAME_COLLISION
           /\ dosDeviceName /\ refused'
        BY <1>5, SymlinkOutcomes
  <2>3. ClientsInside'
        BY <2>1, <2>2, EntryClients
  <2>4. EntryProgress'
        BY <1>0, <2>1, <2>2, LifecycleCodes DEF EntryProgress, NT_SUCCESS
  <2>5. Held' = Held
        BY <1>0, <2>1, <2>2, LifecycleCodes DEF Held, EntryProgress, NT_SUCCESS
  <2>6. HeapAccounted'
        BY <1>0, <2>1, <2>5, HeapKept
  <2> QED BY <2>3, <2>4, <2>6 DEF LifecycleInv
<1>6. CASE NewProcessorContext
  <2>1. CASE Bugcheck("null")
        BY <2>1, BugcheckLifecycle
  <2>2. CASE ~Bugcheck("null")
    <3>1. /\ step = "context" /\ step' = "regions" /\ image = "loading"
          /\ kProcessorContext' = "context" /\ heap' = Allocated(heap, {"processorContext"})
          /\ UNCHANGED <<machine, image, status, kGuypervisor, deviceObject,
                         dosDeviceName, refused, before, loads, unloading, client, captured, crash>>
          BY <1>6, <2>2 DEF NewProcessorContext, At, ioVars
    <3>2. ClientsInside'
          BY <3>1, EntryClients
    <3>3. EntryProgress'
          BY <1>0, <3>1 DEF EntryProgress, NT_SUCCESS
    <3>4. Held = {"Device"} /\ Held' = {"Device", "processorContext"}
          BY <3>1 DEF Held
    <3>5. HeapAccounted'
          BY <1>0, <3>1, <3>4, HeapGrows
    <3> QED BY <3>2, <3>3, <3>5 DEF LifecycleInv
  <2> QED BY <2>1, <2>2
<1>7. CASE InitializeProcessorContext
  <2>1. CASE Bugcheck("null")
        BY <2>1, BugcheckLifecycle
  <2>2. CASE ~Bugcheck("null")
    <3>1. /\ step = "regions" /\ image = "loading"
          /\ UNCHANGED <<machine, image, kGuypervisor, kProcessorContext, deviceObject,
                         dosDeviceName, refused, before, loads, unloading, client, captured, crash>>
          /\ heap' = Allocated(heap, {f \in Fields : field'[f] = "memory"})
          BY <1>7, <2>2 DEF InitializeProcessorContext, At, ioVars
    <3>2. step' = "ept" /\ status' \in {0, 1}
      <4>1. PICK got : CheckStatus(FillStatus(got), "ept")
            BY <1>7, <2>2 DEF InitializeProcessorContext
      <4> QED BY <4>1, FillSucceeds DEF CheckStatus, NT_SUCCESS
    <3>3. ClientsInside'
          BY <3>1, <3>2, EntryClients
    <3>4. EntryProgress'
          BY <1>0, <3>1, <3>2 DEF EntryProgress, NT_SUCCESS
    <3>5. /\ Held = {"Device", "processorContext"}
          /\ Held' = {"Device", "processorContext"} \cup {f \in Fields : field'[f] = "memory"}
          BY <3>1, <3>2 DEF Held
    <3>7. Held \cap {f \in Fields : field'[f] = "memory"} = {}
          BY <3>5 DEF Fields
    <3>8. HeapAccounted'
          BY <1>0, <3>1, <3>5, <3>7, HeapGrows
    <3> QED BY <3>3, <3>4, <3>8 DEF LifecycleInv
  <2> QED BY <2>1, <2>2
<1>8. CASE InitializeEPT
  <2>1. CASE Bugcheck("null") \/ Bugcheck("wild")
        BY <2>1, BugcheckLifecycle
  <2>2. CASE ~(Bugcheck("null") \/ Bugcheck("wild"))
    <3>1. /\ step = "ept" /\ step' = "enter" /\ image = "loading" /\ status' = 0
          /\ heap' = Allocated(heap, {"pdpte_entries", "pde_entries"})
          /\ UNCHANGED <<machine, image, kGuypervisor, kProcessorContext, field, deviceObject,
                         dosDeviceName, refused, before, loads, unloading, client, captured, crash>>
          BY <1>8, <2>2, LifecycleCodes DEF InitializeEPT, At, CheckStatus, NT_SUCCESS, ioVars
    <3>2. ClientsInside'
          BY <3>1, EntryClients
    <3>3. EntryProgress'
          BY <1>0, <3>1 DEF EntryProgress, NT_SUCCESS
    <3>4. /\ Held = {"Device", "processorContext"} \cup {f \in Fields : field[f] = "memory"}
          /\ Held' = {"Device"} \cup ContextBlocks'
          BY <3>1 DEF Held
    <3>5. Held \cap {"pdpte_entries", "pde_entries"} = {}
          BY <3>4 DEF Fields
    <3>6. Held' = Held \cup {"pdpte_entries", "pde_entries"}
          BY <3>1, <3>4 DEF ContextBlocks
    <3>8. HeapAccounted'
          BY <1>0, <3>1, <3>5, <3>6, HeapGrows
    <3> QED BY <3>2, <3>3, <3>8 DEF LifecycleInv
  <2> QED BY <2>1, <2>2
<1>9. CASE CallEnterVmx
  <2>1. CASE Bugcheck("handler")
        BY <2>1, BugcheckLifecycle
  <2>2. CASE ~Bugcheck("handler")
    <3>1. /\ step = "enter" /\ image = "loading" /\ step' \in {"captured", "cleanup"}
          /\ UNCHANGED <<machine, image, status, kGuypervisor, kProcessorContext, field,
                         deviceObject, dosDeviceName, refused, heap, before, loads, unloading, client,
                         captured, crash>>
          /\ RegionsPresent
      <4>1. PICK outcome \in EnterOutcomes :
               /\ outcome # "crash"
               /\ step' = IF outcome = "captured" THEN "captured" ELSE "cleanup"
               /\ UNCHANGED <<machine, image, status, kGuypervisor, kProcessorContext, field,
                              ioVars, memoryVars, loads, unloading, client, captured, crash>>
            BY <1>9, <2>2 DEF CallEnterVmx
      <4>2. RegionsPresent
            BY <4>1 DEF EnterOutcomes
      <4> QED BY <1>9, <4>1, <4>2 DEF CallEnterVmx, At, ioVars, memoryVars
    <3>2. ClientsInside'
          BY <3>1, EntryClients
    <3>3. EntryProgress'
          BY <1>0, <3>1 DEF EntryProgress, NT_SUCCESS, RegionsPresent
    <3>4. NT_SUCCESS(status) /\ NT_SUCCESS(status')
          BY <1>0, <3>1 DEF EntryProgress
    <3>5. Held = {"Device"} \cup ContextBlocks /\ Held' = {"Device"} \cup ContextBlocks'
          BY <3>1, <3>4 DEF Held
    <3>6. ContextBlocks' = ContextBlocks
          BY <3>1 DEF ContextBlocks
    <3>7. HeapAccounted'
          BY <1>0, <3>1, <3>5, <3>6, HeapKept
    <3> QED BY <3>2, <3>3, <3>7 DEF LifecycleInv
  <2> QED BY <2>1, <2>2
<1>10. CASE Cleanup
  <2>1. /\ step = "cleanup" /\ step' = "return" /\ image = "loading" /\ crash = "none"
        /\ UNCHANGED <<machine, image, status, kGuypervisor, kProcessorContext, field,
                       dosDeviceName, refused, before, loads, unloading, client, captured>>
        BY <1>10 DEF Cleanup, At
  <2>2. ClientsInside'
        BY <1>0, <2>1, EntryClients
  <2>3. CASE NT_SUCCESS(status)
    <3>1. deviceObject /\ deviceObject' /\ crash' = "none" /\ RegionsPresent
          BY <1>0, <1>10, <2>1, <2>3 DEF Cleanup, EntryProgress
    <3>2. EntryProgress'
          BY <1>0, <2>1, <2>3, <3>1 DEF EntryProgress, NT_SUCCESS, RegionsPresent
    <3>3. Held' = {"Device"} \cup ContextBlocks'
          BY <2>1, <2>3 DEF Held
    <3>4. ContextBlocks' = ContextBlocks
          BY <2>1 DEF ContextBlocks
    <3>5. heap' = Allocated(before, Held')
          BY <1>10, <2>3, <3>3, <3>4, CleanupHeap
    <3>6. HeapAccounted'
          BY <2>1, <3>5 DEF HeapAccounted, Allocated
    <3> QED BY <2>2, <3>2, <3>6 DEF LifecycleInv
  <2>4. CASE ~NT_SUCCESS(status)
    <3>1. ~deviceObject'
      <4>1. CASE kGuypervisor = "null"
            BY <1>0, <1>10, <2>1, <2>4, <4>1 DEF Cleanup, EntryProgress
      <4>2. CASE kGuypervisor = "device"
            BY <1>10, <2>4, <4>2 DEF Cleanup
      <4> QED BY <4>1, <4>2 DEF TypeOK
    <3>2. crash' = "none" /\ dosDeviceName => refused
      <4>1. CASE kGuypervisor = "null"
            BY <1>0, <2>1, <2>4, <4>1 DEF EntryProgress
      <4>2. CASE kGuypervisor = "device" /\ deviceObject
            BY <1>0, <2>1, <2>4, <4>2 DEF EntryProgress
      <4>3. CASE kGuypervisor = "device" /\ ~deviceObject
            BY <1>10, <2>4, <4>3 DEF Cleanup
      <4> QED BY <4>1, <4>2, <4>3 DEF TypeOK
    <3>3. EntryProgress'
          BY <1>0, <2>1, <2>4, <3>1, <3>2 DEF EntryProgress, NT_SUCCESS
    <3>4. Held' = {}
          BY <2>1, <2>4 DEF Held
    <3>5. heap' = Allocated(before, {})
          BY <1>10, <2>4, CleanupHeap
    <3>6. HeapAccounted'
          BY <2>1, <3>4, <3>5 DEF HeapAccounted, Allocated
    <3> QED BY <2>2, <3>3, <3>6 DEF LifecycleInv
  <2> QED BY <2>3, <2>4
<1>11. CASE ReturnFromEntry
  <2>1. /\ step = "return" /\ step' = "none" /\ image = "loading" /\ crash = "none"
        /\ image' = IF NT_SUCCESS(status) THEN "loaded" ELSE "absent"
        /\ UNCHANGED <<machine, status, kGuypervisor, kProcessorContext, field, deviceObject,
                       dosDeviceName, refused, heap, before, loads, unloading, client, captured, crash>>
        BY <1>11 DEF ReturnFromEntry, At, ioVars, memoryVars
  <2>2. ClientsInside'
        BY <1>0, <2>1 DEF ClientsInside
  <2>3. EntryProgress'
        BY <1>0, <2>1 DEF EntryProgress, NT_SUCCESS, RegionsPresent
  <2>4. Held' = Held
        BY <2>1 DEF Held, ContextBlocks, Unloaded, NT_SUCCESS
  <2>5. HeapAccounted'
        BY <1>0, <2>1, <2>4, HeapKept
  <2> QED BY <2>2, <2>3, <2>5 DEF LifecycleInv
<1>12. ASSUME NEW p \in Clients, Request(p)
       PROVE  LifecycleInv'
  <2>1. CASE Bugcheck("handler")
        BY <2>1, BugcheckLifecycle
  <2>2. CASE ~Bugcheck("handler")
    <3>1. UNCHANGED <<clientFrame, crash>> /\ image = "loaded"
      <4>1. image # "loaded" => client[p] = "closed"
            BY <1>0 DEF ClientsInside
      <4> QED BY <1>12, <2>2, <4>1
              DEF Request, Open, Close, DeviceIoControl, IOCTLHandlerIRP
    <3>2. \A q \in captured' : client'[q] = "calling"
          BY <1>0, <1>12, <2>2
          DEF Request, Open, Close, DeviceIoControl, IOCTLHandlerIRP, ClientsInside, TypeOK
    <3>3. ClientsInside'
          BY <1>0, <3>1, <3>2 DEF ClientsInside, clientFrame, entryVars
    <3>4. EntryProgress' /\ HeapAccounted'
          BY <1>0, <3>1, EntryFrame DEF clientFrame, entryVars, ioVars, memoryVars
    <3> QED BY <3>3, <3>4 DEF LifecycleInv
  <2> QED BY <2>1, <2>2
<1>13. CASE RequestUnload
  <2>1. EntryProgress' /\ HeapAccounted'
        BY <1>0, <1>13, EntryFrame DEF RequestUnload, entryVars, ioVars, memoryVars
  <2>2. ClientsInside'
        BY <1>0, <1>13 DEF RequestUnload, ClientsInside, entryVars
  <2> QED BY <2>1, <2>2 DEF LifecycleInv
<1>14. CASE DriverUnload
  <2>1. /\ image = "loaded" /\ step = "none" /\ NT_SUCCESS(status)
        /\ heap' = Allocated(before, ContextBlocks)
        BY <1>14, UnloadHeap
  <2>2. /\ image' = "absent" /\ unloading' = FALSE /\ deviceObject' = FALSE
        /\ UNCHANGED <<machine, step, status, kGuypervisor, kProcessorContext, field,
                       dosDeviceName, refused, before, loads, client, captured, crash>>
        /\ \A p \in Clients : client[p] = "closed"
        BY <1>14 DEF DriverUnload, entryVars
  <2>3. ClientsInside'
        BY <1>0, <2>1, <2>2 DEF ClientsInside, TypeOK
  <2>4. EntryProgress'
        BY <1>0, <2>1, <2>2 DEF EntryProgress, NT_SUCCESS, RegionsPresent
  <2>5. Held' = ContextBlocks
        BY <1>0, <2>1, <2>2 DEF Held, Unloaded, ContextBlocks, EntryProgress, NT_SUCCESS
  <2>6. HeapAccounted'
        BY <2>1, <2>2, <2>5 DEF HeapAccounted, Allocated
  <2> QED BY <2>3, <2>4, <2>6 DEF LifecycleInv
<1>15. CASE UNCHANGED vars
  <2>1. EntryProgress' /\ HeapAccounted'
        BY <1>0, <1>15, EntryFrame DEF vars, entryVars, ioVars, memoryVars
  <2>2. ClientsInside'
        BY <1>0, <1>15 DEF vars, ClientsInside, entryVars
  <2> QED BY <2>1, <2>2 DEF LifecycleInv
<1> QED BY <1>1, <1>2, <1>3, <1>4, <1>5, <1>6, <1>7, <1>8, <1>9, <1>10, <1>11, <1>12,
           <1>13, <1>14, <1>15
        DEF Next, DriverEntry

-----------------------------------------------------------------------------
(* Theorems. *)

(* Every reachable state has its types and satisfies the invariant.        *)
THEOREM LifecycleInvariant == Spec => [](TypeOK /\ LifecycleInv)
<1>1. Init => TypeOK /\ LifecycleInv
      BY InitTypes, InitLifecycle
<1>2. TypeOK /\ LifecycleInv /\ [Next]_vars => (TypeOK /\ LifecycleInv)'
      BY NextTypes, NextLifecycle
<1> QED BY <1>1, <1>2, PTL DEF Spec

(* Types: no number of a block's allocations is ever negative, that is,    *)
(* the driver frees nothing twice.                                         *)
THEOREM LifecycleTypes == Spec => []TypeOK
BY LifecycleInvariant, PTL

(* The image with vmexit_handler stays mapped under a captured processor.  *)
THEOREM ImageKept == Spec => []CapturedKeepsImage
<1>1. TypeOK /\ LifecycleInv => CapturedKeepsImage
      BY DEF LifecycleInv, ClientsInside, CapturedKeepsImage
<1> QED BY <1>1, LifecycleInvariant, PTL

(* A driver that is up has all that EnterVmxHandler needs.                 *)
THEOREM UsableWhenLoaded == Spec => []LoadedIsUsable
<1>1. TypeOK /\ LifecycleInv => LoadedIsUsable
      BY DEF LifecycleInv, EntryProgress, LoadedIsUsable
<1> QED BY <1>1, LifecycleInvariant, PTL

(* A load that fails without stopping the machine leaves nothing behind    *)
(* but a link that the system refused to delete.                           *)
THEOREM FailureUndone == Spec => []FailedLoadUndone
<1>1. ASSUME TypeOK, LifecycleInv, image = "absent", ~NT_SUCCESS(status)
      PROVE  heap = before /\ ~deviceObject /\ (dosDeviceName => refused)
  <2>1. ~deviceObject /\ (dosDeviceName => refused)
        BY <1>1 DEF LifecycleInv, EntryProgress
  <2>2. step = "none"
        BY <1>1 DEF LifecycleInv, ClientsInside
  <2>3. Held = {}
        BY <1>1, <2>2 DEF Held, Unloaded
  <2> QED BY <1>1, <2>1, <2>3, AllocatedNothing DEF LifecycleInv, HeapAccounted, TypeOK
<1>2. TypeOK /\ LifecycleInv => FailedLoadUndone
      BY <1>1 DEF FailedLoadUndone
<1> QED BY <1>2, LifecycleInvariant, PTL

(* FreeProcessorContext is dead code.                                      *)
THEOREM FreeIsDead == Spec => []ContextNeverFreed
<1>1. TypeOK /\ LifecycleInv => ContextNeverFreed
  <2> SUFFICES ASSUME LifecycleInv, step = "cleanup", kProcessorContext = "context",
                      ~NT_SUCCESS(status)
               PROVE  FALSE
      BY DEF ContextNeverFreed
  <2>1. kProcessorContext = "null"
        BY DEF LifecycleInv, EntryProgress
  <2> QED BY <2>1
<1> QED BY <1>1, LifecycleInvariant, PTL

(* Unloading leaks exactly what the load allocated for the context.        *)
THEOREM ContextLeaks == Spec => []UnloadLeaksContext
<1>1. TypeOK /\ LifecycleInv => UnloadLeaksContext
  <2> SUFFICES ASSUME LifecycleInv, Unloaded
               PROVE  heap = Allocated(before, ContextBlocks)
      BY DEF UnloadLeaksContext
  <2>1. step = "none"
        BY DEF LifecycleInv, ClientsInside, Unloaded
  <2>2. Held = ContextBlocks
        BY <2>1 DEF Held, Unloaded
  <2> QED BY <2>2 DEF LifecycleInv, HeapAccounted
<1> QED BY <1>1, LifecycleInvariant, PTL

(* The link that an unloaded driver leaves gives a later load a name that   *)
(* exists already exactly when the system refuses to delete it.            *)
THEOREM NamesFree == Spec => []NoNameCollision
<1>1. Init => NoNameCollision
      BY DEF Init, NoNameCollision, STATUS_SUCCESS, STATUS_OBJECT_NAME_COLLISION
<1>2. TypeOK /\ LifecycleInv /\ NoNameCollision /\ [Next]_vars => NoNameCollision'
  <2> SUFFICES ASSUME TypeOK, LifecycleInv, NoNameCollision, [Next]_vars PROVE NoNameCollision'
      OBVIOUS
  <2>0. step \notin {"cleanup", "return", "none"} => ~refused
        BY LifecycleCodes DEF LifecycleInv, EntryProgress, NoNameCollision, NT_SUCCESS
  <2>1. CASE UNCHANGED <<status, refused, loads>>
        BY <2>1 DEF NoNameCollision
  <2>2. CASE Load
        BY <2>2, LifecycleCodes DEF Load, NoNameCollision
  <2>3. CASE CheckProcessor
    <3>1. ~refused' /\ status' \in {STATUS_SUCCESS, STATUS_NOT_SUPPORTED}
          BY <2>0, <2>3 DEF CheckProcessor, At, CheckStatus, ioVars
    <3> QED BY <3>1, LifecycleCodes DEF NoNameCollision
  <2>4. CASE InitDevice
    <3>1. ~deviceObject
          BY <2>4 DEF InitDevice, At, LifecycleInv, EntryProgress
    <3>2. ~refused' /\ status' \in {STATUS_SUCCESS, STATUS_INSUFFICIENT_RESOURCES}
          BY <2>0, <2>4, <3>1 DEF InitDevice, At, CheckStatus, CreateResults
    <3> QED BY <3>2, LifecycleCodes DEF NoNameCollision
  <2>5. CASE CreateSymlink
    <3>1. dosDeviceName => loads > 1
          BY <2>5 DEF CreateSymlink, At, LifecycleInv, EntryProgress
    <3>2. loads' = loads
          BY <2>5 DEF CreateSymlink
    <3> QED BY <2>5, <3>1, <3>2, SymlinkOutcomes, LifecycleCodes DEF NoNameCollision
  <2>6. CASE InitializeProcessorContext
    <3>1. CASE Bugcheck("null")
          BY <2>1, <3>1 DEF Bugcheck, entryVars, ioVars
    <3>2. CASE ~Bugcheck("null")
      <4>1. ~refused' /\ status' \in {0, 1}
            BY <2>0, <2>6, <3>2, FillSucceeds
            DEF InitializeProcessorContext, At, CheckStatus, ioVars
      <4> QED BY <4>1, LifecycleCodes DEF NoNameCollision
    <3> QED BY <3>1, <3>2
  <2>7. CASE InitializeEPT
    <3>1. CASE Bugcheck("null") \/ Bugcheck("wild")
          BY <2>1, <3>1 DEF Bugcheck, entryVars, ioVars
    <3>2. CASE ~(Bugcheck("null") \/ Bugcheck("wild"))
      <4>1. ~refused' /\ status' = 0
            BY <2>0, <2>7, <3>2, LifecycleCodes DEF InitializeEPT, At, CheckStatus, ioVars
      <4> QED BY <4>1, LifecycleCodes DEF NoNameCollision
    <3> QED BY <3>1, <3>2
  <2>8. CASE NewDevice \/ NewProcessorContext \/ CallEnterVmx \/ Cleanup \/ ReturnFromEntry
        BY <2>1, <2>8
        DEF NewDevice, NewProcessorContext, CallEnterVmx, Cleanup, ReturnFromEntry,
            Bugcheck, entryVars, ioVars
  <2>9. ASSUME NEW p \in Clients, Request(p) PROVE UNCHANGED <<status, refused, loads>>
        BY <2>9 DEF Request, Open, Close, DeviceIoControl, IOCTLHandlerIRP, Bugcheck,
                    clientFrame, entryVars, ioVars
  <2>10. CASE RequestUnload \/ DriverUnload \/ UNCHANGED vars
         BY <2>1, <2>10 DEF RequestUnload, DriverUnload, vars, entryVars, ioVars
  <2> QED BY <2>1, <2>2, <2>3, <2>4, <2>5, <2>6, <2>7, <2>8, <2>9, <2>10 DEF Next, DriverEntry
<1> QED BY <1>1, <1>2, LifecycleInvariant, PTL DEF Spec
=============================================================================
