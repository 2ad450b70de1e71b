------------------------------ MODULE EnterVmx ------------------------------
(***************************************************************************)
(* irp_handlers::ioctl::EnterVmxHandler and the functions of               *)
(* virtualization.cpp it calls, run by any number of threads on any number *)
(* of processors that share one VMXON region and one VMCS.                 *)
(*                                                                         *)
(* A thread is a caller of the handler: DriverEntry, before the device can *)
(* be opened, and, if that call comes back, any client in IOCTL_ENTER_VMX. *)
(* The device is not exclusive, no lock excludes two clients and nothing   *)
(* pins a thread to a processor, so threads interleave between VMX         *)
(* instructions and may be moved.  Serialized restricts the model to one   *)
(* call at a time.                                                         *)
(***************************************************************************)
EXTENDS VmxHardware, NtStatus, FiniteSets

CONSTANTS
    Threads,      \* callers of EnterVmxHandler
    Loader,       \* the one of them that runs DriverEntry
    Serialized,   \* TRUE: a call starts only when no other is in progress
    Migrates,     \* TRUE: the scheduler may move a thread between processors
    MaxCalls,     \* bound on the calls of each thread (the model's only bound)
    Nobody        \* "no call wrote this part of the VMCS, or two did"

ASSUME ThreadsAssumption  == Loader \in Threads /\ Cpus # {}
ASSUME FiniteAssumption   == IsFiniteSet(Threads) /\ IsFiniteSet(Cpus)
ASSUME NobodyAssumption   == Nobody \notin Cpus /\ Nobody \notin Threads \X Cpus
ASSUME MaxCallsAssumption == MaxCalls \in Nat
ASSUME ModeAssumption     == Serialized \in BOOLEAN /\ Migrates \in BOOLEAN

\* The parts of the VMCS that PopulateActiveVMCS writes, in its order.
Blocks == {"controls", "segments", "registers"}

VARIABLES
    pc,        \* pc[t]: the step of EnterVmxHandler that thread t is about to take
    cpu,       \* cpu[t]: the processor t runs on
    status,    \* status[t]: the NTSTATUS that t holds
    entered,   \* entered[t]: entered_vmx
    created,   \* created[t]: created_active_vmcs
    calls,     \* calls[t]: calls made by t
    moved,     \* moved[t]: t was moved during its present call
    owner,     \* owner[b]: the thread and processor that last wrote all of block b
    mode,      \* mode[c]: what runs on c: the system, the guest, vmexit_handler
    rip,       \* rip[c]: the instruction of guest_code that the guest is at
    crash      \* why the machine stopped, or "none"

threadVars == <<pc, cpu, status, entered, created, calls, moved>>
guestVars  == <<mode, rip>>
vars       == <<hwVars, threadVars, owner, guestVars, crash>>

Labels == {"idle", "cr4", "msr", "vmxon", "vmclear", "vmptrld", "controls",
           "segments", "registers", "dump", "vmlaunch", "vmptrst", "clear",
           "vmxoff", "return", "guest"}

\* Steps at which the thread executes an instruction that needs VMX operation,
\* and those that also need a current VMCS.
NeedsCurrent == {"controls", "segments", "registers", "dump", "vmlaunch", "vmptrst"}
NeedsVmx     == NeedsCurrent \cup {"vmclear", "vmptrld", "clear", "vmxoff"}

Crashes == {"none", "UD", "GP", "stack", "return"}

\* guest_code of vmcs_init_helpers.asm: each instruction's successor.
Instructions == {"cli", "xor", "cpuid", "jmp"}
NextRip == [i \in Instructions |-> CASE i = "cli" -> "xor"
                                     [] i = "cpuid" -> "jmp"
                                     [] OTHER -> "cpuid"]

captured == {c \in Cpus : mode[c] # "host"}

Init ==
    /\ HwInit
    /\ pc = [t \in Threads |-> "idle"]
    /\ cpu \in [Threads -> Cpus]
    /\ status = [t \in Threads |-> STATUS_SUCCESS]
    /\ entered = [t \in Threads |-> FALSE]
    /\ created = [t \in Threads |-> FALSE]
    /\ calls = [t \in Threads |-> 0]
    /\ moved = [t \in Threads |-> FALSE]
    /\ owner = [b \in Blocks |-> Nobody]
    /\ mode = [c \in Cpus |-> "host"]
    /\ rip = [c \in Cpus |-> "cli"]
    /\ crash = "none"

-----------------------------------------------------------------------------
(* Helpers *)

\* Thread t is at label and its processor runs the system.
At(t, label) ==
    /\ crash = "none"
    /\ pc[t] = label
    /\ mode[cpu[t]] = "host"

GoTo(t, label) == pc' = [pc EXCEPT ![t] = label]

\* Variants with a defect (named Bad...) stand before the definition that they
\* would replace.  No specification uses them; the properties must reject them.

\* Cleanup without ClearActiveVMCS; cleanup without VMXOFF.
BadCleanupNoClear(active_vmcs, in_vmx) == IF in_vmx THEN "vmxoff" ELSE "return"
BadCleanupNoVmxoff(active_vmcs, in_vmx) == IF active_vmcs THEN "vmptrst" ELSE "return"

\* Where EnterVmxHandler's cleanup label leads with these two flags.
CleanupLabel(active_vmcs, in_vmx) ==
    IF active_vmcs THEN "vmptrst" ELSE IF in_vmx THEN "vmxoff" ELSE "return"

\* The check as it would be if a custom code were an error.
BadCheckStatus(t, s, next) ==
    GoTo(t, IF s = STATUS_SUCCESS THEN next ELSE CleanupLabel(created[t], entered[t]))

\* if (!NT_SUCCESS(s)) goto cleanup; else go on at next.
CheckStatus(t, s, next) ==
    GoTo(t, IF NT_SUCCESS(s) THEN next ELSE CleanupLabel(created[t], entered[t]))

SetStatus(t, s) == status' = [status EXCEPT ![t] = s]

\* The NTSTATUS for an intrinsic's result.
StatusOf(result, code) == IF result = 0 THEN STATUS_SUCCESS ELSE code

-----------------------------------------------------------------------------
(* EnterVmxHandler, up to VMLAUNCH *)

\* DriverEntry calls once, and no client can call before DriverEntry, and so
\* its call, has returned.
Enter(t, c) ==
    /\ crash = "none"
    /\ pc[t] = "idle"
    /\ mode[c] = "host"
    /\ calls[t] < MaxCalls
    /\ IF t = Loader THEN calls[t] = 0 ELSE calls[Loader] > 0 /\ pc[Loader] = "idle"
    /\ Serialized => \A u \in Threads : pc[u] = "idle"
    /\ GoTo(t, "cr4")
    /\ cpu' = [cpu EXCEPT ![t] = c]
    /\ SetStatus(t, STATUS_SUCCESS)
    /\ entered' = [entered EXCEPT ![t] = FALSE]
    /\ created' = [created EXCEPT ![t] = FALSE]
    /\ calls' = [calls EXCEPT ![t] = calls[t] + 1]
    /\ moved' = [moved EXCEPT ![t] = FALSE]
    /\ UNCHANGED <<hwVars, owner, guestVars, crash>>

\* CR0 and CR4 get their fixed bits, then CR4.VMXE is set.
WriteCr4(t) ==
    /\ At(t, "cr4")
    /\ SetVmxe(cpu[t])
    /\ GoTo(t, "msr")
    /\ UNCHANGED <<cpu, status, entered, created, calls, moved, owner, guestVars, crash>>

\* The MSR is written without its lock bit.
BadWriteFeatureControl(t) ==
    /\ At(t, "msr")
    /\ cpu[t] \in locked => "ignored" \in LockedWrite
    /\ GoTo(t, "vmxon")
    /\ UNCHANGED <<hwVars, cpu, status, entered, created, calls, moved, owner, guestVars, crash>>

\* IA32_FEATURE_CONTROL is written whether or not it is locked already, and
\* with its SMX bit whether or not the processor has SMX.
WriteFeatureControl(t) ==
    /\ At(t, "msr")
    /\ cpu[t] \in locked => "ignored" \in LockedWrite
    /\ cpu[t] \in SmxCpus
    /\ LockFeatureControl(cpu[t])
    /\ GoTo(t, "vmxon")
    /\ UNCHANGED <<cpu, status, entered, created, calls, moved, owner, guestVars, crash>>

\* A failed VMXON is tried again without end.
BadExecVmxon(t) ==
    /\ At(t, "vmxon")
    /\ \E result \in {0, 1} :
          /\ VmxOn(cpu[t], result)
          /\ GoTo(t, IF result = 0 THEN "vmclear" ELSE "cr4")
    /\ UNCHANGED <<cpu, status, entered, created, calls, moved, owner, guestVars, crash>>

ExecVmxon(t) ==
    /\ At(t, "vmxon")
    /\ cpu[t] \in vmxe
    /\ \E result \in {0, 1} :
          LET s == StatusOf(result, STATUS_FAILED_VMXON) IN
          /\ VmxOn(cpu[t], result)
          /\ SetStatus(t, s)
          /\ entered' = [entered EXCEPT ![t] = NT_SUCCESS(s)]
          /\ CheckStatus(t, s, "vmclear")
    /\ UNCHANGED <<cpu, created, calls, moved, owner, guestVars, crash>>

\* InitializeVMCS without its VMCLEAR; without its VMPTRLD.
BadExecVmclear(t) ==
    /\ At(t, "vmclear")
    /\ GoTo(t, "vmptrld")
    /\ UNCHANGED <<hwVars, cpu, status, entered, created, calls, moved, owner, guestVars, crash>>

BadExecVmptrld(t) ==
    /\ At(t, "vmptrld")
    /\ GoTo(t, "controls")
    /\ UNCHANGED <<hwVars, cpu, status, entered, created, calls, moved, owner, guestVars, crash>>

\* InitializeVMCS, first half: it returns at once if VMCLEAR fails, and its
\* caller then decides with NT_SUCCESS whether there is an active VMCS.
ExecVmclear(t) ==
    /\ At(t, "vmclear")
    /\ cpu[t] \in vmxon
    /\ \E result \in {0, 1} :
          LET s == StatusOf(result, STATUS_FAILED_VMCLEAR) IN
          /\ VmClear(cpu[t], result)
          /\ SetStatus(t, s)
          /\ IF result = 0
             THEN /\ GoTo(t, "vmptrld")
                  /\ UNCHANGED created
             ELSE /\ created' = [created EXCEPT ![t] = NT_SUCCESS(s)]
                  /\ CheckStatus(t, s, "controls")
    /\ UNCHANGED <<cpu, entered, calls, moved, owner, guestVars, crash>>

ExecVmptrld(t) ==
    /\ At(t, "vmptrld")
    /\ cpu[t] \in vmxon
    /\ \E result \in {0, 1} :
          LET s == StatusOf(result, STATUS_FAILED_VMPTRLD) IN
          /\ VmPtrld(cpu[t], result)
          /\ SetStatus(t, s)
          /\ created' = [created EXCEPT ![t] = NT_SUCCESS(s)]
          /\ CheckStatus(t, s, "controls")
    /\ UNCHANGED <<cpu, entered, calls, moved, owner, guestVars, crash>>

\* One part of PopulateActiveVMCS with a current VMCS; result is 0 if every
\* VMWRITE of the part succeeded.  A failed one only prints and goes on.
WriteBlock(t, block, result, s, next) ==
    /\ At(t, block)
    /\ cpu[t] \in vmxon \cap current
    /\ VmWrite(result)
    /\ owner' = [owner EXCEPT ![block] = IF result = 0 THEN <<t, cpu[t]>> ELSE Nobody]
    /\ SetStatus(t, s)
    /\ GoTo(t, next)
    /\ UNCHANGED <<cpu, entered, created, calls, moved, guestVars, crash>>

\* The last write of this part assigns status, which forgets the others'.
WriteControls(t) ==
    \E result, last \in {0, 1} :
       /\ last <= result
       /\ WriteBlock(t, "controls", result, StatusOf(last, STATUS_FAILED_VMWRITE), "segments")

WriteSegments(t) ==
    \E result \in {0, 1} :
       WriteBlock(t, "segments", result,
                  OrStatus(status[t], StatusOf(result, STATUS_FAILED_VMWRITE)), "registers")

\* Populating skips the registers if an earlier call wrote them.
BadWriteRegisters(t) ==
    /\ At(t, "registers")
    /\ cpu[t] \in vmxon \cap current
    /\ \E result \in {0, 1} :
          /\ VmWrite(result)
          /\ IF owner["registers"] # Nobody THEN UNCHANGED owner
             ELSE owner' = [owner EXCEPT !["registers"] = IF result = 0 THEN <<t, cpu[t]>> ELSE Nobody]
    /\ GoTo(t, "dump")
    /\ UNCHANGED <<cpu, status, entered, created, calls, moved, guestVars, crash>>

\* Among these are RSP of the guest and of vmexit_handler, which point into
\* PopulateActiveVMCS's frame on the stack of t.
WriteRegisters(t) ==
    \E result \in {0, 1} :
       WriteBlock(t, "registers", result,
                  OrStatus(status[t], StatusOf(result, STATUS_FAILED_VMWRITE)), "dump")

\* DumpVmcsGuestArea, then the status of the whole population is looked at.
DumpGuestArea(t) ==
    /\ At(t, "dump")
    /\ cpu[t] \in vmxon \cap current
    /\ CheckStatus(t, status[t], "vmlaunch")
    /\ UNCHANGED <<hwVars, cpu, status, entered, created, calls, moved, owner, guestVars, crash>>

\* LaunchGuest returns only if VMLAUNCH fails; otherwise the processor never
\* comes back to this thread.
LaunchGuest(t) ==
    /\ At(t, "vmlaunch")
    /\ cpu[t] \in vmxon \cap current
    /\ \E outcome \in {"fail", "exit", "guest"} :
          /\ VmLaunch(outcome)
          /\ IF outcome = "fail"
             THEN /\ SetStatus(t, STATUS_FAILED_VMLAUNCH)
                  /\ CheckStatus(t, STATUS_FAILED_VMLAUNCH, CleanupLabel(created[t], entered[t]))
                  /\ UNCHANGED guestVars
             ELSE /\ GoTo(t, "guest")
                  /\ mode' = [mode EXCEPT ![cpu[t]] = outcome]
                  /\ rip' = [rip EXCEPT ![cpu[t]] = "cli"]
                  /\ UNCHANGED status
    /\ UNCHANGED <<cpu, entered, created, calls, moved, owner, crash>>

-----------------------------------------------------------------------------
(* EnterVmxHandler's cleanup *)

\* VMPTRST of ClearActiveVMCS, which finds the address to clear.
StoreVmcsPointer(t) ==
    /\ At(t, "vmptrst")
    /\ cpu[t] \in vmxon \cap current
    /\ GoTo(t, "clear")
    /\ UNCHANGED <<hwVars, cpu, status, entered, created, calls, moved, owner, guestVars, crash>>

\* ClearActiveVMCS's own status is dropped by the caller.
ClearActiveVMCS(t) ==
    /\ At(t, "clear")
    /\ cpu[t] \in vmxon
    /\ \E result \in {0, 1} : VmClear(cpu[t], result)
    /\ GoTo(t, CleanupLabel(FALSE, entered[t]))
    /\ UNCHANGED <<cpu, status, entered, created, calls, moved, owner, guestVars, crash>>

ExecVmxoff(t) ==
    /\ At(t, "vmxoff")
    /\ cpu[t] \in vmxon
    /\ VmxOff(cpu[t])
    /\ GoTo(t, "return")
    /\ UNCHANGED <<cpu, status, entered, created, calls, moved, owner, guestVars, crash>>

\* IOCTLHandlerIRP completes the request with status; DriverEntry ignores it.
Return(t) ==
    /\ At(t, "return")
    /\ GoTo(t, "idle")
    /\ UNCHANGED <<hwVars, cpu, status, entered, created, calls, moved, owner, guestVars, crash>>

-----------------------------------------------------------------------------
(* A captured processor: guest_code and vmexit_handler *)

GuestStep(c) ==
    /\ crash = "none"
    /\ mode[c] = "guest"
    /\ rip[c] # "cpuid"
    /\ rip' = [rip EXCEPT ![c] = NextRip[rip[c]]]
    /\ UNCHANGED <<hwVars, threadVars, owner, mode, crash>>

\* CPUID exits unconditionally; RIP stays at the instruction.
GuestExit(c) ==
    /\ crash = "none"
    /\ mode[c] = "guest"
    /\ rip[c] = "cpuid"
    /\ mode' = [mode EXCEPT ![c] = "exit"]
    /\ UNCHANGED <<hwVars, threadVars, owner, rip, crash>>

\* A handler that skips the CPUID, that returns without VMRESUME, that leaves
\* VMX operation and gives the processor back, that does so but keeps it.
BadHandlerSkips(c) ==
    /\ crash = "none" /\ mode[c] = "exit"
    /\ mode' = [mode EXCEPT ![c] = "guest"]
    /\ rip' = [rip EXCEPT ![c] = NextRip[rip[c]]]
    /\ UNCHANGED <<hwVars, threadVars, owner, crash>>

BadHandlerHangs(c) ==
    /\ crash = "none" /\ mode[c] = "exit"
    /\ UNCHANGED vars

BadHandlerLeaves(c) ==
    /\ crash = "none" /\ mode[c] = "exit"
    /\ VmxOff(c)
    /\ mode' = [mode EXCEPT ![c] = "host"]
    /\ UNCHANGED <<threadVars, owner, rip, crash>>

BadHandlerStays(c) ==
    /\ crash = "none" /\ mode[c] = "exit"
    /\ VmxOff(c)
    /\ UNCHANGED <<threadVars, owner, guestVars, crash>>

\* vmexit_handler reads the exit reason and executes VMRESUME, which goes on
\* where the guest was.  If VMRESUME fails the handler returns to no caller.
HandlerResume(c) ==
    /\ crash = "none"
    /\ mode[c] = "exit"
    /\ c \in vmxon \cap current
    /\ \E seen \in LaunchStates :
          IF seen = "launched"
          THEN /\ mode' = [mode EXCEPT ![c] = "guest"]
               /\ UNCHANGED crash
          ELSE /\ crash' = "return"
               /\ UNCHANGED mode
    /\ UNCHANGED <<hwVars, threadVars, owner, rip>>

-----------------------------------------------------------------------------
(* The scheduler, and what stops the machine *)

\* A thread that is not executing on a captured processor may be moved.
Migrate(t, c) ==
    /\ crash = "none"
    /\ Migrates
    /\ pc[t] \notin {"idle", "guest"}
    /\ c # cpu[t] /\ mode[c] = "host"
    /\ cpu' = [cpu EXCEPT ![t] = c]
    /\ moved' = [moved EXCEPT ![t] = TRUE]
    /\ UNCHANGED <<hwVars, pc, status, entered, created, calls, owner, guestVars, crash>>

Bugcheck(cause) ==
    /\ crash' = cause
    /\ UNCHANGED <<hwVars, threadVars, owner, guestVars>>

\* #GP: WRMSR to a locked IA32_FEATURE_CONTROL, or of an SMX bit that the
\* processor does not have.
FaultGP(t) ==
    /\ At(t, "msr")
    /\ \/ cpu[t] \in locked /\ "faults" \in LockedWrite
       \/ cpu[t] \notin SmxCpus
    /\ Bugcheck("GP")

\* #UD: VMXON without CR4.VMXE, any other VMX instruction outside VMX operation.
FaultUD(t) ==
    /\ At(t, pc[t])
    /\ \/ pc[t] = "vmxon" /\ cpu[t] \notin vmxe
       \/ pc[t] \in NeedsVmx /\ cpu[t] \notin vmxon
    /\ Bugcheck("UD")

\* With no current VMCS every VMREAD fails, and ReadVMCSField64 reports that
\* through PrintVMXError, which calls ReadVMCSField64 again: the kernel stack
\* overflows.
StackOverflow(t) ==
    /\ At(t, pc[t])
    /\ pc[t] \in NeedsCurrent
    /\ cpu[t] \in vmxon \ current
    /\ Bugcheck("stack")

ThreadStep(t) ==
    \/ WriteCr4(t)
    \/ WriteFeatureControl(t)
    \/ ExecVmxon(t)
    \/ ExecVmclear(t)
    \/ ExecVmptrld(t)
    \/ WriteControls(t)
    \/ WriteSegments(t)
    \/ WriteRegisters(t)
    \/ DumpGuestArea(t)
    \/ LaunchGuest(t)
    \/ StoreVmcsPointer(t)
    \/ ClearActiveVMCS(t)
    \/ ExecVmxoff(t)
    \/ Return(t)
    \/ FaultGP(t)
    \/ FaultUD(t)
    \/ StackOverflow(t)

CpuStep(c) ==
    \/ GuestStep(c)
    \/ GuestExit(c)
    \/ HandlerResume(c)

Next ==
    \/ \E t \in Threads : ThreadStep(t)
    \/ \E c \in Cpus : CpuStep(c)
    \/ \E t \in Threads, c \in Cpus : Enter(t, c) \/ Migrate(t, c)

Spec == Init /\ [][Next]_vars

\* A processor that is not stopped executes instructions, and the scheduler
\* runs every ready thread in the end.  Nobody has to make a call.
Fairness ==
    /\ \A t \in Threads : WF_vars(ThreadStep(t))
    /\ \A c \in Cpus : WF_vars(CpuStep(c))

FairSpec == Spec /\ Fairness

-----------------------------------------------------------------------------
(* Properties *)

\* Every variable has its type.  A thread's status can only be STATUS_SUCCESS
\* or one of the custom codes, as custom_status_codes.h computes them.
TypeOK ==
    /\ HwTypeOK
    /\ pc \in [Threads -> Labels]
    /\ cpu \in [Threads -> Cpus]
    /\ status \in [Threads -> {0, 1}]
    /\ entered \in [Threads -> BOOLEAN]
    /\ created \in [Threads -> BOOLEAN]
    /\ calls \in [Threads -> 0 .. MaxCalls]
    /\ moved \in [Threads -> BOOLEAN]
    /\ owner \in [Blocks -> (Threads \X Cpus) \cup {Nobody}]
    /\ mode \in [Cpus -> {"host", "guest", "exit"}]
    /\ rip \in [Cpus -> Instructions]
    /\ crash \in Crashes

\* The shared VMCS is never active on two processors at once and never left
\* active across VMXOFF, which the comment in EnterVmxHandler's cleanup warns
\* of, unless the processor itself refused to clear it.
NotCorrupted == corrupt => "vmclear" \in refused

\* After every call has returned, no processor is in VMX operation and the
\* VMCS is active nowhere: the cleanup undoes all that the call did.
QuiescentWhenIdle ==
    (crash = "none" /\ \A t \in Threads : pc[t] = "idle")
        => vmxon = {} /\ current = {} /\ (active = {} \/ "vmclear" \in refused)

\* VMLAUNCH is reached with a cleared VMCS, active here only, every part of
\* which this call wrote on this processor.
LaunchReady ==
    \A t \in Threads :
        (pc[t] = "vmlaunch" /\ cpu[t] \in current)
            => /\ launch = "clear"
               /\ active = {cpu[t]} \/ "vmclear" \in refused
               /\ "vmwrite" \notin refused => \A b \in Blocks : owner[b] = <<t, cpu[t]>>

\* vmexit_handler and the guest run on arrays of PopulateActiveVMCS's frame,
\* which has returned by then.  That stack is the one of a thread that was
\* captured with this very processor, so nobody else ever runs on it.
HostStackOwned ==
    \A c \in captured :
        "vmwrite" \notin refused
            => \E t \in Threads : owner["registers"] = <<t, c>> /\ pc[t] = "guest" /\ cpu[t] = c

\* Calls that overlap turn VMX operation off for one another, but when the
\* last of them is over it is off everywhere: every call that gets that far
\* executes one VMXOFF, and at most one VMXON of its own succeeded.
VmxOffWhenIdle ==
    (crash = "none" /\ \A t \in Threads : pc[t] = "idle") => vmxon = {} /\ current = {}

\* The calls that have executed VMXON and not VMXOFF, and why the above
\* holds: there are at least as many as processors in VMX operation.
Inside == {t \in Threads : pc[t] \in NeedsVmx \cup {"guest"}}
VmxonCounted ==
    /\ Cardinality(vmxon) <= Cardinality(Inside)
    /\ current \subseteq vmxon

\* As long as no write of a locked MSR was ignored, a processor serves one call
\* and no later one, so a failed call cannot be made again there: the calls that
\* got past the MSR are no more than the processors whose MSR is locked.
Attempts == {t \in Threads : calls[t] > 0 /\ pc[t] \notin {"cr4", "msr"}}
OneAttemptPerProcessor ==
    "wrmsr" \notin refused => Cardinality(Attempts) <= Cardinality(locked)

\* With one call at a time, each way the driver can stop the machine (other
\* than by writing the MSR) has one cause: it goes on after a failed VMXON
\* or was moved in mid-call; it goes on without a current VMCS; it resumes a
\* VMCS whose VM entry failed, or that was left active across VMXOFF before.
CrashExplained ==
    /\ crash = "UD" => "vmxon" \in refused \/ \E t \in Threads : moved[t]
    /\ crash = "stack" => refused \cap {"vmclear", "vmptrld"} # {}
    /\ crash = "return" => "entry" \in refused \/ corrupt

\* A captured processor stays in VMX operation with the VMCS current and
\* active there, whatever the other processors do.
CapturedKeepsVmx == captured \subseteq vmxon \cap current \cap active

\* A call comes back only after a failed VMLAUNCH, whatever failed before, and
\* hands its caller a status that NT_SUCCESS takes for success.
ReturnedMeansFailed ==
    \A t \in Threads :
        (pc[t] = "idle" /\ calls[t] > 0)
            => /\ "vmlaunch" \in refused
               /\ status[t] = STATUS_FAILED_VMLAUNCH /\ NT_SUCCESS(status[t])

\* vmexit_handler resumes at the CPUID that exited, so guest_code never gets
\* to the jump of its loop.
GuestStuckAtCpuid == \A c \in Cpus : rip[c] # "jmp"

\* Why NotCorrupted and QuiescentWhenIdle hold with one call at a time: there
\* is one caller, it alone puts one processor in VMX operation, and the VMCS
\* is active just where it is current until a VMCLEAR is refused.
OneCaller == \A t, u \in Threads : pc[t] # "idle" /\ pc[u] # "idle" => t = u

\* VMX operation begins and ends inside a call.
OffOutsideCall ==
    /\ (\A t \in Threads : pc[t] = "idle") => vmxon = {}
    /\ \A t \in Threads : pc[t] \in {"cr4", "msr", "vmxon", "return"} => vmxon = {}

\* At most one processor is in VMX operation, and the VMCS is only there.
OneProcessor ==
    /\ \A c, d \in vmxon : c = d
    /\ current \subseteq vmxon \cap active
    /\ captured \subseteq current
    /\ captured # {} => \E t \in Threads : pc[t] = "guest"

\* entered_vmx and created_active_vmcs are set by the time that they matter.
FlagsTrue ==
    \A t \in Threads :
        /\ pc[t] \in NeedsVmx \ {"vmxoff"} => entered[t]
        /\ pc[t] \in NeedsCurrent => created[t]

\* The VMCS is active just where it is current, until it is corrupt.
ActiveIsCurrent == corrupt \/ active = current

\* Unless a VMCLEAR was refused, nothing is corrupt and VMXOFF finds the VMCS
\* inactive.
ClearedUnlessRefused ==
    \/ "vmclear" \in refused
    \/ /\ ~corrupt
       /\ active = current
       /\ \A t \in Threads : pc[t] = "vmxoff" => active = {}

\* The VMCS that a call populates is one it has cleared and loaded itself, and
\* its parts come from this call and the processor it is loaded on.
FreshVmcs ==
    \A t \in Threads :
        /\ pc[t] \in {"vmclear", "vmptrld"} => current = {}
        /\ pc[t] = "vmptrld" => launch = "clear"
        /\ (pc[t] \in {"controls", "segments", "registers", "dump", "vmlaunch"} /\ current # {})
               => launch = "clear"
        /\ \A c \in current :
               "vmwrite" \notin refused =>
                  /\ pc[t] \in {"segments", "registers", "dump", "vmlaunch"}
                        => owner["controls"] = <<t, c>>
                  /\ pc[t] \in {"registers", "dump", "vmlaunch"}
                        => owner["segments"] = <<t, c>>
                  /\ pc[t] \in {"dump", "vmlaunch"}
                        => owner["registers"] = <<t, c>>

\* The inductive invariant of EnterVmxSerialProofs.
SerialInv ==
    /\ OneCaller
    /\ OffOutsideCall
    /\ OneProcessor
    /\ FlagsTrue
    /\ ActiveIsCurrent
    /\ ClearedUnlessRefused
    /\ FreshVmcs

\* VMCLEAR is never reached outside VMX operation: after a failed VMXON the
\* handler goes to cleanup, as its message and its goto say.
FailedVmxonStops == \A t \in Threads : pc[t] = "vmclear" => cpu[t] \in vmxon

\* No step gives a captured processor back to the system.
CaptureIsForever ==
    [][captured \subseteq captured']_vars

\* One call at a time implements VmxSession: a VMCS is loaded where
\* it is current and lost once it is corrupt.
SessionPlace == IF vmxon = {} THEN Nobody ELSE CHOOSE c \in Cpus : c \in vmxon
SessionVmcs  == IF captured # {} THEN "running"
                ELSE IF current # {} THEN "loaded" ELSE "unloaded"
SessionUp    == crash = "none"

Session == INSTANCE VmxSession WITH
    Nowhere <- Nobody, place <- SessionPlace, vmcs <- SessionVmcs,
    lost <- corrupt, up <- SessionUp

SessionImplemented == Session!Spec

\* Every call ends: it returns, its processor is captured, or the machine stops.
CallEnds ==
    \A t \in Threads :
        pc[t] # "idle" ~> (pc[t] \in {"idle", "guest"} \/ crash # "none")

\* A captured processor exits and is resumed for ever, unless the machine stops.
GuestNeverStops ==
    \A c \in Cpus :
        /\ mode[c] = "guest" ~> (mode[c] = "exit" \/ crash # "none")
        /\ mode[c] = "exit" ~> (mode[c] = "guest" \/ crash # "none")
=============================================================================
