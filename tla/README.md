# Guypervisor: specifications, model checking and proofs

Guypervisor is a Windows kernel driver that puts a processor in VMX operation
and runs a small guest (four instructions) in a virtual machine. The directory
holds TLA+ modules of the driver, TLC configurations that check them on small
instances, and TLAPS proofs. Every definition is translated from the source;
`PROJECT.json` gives the lines of each.

## Inventory

Paths are relative to `src/Guypervisor/`.

| Component | State it keeps | Operations | What makes it correct |
|---|---|---|---|
| NTSTATUS codes (`custom_status_codes.h`) | none | `NT_ERROR(BASE_ERROR + n)`, `NT_SUCCESS`, `status \|= ...` | an error is told from a success |
| `DriverEntry` (`Driver.cpp`) | `kGuypervisor`, `kProcessorContext`, `status` | CPU checks, device, link, context, EPT, first call of the handler, cleanup | a failed load leaves nothing; a load that succeeds leaves a usable driver |
| Device and dispatch table (`Device.cpp`) | device object, symbolic link, `MajorFunction` | `InitDevice`, `CreateSymlink`, `DriverUnload`, `operator delete` | reload works; unload gives back what load took; every major function handled |
| IRP handlers (`irp_handlers.cpp`) | none of their own | create, close, write, other, device control | a request is completed when its work is done |
| `EnterVmxHandler` and the VMX session (`irp_handlers.cpp`, `virtualization.cpp`) | `entered_vmx`, `created_active_vmcs`, `status`; CR4, `IA32_FEATURE_CONTROL`, VMXON and VMCS regions shared by all processors | `EnterVmxonMode`, `InitializeVMCS`, `PopulateActiveVMCS`, `LaunchGuest`, `ClearActiveVMCS`, VMXOFF | the cleanup undoes exactly what the call did; the VMCS is active on one processor at most; VMLAUNCH finds a fresh VMCS |
| `vmexit_handler` and `guest_code` (`virtualization.cpp`, `vmcs_init_helpers.asm`) | the captured processor, its RIP | CPUID exit, VMRESUME | the cycle goes on; the processor keeps what it needs |
| Processor context (`processor_context.cpp`) | six pointers | `InitializeProcessorContext`, `FreeProcessorContext` | no field is used before it is set, nothing freed twice or leaked |
| EPT tables (`processor_context.cpp`, `paging.h`) | three levels of tables | the zeroing in `InitializeProcessorContext`, `InitializeEPT` | the tables map every address to itself, and nothing the pool left in them translates |
| Processor detection (`virtualization_detection.cpp`) | none | `VendorIsIntel`, `SupportsVtxOperation` | the driver goes on only on Intel processors with VMX |
| VMX error reporting (`error_codes.cpp`, `PrintVMXError`, `ReadVMCSField64`) | the calls on the stack; the error number and exit reason in the VMCS | report of a failed instruction, message of an exit | names the cause; ends |
| VMCS population and dump (`virtualization.cpp:284-697`, `184-282`) | `status`; what was read of the processor; the fields of the VMCS | some 80 VMWRITEs, 48 VMREADs | every field VM entry needs is of this call and this processor; failures are reported |
| VMCS encodings and layouts (`vmcs_field_index.h`, `vmcs_field.h`, `vmcs.h`) | none | `FieldEncoding`, bit fields | the compiler puts a field where the processor looks for it |
| MSRs and control registers (`msr.h`, `msr.cpp`, `processor.h`, `virtualization.cpp`) | CR0, CR4, `IA32_FEATURE_CONTROL`, five control words | `EnterVmxonMode`'s masking, `ModifyControlValue` | VMXON and VM entry accept them; nothing the system had set is lost |
| Segments and descriptors (`processor.cpp`, `vmcs_init_helpers.asm`) | `current_entry` | `LoadSegmentSelectors`, `ReadGDTEntry` | the guest goes on with the caller's segments; the host can come back |
| Physical memory access (`virtual_addr_helpers.cpp`) | none | aligned allocation; open, write and read of physical memory (without a caller) | a refused allocation is noticed |
| Assembly helpers, printing (`virtualization_helpers.asm`, `print.h`) | none | register reads, debug output | — |
| User-mode client (`Guypervisor_usermode.cpp`) | a handle | open, `DeviceIoControl`, exit | — |

How they interact. The I/O manager calls `DriverEntry` once per load; that
calls everything else in order and, last, `EnterVmxHandler`. If that comes
back, clients may open the device, and `IOCTLHandlerIRP` calls the same
`EnterVmxHandler` in the client's thread. The device is not exclusive
(`Device.cpp:40`), there is no lock, and no thread is pinned to a processor, so
two clients run the handler on any processors at the same time, sharing
`kProcessorContext` with its one VMXON region and one VMCS region. A VMLAUNCH
that succeeds takes the processor away from its thread for ever: guest and
`vmexit_handler` alternate on it.

What is hard: the interleavings of two calls and the migration of a thread
between two VMX instructions, or between a value's reading and its VMWRITE; the partial
failure of any instruction or allocation, reported through statuses that count
as successes; masks, bit fields and encodings that must agree with the
processor's; the order VMCLEAR, VMXOFF in the cleanup; state that outlives a
call (launch state, lock bit, VMCS content), a load (symbolic link, pool
memory) or the image (a captured processor that runs its code).
`PROJECT.json` lists each hazard at its line with the properties about it.

## Modules

| Module | What it is |
|---|---|
| `NtStatus` | the NTSTATUS values and macros, as signed 32-bit numbers |
| `VmxHardware` | external: the logical processors and the one VMCS |
| `EnterVmx` | `EnterVmxHandler`, the functions it calls, the guest and `vmexit_handler`; extends the two above |
| `VmxSession` | abstract specification: what the handler promises when one call at a time is made |
| `CpuDetection` | what `DriverEntry` believes of the processor |
| `DriverLifecycle` | loading, clients, unloading, loading again; extends `CpuDetection` and `NtStatus` |
| `VmcsFields` | the encodings of the VMCS's fields, and how the processor reads one |
| `PopulateBlocks` | abstract specification: `PopulateActiveVMCS` as the three parts that `EnterVmx` takes it for |
| `PopulateVmcs` | `PopulateActiveVMCS` and `DumpVmcsGuestArea`, one instruction at a time; implements `PopulateBlocks`; extends `VmcsFields` |
| `BitLayouts` | bit-field structures and where the compiler puts their fields |
| `ControlBits` | CR0, CR4, `IA32_FEATURE_CONTROL` and the five control words; extends `BitLayouts` |
| `Segments` | the segment registers on their way into the VMCS; extends `BitLayouts` |
| `VmxErrors` | the reports of failed instructions and of exits; extends `BitLayouts` |
| `EptTables` | the EPT tables and the walk a processor would make of them |
| `GuestEntry` | composes `EptTables`, `ControlBits` and `Segments`: all that the driver hands to VM entry, and the processor's answer |
| `MCEnterVmx`, `MCDriverLifecycle`, `MCPopulateVmcs`, `MCGuestEntry` | the instances for TLC: symmetry, sets of failures, processors, descriptor tables |
| `EnterVmxProofs`, `EnterVmxSerialProofs`, `DriverLifecycleProofs`, `PopulateVmcsProofs`, `BitLayoutsProofs`, `ControlBitsProofs`, `GuestEntryProofs`, `VmxErrorsProofs` | theorems |

`EnterVmx` is the middle: `DriverLifecycle` takes it for its three outcomes, and
`PopulateVmcs`, `GuestEntry` and `VmxErrors` are parts of the handler at a finer
grain than `EnterVmx` needs.

Definitions named `Bad...` stand before the definition they are a defective
variant of. No specification uses them: they show that each property would
notice a plausible mistake in the code.

### NtStatus

`NT_ERROR` of the WDK is a test (`status >> 30 == 3`); the driver uses it as if
it built a code. Every `STATUS_FAILED_*` is therefore the number 1, and
`NT_SUCCESS(1)` holds. This fact is behind much of what the models show:
*no* `if (!NT_SUCCESS(status)) goto cleanup` after a custom code is ever taken.
The models compute it from the macros, they do not assume it; the mutants that
replace `CustomStatus` by `PlainCode` (the codes as they look) break the
properties that say so.

### EnterVmx

A thread is a caller of the handler. `pc[t]` is its next step, one per VMX
instruction (or, in `PopulateActiveVMCS`, one per group of VMWRITEs, split where the
code assigns `status` anew, `virtualization.cpp:399`, and where the registers
begin, line 562). `entered[t]` and `created[t]` are the flags of the handler,
`status[t]` its status. `owner[b]` is who last wrote a part of the VMCS, which
stands for its content. `mode[c]` says who runs on a processor: the system,
the guest, or `vmexit_handler`.

`Loader` is the thread of `DriverEntry`: it calls once, and no other thread
can call before it has returned, as the I/O manager opens the device to nobody
before. So two concurrent calls occur only after a call that came back, that
is, after a VMLAUNCH that failed.

What stops the machine is modelled, not excluded: `FaultUD` (a VMX instruction
outside VMX operation, or VMXON without CR4.VMXE), `FaultGP` (WRMSR to a locked
`IA32_FEATURE_CONTROL`), `StackOverflow` (`PrintVMXError` and
`ReadVMCSField64` call each other while there is no current VMCS), and a
`vmexit_handler` that returns (`HandlerResume`, after a VMRESUME that failed).

Hardware assumptions, all in `VmxHardware`:

- VMCLEAR and VMPTRLD of a VMCS that is active on another processor, and
  VMXOFF while it is active, corrupt it; a corrupt VMCS may show any launch state.
- `MayRefuse` is the set of instructions that may fail for reasons the model
  does not see. VMXON also fails in VMX operation, and VMLAUNCH on a VMCS
  that is already launched.
- `LockedWrite` is what WRMSR to a locked MSR may do: fault, as on hardware, or
  be ignored, as a hypervisor below may do. With "faults" alone no processor can
  make a second call, and most firmware prevents the first.
- `SmxCpus` are the processors with SMX. The handler always sets the SMX bit of
  `IA32_FEATURE_CONTROL`; without SMX that faults. The runs of `EnterVmx` have SMX
  everywhere, since a processor without it goes no further; `guest_entry` has both kinds,
  and the theorems hold of any.
- The firmware may or may not have locked the MSR; VMX operation is off at
  the start.
- The guest takes no interrupt (it executes CLI first; the window of one
  instruction before that is not modelled), and no NMI.

### VmxSession

One processor at a time in VMX operation; the VMCS unloaded, loaded or
running; VMX operation does not end while the guest runs; a VMCS still loaded
when VMX operation ends is lost. `EnterVmx` implements it under the mapping
`place <- SessionPlace`, `vmcs <- SessionVmcs`, `lost <- corrupt`,
`up <- SessionUp` when `Serialized` holds.

### DriverLifecycle

`step` is the next step of `DriverEntry`, one per call it makes, each with its
possible failures. `field[f]` is a pointer of the processor context: garbage
until it is set, since `operator new` does not clear the block.
`heap[b]` counts the allocated blocks of each kind and outlives the image, as
pool memory does; `before` remembers it from the last load.
`EnterOutcomes` abstracts `EnterVmx` to its three outcomes: it stops the
machine, it is captured, it comes back.

External, from how the code uses them: `IoCreateDevice` and
`IoCreateSymbolicLink` fail with a collision if the name exists; `IoDeleteSymbolicLink`,
whose result the code discards (`Device.cpp:61`), may refuse to delete an earlier
load's link, which `refused` remembers; nobody opens
the device before `DriverEntry` has returned or while the driver is being unloaded;
`DriverUnload` is called when no handle is open; a `DriverEntry` that fails has
its image unmapped; a crash (bug check) ends the behaviour.
The client opens, sends any number of IOCTLs, and closes; its exit closes the
handle, unless its thread was captured.

### PopulateVmcs

`Program` is the function's text as a sequence of two kinds of step: read
something of the processor into a local (`Read`), or VMWRITE a field from locals
(`Put`; `PutAssign` is the one whose result is assigned to `status`, line 399).
`Dump` is that of the dump. The state machine runs them; in between, the
scheduler may move the thread (`Migrate`), the machine may lack a field
(`unsupported`), and after the call another may begin on another processor with
the region as it was. A value is its provenance: the field it is meant for, the
call, the processors its sources were read on, the width that was kept. A
VMWRITE away from `home`, where the VMCS is current, is #UD.

The mapping to `PopulateBlocks` takes a part for written when its last step is behind
and none of its steps failed; the order of the parts, the assignment of `status`
after the first and the accumulation over the other two are what `EnterVmx` relies on.

### ControlBits and BitLayouts

A register is the set of the numbers of its one bits. `Starts` computes the first
bit of each field from the declared widths, with the compiler's rule for fields
that do not fit. A processor of the instance is what its capability MSRs report:
TRUE versions or not, optional bits, fixed bits, SMX, a lock.

### Segments

A descriptor's base is its pieces, which `ReadGDTEntry` puts together; a selector is
index, table indicator and level. `entry` is the one `current_entry`, so that what
one reading does not set is what the last one left. LAR leaves bits 19:16 of its
result undefined; shifted, they stand in the reserved bits of the access rights, and the
masks that would clear them are commented out (`virtualization.cpp:417-418` and the like).
`Undefined` says what they may be for each descriptor, and `LarShifted` is the rest of the
result. `VmEntry` applies the processor's checks of a 64-bit guest's segments, among them
that the reserved bits of a usable segment are zero.

### VmxErrors

`stack` holds the calls of `PrintVMXError`, each waiting for a VMREAD or for the
report of one that failed. `Other` is another call of the handler on the
same processor, which loads, clears or writes the VMCS at any time. A name of
`error_codes.cpp` is the code that it stands for.

### EptTables

The statements that zero and fill the tables, on tables of `N` entries of
`EntrySize` bytes with anything in the pool's memory. `RtlZeroMemory` counts
bytes and is given entries, and both loops set copies, so that the tables after
the construction are, apart from `pml4[0]`, zero or what the pool held.
`Translate` is the walk that the processor would make: the driver writes no EPT
pointer to the VMCS (the lines are commented out, `virtualization.cpp:311-319`).

### GuestEntry

The four parts of what VM entry judges, in the driver's order: loading the driver
builds the EPT tables (`BuildEpt`); `EnterVmxonMode` and the first part of
`PopulateActiveVMCS` compute the control registers and words (`Control`); its second
part writes the segments (`Segment`), its third the guest's CR0 and CR4 (`Control`
again); then the processor answers (`Entry`). A fault of VMXON or WRMSR ends it. Each
part has its own variables and its own specification (`EptSpec`, `ControlSpec`,
`SegmentSpec`), which the composition implements. `GuestMemoryTrue` is about two
of them: the tables are wrong, and no control word makes the processor use them.

## What is checked

`tlc -config <cfg> <module>` for each:

| Run | Instance | Properties |
|---|---|---|
| `enter_serial` | 2 processors, `DriverEntry` and one client, one call at a time, migration, every operation may be refused | `TypeOK`, `NotCorrupted`, `QuiescentWhenIdle`, `LaunchReady`, `HostStackOwned`, `CrashExplained`, `CallEnds`, `GuestNeverStops`, `SessionImplemented` |
| `enter_concurrent` | 2 processors, `DriverEntry` and two clients at the same time, migration; VMPTRLD, VMLAUNCH and VM entry may be refused (VMXON fails as well where two threads meet on a processor); a write of the locked MSR faults or is ignored | `CapturedKeepsVmx`, `VmxOffWhenIdle`, `OneAttemptPerProcessor`, `ReturnedMeansFailed`, `GuestStuckAtCpuid`, `CaptureIsForever` |
| `enter_corrupt` | 3 processors, two clients, only VMLAUNCH may fail | `NotCorrupted` is violated |
| `enter_vmxon` | one processor, `DriverEntry`, only VMXON may fail | `FailedVmxonStops` is violated |
| `lifecycle` | 3 loads, 2 clients, 8 kinds of processor, every allocation, every creation and the deletion of the link may fail | `TypeOK`, `CapturedKeepsImage`, `LoadedIsUsable`, `FailedLoadUndone`, `NoNameCollision`, `ContextNeverFreed`, `UnloadLeaksContext`, `LoadEnds` |
| `lifecycle_vendor` | one load, no failure | `OnlyOnIntel` is violated |
| `lifecycle_vtx` | one load, no failure | `OnlyWithVmx` is violated |
| `lifecycle_alloc` | one load, a region may be refused | `AllocationFailureStops` is violated |
| `lifecycle_majors` | one load, no failure | `RestHandled` is violated |
| `populate` | 3 processors, one without the MSR of the secondary controls; 2 calls; two moves of the thread in the second, or a machine without one or two of the fields | `TypeOK`, `EntryStateComplete`, `StatusTellsLate`, `MixingNeedsMoves`, `DumpShowsWhole`, `BlocksImplemented` |
| `guest_entry` | EPT tables of 2 entries of 2 bytes with any leftovers; 28 kinds of processor (TRUE versions for none, one or three words, controls supported or not, SMEP, SMX, lock); the descriptors of a 64-bit Windows system, 12 combinations of selectors with level 1 and null selectors in DS, ES and FS; leftovers of LAR, and its undefined bits zero or the limit's | `TypeOK`, `RegistersSound`, `ControlsSound`, `SegmentsSound`, `EntryHangsOnSegments`, `LeftoversContained`, `GuestMemoryTrue` |
| `vmx_errors` | a stack four reports deep, three steps of another call | `TypeOK`, `ReportExplained`, `HandlerTellsEntry`, `ReportEnds` |

Five of these are conjunctions of named parts, which the theorems prove one by one:
`RegistersSound` (`FixedBitsHold`, `NothingSwitchedOff`, `FaultExplained`),
`ControlsSound` (`ControlsMinimal`, `NothingDangling`, `LongModeBothWays`), `SegmentsSound`
(`GuestSegmentsTrue`, `HostSegmentsSound`), `LeftoversContained` (`OnlyLowReached`,
`LeftoversBehindFirstEighth`) and `ReportExplained` (`NamesTheCause`, `OverflowExplained`).

What the passing runs show. With one call at a time the handler is right in
its essentials: it cleans up what it did, in the right order, and launches only a fresh
VMCS; every way it can stop the machine has a known cause
(`CrashExplained`). With several calls at a time what remains is what each
processor holds by itself: a captured processor stays in VMX operation with its VMCS
active, is never given back, and never gets past its CPUID; and when the last
call is over without a crash, no processor is left in VMX operation
(`VmxOffWhenIdle`). Where a locked MSR faults, each processor is good for one
call at most (`OneAttemptPerProcessor`). A load that fails
leaves nothing, but for an earlier load's link that could not be deleted; with such a
link, and only then, a load finds its name taken (`NoNameCollision`); a load that
succeeds is usable; unloading leaks the processor context (which `UnloadLeaksContext` states exactly); the image outlives every
captured processor because the captured call never completes its request.

Below the level of instructions: populating writes every field that VM entry and VM
exit need but one, under its own encoding, from this call (`EntryStateComplete`); the one is
the guest's `IA32_DEBUGCTL`, whose write is commented out (`virtualization.cpp:618`) and
which stays the zero of the allocated region. Populating mixes two processors only if the thread is moved away and back (`MixingNeedsMoves`); what
it returns tells of exactly the failures after the assignment
(`StatusTellsLate`). Masking CR4 with the fixed bits of CR0 is harmless
(`FixedBitsHold`, `NothingSwitchedOff`, for processors whose CR0 may hold any of CR4's
bits); the words are what was asked for and the processor insists on, and nothing that
needs another field (`NothingDangling`), but for two controls that a processor without
the TRUE MSRs insists on: "load debug controls" loads the `IA32_DEBUGCTL` that nobody wrote, and with
"CR3-load exiting" and a count of targets of zero every load of CR3 exits. The segments
are right for every plain selector, up to the reserved bits. VM entry refuses them only
if DS, ES, FS or GS has a selector that is not plain or LAR left a bit set in its
undefined ones; it takes them only if no selector has level 1 and no usable segment such a
bit (`EntryHangsOnSegments`). Where LAR gives the limit's bits there, an
ordinary 4 GB data segment in DS or ES is enough to be refused.
The EPT tables do not map what they were meant to: the short RtlZeroMemory clears the pool's leftovers where a translation begins and no
further (`LeftoversContained`), and the guest's memory is right only because no word
turns EPT on (`GuestMemoryTrue`). An undisturbed report names its instruction's error, and
the stack overflows only without a current VMCS (`NamesTheCause`, `OverflowExplained`).

What the violations show is quoted under "findings" in `PROJECT.json`: the
comment, message or name in the source that the code does not live up to.
`enter_corrupt`: `DriverEntry`'s VMLAUNCH fails, two clients then load the VMCS on
two processors (a processor each, so no locked MSR is written twice).
`enter_vmxon`: a failed VMXON is followed by VMCLEAR.
`lifecycle_*`: the vendor check accepts every vendor, the VMX check tests the bit
of XSAVE, a failed allocation of a region is a success, and the loop over the
major functions leaves out the last one.

Other places where the source and its own words differ, seen while modelling and kept
in the models as the code is: the status of the VMWRITEs before line 399 of
`virtualization.cpp` is lost, although the handler prints a message for a status that
failed; the dump prints `SYSENTER_EIP` under the name of `SYSENTER_ESP` and the other way
round (279-282); `FieldEncoding` has 8 bits for an index that has 9 (`vmcs_field.h:39`);
`reserved3` of `PinBasedControls` says [8:31] and has 25 bits (`vmcs.h:230`); the level 1
of a selector is taken for the table indicator (`processor.cpp:24`); "couldn't read
instruction error" is never printed, since the status of a failed VMREAD is a success
(`virtualization.cpp:721`), and the exit reason is printed before there was an exit (726);
the entries of the EPT tables are set in copies (`processor_context.cpp:72`, 83).

Two behaviours that pass look odd and are what the code does:
`ReturnedMeansFailed` (the only status a caller ever gets back is that of a failed
VMLAUNCH, and it counts as a success) and `ContextNeverFreed` (no failure after the
allocation of the context reaches the cleanup label as one, so
`FreeProcessorContext` is dead code, which hides that it deletes null pointers).

### Bounds

`MaxCalls`, `MaxLoads`, `MaxMoves`, `MaxOthers` and `MaxDepth` are the models' only
bounds; the variables they limit count and decide nothing else, but for `MaxDepth`,
the size of the kernel stack. Two processors give one that is captured or in
VMX operation and one that is not. Two concurrent calls are enough for every
conflict over the one VMCS. In `enter_serial` the second call meets whatever the
first left behind (launch state, lock, VMCS content, corruption) on the same
processor or the other, and the theorems remove the bounds. Three loads meet a stale link,
a link that an earlier load already failed to delete, and leaked blocks. In `populate` two moves are needed to come back, and two calls
to find fields of an earlier one; the third processor lacks an MSR. One missing
field of each part, and one in each of two parts, tell a status that accumulates
from one that is assigned. The constraint `MovedOrMissing` keeps the two apart: the thread is moved in the second
call, and not on a machine that lacks a field (a missing field makes an
instruction fail wherever it is executed); the theorems about moves and
about the status have no such restriction.
In `guest_entry` the tables keep the ratio that matters: a part of each is zeroed (an
eighth in the code, half there) and the rest is left. `vmx_errors` is deep enough for
reports that call each other, return and call again, and its other call has the steps to
take the VMCS away, give it back and overwrite the error.
Symmetry is used only where no liveness is checked.

### Fairness and deadlock

`FairSpec` of `EnterVmx`: weak fairness of each thread's steps (the scheduler runs
ready threads) and of each processor's (a processor executes instructions).
`Enter` and `Migrate` have no fairness: nobody must call, no thread must be
moved. `FairSpec` of `DriverLifecycle`: weak fairness of `DriverEntry` and of
`DriverUnload` once unloading is requested and possible. `FairSpec` of `VmxErrors`:
weak fairness of the report's own steps (a thread in the kernel runs on), none
of the other call's. Deadlock is not checked where the systems do stop: at a
bug check, when a processor is captured by `DriverEntry` and nobody can call, at
the end of a function, at VM entry in `GuestEntry`, or when the bound is reached.

## What is proved

All theorems hold for any sets of threads, processors and clients, any bound
and any set of operations that may fail, under the named ASSUMEs of the
modules. Those that say something of the world: threads and processors are
finite sets (`FiniteAssumption` of `EnterVmx`, for counting them);
`ProcessorsAreReal` of `ControlBits` is the processor manual's rules about
capability MSRs, among them that of the controls which need a field that the driver
does not write no processor insists on any but the two of `DefaultOne`; `GdtIsTheSystems` and `LoadedIsLoadable` of `Segments` that the
kernel's own selectors and descriptors are those of a 64-bit system, and that a
selector found in DS, ES, FS or GS is one that the processor let somebody load;
`UndefinedAssumption`, that LAR's undefined bits are four, with any values.

- `EnterVmxProofs`: `TypeCorrect`; `CustomCodesAreSuccesses`, on which the lemma
  `NoErrorBranch` rests, which makes the steps of the handler deterministic in
  their control. `CaptureForever` is an action property, proved by what each step
  does to `mode`. `CaptureKept` needs `CaptureInv` (`current \subseteq active`,
  captured processors are in VMX operation with a current VMCS): it is inductive
  because each VMX instruction changes these sets only on the processor that
  executes it (`VmcsStep`), and no thread executes on a captured processor.
  `ReturnsAfterFailure` strengthens its property with the status at each step
  of the cleanup.
  `StuckAtCpuid`: no step moves a guest's RIP past CPUID. `VmxOffInTheEnd` needs
  `VmxonCounted`: the processors in VMX operation are no more than the calls
  between VMXON and VMXOFF, captured ones included (`Inside`), an inequality between
  cardinalities, since with overlapping calls no call knows whose VMXON it was.
  `OneAttempt` counts likewise, the calls past the WRMSR against the locked processors.
- `EnterVmxSerialProofs`, with `Serialized`: `SerialInv` is inductive. The
  properties alone are not: that VMXOFF finds no active VMCS follows from the
  flags being right at each step (`FlagsTrue`), from one call at a time
  (`OneCaller`), from VMX operation being off outside a call (`OffOutsideCall`)
  and from the VMCS being active just where it is current (`ActiveIsCurrent`,
  `ClearedUnlessRefused`). `FreshVmcs` carries the launch state and the owners
  from VMCLEAR to VMLAUNCH. From it: `SerialNotCorrupted`, `SerialQuiescent`,
  `SerialLaunchReady`, `SerialStackOwned` (the stacks of a captured processor's
  VMCS are the captured thread's) and `SerialCrashes`, with a case for each
  instruction that can stop the machine; and `SessionRefined`, every step is a step
  of `VmxSession` or a stutter.
- `DriverLifecycleProofs`: `LifecycleInvariant`, for types and
  `LifecycleInv == ClientsInside /\ EntryProgress /\ HeapAccounted`. `HeapAccounted`
  says at every step which blocks the driver holds on top of `before`; the types
  (no negative count, that is, nothing freed twice) depend on it, so types
  and invariant are proved together. From it follow `ImageKept`, `UsableWhenLoaded`,
  `FailureUndone`, `FreeIsDead`, `ContextLeaks`, `NamesFree`.
  `EveryVendorAccepted` is about `VendorIsIntel` alone.
- `PopulateVmcsProofs`. `EncodingsDistinct`: no two fields of `vmcs_field_index.h`
  have the same encoding, and the area and the width that the processor reads from an
  encoding are those of the family it is listed in. The lemmas put each family in a
  block of 1024 numbers and merge the tables block by block. `ProgramShape`
  follows the function's text from part to part: it is a sequence of steps of which
  exactly the last one of the controls assigns `status`; every write
  gives its field a value at least as wide as the field; every
  field of `EntryNeeds` is written. On these two rest:
  `EntryStateIsComplete`, whose invariant `KeptInv` is that each write that is behind
  and did not fail is still there (a later write is of another encoding, or of the
  same field: this is where `EncodingsDistinct` is needed); `DumpIsWhole`, whose
  invariant `DumpInv` is that no field holds more bits than its encoding gives it, so that
  the dump's variables, each as wide as its field (`DumpIsFair`), cut nothing;
  `TwoMovesToMix`, from an invariant that ties what is known of a processor to the
  number of moves; `StatusIsLate`, from one that ties `status` to the steps that failed
  since the last assignment; `BlocksRefined`, every step of the program is a step of
  `PopulateBlocks` or a stutter.
- `BitLayoutsProofs`: lemmas that compute the places of the bit fields of the five control
  words, CR4, `IA32_FEATURE_CONTROL` and the exit reason from their declared widths. They rest on
  `StartsSolves`, that the recursion which defines `Starts` has a solution (built from the
  least number for which there is none yet, since induction theorems that take an
  operator are out of reach).
- `ControlBitsProofs`: `FieldPlaces`, that the fields which the driver sets by name, those
  that need a field of the VMCS, and the failure flag of the exit reason are, as declared and laid
  out, the bits that the processor's manual numbers; `FixedBits`, `NothingLost`, `MinimalControls`, `NoneDangles`, `LongMode`,
  `Faults`, by following the registers from stage to stage.
- `GuestEntryProofs`: `ControlPart`, `SegmentPart` and `EptPart`, every behaviour of
  the composition is one of each part, so that the parts' theorems hold of the whole
  (`PartsHold`), and with them `EntryRegisters`, `EntryControls`, `EntrySegments`,
  `EntryTables` and `EntryOutcome`. `GuestSegments`, `HostSegments` and `EntryBySegments` are
  those of the segments; their invariant is that each register behind `next` is in the
  VMCS as it should be, and the last one follows the processor's checks, register by
  register, for a plain selector whose reserved bits are zero, for one of level 1, and for a
  usable segment with a reserved bit set. `OnlyLow` and `FirstEighth` are
  proved for tables of any size, from an invariant that says statement by statement
  which entries are zero. `EntryTypes` relates the progress of the parts.
  `EntryMemory` follows from `NothingDangling` and `FieldPlaces`: the bit that would use the
  tables needs a field that nobody writes, is not one of the two that a processor may
  insist on, and so is in no word.
- `VmxErrorsProofs`: `CauseNamed`, `OverflowCause` and so `ReportsExplained`, for a
  stack of any depth. Their invariant `Inv` adds to the properties that all calls but the innermost wait
  (`Types`) and that an undisturbed report has its VMCS, its error number there, and what
  it has read of it (`ReportInv`). `HandlerTells`: the bit that the handler tests is
  the processor's, by the places of the exit reason's fields.

Every safety property, action property and refinement that a run checks is the statement
of a theorem. Only model-checked is liveness (`CallEnds`, `GuestNeverStops`, `LoadEnds`,
`ReportEnds`), which the provers do not reach under fairness. The properties that the
other runs show violated have, of course, no theorem.

## Not modelled

- Interrupts and NMIs in the guest: in the one instruction before CLI the system's
  handler would run as the guest, and with it any code of the kernel.
- What the I/O manager does with an IRP that a handler does not complete
  (`irp_handlers.cpp:37` and the others return without `IoCompleteRequest`):
  `DriverLifecycle` lets the client's calls return.
- The numbers behind the values in the VMCS (addresses, the contents of
  registers): `PopulateVmcs` follows where they come from, `ControlBits` and
  `Segments` compute those that VM entry checks.
- Structures that no code uses: most of `vmcs.h`, `paging.h` beyond its entries,
  `msr.h` beyond `VmxBasicMsr` and `FeatureControlMsr`, the EPT pointer.
- `OpenPhysicalMemory`, `WritePhysicalMemory` and `ReadPhysicalMemory`: nothing calls
  them, so that no behaviour of the driver depends on what they do.
- The alignment inside `AllocateContingiousPhysicalMemoryAligned`: its allocation
  can fail in `DriverLifecycle`, its pointer arithmetic is not followed.
- Assembly helpers that read a register, debug output, and the wording of messages.
- One module in which `DriverLifecycle` and `EnterVmx` run together. What the first
  takes of the second (`EnterOutcomes`: the call stops the machine, is captured or
  comes back) is what `CallEnds`, `CaptureIsForever` and `ReturnedMeansFailed` show
  of it, and neither reads the other's state.
