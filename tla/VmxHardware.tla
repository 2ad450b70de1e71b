---------------------------- MODULE VmxHardware ----------------------------
(***************************************************************************)
(* The logical processors and the one VMCS of the driver, as far as the    *)
(* VMX instructions that virtualization.cpp issues change them.  The       *)
(* processor is not part of the repository: every definition here is       *)
(* external, written from how the driver uses the instruction.             *)
(*                                                                         *)
(* The driver allocates ONE VMXON region and ONE VMCS region for all       *)
(* processors (processor_context.h), so there is one launch state and a    *)
(* set of processors on which that VMCS is active.                         *)
(***************************************************************************)
CONSTANTS
    Cpus,          \* logical processors
    MayRefuse,     \* VMX operations that may fail on this machine
    SmxCpus,       \* those that have SMX
    LockedWrite    \* what WRMSR to a locked IA32_FEATURE_CONTROL may do here:
                   \* "faults" as on hardware, "ignored" by a hypervisor below

Refusable == {"vmxon", "vmclear", "vmptrld", "vmwrite", "vmlaunch", "entry"}

\* The write to a locked MSR that was ignored is recorded with them.
Recorded == Refusable \cup {"wrmsr"}

ASSUME RefusalAssumption == MayRefuse \subseteq Refusable
ASSUME LockAssumption    == LockedWrite \subseteq {"faults", "ignored"} /\ LockedWrite # {}

VARIABLES
    vmxe,      \* processors with CR4.VMXE set
    locked,    \* processors with IA32_FEATURE_CONTROL locked (VMX enabled)
    vmxon,     \* processors in VMX operation
    current,   \* processors whose current-VMCS pointer is the driver's VMCS
    active,    \* processors on which the VMCS is active
    launch,    \* launch state of the VMCS
    corrupt,   \* the VMCS was active on two processors, or across a VMXOFF
    refused    \* history: the operations that have failed or been ignored so far

hwVars == <<vmxe, locked, vmxon, current, active, launch, corrupt, refused>>

HwTypeOK ==
    /\ vmxe \subseteq Cpus
    /\ locked \subseteq Cpus
    /\ vmxon \subseteq Cpus
    /\ current \subseteq Cpus
    /\ active \subseteq Cpus
    /\ launch \in {"clear", "launched"}
    /\ corrupt \in BOOLEAN
    /\ refused \subseteq Recorded

\* The firmware may have locked the MSR; the VMCS region is zeroed memory,
\* whose launch state means nothing before the first VMCLEAR.
HwInit ==
    /\ vmxe = {}
    /\ locked \in SUBSET Cpus
    /\ vmxon = {}
    /\ current = {}
    /\ active = {}
    /\ launch \in {"clear", "launched"}
    /\ corrupt = FALSE
    /\ refused = {}

\* An instruction's result as its intrinsic returns it: 0 is success.
Results(operation) == IF operation \in MayRefuse THEN {0, 1} ELSE {0}

Record(operation, failed) ==
    refused' = IF failed THEN refused \cup {operation} ELSE refused

SetVmxe(c) ==
    /\ vmxe' = vmxe \cup {c}
    /\ UNCHANGED <<locked, vmxon, current, active, launch, corrupt, refused>>

LockFeatureControl(c) ==
    /\ locked' = locked \cup {c}
    /\ Record("wrmsr", c \in locked)
    /\ UNCHANGED <<vmxe, vmxon, current, active, launch, corrupt>>

\* VMXON fails in VMX operation, and when the processor refuses the region.
VmxOn(c, result) ==
    /\ result \in IF c \in vmxon THEN {1} ELSE Results("vmxon")
    /\ vmxon' = IF result = 0 THEN vmxon \cup {c} ELSE vmxon
    /\ Record("vmxon", result # 0)
    /\ UNCHANGED <<vmxe, locked, current, active, launch, corrupt>>

\* The VMCS becomes inactive and not current here, with launch state clear.
\* If it is active elsewhere, that processor still holds its own copy.
VmClear(c, result) ==
    /\ result \in Results("vmclear")
    /\ IF result = 0
       THEN /\ current' = current \ {c}
            /\ active' = active \ {c}
            /\ launch' = "clear"
            /\ corrupt' = (corrupt \/ active \ {c} # {})
       ELSE UNCHANGED <<current, active, launch, corrupt>>
    /\ Record("vmclear", result # 0)
    /\ UNCHANGED <<vmxe, locked, vmxon>>

VmPtrld(c, result) ==
    /\ result \in Results("vmptrld")
    /\ IF result = 0
       THEN /\ current' = current \cup {c}
            /\ active' = active \cup {c}
            /\ corrupt' = (corrupt \/ active \ {c} # {})
       ELSE UNCHANGED <<current, active, corrupt>>
    /\ Record("vmptrld", result # 0)
    /\ UNCHANGED <<vmxe, locked, vmxon, launch>>

\* A sequence of VMWRITEs with a current VMCS: 1 if one of them failed.
VmWrite(result) ==
    /\ result \in Results("vmwrite")
    /\ Record("vmwrite", result # 0)
    /\ UNCHANGED <<vmxe, locked, vmxon, current, active, launch, corrupt>>

\* What the processor finds as launch state: anything once it is corrupt.
LaunchStates == IF corrupt THEN {"clear", "launched"} ELSE {launch}

\* VMLAUNCH with a current VMCS.  "fail" returns to the driver, "exit" is a
\* VM exit for a failed entry (guest-state checks), "guest" runs the guest.
VmLaunch(outcome) ==
    /\ \E seen \in LaunchStates :
          outcome \in
             IF seen = "launched" THEN {"fail"}
             ELSE {"guest"} \cup (IF "vmlaunch" \in MayRefuse THEN {"fail"} ELSE {})
                            \cup (IF "entry" \in MayRefuse THEN {"exit"} ELSE {})
    /\ launch' = IF outcome = "guest" THEN "launched" ELSE launch
    /\ refused' = refused \cup (CASE outcome = "fail"  -> {"vmlaunch"}
                                [] outcome = "exit"  -> {"entry"}
                                [] outcome = "guest" -> {})
    /\ UNCHANGED <<vmxe, locked, vmxon, current, active, corrupt>>

\* VMXOFF does not flush: a VMCS that is still active may be corrupted.
VmxOff(c) ==
    /\ vmxon' = vmxon \ {c}
    /\ current' = current \ {c}
    /\ corrupt' = (corrupt \/ c \in active)
    /\ UNCHANGED <<vmxe, locked, active, launch, refused>>
=============================================================================
