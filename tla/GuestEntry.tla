----------------------------- MODULE GuestEntry -----------------------------
(***************************************************************************)
(* What the driver hands to VM entry, put together: the EPT tables, which  *)
(* loading the driver builds; the control registers and control words,     *)
(* which EnterVmxonMode and the first part of PopulateActiveVMCS compute;  *)
(* the segments, which its second part writes; the guest's control         *)
(* registers, which its third part writes; VMLAUNCH and the processor's    *)
(* judgement.                                                              *)
(***************************************************************************)
EXTENDS EptTables, ControlBits, Segments

vars == <<eptVars, controlVars, segmentVars>>

EptBuilt       == statement = "done"
SegmentsLoaded == next > Len(Order)

Init == EptInit /\ ControlInit /\ SegmentInit

\* DriverEntry: InitializeProcessorContext and InitializeEPT.
BuildEpt ==
    /\ EptNext
    /\ UNCHANGED <<controlVars, segmentVars>>

\* EnterVmxonMode, and the control words of PopulateActiveVMCS.
Control ==
    /\ EptBuilt
    /\ stage = "guestcr" => SegmentsLoaded
    /\ ControlNext
    /\ UNCHANGED <<eptVars, segmentVars>>

\* The segments of PopulateActiveVMCS: after the control words, before CR0.
Segment ==
    /\ crash = "none" /\ stage = "guestcr"
    /\ LoadSegment
    /\ UNCHANGED <<eptVars, controlVars>>

\* The processor's answer to VMLAUNCH.
Entry ==
    /\ crash = "none" /\ stage = "launched"
    /\ VmEntry
    /\ UNCHANGED <<eptVars, controlVars>>

Next == BuildEpt \/ Control \/ Segment \/ Entry

Spec == Init /\ [][Next]_vars

-----------------------------------------------------------------------------
(* Properties *)

\* Every variable has its type, and the parts of the VMCS are written in the
\* order of PopulateActiveVMCS.
TypeOK ==
    /\ EptTypeOK /\ ControlTypeOK /\ SegmentTypeOK
    /\ ~EptBuilt => stage = "cr0"
    /\ next > 1 => StepNumber(stage) >= StepNumber("guestcr")
    /\ stage \in {"vmlaunch", "launched"} => SegmentsLoaded
    /\ outcome # "none" => stage = "launched"

\* The guest sees the machine's memory as it is: it runs without EPT, or with
\* tables that map every page to itself.  What InitializeEPT leaves in the tables
\* does not, so that the guest depends on the control word's bit alone.
GuestMemoryTrue ==
    (stage = "launched" /\ Bit(SecondaryVMExecCtrls, "enableEPT") \in words["secondary"])
        => Identity
=============================================================================
