----------------------------- MODULE VmxSession -----------------------------
(***************************************************************************)
(* What the driver promises a machine on which one call at a time is made: *)
(* at most one processor is in VMX operation, the VMCS is loaded only      *)
(* there, the guest runs only from a loaded VMCS, VMX operation ends only  *)
(* while no guest runs, and the machine may stop at any moment.            *)
(***************************************************************************)
CONSTANTS
    Cpus,      \* logical processors
    Nowhere    \* a value that is not a processor

VARIABLES
    place,   \* the processor in VMX operation, or Nowhere
    vmcs,    \* "unloaded", "loaded" or "running"
    lost,    \* VMX operation once ended with the VMCS still loaded
    up       \* the machine has not stopped

vars == <<place, vmcs, lost, up>>

Init == place = Nowhere /\ vmcs = "unloaded" /\ lost = FALSE /\ up = TRUE

Start(c) ==
    /\ up /\ place = Nowhere
    /\ place' = c
    /\ UNCHANGED <<vmcs, lost, up>>

Load ==
    /\ up /\ place # Nowhere /\ vmcs = "unloaded"
    /\ vmcs' = "loaded"
    /\ UNCHANGED <<place, lost, up>>

Unload ==
    /\ up /\ place # Nowhere /\ vmcs = "loaded"
    /\ vmcs' = "unloaded"
    /\ UNCHANGED <<place, lost, up>>

Run ==
    /\ up /\ place # Nowhere /\ vmcs = "loaded"
    /\ vmcs' = "running"
    /\ UNCHANGED <<place, lost, up>>

\* A VMCS that is still loaded when VMX operation ends is lost.
Stop ==
    /\ up /\ place # Nowhere /\ vmcs # "running"
    /\ place' = Nowhere
    /\ vmcs' = "unloaded"
    /\ lost' = (lost \/ vmcs = "loaded")
    /\ UNCHANGED up

Halt ==
    /\ up /\ up' = FALSE
    /\ UNCHANGED <<place, vmcs, lost>>

Next ==
    \/ \E c \in Cpus : Start(c)
    \/ Load \/ Unload \/ Run \/ Stop \/ Halt

Spec == Init /\ [][Next]_vars
=============================================================================
