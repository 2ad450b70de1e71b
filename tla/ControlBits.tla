---------------------------- MODULE ControlBits -----------------------------
(***************************************************************************)
(* The control words and control registers that the driver computes from   *)
(* the capability MSRs: EnterVmxonMode's CR0, CR4 and                      *)
(* IA32_FEATURE_CONTROL, ModifyControlValue and its five uses in           *)
(* PopulateActiveVMCS, the guest's CR0 and CR4.                            *)
(*                                                                         *)
(* A register or a word is the set of the numbers of its one bits.  What   *)
(* the capability MSRs report is fixed per processor; the rules by which   *)
(* VMXON and VM entry judge the result are the processor's.                *)
(***************************************************************************)
EXTENDS BitLayouts

Words == {"secondary", "pin", "primary", "exit", "entry"}

\* The controls that make the processor use a field of the VMCS that the driver
\* does not write: bitmaps, EPTP, VPID, timers, MSRs to load, IA32_DEBUGCTL (which
\* "load debug controls" loads beside DR7), the count of CR3 targets.
NeedAField ==
    [w \in Words |->
        LET Bits(layout, names) == {Bit(layout, n) : n \in names}
        IN  CASE w = "pin"  -> Bits(PinBasedControls, {"vmxPreemptionTimer", "processInterrupts"})
              [] w = "primary" -> Bits(VMExecCtrlFields,
                     {"tscOffset", "useTprShadow", "virtualizeIoBitmaps", "virtualizeMsrBitmaps",
                      "cr3LoadExit"})
              [] w = "secondary" -> Bits(SecondaryVMExecCtrls,
                     {"virtualizeApic", "enableEPT", "virtualizeAPICMsr", "enableVPID",
                      "apicRegisterVirt", "virtualInterruptDelivery", "pauseLoopExiting",
                      "enableVMFUNC", "vmcsShadowing", "enableENCLSExit", "enablePML",
                      "EPTViolation", "enableXSaves_XStores", "useTSCScaling"})
              [] w = "exit" -> Bits(VMExitCtrlFields,
                     {"loadPerfGlobalCtrlOnExit", "loadPATMsrOnExit", "loadEFERMsrOnExit"})
              [] w = "entry" -> Bits(VMEntryCtrlFields,
                     {"loadDebugCtrls", "loadPerfGlobalCtrlOnEntry", "loadPATMsrOnEntry",
                      "loadEFERMsrOnEntry", "loadBNDCFGSOnEntry"})]

\* Of them, those of the default1 class: a processor may insist on them, and one
\* without the TRUE capability MSRs does.
DefaultOne ==
    [w \in Words |-> CASE w = "primary" -> {Bit(VMExecCtrlFields, "cr3LoadExit")}
                       [] w = "entry"   -> {Bit(VMEntryCtrlFields, "loadDebugCtrls")}
                       [] OTHER         -> {}]

CONSTANT
    Processors   \* what a processor reports and what the system has set on it

\* true: bit 55 of IA32_VMX_BASIC.  low, high: the low and high halves of the
\* capability MSR of each word; trueLow: the low half of its TRUE version.
\* The high halves of both versions are the same, and TRUE only permits zeros.
ProcessorsAssumption ==
    \A p \in Processors :
        /\ p.true \in BOOLEAN /\ p.smx \in BOOLEAN /\ p.locked \in BOOLEAN
        /\ \A w \in Words : p.trueLow[w] \subseteq p.low[w] /\ p.low[w] \subseteq p.high[w]
        \* and insists on nothing that must be set up first, but for two controls
        /\ \A w \in Words : p.low[w] \cap NeedAField[w] \subseteq DefaultOne[w]
        \* the registers hold what the processor supports; it needs, for VMX
        \* operation, bits that it supports
        /\ p.cr0 \subseteq p.cr0Fixed1 /\ p.cr0Fixed0 \subseteq p.cr0Fixed1
        /\ p.cr4 \subseteq p.cr4Fixed1 /\ p.cr4Fixed0 \subseteq p.cr4Fixed1
        /\ Bit(Cr4, "vmxe") \in p.cr4Fixed1
        \* IA32_VMX_CR0_FIXED1 has all of its low half, and CR4 no bit above it
        /\ p.cr4Fixed1 \subseteq p.cr0Fixed1
ASSUME ProcessorsAreReal == ProcessorsAssumption

VARIABLES
    stage,     \* the step that comes next
    cpu,       \* the processor
    cr0, cr4, feature,
    words,     \* words[w]: the control word w in the VMCS
    guestCr,   \* the guest's CR0 and CR4 in the VMCS
    crash      \* "none", "GP"

controlVars == <<stage, cpu, cr0, cr4, feature, words, guestCr, crash>>

ControlSteps == <<"cr0", "cr4", "vmxe", "feature", "vmxon", "secondary", "pin", "primary", "exit",
           "entry", "guestcr", "vmlaunch", "launched">>
StepNumber(s) == CHOOSE i \in DOMAIN ControlSteps : ControlSteps[i] = s
After(s)      == ControlSteps[1 + StepNumber(s)]

ControlInit ==
    /\ stage = "cr0"
    /\ cpu \in Processors
    /\ cr0 = cpu.cr0 /\ cr4 = cpu.cr4
    /\ feature = IF cpu.locked THEN {Bit(FeatureControlMsr, "lock"),
                                   Bit(FeatureControlMsr, "enable_vmxon")} ELSE {}
    /\ words = [w \in Words |-> {}]
    /\ guestCr = [r \in {"cr0", "cr4"} |-> {}]
    /\ crash = "none"

At(s) == crash = "none" /\ stage = s
Proceeds  == stage' = After(stage) /\ UNCHANGED <<cpu, crash>>

-----------------------------------------------------------------------------
(* EnterVmxonMode *)

\* A masking that takes the must-be-one bits for the may-be-one bits.
BadFixed(value, fixed0, fixed1) == value \cap fixed0

\* value |= FIXED0; value &= FIXED1;
Fixed(value, fixed0, fixed1) == (value \cup fixed0) \cap fixed1

SetCr0 ==
    /\ At("cr0")
    /\ cr0' = Fixed(cr0, cpu.cr0Fixed0, cpu.cr0Fixed1)
    /\ Proceeds
    /\ UNCHANGED <<cr4, feature, words, guestCr>>

\* CR4 is masked with IA32_VMX_CR0_FIXED1.
FixedCr4(value) == Fixed(value, cpu.cr4Fixed0, cpu.cr0Fixed1)

SetCr4 ==
    /\ At("cr4")
    /\ cr4' = FixedCr4(cr4)
    /\ Proceeds
    /\ UNCHANGED <<cr0, feature, words, guestCr>>

SetVmxe ==
    /\ At("vmxe")
    /\ cr4' = cr4 \cup {Bit(Cr4, "vmxe")}
    /\ Proceeds
    /\ UNCHANGED <<cr0, feature, words, guestCr>>

\* A locked IA32_FEATURE_CONTROL, or the bit of a missing SMX, makes WRMSR fault.
WriteFeatureControl ==
    /\ At("feature")
    /\ IF cpu.locked \/ ~cpu.smx
       THEN crash' = "GP" /\ UNCHANGED <<stage, cpu, feature>>
       ELSE /\ feature' = feature \cup {Bit(FeatureControlMsr, "lock"),
                                        Bit(FeatureControlMsr, "enable_smx"),
                                        Bit(FeatureControlMsr, "enable_vmxon")}
            /\ Proceeds
    /\ UNCHANGED <<cr0, cr4, words, guestCr>>

\* What VMXON demands of the registers.
VmxonAccepts ==
    /\ cpu.cr0Fixed0 \subseteq cr0 /\ cr0 \subseteq cpu.cr0Fixed1
    /\ cpu.cr4Fixed0 \subseteq cr4 /\ cr4 \subseteq cpu.cr4Fixed1
    /\ 13 \in cr4
    /\ {0, 2} \subseteq feature

Vmxon ==
    /\ At("vmxon")
    /\ IF VmxonAccepts THEN Proceeds ELSE crash' = "GP" /\ UNCHANGED <<stage, cpu>>
    /\ UNCHANGED <<cr0, cr4, feature, words, guestCr>>

-----------------------------------------------------------------------------
(* PopulateActiveVMCS *)

\* The entry controls are not asked for a 64-bit guest.
BadRequested ==
    [w \in Words |->
        CASE w = "primary" -> {Bit(VMExecCtrlFields, "activateSecondaryControls")}
          [] w = "exit"    -> {Bit(VMExitCtrlFields, "hostAddrSpaceSize")}
          [] OTHER         -> {}]

\* The lines that turn EPT on are taken in, those that write its pointer are not.
BadRequestedEpt ==
    [w \in Words |->
        CASE w = "primary"   -> {Bit(VMExecCtrlFields, "activateSecondaryControls")}
          [] w = "secondary" -> {Bit(SecondaryVMExecCtrls, "enableEPT")}
          [] w = "exit"      -> {Bit(VMExitCtrlFields, "hostAddrSpaceSize")}
          [] w = "entry"     -> {Bit(VMEntryCtrlFields, "ia32ModeGuest")}
          [] OTHER           -> {}]

\* What is set before ModifyControlValue is called.
Requested ==
    [w \in Words |->
        CASE w = "primary" -> {Bit(VMExecCtrlFields, "activateSecondaryControls")}
          [] w = "exit"    -> {Bit(VMExitCtrlFields, "hostAddrSpaceSize")}
          [] w = "entry"   -> {Bit(VMEntryCtrlFields, "ia32ModeGuest")}
          [] OTHER         -> {}]

\* The TRUE version is never consulted.
BadLow(w) == cpu.low[w]

\* The low half of the MSR that is consulted for w.
Low(w) == IF cpu.true /\ w # "secondary" THEN cpu.trueLow[w] ELSE cpu.low[w]

\* The two halves exchanged.
BadHalves(requested, low, high) == (requested \cap low) \cup high

\* What may not be one is cleared, what must be one is set.
ModifyControlValue(requested, low, high) == (requested \cap high) \cup low

\* IA32_VMX_PROCBASED_CTLS2 exists only where the primary controls can have
\* "activate secondary controls".
WriteControl(w) ==
    /\ At(w)
    /\ IF w = "secondary" /\ 31 \notin cpu.high["primary"]
       THEN crash' = "GP" /\ UNCHANGED <<stage, cpu, words>>
       ELSE /\ words' = [words EXCEPT ![w] = ModifyControlValue(Requested[w], Low(w), cpu.high[w])]
            /\ Proceeds
    /\ UNCHANGED <<cr0, cr4, feature, guestCr>>

WriteGuestRegisters ==
    /\ At("guestcr")
    /\ guestCr' = [guestCr EXCEPT !["cr0"] = Fixed(cr0, cpu.cr0Fixed0, cpu.cr0Fixed1),
                                  !["cr4"] = FixedCr4(cr4)]
    /\ Proceeds
    /\ UNCHANGED <<cr0, cr4, feature, words>>

Vmlaunch ==
    /\ At("vmlaunch")
    /\ Proceeds
    /\ UNCHANGED <<cr0, cr4, feature, words, guestCr>>

ControlNext ==
    \/ SetCr0 \/ SetCr4 \/ SetVmxe \/ WriteFeatureControl \/ Vmxon
    \/ \E w \in Words : WriteControl(w)
    \/ WriteGuestRegisters
    \/ Vmlaunch

ControlSpec == ControlInit /\ [][ControlNext]_controlVars

-----------------------------------------------------------------------------
(* Properties *)

\* The word w has been written.
IsWritten(w) == StepNumber(stage) > StepNumber(w)

\* Which bits of w the processor insists on, by the most permissive of its MSRs.
Insists(w) == IF cpu.true /\ w # "secondary" THEN cpu.trueLow[w] ELSE cpu.low[w]

\* No word has a bit that the processor does not allow, asked for or not.
ControlTypeOK ==
    /\ stage \in {ControlSteps[i] : i \in DOMAIN ControlSteps}
    /\ cpu \in Processors
    /\ DOMAIN words = Words /\ \A w \in Words : words[w] \subseteq cpu.high[w]
    /\ DOMAIN guestCr = {"cr0", "cr4"}
    /\ crash \in {"none", "GP"}

\* The registers that EnterVmxonMode leaves satisfy VMXON and, as they are also
\* the host's registers in the VMCS and the guest's derive from them, VM entry,
\* although CR4 is masked with the fixed bits of CR0.
FixedBitsHold ==
    /\ stage = "vmxon" => VmxonAccepts
    /\ stage \in {"vmlaunch", "launched"} =>
           /\ cpu.cr0Fixed0 \subseteq guestCr["cr0"] /\ guestCr["cr0"] \subseteq cpu.cr0Fixed1
           /\ cpu.cr4Fixed0 \subseteq guestCr["cr4"] /\ guestCr["cr4"] \subseteq cpu.cr4Fixed1

\* No bit that the system had set in CR0 or CR4 is lost on the way into the
\* guest: it runs with the paging, the protections and the extended state that
\* its caller had.
NothingSwitchedOff ==
    /\ cpu.cr0 \subseteq cr0 /\ cpu.cr4 \subseteq cr4
    /\ stage \in {"vmlaunch", "launched"} =>
           cpu.cr0 \subseteq guestCr["cr0"] /\ cpu.cr4 \subseteq guestCr["cr4"]

\* VM entry accepts every control word, and no word has a bit that was neither
\* asked for nor insisted on: with the TRUE capabilities the guest does not
\* exit, say, on every access to CR3.
ControlsMinimal ==
    \A w \in Words : IsWritten(w) =>
        /\ Insists(w) \subseteq words[w] /\ words[w] \subseteq cpu.high[w]
        /\ words[w] \subseteq Requested[w] \cup Insists(w)

\* At VMLAUNCH no control is on that makes the processor use a field of the VMCS
\* that the driver has not written, unless the processor insists on it; and that
\* can only be "load debug controls", with which the guest begins with the
\* IA32_DEBUGCTL that the region was allocated with, and "CR3-load exiting", with
\* which every load of CR3 exits, as the count of targets is that of the region.
NothingDangling ==
    stage \in {"vmlaunch", "launched"} =>
        \A w \in Words : words[w] \cap NeedAField[w] \subseteq Insists(w) \cap DefaultOne[w]

\* A 64-bit guest is entered and a 64-bit host comes back: bit 9 of the VM-exit
\* and of the VM-entry controls, as the processor numbers them, is set at
\* VMLAUNCH wherever it can be; and so is bit 31 of the primary controls.
LongModeBothWays ==
    stage \in {"vmlaunch", "launched"} =>
        /\ 9 \in cpu.high["exit"] => 9 \in words["exit"]
        /\ 9 \in cpu.high["entry"] => 9 \in words["entry"]
        /\ 31 \in words["primary"]

\* The only faults on the way to VMLAUNCH are those of a write to a locked
\* IA32_FEATURE_CONTROL, of the SMX bit without SMX, and of reading the secondary
\* controls' MSR where there is none.
FaultExplained ==
    crash = "GP" => \/ stage = "feature" /\ (cpu.locked \/ ~cpu.smx)
                    \/ stage = "secondary" /\ 31 \notin cpu.high["primary"]

\* CR0, CR4 and IA32_FEATURE_CONTROL: what EnterVmxonMode leaves of the two
\* registers is accepted by VMXON and VM entry and loses nothing of the system's,
\* and each fault on the way has its cause.
RegistersSound == FixedBitsHold /\ NothingSwitchedOff /\ FaultExplained

\* The control words that ModifyControlValue computes: accepted, no more than what
\* was asked for or is insisted on, 64-bit mode in both directions, and nothing
\* that makes the processor use a field that the driver has not written, but for
\* the two controls that a processor may insist on.
ControlsSound == ControlsMinimal /\ NothingDangling /\ LongModeBothWays
=============================================================================
