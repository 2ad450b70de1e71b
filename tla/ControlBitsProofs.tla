------------------------- MODULE ControlBitsProofs --------------------------
(* What ControlBits computes, proved for every processor. *)
EXTENDS ControlBits, BitLayoutsProofs

\* The fields that the driver sets or tests are where the processor has the bits
\* of these names, as vmcs.h, msr.h and processor.h declare them and the compiler
\* lays them out: CR4.VMXE, the lock, SMX and VMX bits of IA32_FEATURE_CONTROL,
\* "activate secondary controls", "host address-space size", "IA-32e mode guest"
\* and the failed-entry bit of the exit reason.  So are, by the numbers of the
\* processor's manual, all controls that need a field which the driver does not
\* write; no field that the driver sets in a word touches one of them.
THEOREM FieldPlaces ==
    /\ Bit(Cr4, "vmxe") = 13
    /\ Bit(FeatureControlMsr, "lock") = 0 /\ Bit(FeatureControlMsr, "enable_smx") = 1
    /\ Bit(FeatureControlMsr, "enable_vmxon") = 2
    /\ Bit(ExitReason, "VMEntryFailure") = 31
    /\ Requested["primary"] = {31} /\ Requested["exit"] = {9} /\ Requested["entry"] = {9}
    /\ Requested["pin"] = {} /\ Requested["secondary"] = {}
    /\ NeedAField["pin"] = {6, 7} /\ NeedAField["primary"] = {3, 15, 21, 25, 28}
    /\ NeedAField["secondary"] = {0, 1, 4, 5, 8, 9, 10, 13, 14, 15, 17, 18, 20, 25}
    /\ NeedAField["exit"] = {12, 19, 21} /\ NeedAField["entry"] = {2, 13, 14, 15, 16}
    /\ DefaultOne["primary"] = {15} /\ DefaultOne["entry"] = {2}
    /\ Bit(SecondaryVMExecCtrls, "enableEPT") = 1
<1>1. /\ Bit(Cr4, "vmxe") = 13
      /\ Bit(FeatureControlMsr, "lock") = 0 /\ Bit(FeatureControlMsr, "enable_smx") = 1
      /\ Bit(FeatureControlMsr, "enable_vmxon") = 2
      /\ Bit(ExitReason, "VMEntryFailure") = 31
      /\ Bit(SecondaryVMExecCtrls, "enableEPT") = 1
  BY FeaturePlaces, Cr4Places, ExitReasonPlaces, SecondaryPlaces
<1>2. /\ Requested["primary"] = {31} /\ Requested["exit"] = {9} /\ Requested["entry"] = {9}
      /\ Requested["pin"] = {} /\ Requested["secondary"] = {}
  BY PrimaryPlaces, ExitPlaces, EntryPlaces DEF Requested, Words
<1>3. NeedAField["pin"] = {6, 7}
  BY PinPlaces DEF NeedAField, Words
<1>4. NeedAField["primary"] = {3, 15, 21, 25, 28}
  BY PrimaryPlaces DEF NeedAField, Words
<1>5. NeedAField["secondary"] = {0, 1, 4, 5, 8, 9, 10, 13, 14, 15, 17, 18, 20, 25}
  BY SecondaryPlaces DEF NeedAField, Words
<1>6. NeedAField["exit"] = {12, 19, 21}
  BY ExitPlaces DEF NeedAField, Words
<1>7. NeedAField["entry"] = {2, 13, 14, 15, 16}
  BY EntryPlaces DEF NeedAField, Words
<1>8. DefaultOne["primary"] = {15} /\ DefaultOne["entry"] = {2}
  BY PrimaryPlaces, EntryPlaces DEF DefaultOne, Words
<1> QED
  BY <1>1, <1>2, <1>3, <1>4, <1>5, <1>6, <1>7, <1>8

LEMMA StepNumbers ==
    /\ StepNumber("cr0") = 1 /\ StepNumber("cr4") = 2 /\ StepNumber("vmxe") = 3
    /\ StepNumber("feature") = 4 /\ StepNumber("vmxon") = 5 /\ StepNumber("secondary") = 6
    /\ StepNumber("pin") = 7 /\ StepNumber("primary") = 8 /\ StepNumber("exit") = 9
    /\ StepNumber("entry") = 10 /\ StepNumber("guestcr") = 11 /\ StepNumber("vmlaunch") = 12
    /\ StepNumber("launched") = 13
BY SMTT(60) DEF StepNumber, ControlSteps

Stages == {"cr0", "cr4", "vmxe", "feature", "vmxon", "secondary", "pin", "primary", "exit",
           "entry", "guestcr", "vmlaunch", "launched"}

LEMMA Afters ==
    /\ After("cr0") = "cr4" /\ After("cr4") = "vmxe" /\ After("vmxe") = "feature"
    /\ After("feature") = "vmxon" /\ After("vmxon") = "secondary" /\ After("secondary") = "pin"
    /\ After("pin") = "primary" /\ After("primary") = "exit" /\ After("exit") = "entry"
    /\ After("entry") = "guestcr" /\ After("guestcr") = "vmlaunch"
    /\ After("vmlaunch") = "launched"
BY StepNumbers DEF After, ControlSteps

-----------------------------------------------------------------------------
(* The operators *)

\* Masking with a processor's fixed bits keeps what is supported, adds what is
\* needed and leaves nothing unsupported, also when the mask is wider.
LEMMA FixedKeeps ==
    ASSUME NEW value, NEW fixed0, NEW fixed1, NEW mask,
           value \subseteq fixed1, fixed0 \subseteq fixed1, fixed1 \subseteq mask
    PROVE  /\ value \subseteq Fixed(value, fixed0, mask)
           /\ fixed0 \subseteq Fixed(value, fixed0, mask)
           /\ Fixed(value, fixed0, mask) \subseteq fixed1
BY DEF Fixed

\* The low half is contained, the high half is not exceeded, and what is more
\* than the low half was requested.
LEMMA ModifiedValue ==
    ASSUME NEW requested, NEW low, NEW high, low \subseteq high
    PROVE  /\ low \subseteq ModifyControlValue(requested, low, high)
           /\ ModifyControlValue(requested, low, high) \subseteq high
           /\ ModifyControlValue(requested, low, high) \subseteq requested \cup low
           /\ requested \cap high \subseteq ModifyControlValue(requested, low, high)
BY DEF ModifyControlValue

LEMMA LowInHigh ==
    ASSUME cpu \in Processors, NEW w \in Words
    PROVE  Low(w) \subseteq cpu.high[w] /\ Low(w) = Insists(w)
BY ProcessorsAreReal DEF ProcessorsAssumption, Low, Insists

-----------------------------------------------------------------------------
(* The invariant *)

\* The registers between the steps that change them.
HostRegisters ==
    /\ cpu.cr0 \subseteq cr0 /\ cr0 \subseteq cpu.cr0Fixed1
    /\ cpu.cr4 \subseteq cr4 /\ cr4 \subseteq cpu.cr4Fixed1
    /\ StepNumber(stage) > StepNumber("cr0") => cpu.cr0Fixed0 \subseteq cr0
    /\ StepNumber(stage) > StepNumber("cr4") => cpu.cr4Fixed0 \subseteq cr4
    /\ StepNumber(stage) > StepNumber("vmxe") => 13 \in cr4
    /\ StepNumber(stage) > StepNumber("feature") => {0, 2} \subseteq feature

Written == \A w \in Words : IsWritten(w) =>
               words[w] = ModifyControlValue(Requested[w], Low(w), cpu.high[w])

GuestRegisters ==
    StepNumber(stage) > StepNumber("guestcr") =>
        /\ guestCr["cr0"] = Fixed(cr0, cpu.cr0Fixed0, cpu.cr0Fixed1)
        /\ guestCr["cr4"] = FixedCr4(cr4)

\* The secondary controls were written, so the primary can activate them.
HasSecondary == StepNumber(stage) > StepNumber("secondary") => 31 \in cpu.high["primary"]

ControlInv == ControlTypeOK /\ HostRegisters /\ Written /\ GuestRegisters /\ HasSecondary /\ FaultExplained

LEMMA StageType == ControlTypeOK => stage \in Stages
BY DEF ControlTypeOK, ControlSteps, Stages

LEMMA ControlInitInv == ControlInit => ControlInv
<1> SUFFICES ASSUME ControlInit PROVE ControlInv
  OBVIOUS
<1>1. ControlTypeOK
  BY DEF ControlInit, ControlTypeOK, ControlSteps, Words
<1>2. HostRegisters
  BY StepNumbers, ProcessorsAreReal DEF ControlInit, HostRegisters, ProcessorsAssumption
<1>3. Written /\ GuestRegisters /\ HasSecondary
  BY StepNumbers DEF ControlInit, Written, GuestRegisters, HasSecondary, IsWritten, Words
<1>4. FaultExplained
  BY DEF ControlInit, FaultExplained
<1> QED
  BY <1>1, <1>2, <1>3, <1>4 DEF ControlInv

LEMMA SetCr0Inv == ControlInv /\ SetCr0 => ControlInv'
<1> SUFFICES ASSUME ControlInv, SetCr0 PROVE ControlInv'
  OBVIOUS
<1> USE StepNumbers
<1>1. stage = "cr0" /\ stage' = "cr4" /\ cpu' = cpu /\ crash' = "none" /\ crash = "none"
  BY Afters DEF SetCr0, At, Proceeds
<1>2. cpu \in Processors
  BY DEF ControlInv, ControlTypeOK
<1>3. ControlTypeOK'
  BY <1>1, SMTT(30) DEF ControlInv, ControlTypeOK, SetCr0, ControlSteps
<1>4. HostRegisters'
  <2>1. /\ cr0 \subseteq cpu.cr0Fixed1 /\ cpu.cr0Fixed0 \subseteq cpu.cr0Fixed1
        /\ cpu.cr0 \subseteq cr0
    BY <1>2, ProcessorsAreReal DEF ControlInv, HostRegisters, ProcessorsAssumption
  <2>2. /\ cr0 \subseteq cr0' /\ cpu.cr0Fixed0 \subseteq cr0' /\ cr0' \subseteq cpu.cr0Fixed1
    BY <2>1, FixedKeeps DEF SetCr0
  <2> QED
    BY <1>1, <2>1, <2>2 DEF ControlInv, HostRegisters, SetCr0
<1>5. (Written /\ GuestRegisters /\ HasSecondary /\ FaultExplained)'
  BY <1>1 DEF Written, GuestRegisters, HasSecondary, FaultExplained, IsWritten, Words
<1> QED
  BY <1>3, <1>4, <1>5 DEF ControlInv

LEMMA SetCr4Inv == ControlInv /\ SetCr4 => ControlInv'
<1> SUFFICES ASSUME ControlInv, SetCr4 PROVE ControlInv'
  OBVIOUS
<1> USE StepNumbers
<1>1. stage = "cr4" /\ stage' = "vmxe" /\ cpu' = cpu /\ crash' = "none" /\ crash = "none"
  BY Afters DEF SetCr4, At, Proceeds
<1>2. cpu \in Processors
  BY DEF ControlInv, ControlTypeOK
<1>3. ControlTypeOK'
  BY <1>1, SMTT(30) DEF ControlInv, ControlTypeOK, SetCr4, ControlSteps
<1>4. HostRegisters'
  <2>1. /\ cr4 \subseteq cpu.cr4Fixed1 /\ cpu.cr4Fixed0 \subseteq cpu.cr4Fixed1
        /\ cpu.cr4Fixed1 \subseteq cpu.cr0Fixed1 /\ cpu.cr4 \subseteq cr4
    BY <1>2, ProcessorsAreReal DEF ControlInv, HostRegisters, ProcessorsAssumption
  <2>2. /\ cr4 \subseteq cr4' /\ cpu.cr4Fixed0 \subseteq cr4' /\ cr4' \subseteq cpu.cr4Fixed1
    BY <2>1, FixedKeeps DEF SetCr4, FixedCr4
  <2> QED
    BY <1>1, <2>1, <2>2 DEF ControlInv, HostRegisters, SetCr4
<1>5. (Written /\ GuestRegisters /\ HasSecondary /\ FaultExplained)'
  BY <1>1 DEF Written, GuestRegisters, HasSecondary, FaultExplained, IsWritten, Words
<1> QED
  BY <1>3, <1>4, <1>5 DEF ControlInv

LEMMA SetVmxeInv == ControlInv /\ SetVmxe => ControlInv'
<1> SUFFICES ASSUME ControlInv, SetVmxe PROVE ControlInv'
  OBVIOUS
<1> USE StepNumbers
<1>1. stage = "vmxe" /\ stage' = "feature" /\ cpu' = cpu /\ crash' = "none" /\ crash = "none"
  BY Afters DEF SetVmxe, At, Proceeds
<1>2. cpu \in Processors
  BY DEF ControlInv, ControlTypeOK
<1>3. ControlTypeOK'
  BY <1>1, SMTT(30) DEF ControlInv, ControlTypeOK, SetVmxe, ControlSteps
<1>4. HostRegisters'
  <2>1. 13 \in cpu.cr4Fixed1
    BY <1>2, ProcessorsAreReal, FieldPlaces DEF ProcessorsAssumption
  <2>2. cr4' = cr4 \cup {13} /\ cr0' = cr0
    BY FieldPlaces DEF SetVmxe
  <2> QED
    BY <1>1, <2>1, <2>2 DEF ControlInv, HostRegisters
<1>5. (Written /\ GuestRegisters /\ HasSecondary /\ FaultExplained)'
  BY <1>1 DEF Written, GuestRegisters, HasSecondary, FaultExplained, IsWritten, Words
<1> QED
  BY <1>3, <1>4, <1>5 DEF ControlInv

LEMMA WriteFeatureControlInv == ControlInv /\ WriteFeatureControl => ControlInv'
<1> SUFFICES ASSUME ControlInv, WriteFeatureControl PROVE ControlInv'
  OBVIOUS
<1> USE StepNumbers
<1>1. stage = "feature" /\ crash = "none"
  BY DEF WriteFeatureControl, At
<1>2. CASE cpu.locked \/ ~cpu.smx
  <2>1. /\ crash' = "GP" /\ UNCHANGED <<stage, cpu, feature>>
        /\ UNCHANGED <<cr0, cr4, words, guestCr>>
    BY <1>2 DEF WriteFeatureControl
  <2>2. ControlTypeOK' /\ HostRegisters'
    BY <1>1, <2>1 DEF ControlInv, ControlTypeOK, HostRegisters
  <2>3. (Written /\ GuestRegisters /\ HasSecondary)'
    BY <1>1, <2>1 DEF Written, GuestRegisters, HasSecondary, IsWritten, Words
  <2>4. FaultExplained'
    BY <1>1, <1>2, <2>1 DEF FaultExplained
  <2> QED
    BY <2>2, <2>3, <2>4 DEF ControlInv
<1>3. CASE ~(cpu.locked \/ ~cpu.smx)
  <2>1. /\ feature' = feature \cup {0, 1, 2} /\ UNCHANGED <<cr0, cr4, words, guestCr>>
        /\ stage' = "vmxon" /\ UNCHANGED <<cpu, crash>>
    BY <1>1, <1>3, Afters, FieldPlaces DEF WriteFeatureControl, Proceeds
  <2>2. ControlTypeOK'
    BY <2>1 DEF ControlInv, ControlTypeOK, ControlSteps
  <2>3. HostRegisters'
    BY <1>1, <2>1 DEF ControlInv, HostRegisters
  <2>4. (Written /\ GuestRegisters /\ HasSecondary /\ FaultExplained)'
    BY <1>1, <2>1 DEF Written, GuestRegisters, HasSecondary, FaultExplained, IsWritten, Words
  <2> QED
    BY <2>2, <2>3, <2>4 DEF ControlInv
<1> QED
  BY <1>2, <1>3

\* The registers are as VMXON demands when it is executed.
LEMMA RegistersAccepted == ControlInv /\ stage = "vmxon" => VmxonAccepts
BY StepNumbers DEF ControlInv, HostRegisters, VmxonAccepts

LEMMA VmxonInv == ControlInv /\ Vmxon => ControlInv'
<1> SUFFICES ASSUME ControlInv, Vmxon PROVE ControlInv'
  OBVIOUS
<1> USE StepNumbers
<1>1. stage = "vmxon" /\ crash = "none"
  BY DEF Vmxon, At
<1>2. /\ stage' = "secondary" /\ UNCHANGED <<cpu, crash>>
      /\ UNCHANGED <<cr0, cr4, feature, words, guestCr>>
  BY <1>1, RegistersAccepted, Afters DEF Vmxon, Proceeds
<1>3. ControlTypeOK'
  BY <1>2 DEF ControlInv, ControlTypeOK, ControlSteps
<1>4. HostRegisters'
  BY <1>1, <1>2 DEF ControlInv, HostRegisters
<1>5. (Written /\ GuestRegisters /\ HasSecondary /\ FaultExplained)'
  BY <1>1, <1>2 DEF Written, GuestRegisters, HasSecondary, FaultExplained, IsWritten, Words
<1> QED
  BY <1>3, <1>4, <1>5 DEF ControlInv

LEMMA WriteControlInv == ASSUME NEW w \in Words PROVE ControlInv /\ WriteControl(w) => ControlInv'
<1> SUFFICES ASSUME ControlInv, WriteControl(w) PROVE ControlInv'
  OBVIOUS
<1> USE StepNumbers
<1>1. stage = w /\ crash = "none" /\ cpu \in Processors /\ UNCHANGED <<cr0, cr4, feature, guestCr>>
  BY DEF WriteControl, At, ControlInv, ControlTypeOK
<1>2. CASE w = "secondary" /\ 31 \notin cpu.high["primary"]
  <2>1. crash' = "GP" /\ UNCHANGED <<stage, cpu, words>>
    BY <1>2 DEF WriteControl
  <2>2. ControlTypeOK' /\ HostRegisters' /\ (Written /\ GuestRegisters /\ HasSecondary)'
    <3>1. ControlTypeOK' /\ HostRegisters' /\ GuestRegisters' /\ HasSecondary'
      BY <1>1, <2>1 DEF ControlInv, ControlTypeOK, HostRegisters, GuestRegisters, HasSecondary, FixedCr4
    <3>2. Written'
      BY <1>1, <2>1 DEF ControlInv, Written, IsWritten, Low
    <3> QED
      BY <3>1, <3>2
  <2>3. FaultExplained'
    BY <1>1, <1>2, <2>1 DEF FaultExplained
  <2> QED
    BY <2>2, <2>3 DEF ControlInv
<1>3. CASE ~(w = "secondary" /\ 31 \notin cpu.high["primary"])
  <2>1. /\ words' = [words EXCEPT ![w] = ModifyControlValue(Requested[w], Low(w), cpu.high[w])]
        /\ stage' = After(w) /\ UNCHANGED <<cpu, crash>>
    BY <1>1, <1>3 DEF WriteControl, Proceeds
  <2>2. /\ stage' \in Stages /\ StepNumber(stage') = 1 + StepNumber(w)
        /\ StepNumber(w) \in 6 .. 10
    BY <2>1, Afters DEF Words, Stages
  <2>3. Low(w) \subseteq cpu.high[w]
    BY <1>1, LowInHigh
  <2>4. ControlTypeOK'
    <3>1. \A v \in Words : words'[v] \subseteq cpu.high[v]
      BY <2>1, <2>3, ModifiedValue DEF ControlInv, ControlTypeOK
    <3> QED
      BY <1>1, <2>1, <2>2, <3>1 DEF ControlInv, ControlTypeOK, ControlSteps, Stages
  <2>5. HostRegisters'
    BY <1>1, <2>1, <2>2 DEF ControlInv, HostRegisters
  <2>6. Written'
    <3> SUFFICES ASSUME NEW v \in Words, IsWritten(v)'
                 PROVE  words'[v] = ModifyControlValue(Requested[v], Low(v)', cpu'.high[v])
      BY DEF Written
    <3>1. Low(v)' = Low(v) /\ cpu' = cpu
      BY <2>1 DEF Low
    <3>2. CASE v = w
      BY <2>1, <3>1, <3>2 DEF ControlInv, ControlTypeOK
    <3>3. CASE v # w
      <4>1. IsWritten(v)
        BY <1>1, <2>2, <3>3 DEF IsWritten, Words
      <4> QED
        BY <2>1, <3>1, <3>3, <4>1 DEF ControlInv, ControlTypeOK, Written
    <3> QED
      BY <3>2, <3>3
  <2>7. GuestRegisters' /\ FaultExplained'
    BY <1>1, <2>1, <2>2 DEF GuestRegisters, FaultExplained
  <2>8. HasSecondary'
    <3>1. CASE w = "secondary"
      BY <1>3, <2>1, <3>1 DEF HasSecondary
    <3>2. CASE w # "secondary"
      BY <1>1, <2>1, <2>2, <3>2 DEF ControlInv, HasSecondary, Words
    <3> QED
      BY <3>1, <3>2
  <2> QED
    BY <2>4, <2>5, <2>6, <2>7, <2>8 DEF ControlInv
<1> QED
  BY <1>2, <1>3

LEMMA WriteGuestRegistersInv == ControlInv /\ WriteGuestRegisters => ControlInv'
<1> SUFFICES ASSUME ControlInv, WriteGuestRegisters PROVE ControlInv'
  OBVIOUS
<1> USE StepNumbers
<1>1. /\ stage = "guestcr" /\ stage' = "vmlaunch" /\ UNCHANGED <<cpu, crash>> /\ crash = "none"
      /\ UNCHANGED <<cr0, cr4, feature, words>>
      /\ guestCr' = [guestCr EXCEPT !["cr0"] = Fixed(cr0, cpu.cr0Fixed0, cpu.cr0Fixed1),
                                    !["cr4"] = FixedCr4(cr4)]
  BY Afters DEF WriteGuestRegisters, At, Proceeds
<1>2. DOMAIN guestCr = {"cr0", "cr4"}
  BY DEF ControlInv, ControlTypeOK
<1>3. ControlTypeOK' /\ HostRegisters'
  BY <1>1, <1>2 DEF ControlInv, ControlTypeOK, HostRegisters, ControlSteps
<1>4. Written'
  BY <1>1 DEF ControlInv, Written, IsWritten, Low, Words
<1>5. GuestRegisters'
  <2>1. (FixedCr4(cr4))' = FixedCr4(cr4)
    BY <1>1 DEF FixedCr4
  <2>2. guestCr'["cr0"] = Fixed(cr0, cpu.cr0Fixed0, cpu.cr0Fixed1) /\ guestCr'["cr4"] = FixedCr4(cr4)
    BY <1>1, <1>2
  <2> QED
    BY <1>1, <2>1, <2>2 DEF GuestRegisters
<1>6. HasSecondary' /\ FaultExplained'
  BY <1>1 DEF ControlInv, HasSecondary, FaultExplained
<1> QED
  BY <1>3, <1>4, <1>5, <1>6 DEF ControlInv

LEMMA VmlaunchInv == ControlInv /\ Vmlaunch => ControlInv'
<1> SUFFICES ASSUME ControlInv, Vmlaunch PROVE ControlInv'
  OBVIOUS
<1> USE StepNumbers
<1>1. /\ stage = "vmlaunch" /\ stage' = "launched" /\ UNCHANGED <<cpu, crash>> /\ crash = "none"
      /\ UNCHANGED <<cr0, cr4, feature, words, guestCr>>
  BY Afters DEF Vmlaunch, At, Proceeds
<1>2. ControlTypeOK' /\ HostRegisters'
  BY <1>1 DEF ControlInv, ControlTypeOK, HostRegisters, ControlSteps
<1>3. Written'
  BY <1>1 DEF ControlInv, Written, IsWritten, Low, Words
<1>4. GuestRegisters' /\ HasSecondary' /\ FaultExplained'
  BY <1>1 DEF ControlInv, GuestRegisters, HasSecondary, FaultExplained, FixedCr4
<1> QED
  BY <1>2, <1>3, <1>4 DEF ControlInv

LEMMA ControlNextInv == ControlInv /\ [ControlNext]_controlVars => ControlInv'
<1> SUFFICES ASSUME ControlInv, [ControlNext]_controlVars PROVE ControlInv'
  OBVIOUS
<1>1. CASE UNCHANGED controlVars
  <2>1. ControlTypeOK' /\ HostRegisters' /\ GuestRegisters' /\ HasSecondary' /\ FaultExplained'
    BY <1>1 DEF controlVars, ControlInv, ControlTypeOK, HostRegisters, GuestRegisters, HasSecondary, FaultExplained, FixedCr4
  <2>2. Written'
    BY <1>1 DEF controlVars, ControlInv, Written, IsWritten, Low
  <2> QED
    BY <2>1, <2>2 DEF ControlInv
<1> QED
  BY <1>1, SetCr0Inv, SetCr4Inv, SetVmxeInv, WriteFeatureControlInv, VmxonInv, WriteControlInv,
     WriteGuestRegistersInv, VmlaunchInv DEF ControlNext

LEMMA ControlInvariance == ControlSpec => []ControlInv
BY ControlInitInv, ControlNextInv, PTL DEF ControlSpec

-----------------------------------------------------------------------------
(* The theorems *)

\* No control word ever has a bit that the processor does not allow.
THEOREM ControlTypes == ControlSpec => []ControlTypeOK
<1>1. ControlInv => ControlTypeOK
  BY DEF ControlInv
<1> QED
  BY <1>1, ControlInvariance, PTL

\* VMXON and VM entry accept the registers on every processor whose CR4 has no
\* supported bit above the bits that CR0 may have.
THEOREM FixedBits == ControlSpec => []FixedBitsHold
<1>1. ControlInv => FixedBitsHold
  <2> SUFFICES ASSUME ControlInv PROVE FixedBitsHold
    OBVIOUS
  <2>1. cpu \in Processors
    BY DEF ControlInv, ControlTypeOK
  <2>2. ASSUME stage \in {"vmlaunch", "launched"}
        PROVE  /\ cpu.cr0Fixed0 \subseteq guestCr["cr0"] /\ guestCr["cr0"] \subseteq cpu.cr0Fixed1
               /\ cpu.cr4Fixed0 \subseteq guestCr["cr4"] /\ guestCr["cr4"] \subseteq cpu.cr4Fixed1
    <3>1. /\ guestCr["cr0"] = Fixed(cr0, cpu.cr0Fixed0, cpu.cr0Fixed1)
          /\ guestCr["cr4"] = Fixed(cr4, cpu.cr4Fixed0, cpu.cr0Fixed1)
      BY <2>2, StepNumbers DEF ControlInv, GuestRegisters, FixedCr4
    <3>2. /\ cr0 \subseteq cpu.cr0Fixed1 /\ cpu.cr0Fixed0 \subseteq cpu.cr0Fixed1
          /\ cr4 \subseteq cpu.cr4Fixed1 /\ cpu.cr4Fixed0 \subseteq cpu.cr4Fixed1
          /\ cpu.cr4Fixed1 \subseteq cpu.cr0Fixed1
      BY <2>1, ProcessorsAreReal DEF ControlInv, HostRegisters, ProcessorsAssumption
    <3> QED
      BY <3>1, <3>2, FixedKeeps
  <2> QED
    BY <2>2, RegistersAccepted DEF FixedBitsHold
<1> QED
  BY <1>1, ControlInvariance, PTL

\* Nothing that the system had set in CR0 or CR4 is lost on the way to the guest.
THEOREM NothingLost == ControlSpec => []NothingSwitchedOff
<1>1. ControlInv => NothingSwitchedOff
  <2> SUFFICES ASSUME ControlInv PROVE NothingSwitchedOff
    OBVIOUS
  <2>1. cpu \in Processors /\ cpu.cr0 \subseteq cr0 /\ cpu.cr4 \subseteq cr4
    BY DEF ControlInv, ControlTypeOK, HostRegisters
  <2>2. ASSUME stage \in {"vmlaunch", "launched"}
        PROVE  cpu.cr0 \subseteq guestCr["cr0"] /\ cpu.cr4 \subseteq guestCr["cr4"]
    <3>1. /\ guestCr["cr0"] = Fixed(cr0, cpu.cr0Fixed0, cpu.cr0Fixed1)
          /\ guestCr["cr4"] = Fixed(cr4, cpu.cr4Fixed0, cpu.cr0Fixed1)
      BY <2>2, StepNumbers DEF ControlInv, GuestRegisters, FixedCr4
    <3>2. /\ cr0 \subseteq cpu.cr0Fixed1 /\ cpu.cr0Fixed0 \subseteq cpu.cr0Fixed1
          /\ cr4 \subseteq cpu.cr4Fixed1 /\ cpu.cr4Fixed0 \subseteq cpu.cr4Fixed1
          /\ cpu.cr4Fixed1 \subseteq cpu.cr0Fixed1
      BY <2>1, ProcessorsAreReal DEF ControlInv, HostRegisters, ProcessorsAssumption
    <3> QED
      BY <2>1, <3>1, <3>2, FixedKeeps
  <2> QED
    BY <2>1, <2>2 DEF NothingSwitchedOff
<1> QED
  BY <1>1, ControlInvariance, PTL

\* Every written control word is what was requested, as far as it is allowed,
\* and what the most permissive of the processor's MSRs insists on: no more.
THEOREM MinimalControls == ControlSpec => []ControlsMinimal
<1>1. ControlInv => ControlsMinimal
  <2> SUFFICES ASSUME ControlInv, NEW w \in Words, IsWritten(w)
               PROVE  /\ Insists(w) \subseteq words[w] /\ words[w] \subseteq cpu.high[w]
                      /\ words[w] \subseteq Requested[w] \cup Insists(w)
    BY DEF ControlsMinimal
  <2>1. words[w] = ModifyControlValue(Requested[w], Low(w), cpu.high[w])
    BY DEF ControlInv, Written
  <2>2. Low(w) \subseteq cpu.high[w] /\ Low(w) = Insists(w)
    BY LowInHigh DEF ControlInv, ControlTypeOK
  <2> QED
    BY <2>1, <2>2, ModifiedValue
<1> QED
  BY <1>1, ControlInvariance, PTL

\* No control is on that needs a field which the driver leaves unwritten, unless
\* the processor insists on it.
THEOREM NoneDangles == ControlSpec => []NothingDangling
<1>1. ControlInv => NothingDangling
  <2> SUFFICES ASSUME ControlInv, stage \in {"vmlaunch", "launched"}, NEW w \in Words
               PROVE  words[w] \cap NeedAField[w] \subseteq Insists(w) \cap DefaultOne[w]
    BY DEF NothingDangling
  <2>1. words[w] \subseteq Requested[w] \cup Low(w)
    <3>1. words[w] = ModifyControlValue(Requested[w], Low(w), cpu.high[w])
      BY StepNumbers DEF ControlInv, Written, IsWritten, Words
    <3> QED
      BY <3>1 DEF ModifyControlValue
  <2>2. Low(w) = Insists(w) /\ Low(w) \cap NeedAField[w] \subseteq DefaultOne[w]
    <3>1. Low(w) \subseteq cpu.low[w] /\ cpu.low[w] \cap NeedAField[w] \subseteq DefaultOne[w]
      BY ProcessorsAreReal DEF ControlInv, ControlTypeOK, ProcessorsAssumption, Low
    <3> QED
      BY <3>1, LowInHigh DEF ControlInv, ControlTypeOK
  <2>3. Requested[w] \cap NeedAField[w] = {}
    BY FieldPlaces DEF Words
  <2> QED
    BY <2>1, <2>2, <2>3
<1> QED
  BY <1>1, ControlInvariance, PTL

\* Both directions are in 64-bit mode where the processor can do it.
THEOREM LongMode == ControlSpec => []LongModeBothWays
<1>1. ControlInv => LongModeBothWays
  <2> SUFFICES ASSUME ControlInv, stage \in {"vmlaunch", "launched"}
               PROVE  /\ 9 \in cpu.high["exit"] => 9 \in words["exit"]
                      /\ 9 \in cpu.high["entry"] => 9 \in words["entry"]
                      /\ 31 \in words["primary"]
    BY DEF LongModeBothWays
  <2>1. \A w \in {"primary", "exit", "entry"} :
            Requested[w] \cap cpu.high[w] \subseteq words[w]
    BY StepNumbers DEF ControlInv, Written, IsWritten, Words, ModifyControlValue
  <2>2. 9 \in Requested["exit"] /\ 9 \in Requested["entry"] /\ 31 \in Requested["primary"]
    BY FieldPlaces
  <2>3. 31 \in cpu.high["primary"]
    BY StepNumbers DEF ControlInv, HasSecondary
  <2> QED
    BY <2>1, <2>2, <2>3
<1> QED
  BY <1>1, ControlInvariance, PTL

\* Only three things fault on the way to VMLAUNCH.
THEOREM Faults == ControlSpec => []FaultExplained
<1>1. ControlInv => FaultExplained
  BY DEF ControlInv
<1> QED
  BY <1>1, ControlInvariance, PTL
=============================================================================
