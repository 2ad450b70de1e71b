--------------------------- MODULE EnterVmxProofs ---------------------------
(***************************************************************************)
(* Theorems about EnterVmx, for any threads, any processors, any bound on  *)
(* the calls and any set of operations that may fail.                      *)
(***************************************************************************)
EXTENDS EnterVmx, FiniteSetTheorems, TLAPS

(* Every code of custom_status_codes.h, whatever its offset, is the same    *)
(* positive number, which NT_SUCCESS takes for success.                    *)
THEOREM CustomCodesAreSuccesses ==
    \A offset \in 0 .. 65535 :
        CustomStatus(offset) = 1 /\ NT_SUCCESS(CustomStatus(offset))
BY SMT DEF NT_SUCCESS, CustomStatus, NT_ERROR, BASE_ERROR

(* The NTSTATUS constants that the handler uses, as numbers.               *)
LEMMA Codes ==
    /\ STATUS_SUCCESS = 0
    /\ STATUS_FAILED_VMXON = 1 /\ STATUS_FAILED_VMCLEAR = 1
    /\ STATUS_FAILED_VMPTRLD = 1 /\ STATUS_FAILED_VMWRITE = 1
    /\ STATUS_FAILED_VMLAUNCH = 1
BY SMT DEF STATUS_SUCCESS, STATUS_FAILED_VMXON, STATUS_FAILED_VMCLEAR,
           STATUS_FAILED_VMPTRLD, STATUS_FAILED_VMWRITE, STATUS_FAILED_VMLAUNCH,
           CustomStatus, NT_ERROR, BASE_ERROR

(* No error branch of the handler is ever taken: whatever an instruction    *)
(* returned, CheckStatus goes on.                                          *)
LEMMA NoErrorBranch ==
    ASSUME NEW t, NEW s \in {0, 1}, NEW next, CheckStatus(t, s, next)
    PROVE  pc' = [pc EXCEPT ![t] = next]
<1>1. s >= 0
      OBVIOUS
<1>2. (IF NT_SUCCESS(s) THEN next ELSE CleanupLabel(created[t], entered[t])) = next
      BY <1>1 DEF NT_SUCCESS
<1> QED BY <1>2 DEF CheckStatus, GoTo

(* An intrinsic's result, 0 or 1, is also the status made from it.         *)
LEMMA StatusOfResult ==
    \A result \in {0, 1} :
          /\ StatusOf(result, STATUS_FAILED_VMXON) = result
          /\ StatusOf(result, STATUS_FAILED_VMCLEAR) = result
          /\ StatusOf(result, STATUS_FAILED_VMPTRLD) = result
          /\ StatusOf(result, STATUS_FAILED_VMWRITE) = result
BY Codes DEF StatusOf

(* Accumulating statuses with |= keeps to the two values.                  *)
LEMMA OrStatusFacts == \A s, r \in {0, 1} : OrStatus(s, r) \in {0, 1}
BY Codes DEF OrStatus

(* The cleanup label leads to one of three steps.                          *)
LEMMA CleanupLabels ==
    \A a, b : CleanupLabel(a, b) \in {"vmptrst", "vmxoff", "return"}
BY DEF CleanupLabel

(* What the four steps that test an instruction's result amount to.        *)
LEMMA VmxonEffect ==
    ASSUME NEW t, ExecVmxon(t)
    PROVE  \E result \in {0, 1} :
              /\ VmxOn(cpu[t], result)
              /\ status' = [status EXCEPT ![t] = result]
              /\ entered' = [entered EXCEPT ![t] = TRUE]
              /\ pc' = [pc EXCEPT ![t] = "vmclear"]
              /\ UNCHANGED <<cpu, created, calls, moved, owner, guestVars, crash>>
<1>1. PICK result \in {0, 1} :
          LET s == StatusOf(result, STATUS_FAILED_VMXON) IN
          /\ VmxOn(cpu[t], result)
          /\ SetStatus(t, s)
          /\ entered' = [entered EXCEPT ![t] = NT_SUCCESS(s)]
          /\ CheckStatus(t, s, "vmclear")
      BY DEF ExecVmxon
<1>2. /\ VmxOn(cpu[t], result)
      /\ SetStatus(t, result)
      /\ entered' = [entered EXCEPT ![t] = NT_SUCCESS(result)]
      /\ CheckStatus(t, result, "vmclear")
      BY <1>1, StatusOfResult, Zenon
<1>3. NT_SUCCESS(result) = TRUE
      BY DEF NT_SUCCESS
<1>4. pc' = [pc EXCEPT ![t] = "vmclear"]
      BY <1>2, NoErrorBranch
<1>5. UNCHANGED <<cpu, created, calls, moved, owner, guestVars, crash>>
      BY DEF ExecVmxon
<1> QED BY <1>2, <1>3, <1>4, <1>5 DEF SetStatus

(* VMCLEAR, whatever it returns.                                           *)
LEMMA VmclearEffect ==
    ASSUME NEW t, ExecVmclear(t)
    PROVE  \E result \in {0, 1} :
              /\ VmClear(cpu[t], result)
              /\ status' = [status EXCEPT ![t] = result]
              /\ created' = IF result = 0 THEN created ELSE [created EXCEPT ![t] = TRUE]
              /\ pc' = [pc EXCEPT ![t] = IF result = 0 THEN "vmptrld" ELSE "controls"]
              /\ UNCHANGED <<cpu, entered, calls, moved, owner, guestVars, crash>>
<1>1. PICK result \in {0, 1} :
          LET s == StatusOf(result, STATUS_FAILED_VMCLEAR) IN
          /\ VmClear(cpu[t], result)
          /\ SetStatus(t, s)
          /\ IF result = 0
             THEN /\ GoTo(t, "vmptrld")
                  /\ UNCHANGED created
             ELSE /\ created' = [created EXCEPT ![t] = NT_SUCCESS(s)]
                  /\ CheckStatus(t, s, "controls")
      BY DEF ExecVmclear
<1>2. /\ VmClear(cpu[t], result)
      /\ SetStatus(t, result)
      /\ IF result = 0
         THEN /\ GoTo(t, "vmptrld")
              /\ UNCHANGED created
         ELSE /\ created' = [created EXCEPT ![t] = NT_SUCCESS(result)]
              /\ CheckStatus(t, result, "controls")
      BY <1>1, StatusOfResult, Zenon
<1>3. NT_SUCCESS(result) = TRUE
      BY DEF NT_SUCCESS
<1>4. pc' = [pc EXCEPT ![t] = IF result = 0 THEN "vmptrld" ELSE "controls"]
      BY <1>2, NoErrorBranch DEF GoTo
<1>5. created' = IF result = 0 THEN created ELSE [created EXCEPT ![t] = TRUE]
      BY <1>2, <1>3
<1>6. UNCHANGED <<cpu, entered, calls, moved, owner, guestVars, crash>>
      BY DEF ExecVmclear
<1> QED BY <1>2, <1>4, <1>5, <1>6 DEF SetStatus

(* VMPTRLD, whatever it returns.                                           *)
LEMMA VmptrldEffect ==
    ASSUME NEW t, ExecVmptrld(t)
    PROVE  \E result \in {0, 1} :
              /\ VmPtrld(cpu[t], result)
              /\ status' = [status EXCEPT ![t] = result]
              /\ created' = [created EXCEPT ![t] = TRUE]
              /\ pc' = [pc EXCEPT ![t] = "controls"]
              /\ UNCHANGED <<cpu, entered, calls, moved, owner, guestVars, crash>>
<1>1. PICK result \in {0, 1} :
          LET s == StatusOf(result, STATUS_FAILED_VMPTRLD) IN
          /\ VmPtrld(cpu[t], result)
          /\ SetStatus(t, s)
          /\ created' = [created EXCEPT ![t] = NT_SUCCESS(s)]
          /\ CheckStatus(t, s, "controls")
      BY DEF ExecVmptrld
<1>2. /\ VmPtrld(cpu[t], result)
      /\ SetStatus(t, result)
      /\ created' = [created EXCEPT ![t] = NT_SUCCESS(result)]
      /\ CheckStatus(t, result, "controls")
      BY <1>1, StatusOfResult, Zenon
<1>3. NT_SUCCESS(result) = TRUE
      BY DEF NT_SUCCESS
<1>4. pc' = [pc EXCEPT ![t] = "controls"]
      BY <1>2, NoErrorBranch
<1>5. UNCHANGED <<cpu, entered, calls, moved, owner, guestVars, crash>>
      BY DEF ExecVmptrld
<1> QED BY <1>2, <1>3, <1>4, <1>5 DEF SetStatus

(* A part of PopulateActiveVMCS.                                           *)
Populated(t, block, next) ==
    /\ At(t, block)
    /\ cpu[t] \in vmxon \cap current
    /\ \E result : VmWrite(result)
    /\ \E s \in {0, 1} : status' = [status EXCEPT ![t] = s]
    /\ \E o \in {<<t, cpu[t]>>, Nobody} : owner' = [owner EXCEPT ![block] = o]
    /\ pc' = [pc EXCEPT ![t] = next]
    /\ UNCHANGED <<cpu, entered, created, calls, moved, guestVars, crash>>

(* The three parts of PopulateActiveVMCS have the same effect.             *)
LEMMA PopulateEffect ==
    ASSUME TypeOK, NEW t \in Threads
    PROVE  /\ WriteControls(t) => Populated(t, "controls", "segments")
           /\ WriteSegments(t) => Populated(t, "segments", "registers")
           /\ WriteRegisters(t) => Populated(t, "registers", "dump")
<1>1. ASSUME NEW result, NEW s \in {0, 1}, NEW block, NEW next,
             WriteBlock(t, block, result, s, next)
      PROVE  Populated(t, block, next)
      BY <1>1 DEF WriteBlock, Populated, SetStatus, GoTo
<1>2. status[t] \in {0, 1}
      BY DEF TypeOK
<1>3. WriteControls(t) => Populated(t, "controls", "segments")
      BY <1>1, StatusOfResult DEF WriteControls
<1>4. WriteSegments(t) => Populated(t, "segments", "registers")
      BY <1>1, <1>2, StatusOfResult, OrStatusFacts DEF WriteSegments
<1>5. WriteRegisters(t) => Populated(t, "registers", "dump")
      BY <1>1, <1>2, StatusOfResult, OrStatusFacts DEF WriteRegisters
<1> QED BY <1>3, <1>4, <1>5

(* DumpVmcsGuestArea and the check of the status always go on.             *)
LEMMA DumpEffect ==
    ASSUME TypeOK, NEW t \in Threads, DumpGuestArea(t)
    PROVE  pc' = [pc EXCEPT ![t] = "vmlaunch"]
<1>1. status[t] \in {0, 1}
      BY DEF TypeOK
<1>2. CheckStatus(t, status[t], "vmlaunch")
      BY DEF DumpGuestArea
<1> QED BY <1>1, <1>2, NoErrorBranch

(* VMLAUNCH: it fails and cleans up, or the processor is captured.         *)
LEMMA LaunchEffect ==
    ASSUME NEW t, LaunchGuest(t)
    PROVE  \E outcome \in {"fail", "exit", "guest"} :
              /\ VmLaunch(outcome)
              /\ \/ /\ outcome = "fail"
                    /\ status' = [status EXCEPT ![t] = 1]
                    /\ pc' = [pc EXCEPT ![t] = CleanupLabel(created[t], entered[t])]
                    /\ UNCHANGED guestVars
                 \/ /\ outcome \in {"exit", "guest"}
                    /\ pc' = [pc EXCEPT ![t] = "guest"]
                    /\ mode' = [mode EXCEPT ![cpu[t]] = outcome]
                    /\ rip' = [rip EXCEPT ![cpu[t]] = "cli"]
                    /\ UNCHANGED status
<1>1. PICK outcome \in {"fail", "exit", "guest"} :
          /\ VmLaunch(outcome)
          /\ IF outcome = "fail"
             THEN /\ SetStatus(t, 1)
                  /\ CheckStatus(t, 1, CleanupLabel(created[t], entered[t]))
                  /\ UNCHANGED guestVars
             ELSE /\ GoTo(t, "guest")
                  /\ mode' = [mode EXCEPT ![cpu[t]] = outcome]
                  /\ rip' = [rip EXCEPT ![cpu[t]] = "cli"]
                  /\ UNCHANGED status
      BY Codes, Zenon DEF LaunchGuest
<1>2. outcome = "fail" => pc' = [pc EXCEPT ![t] = CleanupLabel(created[t], entered[t])]
      BY <1>1, NoErrorBranch
<1> QED BY <1>1, <1>2 DEF SetStatus, GoTo

-----------------------------------------------------------------------------
(* The VMX instructions keep their variables in their types.               *)
LEMMA HardwareTypes ==
    ASSUME HwTypeOK, NEW c \in Cpus, NEW result,
           \/ SetVmxe(c) \/ LockFeatureControl(c) \/ VmxOff(c)
           \/ VmxOn(c, result) \/ VmClear(c, result) \/ VmPtrld(c, result)
           \/ VmWrite(result)
           \/ VmLaunch(result) /\ result \in {"fail", "exit", "guest"}
    PROVE  HwTypeOK'
<1> USE DEF HwTypeOK, Refusable, Recorded, Record
<1>1. CASE SetVmxe(c) BY <1>1 DEF SetVmxe
<1>2. CASE LockFeatureControl(c) BY <1>2 DEF LockFeatureControl
<1>3. CASE VmxOff(c) BY <1>3 DEF VmxOff
<1>4. CASE VmxOn(c, result) BY <1>4 DEF VmxOn
<1>5. CASE VmClear(c, result) BY <1>5 DEF VmClear
<1>6. CASE VmPtrld(c, result) BY <1>6 DEF VmPtrld
<1>7. CASE VmWrite(result) BY <1>7 DEF VmWrite
<1>8. CASE VmLaunch(result) /\ result \in {"fail", "exit", "guest"}
      BY <1>8 DEF VmLaunch
<1> QED BY <1>1, <1>2, <1>3, <1>4, <1>5, <1>6, <1>7, <1>8

(* The initial states are typed.                                           *)
LEMMA InitTypes == Init => TypeOK
<1> SUFFICES ASSUME Init PROVE TypeOK
    OBVIOUS
<1>1. HwTypeOK
      BY DEF Init, HwInit, HwTypeOK
<1>2. pc \in [Threads -> Labels] /\ cpu \in [Threads -> Cpus]
      BY DEF Init, Labels
<1>3. status \in [Threads -> {0, 1}] /\ calls \in [Threads -> 0 .. MaxCalls]
      BY MaxCallsAssumption DEF Init, STATUS_SUCCESS
<1>4. /\ entered \in [Threads -> BOOLEAN]
      /\ created \in [Threads -> BOOLEAN]
      /\ moved \in [Threads -> BOOLEAN]
      BY DEF Init
<1>5. owner \in [Blocks -> (Threads \X Cpus) \cup {Nobody}]
      BY DEF Init
<1>6. mode \in [Cpus -> {"host", "guest", "exit"}] /\ rip \in [Cpus -> Instructions]
      BY DEF Init, Instructions
<1>7. crash \in Crashes
      BY DEF Init, Crashes
<1> QED BY <1>1, <1>2, <1>3, <1>4, <1>5, <1>6, <1>7 DEF TypeOK

(* Every step keeps the types.                                             *)
LEMMA NextTypes == TypeOK /\ [Next]_vars => TypeOK'
<1> SUFFICES ASSUME TypeOK, [Next]_vars PROVE TypeOK'
    OBVIOUS
<1> USE DEF TypeOK, Labels
<1>1. ASSUME NEW t \in Threads, WriteCr4(t) PROVE TypeOK'
  <2>1. HwTypeOK' BY <1>1, HardwareTypes DEF WriteCr4
  <2> QED BY <1>1, <2>1 DEF WriteCr4, GoTo, guestVars
<1>2. ASSUME NEW t \in Threads, WriteFeatureControl(t) PROVE TypeOK'
  <2>1. HwTypeOK' BY <1>2, HardwareTypes DEF WriteFeatureControl
  <2> QED BY <1>2, <2>1 DEF WriteFeatureControl, GoTo, guestVars
<1>3. ASSUME NEW t \in Threads, ExecVmxon(t) PROVE TypeOK'
  <2>1. HwTypeOK' BY <1>3, VmxonEffect, HardwareTypes
  <2> QED BY <1>3, <2>1, VmxonEffect DEF guestVars
<1>4. ASSUME NEW t \in Threads, ExecVmclear(t) PROVE TypeOK'
  <2>1. HwTypeOK' BY <1>4, VmclearEffect, HardwareTypes
  <2> QED BY <1>4, <2>1, VmclearEffect DEF guestVars
<1>5. ASSUME NEW t \in Threads, ExecVmptrld(t) PROVE TypeOK'
  <2>1. HwTypeOK' BY <1>5, VmptrldEffect, HardwareTypes
  <2> QED BY <1>5, <2>1, VmptrldEffect DEF guestVars
<1>6. ASSUME NEW t \in Threads, NEW block \in Blocks, NEW next \in Labels,
             Populated(t, block, next)
      PROVE  TypeOK'
  <2>1. HwTypeOK' BY <1>6 DEF Populated, VmWrite, Record, HwTypeOK, Refusable, Recorded
  <2>2. owner' \in [Blocks -> (Threads \X Cpus) \cup {Nobody}]
        BY <1>6 DEF Populated
  <2> QED BY <1>6, <2>1, <2>2 DEF Populated, guestVars
<1>7. ASSUME NEW t \in Threads, WriteControls(t) \/ WriteSegments(t) \/ WriteRegisters(t)
      PROVE  TypeOK'
      BY <1>6, <1>7, PopulateEffect DEF Blocks
<1>8. ASSUME NEW t \in Threads, DumpGuestArea(t) PROVE TypeOK'
  <2>1. HwTypeOK' BY <1>8 DEF DumpGuestArea, HwTypeOK, hwVars
  <2> QED BY <1>8, <2>1, DumpEffect DEF DumpGuestArea, guestVars
<1>9. ASSUME NEW t \in Threads, LaunchGuest(t) PROVE TypeOK'
  <2>1. HwTypeOK' BY <1>9, LaunchEffect, HardwareTypes
  <2>2. UNCHANGED <<cpu, entered, created, calls, moved, owner, crash>>
        BY <1>9 DEF LaunchGuest
  <2> QED BY <1>9, <2>1, <2>2, LaunchEffect, CleanupLabels DEF guestVars, Instructions
<1>10. ASSUME NEW t \in Threads, StoreVmcsPointer(t) PROVE TypeOK'
  <2>1. HwTypeOK' BY <1>10 DEF StoreVmcsPointer, HwTypeOK, hwVars
  <2> QED BY <1>10, <2>1 DEF StoreVmcsPointer, GoTo, guestVars
<1>11. ASSUME NEW t \in Threads, ClearActiveVMCS(t) PROVE TypeOK'
  <2>1. HwTypeOK' BY <1>11, HardwareTypes DEF ClearActiveVMCS
  <2> QED BY <1>11, <2>1, CleanupLabels DEF ClearActiveVMCS, GoTo, guestVars
<1>12. ASSUME NEW t \in Threads, ExecVmxoff(t) PROVE TypeOK'
  <2>1. HwTypeOK' BY <1>12, HardwareTypes DEF ExecVmxoff
  <2> QED BY <1>12, <2>1 DEF ExecVmxoff, GoTo, guestVars
<1>13. ASSUME NEW t \in Threads, Return(t) PROVE TypeOK'
  <2>1. HwTypeOK' BY <1>13 DEF Return, HwTypeOK, hwVars
  <2> QED BY <1>13, <2>1 DEF Return, GoTo, guestVars
<1>14. ASSUME NEW cause \in Crashes, Bugcheck(cause) PROVE TypeOK'
       BY <1>14 DEF Bugcheck, HwTypeOK, hwVars, threadVars, guestVars
<1>15. ASSUME NEW t \in Threads, FaultGP(t) \/ FaultUD(t) \/ StackOverflow(t)
       PROVE  TypeOK'
       BY <1>14, <1>15 DEF FaultGP, FaultUD, StackOverflow, Crashes
<1>16. ASSUME NEW c \in Cpus, GuestStep(c) PROVE TypeOK'
  <2>1. rip' \in [Cpus -> Instructions]
        BY <1>16 DEF GuestStep, Instructions, NextRip
  <2> QED BY <1>16, <2>1 DEF GuestStep, HwTypeOK, hwVars, threadVars
<1>17. ASSUME NEW c \in Cpus, GuestExit(c) PROVE TypeOK'
       BY <1>17 DEF GuestExit, HwTypeOK, hwVars, threadVars
<1>18. ASSUME NEW c \in Cpus, HandlerResume(c) PROVE TypeOK'
       BY <1>18 DEF HandlerResume, HwTypeOK, hwVars, threadVars, Crashes
<1>19. ASSUME NEW t \in Threads, NEW c \in Cpus, Enter(t, c) PROVE TypeOK'
  <2>1. calls' \in [Threads -> 0 .. MaxCalls]
        BY <1>19, MaxCallsAssumption DEF Enter
  <2> QED BY <1>19, <2>1
          DEF Enter, GoTo, SetStatus, STATUS_SUCCESS, HwTypeOK, hwVars, guestVars
<1>20. ASSUME NEW t \in Threads, NEW c \in Cpus, Migrate(t, c) PROVE TypeOK'
       BY <1>20 DEF Migrate, HwTypeOK, hwVars, guestVars
<1>21. CASE UNCHANGED vars
       BY <1>21 DEF vars, HwTypeOK, hwVars, threadVars, guestVars
<1> HIDE DEF TypeOK, Labels
<1> QED BY <1>1, <1>2, <1>3, <1>4, <1>5, <1>7, <1>8, <1>9, <1>10, <1>11, <1>12, <1>13,
           <1>15, <1>16, <1>17, <1>18, <1>19, <1>20, <1>21
        DEF Next, ThreadStep, CpuStep

(* Every variable keeps its type; in particular no NTSTATUS other than     *)
(* STATUS_SUCCESS and the one value of all the custom codes is ever held.  *)
THEOREM TypeCorrect == Spec => []TypeOK
<1> QED BY InitTypes, NextTypes, PTL DEF Spec

-----------------------------------------------------------------------------
(* A captured processor: any number of calls at a time.                    *)
CaptureInv == current \subseteq active /\ captured \subseteq vmxon \cap current

(* What every step does to the processors' modes: it leaves them, or it    *)
(* captures one where the VMCS is current, or changes a captured one.      *)
LEMMA ModeStep ==
    ASSUME TypeOK, [Next]_vars
    PROVE  \/ UNCHANGED mode
           \/ \E t \in Threads : /\ LaunchGuest(t)
                                /\ captured' = captured \cup {cpu[t]}
           \/ captured' = captured /\ UNCHANGED hwVars
<1>1. ASSUME NEW t \in Threads, LaunchGuest(t)
      PROVE  UNCHANGED mode \/ captured' = captured \cup {cpu[t]}
  <2>1. PICK outcome \in {"fail", "exit", "guest"} :
           \/ UNCHANGED guestVars
           \/ outcome # "fail" /\ mode' = [mode EXCEPT ![cpu[t]] = outcome]
        BY <1>1, LaunchEffect
  <2> QED BY <2>1 DEF guestVars, captured, TypeOK
<1>2. ASSUME NEW c \in Cpus, CpuStep(c)
      PROVE  captured' = captured /\ UNCHANGED hwVars
      BY <1>2 DEF CpuStep, GuestStep, GuestExit, HandlerResume, captured, TypeOK
<1>3. ASSUME NEW t \in Threads, ThreadStep(t), ~LaunchGuest(t)
      PROVE  UNCHANGED mode
  <2>1. CASE \/ WriteCr4(t) \/ WriteFeatureControl(t) \/ ExecVmxon(t) \/ ExecVmclear(t)
             \/ ExecVmptrld(t) \/ DumpGuestArea(t) \/ StoreVmcsPointer(t)
             \/ ClearActiveVMCS(t) \/ ExecVmxoff(t) \/ Return(t)
        BY <2>1 DEF WriteCr4, WriteFeatureControl, ExecVmxon, ExecVmclear, ExecVmptrld,
                    DumpGuestArea, StoreVmcsPointer, ClearActiveVMCS, ExecVmxoff, Return,
                    guestVars
  <2>2. CASE WriteControls(t) \/ WriteSegments(t) \/ WriteRegisters(t)
        BY <2>2 DEF WriteControls, WriteSegments, WriteRegisters, WriteBlock, guestVars
  <2>3. CASE FaultGP(t) \/ FaultUD(t) \/ StackOverflow(t)
        BY <2>3 DEF FaultGP, FaultUD, StackOverflow, Bugcheck, guestVars
  <2> QED BY <1>3, <2>1, <2>2, <2>3 DEF ThreadStep
<1>4. ASSUME NEW t \in Threads, NEW c \in Cpus, Enter(t, c) \/ Migrate(t, c)
      PROVE  UNCHANGED mode
      BY <1>4 DEF Enter, Migrate, guestVars
<1>5. CASE UNCHANGED vars
      BY <1>5 DEF vars, guestVars
<1> QED BY <1>1, <1>2, <1>3, <1>4, <1>5 DEF Next

(* No step of any thread or processor, and no guest exit, returns a        *)
(* captured processor to the system.                                       *)
THEOREM CaptureForever == Spec => CaptureIsForever
<1>1. TypeOK /\ [Next]_vars => [captured \subseteq captured']_vars
      BY ModeStep DEF captured
<1> QED BY <1>1, TypeCorrect, PTL DEF Spec, CaptureIsForever

(* A thread's instruction moves the VMCS on its own processor only.        *)
HereOnly(c) ==
    \/ UNCHANGED <<vmxon, current, active>>
    \/ vmxon' = vmxon \cup {c} /\ UNCHANGED <<current, active>>
    \/ UNCHANGED vmxon /\ current' = current \ {c} /\ active' = active \ {c}
    \/ UNCHANGED vmxon /\ current' = current \cup {c} /\ active' = active \cup {c}
    \/ vmxon' = vmxon \ {c} /\ current' = current \ {c} /\ UNCHANGED active

(* Every step changes VMX operation, the current and the active VMCS only  *)
(* on the processor of the thread that takes it.                           *)
LEMMA VmcsStep ==
    ASSUME TypeOK, [Next]_vars
    PROVE  \/ UNCHANGED <<vmxon, current, active>>
           \/ \E t \in Threads : mode[cpu[t]] = "host" /\ UNCHANGED mode /\ HereOnly(cpu[t])
<1> USE DEF HereOnly
<1>1. ASSUME NEW t \in Threads,
             \/ ExecVmxon(t) \/ ExecVmclear(t) \/ ExecVmptrld(t)
             \/ ClearActiveVMCS(t) \/ ExecVmxoff(t)
      PROVE  mode[cpu[t]] = "host" /\ UNCHANGED mode /\ HereOnly(cpu[t])
  <2>1. mode[cpu[t]] = "host" /\ UNCHANGED mode
        BY <1>1 DEF ExecVmxon, ExecVmclear, ExecVmptrld, ClearActiveVMCS, ExecVmxoff, At, guestVars
  <2>2. ASSUME NEW r, VmxOn(cpu[t], r) PROVE HereOnly(cpu[t])
        BY <2>2 DEF VmxOn
  <2>3. ASSUME NEW r, VmClear(cpu[t], r) PROVE HereOnly(cpu[t])
        BY <2>3 DEF VmClear
  <2>4. ASSUME NEW r, VmPtrld(cpu[t], r) PROVE HereOnly(cpu[t])
        BY <2>4 DEF VmPtrld
  <2>5. ASSUME VmxOff(cpu[t]) PROVE HereOnly(cpu[t])
        BY <2>5 DEF VmxOff
  <2>6. HereOnly(cpu[t])
        BY <1>1, <2>2, <2>3, <2>4, <2>5
        DEF ExecVmxon, ExecVmclear, ExecVmptrld, ClearActiveVMCS, ExecVmxoff
  <2> QED BY <2>1, <2>6
<1>2. ASSUME NEW t \in Threads,
             \/ WriteCr4(t) \/ WriteFeatureControl(t) \/ DumpGuestArea(t)
             \/ StoreVmcsPointer(t) \/ Return(t)
      PROVE  UNCHANGED <<vmxon, current, active>>
      BY <1>2 DEF WriteCr4, SetVmxe, WriteFeatureControl, LockFeatureControl, DumpGuestArea,
                  StoreVmcsPointer, Return, hwVars
<1>3. ASSUME NEW t \in Threads, WriteControls(t) \/ WriteSegments(t) \/ WriteRegisters(t)
      PROVE  UNCHANGED <<vmxon, current, active>>
      BY <1>3 DEF WriteControls, WriteSegments, WriteRegisters, WriteBlock, VmWrite
<1>4. ASSUME NEW t \in Threads, LaunchGuest(t)
      PROVE  UNCHANGED <<vmxon, current, active>>
      BY <1>4 DEF LaunchGuest, VmLaunch
<1>5. ASSUME NEW t \in Threads, FaultGP(t) \/ FaultUD(t) \/ StackOverflow(t)
      PROVE  UNCHANGED <<vmxon, current, active>>
      BY <1>5 DEF FaultGP, FaultUD, StackOverflow, Bugcheck, hwVars
<1>6. ASSUME NEW c \in Cpus, CpuStep(c)
      PROVE  UNCHANGED <<vmxon, current, active>>
      BY <1>6 DEF CpuStep, GuestStep, GuestExit, HandlerResume, hwVars
<1>7. ASSUME NEW t \in Threads, NEW c \in Cpus, Enter(t, c) \/ Migrate(t, c)
      PROVE  UNCHANGED <<vmxon, current, active>>
      BY <1>7 DEF Enter, Migrate, hwVars
<1>8. CASE UNCHANGED vars
      BY <1>8 DEF vars, hwVars
<1> HIDE DEF HereOnly
<1> QED BY <1>1, <1>2, <1>3, <1>4, <1>5, <1>6, <1>7, <1>8 DEF Next, ThreadStep

(* A captured processor stays in VMX operation with the VMCS current and   *)
(* active, although other calls clear and load the same VMCS elsewhere.    *)
THEOREM CaptureKept == Spec => []CapturedKeepsVmx
<1>1. Init => CaptureInv
      BY DEF Init, HwInit, CaptureInv, captured
<1>2. TypeOK /\ CaptureInv /\ [Next]_vars => CaptureInv'
  <2> SUFFICES ASSUME TypeOK, CaptureInv, [Next]_vars PROVE CaptureInv'
      OBVIOUS
  <2>1. CASE UNCHANGED <<vmxon, current, active>>
    <3>1. ASSUME NEW t \in Threads, LaunchGuest(t) PROVE cpu[t] \in vmxon \cap current
          BY <3>1 DEF LaunchGuest
    <3>2. captured' \subseteq vmxon \cap current
          BY <3>1, ModeStep DEF CaptureInv, captured
    <3> QED BY <2>1, <3>2 DEF CaptureInv
  <2>2. ASSUME NEW t \in Threads, mode[cpu[t]] = "host", UNCHANGED mode, HereOnly(cpu[t])
        PROVE  CaptureInv'
    <3>1. cpu[t] \notin captured /\ captured' = captured
          BY <2>2 DEF captured
    <3> QED BY <2>2, <3>1 DEF CaptureInv, HereOnly
  <2> QED BY <2>1, <2>2, VmcsStep
<1>3. CaptureInv => CapturedKeepsVmx
      BY DEF CaptureInv, CapturedKeepsVmx
<1> QED BY <1>1, <1>2, <1>3, TypeCorrect, PTL DEF Spec

-----------------------------------------------------------------------------
(* What a returning call reports.                                          *)
ReturnInv ==
    \A t \in Threads :
        /\ pc[t] \in {"vmptrst", "clear", "vmxoff", "return"}
              => status[t] = 1 /\ "vmlaunch" \in refused
        /\ pc[t] = "idle" /\ calls[t] > 0
              => status[t] = 1 /\ "vmlaunch" \in refused

(* The operations that have failed are never forgotten.                    *)
LEMMA RefusedGrows == [Next]_vars => refused \subseteq refused'
<1> SUFFICES ASSUME [Next]_vars PROVE refused \subseteq refused'
    OBVIOUS
<1> USE DEF Record, hwVars
<1>1. ASSUME NEW t \in Threads,
             \/ WriteCr4(t) \/ WriteFeatureControl(t) \/ ExecVmxon(t)
             \/ ExecVmclear(t) \/ ExecVmptrld(t)
      PROVE  refused \subseteq refused'
      BY <1>1 DEF WriteCr4, WriteFeatureControl, ExecVmxon, ExecVmclear, ExecVmptrld,
                  SetVmxe, LockFeatureControl, VmxOn, VmClear, VmPtrld
<1>2. ASSUME NEW t \in Threads, WriteControls(t) \/ WriteSegments(t) \/ WriteRegisters(t)
      PROVE  refused \subseteq refused'
      BY <1>2 DEF WriteControls, WriteSegments, WriteRegisters, WriteBlock, VmWrite
<1>3. ASSUME NEW t \in Threads, LaunchGuest(t) PROVE refused \subseteq refused'
      BY <1>3 DEF LaunchGuest, VmLaunch
<1>4. ASSUME NEW t \in Threads,
             \/ DumpGuestArea(t) \/ StoreVmcsPointer(t) \/ ClearActiveVMCS(t)
             \/ ExecVmxoff(t) \/ Return(t)
      PROVE  refused \subseteq refused'
      BY <1>4 DEF DumpGuestArea, StoreVmcsPointer, ClearActiveVMCS, ExecVmxoff, Return,
                  VmClear, VmxOff
<1>5. ASSUME NEW t \in Threads, FaultGP(t) \/ FaultUD(t) \/ StackOverflow(t)
      PROVE  refused \subseteq refused'
      BY <1>5 DEF FaultGP, FaultUD, StackOverflow, Bugcheck
<1>6. ASSUME NEW c \in Cpus, CpuStep(c) PROVE refused \subseteq refused'
      BY <1>6 DEF CpuStep, GuestStep, GuestExit, HandlerResume
<1>7. ASSUME NEW t \in Threads, NEW c \in Cpus, Enter(t, c) \/ Migrate(t, c)
      PROVE  refused \subseteq refused'
      BY <1>7 DEF Enter, Migrate
<1>8. CASE UNCHANGED vars
      BY <1>8 DEF vars
<1> QED BY <1>1, <1>2, <1>3, <1>4, <1>5, <1>6, <1>7, <1>8 DEF Next, ThreadStep

(* EnterVmxHandler comes back only after a failed VMLAUNCH, with a status  *)
(* that its caller takes for success.                                      *)
THEOREM ReturnsAfterFailure == Spec => []ReturnedMeansFailed
<1>1. Init => ReturnInv
      BY DEF Init, ReturnInv
<1>2. TypeOK /\ ReturnInv /\ [Next]_vars => ReturnInv'
  <2> SUFFICES ASSUME TypeOK, ReturnInv, [Next]_vars PROVE ReturnInv'
      OBVIOUS
  <2>0. refused \subseteq refused'
        BY RefusedGrows
  <2> USE <2>0 DEF ReturnInv
  <2>1. ASSUME NEW t \in Threads,
               \/ WriteCr4(t) \/ WriteFeatureControl(t)
               \/ StoreVmcsPointer(t) \/ ExecVmxoff(t) \/ Return(t)
        PROVE  ReturnInv'
        BY <2>1 DEF WriteCr4, WriteFeatureControl, StoreVmcsPointer, ExecVmxoff, Return,
                    At, GoTo, TypeOK, Labels
  <2>2. ASSUME NEW t \in Threads, ClearActiveVMCS(t) PROVE ReturnInv'
        BY <2>2, CleanupLabels DEF ClearActiveVMCS, At, GoTo, TypeOK, Labels
  <2>3. ASSUME NEW t \in Threads, ExecVmxon(t) \/ ExecVmclear(t) \/ ExecVmptrld(t)
        PROVE  ReturnInv'
    <3>1. \E l \in {"vmclear", "vmptrld", "controls"} : pc' = [pc EXCEPT ![t] = l]
          BY <2>3, VmxonEffect, VmclearEffect, VmptrldEffect
    <3>2. UNCHANGED calls /\ \E s \in {0, 1} : status' = [status EXCEPT ![t] = s]
          BY <2>3, VmxonEffect, VmclearEffect, VmptrldEffect
    <3> QED BY <3>1, <3>2 DEF TypeOK, Labels
  <2>4. ASSUME NEW t \in Threads, NEW b, NEW l \in {"segments", "registers", "dump"},
               Populated(t, b, l)
        PROVE  ReturnInv'
        BY <2>4 DEF Populated, TypeOK, Labels
  <2>5. ASSUME NEW t \in Threads, WriteControls(t) \/ WriteSegments(t) \/ WriteRegisters(t)
        PROVE  ReturnInv'
        BY <2>4, <2>5, PopulateEffect
  <2>6. ASSUME NEW t \in Threads, DumpGuestArea(t) PROVE ReturnInv'
        BY <2>6, DumpEffect DEF DumpGuestArea, TypeOK, Labels
  <2>7. ASSUME NEW t \in Threads, LaunchGuest(t) PROVE ReturnInv'
    <3>1. UNCHANGED calls
          BY <2>7 DEF LaunchGuest
    <3>2. CASE UNCHANGED status /\ pc' = [pc EXCEPT ![t] = "guest"]
          BY <3>1, <3>2 DEF TypeOK
    <3>3. CASE /\ status' = [status EXCEPT ![t] = 1]
               /\ pc' = [pc EXCEPT ![t] = CleanupLabel(created[t], entered[t])]
               /\ VmLaunch("fail")
      <4>1. "vmlaunch" \in refused'
            BY <3>3 DEF VmLaunch
      <4>2. \A u \in Threads : status'[u] = IF u = t THEN 1 ELSE status[u]
            BY <3>3 DEF TypeOK
      <4>3. \A u \in Threads \ {t} : pc'[u] = pc[u]
            BY <3>3 DEF TypeOK
      <4> QED BY <3>1, <4>1, <4>2, <4>3
    <3> QED BY <2>7, <3>2, <3>3, LaunchEffect
  <2>8. ASSUME NEW t \in Threads, FaultGP(t) \/ FaultUD(t) \/ StackOverflow(t)
        PROVE  ReturnInv'
        BY <2>8 DEF FaultGP, FaultUD, StackOverflow, Bugcheck, threadVars
  <2>9. ASSUME NEW c \in Cpus, CpuStep(c) PROVE ReturnInv'
        BY <2>9 DEF CpuStep, GuestStep, GuestExit, HandlerResume, threadVars
  <2>10. ASSUME NEW t \in Threads, NEW c \in Cpus, Enter(t, c) PROVE ReturnInv'
         BY <2>10 DEF Enter, GoTo, SetStatus, TypeOK, Labels
  <2>11. ASSUME NEW t \in Threads, NEW c \in Cpus, Migrate(t, c) PROVE ReturnInv'
         BY <2>11 DEF Migrate
  <2>12. CASE UNCHANGED vars
         BY <2>12 DEF vars, threadVars
  <2> HIDE DEF ReturnInv
  <2> QED BY <2>1, <2>2, <2>3, <2>5, <2>6, <2>7, <2>8, <2>9, <2>10, <2>11, <2>12
          DEF Next, ThreadStep
<1>3. ReturnInv => ReturnedMeansFailed
      BY Codes DEF ReturnInv, ReturnedMeansFailed, NT_SUCCESS
<1> QED BY <1>1, <1>2, <1>3, TypeCorrect, PTL DEF Spec

-----------------------------------------------------------------------------
(* The guest never gets past its CPUID.                                    *)
THEOREM StuckAtCpuid == Spec => []GuestStuckAtCpuid
<1>1. Init => GuestStuckAtCpuid
      BY DEF Init, GuestStuckAtCpuid
<1>2. TypeOK /\ GuestStuckAtCpuid /\ [Next]_vars => GuestStuckAtCpuid'
  <2> SUFFICES ASSUME TypeOK, GuestStuckAtCpuid, [Next]_vars
               PROVE  GuestStuckAtCpuid'
      OBVIOUS
  <2>1. CASE UNCHANGED rip
        BY <2>1 DEF GuestStuckAtCpuid
  <2>2. ASSUME NEW c \in Cpus, GuestStep(c) PROVE GuestStuckAtCpuid'
        BY <2>2 DEF GuestStep, GuestStuckAtCpuid, NextRip, TypeOK, Instructions
  <2>3. ASSUME NEW t \in Threads, LaunchGuest(t) PROVE GuestStuckAtCpuid'
        BY <2>3 DEF LaunchGuest, GuestStuckAtCpuid, TypeOK, guestVars
  <2>4. ASSUME NEW c \in Cpus, GuestExit(c) \/ HandlerResume(c) PROVE UNCHANGED rip
        BY <2>4 DEF GuestExit, HandlerResume
  <2>5. ASSUME NEW t \in Threads, ThreadStep(t), ~LaunchGuest(t) PROVE UNCHANGED rip
    <3>1. CASE FaultGP(t) \/ FaultUD(t) \/ StackOverflow(t)
          BY <3>1 DEF FaultGP, FaultUD, StackOverflow, Bugcheck, guestVars
    <3>2. CASE WriteControls(t) \/ WriteSegments(t) \/ WriteRegisters(t)
          BY <3>2 DEF WriteControls, WriteSegments, WriteRegisters, WriteBlock, guestVars
    <3> QED BY <2>5, <3>1, <3>2
            DEF ThreadStep, WriteCr4, WriteFeatureControl, ExecVmxon, ExecVmclear,
                ExecVmptrld, DumpGuestArea, StoreVmcsPointer, ClearActiveVMCS,
                ExecVmxoff, Return, guestVars
  <2>6. ASSUME NEW t \in Threads, NEW c \in Cpus, Enter(t, c) \/ Migrate(t, c)
        PROVE  UNCHANGED rip
        BY <2>6 DEF Enter, Migrate, guestVars
  <2>7. CASE UNCHANGED vars
        BY <2>1, <2>7 DEF vars, guestVars
  <2> QED BY <2>1, <2>2, <2>3, <2>4, <2>5, <2>6, <2>7 DEF Next, CpuStep
<1> QED BY <1>1, <1>2, TypeCorrect, PTL DEF Spec

-----------------------------------------------------------------------------
(* Counting: overlapping calls leave VMX operation off behind them, and a   *)
(* locked MSR allows one call on each processor.                           *)

(* entered_vmx is true wherever VMX instructions are executed.              *)
EnteredTrue == \A t \in Threads : pc[t] \in NeedsVmx => entered[t]

(* A step of t to label l, as the calls inside VMX operation see it.        *)
LEMMA InsideMove ==
    ASSUME TypeOK, NEW t \in Threads, NEW l, pc' = [pc EXCEPT ![t] = l]
    PROVE  Inside' = IF l \in NeedsVmx \cup {"guest"} THEN Inside \cup {t} ELSE Inside \ {t}
BY DEF Inside, TypeOK

(* The sets that are counted are finite.                                    *)
LEMMA FiniteSets ==
    ASSUME TypeOK
    PROVE  IsFiniteSet(Inside) /\ IsFiniteSet(Attempts) /\ IsFiniteSet(vmxon) /\ IsFiniteSet(locked)
<1>1. vmxon \subseteq Cpus /\ locked \subseteq Cpus
      BY DEF TypeOK, HwTypeOK
<1>2. Inside \subseteq Threads /\ Attempts \subseteq Threads
      BY DEF Inside, Attempts
<1> QED BY <1>1, <1>2, FS_Subset, FiniteAssumption

(* Adding an element to each of two finite sets, or removing one, keeps the *)
(* order of their sizes, if the larger really grows or the smaller shrinks. *)
LEMMA SizesKept ==
    ASSUME NEW S, NEW T, NEW x, NEW y, IsFiniteSet(S), IsFiniteSet(T),
           Cardinality(S) <= Cardinality(T)
    PROVE  /\ y \notin T => Cardinality(S \cup {x}) <= Cardinality(T \cup {y})
           /\ x \in S => Cardinality(S \ {x}) <= Cardinality(T \ {y})
           /\ Cardinality(S) <= Cardinality(T \cup {y})
           /\ Cardinality(S \ {x}) <= Cardinality(T)
<1>1. Cardinality(S) \in Nat /\ Cardinality(T) \in Nat
      BY FS_CardinalityType
<1>2. /\ Cardinality(S \cup {x}) = IF x \in S THEN Cardinality(S) ELSE Cardinality(S) + 1
      /\ Cardinality(T \cup {y}) = IF y \in T THEN Cardinality(T) ELSE Cardinality(T) + 1
      BY FS_AddElement
<1>3. /\ Cardinality(S \ {x}) = IF x \in S THEN Cardinality(S) - 1 ELSE Cardinality(S)
      /\ Cardinality(T \ {y}) = IF y \in T THEN Cardinality(T) - 1 ELSE Cardinality(T)
      BY FS_RemoveElement
<1> QED BY <1>1, <1>2, <1>3

(* A step of t outside VMX operation's ends keeps the count.                *)
LEMMA CountKept ==
    ASSUME TypeOK, VmxonCounted, NEW t \in Threads, NEW l, pc' = [pc EXCEPT ![t] = l],
           UNCHANGED vmxon, current' \subseteq current \cup (vmxon \cap {cpu[t]}),
           t \in Inside => l \in NeedsVmx \cup {"guest"}
    PROVE  VmxonCounted'
<1>1. Inside' = Inside \/ Inside' = Inside \cup {t}
  <2>1. t \notin Inside => Inside \ {t} = Inside
        OBVIOUS
  <2>2. CASE l \in NeedsVmx \cup {"guest"}
        BY <2>2, InsideMove
  <2>3. CASE l \notin NeedsVmx \cup {"guest"}
        BY <2>1, <2>3, InsideMove
  <2> QED BY <2>2, <2>3
<1>2. Cardinality(vmxon) <= Cardinality(Inside \cup {t})
      BY FiniteSets, SizesKept DEF VmxonCounted
<1> QED BY <1>1, <1>2 DEF VmxonCounted

(* Every step keeps the count and the flag.                                 *)
LEMMA CountStep ==
    ASSUME TypeOK, VmxonCounted, EnteredTrue, [Next]_vars
    PROVE  VmxonCounted' /\ EnteredTrue'
<1> USE DEF NeedsVmx, NeedsCurrent
<1>1. ASSUME UNCHANGED <<pc, entered, vmxon, current>>
      PROVE  VmxonCounted' /\ EnteredTrue'
      BY <1>1 DEF VmxonCounted, EnteredTrue, Inside
<1>2. ASSUME NEW t \in Threads, NEW l, pc' = [pc EXCEPT ![t] = l],
             UNCHANGED <<entered, vmxon>>, current' \subseteq current \cup (vmxon \cap {cpu[t]}),
             t \in Inside => l \in NeedsVmx \cup {"guest"},
             l \in NeedsVmx => pc[t] \in NeedsVmx
      PROVE  VmxonCounted' /\ EnteredTrue'
      BY <1>2, CountKept DEF EnteredTrue, TypeOK
<1>3. ASSUME NEW t \in Threads, WriteCr4(t) \/ WriteFeatureControl(t) \/ Return(t)
      PROVE  VmxonCounted' /\ EnteredTrue'
  <2>1. PICK l \in {"msr", "vmxon", "idle"} : pc' = [pc EXCEPT ![t] = l]
        BY <1>3 DEF WriteCr4, WriteFeatureControl, Return, GoTo
  <2>2. t \notin Inside /\ UNCHANGED <<entered, vmxon, current>>
        BY <1>3 DEF WriteCr4, WriteFeatureControl, Return, At, Inside, SetVmxe,
                    LockFeatureControl, hwVars
  <2> QED BY <1>2, <2>1, <2>2
<1>4. ASSUME NEW t \in Threads, ExecVmxon(t) PROVE VmxonCounted' /\ EnteredTrue'
  <2>1. PICK result \in {0, 1} :
           /\ VmxOn(cpu[t], result)
           /\ entered' = [entered EXCEPT ![t] = TRUE]
           /\ pc' = [pc EXCEPT ![t] = "vmclear"]
        BY <1>4, VmxonEffect
  <2>2. t \notin Inside /\ Inside' = Inside \cup {t}
        BY <1>4, <2>1, InsideMove DEF ExecVmxon, At, Inside
  <2>3. vmxon' = vmxon \/ vmxon' = vmxon \cup {cpu[t]}
        BY <2>1 DEF VmxOn
  <2>4. Cardinality(vmxon') <= Cardinality(Inside')
        BY <2>2, <2>3, FiniteSets, SizesKept DEF VmxonCounted
  <2>5. current' = current
        BY <2>1 DEF VmxOn
  <2> QED BY <2>1, <2>3, <2>4, <2>5 DEF VmxonCounted, EnteredTrue, TypeOK
<1>5. ASSUME NEW t \in Threads, ExecVmclear(t) \/ ExecVmptrld(t)
      PROVE  VmxonCounted' /\ EnteredTrue'
  <2>1. \E l \in {"vmptrld", "controls"} : pc' = [pc EXCEPT ![t] = l]
        BY <1>5, VmclearEffect, VmptrldEffect
  <2>2. UNCHANGED <<entered, vmxon>> /\ current' \subseteq current \cup (vmxon \cap {cpu[t]})
        BY <1>5 DEF ExecVmclear, ExecVmptrld, VmClear, VmPtrld
  <2>3. pc[t] \in NeedsVmx
        BY <1>5 DEF ExecVmclear, ExecVmptrld, At
  <2> QED BY <1>2, <2>1, <2>2, <2>3
<1>6. ASSUME NEW t \in Threads, WriteControls(t) \/ WriteSegments(t) \/ WriteRegisters(t)
      PROVE  VmxonCounted' /\ EnteredTrue'
  <2>1. ASSUME NEW b \in NeedsVmx, NEW l \in NeedsVmx, Populated(t, b, l)
        PROVE  VmxonCounted' /\ EnteredTrue'
        BY <1>2, <2>1 DEF Populated, At, VmWrite
  <2> QED BY <1>6, <2>1, PopulateEffect
<1>7. ASSUME NEW t \in Threads, DumpGuestArea(t) \/ StoreVmcsPointer(t)
      PROVE  VmxonCounted' /\ EnteredTrue'
  <2>1. \E l \in {"vmlaunch", "clear"} : pc' = [pc EXCEPT ![t] = l]
        BY <1>7, DumpEffect DEF StoreVmcsPointer, GoTo
  <2>2. UNCHANGED <<entered, vmxon, current>> /\ pc[t] \in NeedsVmx
        BY <1>7 DEF DumpGuestArea, StoreVmcsPointer, At, hwVars
  <2> QED BY <1>2, <2>1, <2>2
<1>8. ASSUME NEW t \in Threads, LaunchGuest(t) PROVE VmxonCounted' /\ EnteredTrue'
  <2>1. pc[t] = "vmlaunch" /\ UNCHANGED entered
        BY <1>8 DEF LaunchGuest, At
  <2>2. UNCHANGED <<vmxon, current>>
        BY <1>8 DEF LaunchGuest, VmLaunch
  <2>3. CleanupLabel(created[t], entered[t]) \in {"vmptrst", "vmxoff"}
        BY <2>1 DEF EnteredTrue, CleanupLabel
  <2>4. \E l \in {"guest", "vmptrst", "vmxoff"} : pc' = [pc EXCEPT ![t] = l]
        BY <1>8, <2>3, LaunchEffect
  <2> QED BY <1>2, <2>1, <2>2, <2>4
<1>9. ASSUME NEW t \in Threads, ClearActiveVMCS(t) PROVE VmxonCounted' /\ EnteredTrue'
  <2>1. pc[t] = "clear" /\ UNCHANGED <<entered, vmxon>> /\ current' \subseteq current
        BY <1>9 DEF ClearActiveVMCS, VmClear, At
  <2>2. pc' = [pc EXCEPT ![t] = "vmxoff"]
        BY <1>9, <2>1 DEF ClearActiveVMCS, GoTo, EnteredTrue, CleanupLabel
  <2> QED BY <1>2, <2>1, <2>2
<1>10. ASSUME NEW t \in Threads, ExecVmxoff(t) PROVE VmxonCounted' /\ EnteredTrue'
  <2>1. /\ pc[t] = "vmxoff" /\ cpu[t] \in vmxon /\ UNCHANGED entered
        /\ pc' = [pc EXCEPT ![t] = "return"]
        /\ vmxon' = vmxon \ {cpu[t]} /\ current' = current \ {cpu[t]}
        BY <1>10 DEF ExecVmxoff, At, GoTo, VmxOff
  <2>2. Inside' = Inside \ {t}
        BY <2>1, InsideMove
  <2>3. Cardinality(vmxon') <= Cardinality(Inside')
        BY <2>1, <2>2, FiniteSets, SizesKept DEF VmxonCounted
  <2> QED BY <2>1, <2>3 DEF VmxonCounted, EnteredTrue, TypeOK
<1>11. ASSUME NEW t \in Threads, NEW c \in Cpus, Enter(t, c)
       PROVE  VmxonCounted' /\ EnteredTrue'
  <2>1. /\ pc[t] = "idle" /\ pc' = [pc EXCEPT ![t] = "cr4"]
        /\ entered' = [entered EXCEPT ![t] = FALSE]
        /\ UNCHANGED <<vmxon, current>>
        BY <1>11 DEF Enter, GoTo, hwVars
  <2>2. VmxonCounted'
    <3>1. t \notin Inside
          BY <2>1 DEF Inside
    <3> QED BY <2>1, <3>1, CountKept
  <2> QED BY <2>1, <2>2 DEF EnteredTrue, TypeOK
<1>12. ASSUME NEW t \in Threads, FaultGP(t) \/ FaultUD(t) \/ StackOverflow(t)
       PROVE  VmxonCounted' /\ EnteredTrue'
       BY <1>1, <1>12 DEF FaultGP, FaultUD, StackOverflow, Bugcheck, threadVars, hwVars
<1>13. ASSUME NEW c \in Cpus, CpuStep(c) PROVE VmxonCounted' /\ EnteredTrue'
       BY <1>1, <1>13 DEF CpuStep, GuestStep, GuestExit, HandlerResume, threadVars, hwVars
<1>14. ASSUME NEW t \in Threads, NEW c \in Cpus, Migrate(t, c)
       PROVE  VmxonCounted' /\ EnteredTrue'
       BY <1>1, <1>14 DEF Migrate, hwVars
<1>15. CASE UNCHANGED vars
       BY <1>1, <1>15 DEF vars, threadVars, hwVars
<1> QED BY <1>3, <1>4, <1>5, <1>6, <1>7, <1>8, <1>9, <1>10, <1>11, <1>12, <1>13, <1>14, <1>15
        DEF Next, ThreadStep

(* However calls of EnterVmxHandler overlap and are moved, once all have    *)
(* returned no processor is left in VMX operation.                         *)
THEOREM VmxOffInTheEnd == Spec => []VmxOffWhenIdle
<1>1. Init => VmxonCounted /\ EnteredTrue
  <2> SUFFICES ASSUME Init PROVE VmxonCounted /\ EnteredTrue
      OBVIOUS
  <2>1. vmxon = {} /\ current = {} /\ Inside = {} /\ EnteredTrue
        BY DEF Init, HwInit, Inside, NeedsVmx, NeedsCurrent, EnteredTrue
  <2>2. Cardinality({}) <= Cardinality({})
        BY FS_EmptySet
  <2> QED BY <2>1, <2>2 DEF VmxonCounted
<1>2. TypeOK /\ VmxonCounted /\ EnteredTrue /\ [Next]_vars => VmxonCounted' /\ EnteredTrue'
      BY CountStep
<1>3. TypeOK /\ VmxonCounted => VmxOffWhenIdle
  <2> SUFFICES ASSUME TypeOK, VmxonCounted, \A t \in Threads : pc[t] = "idle"
               PROVE  vmxon = {} /\ current = {}
      BY DEF VmxOffWhenIdle
  <2>1. Inside = {}
        BY DEF Inside, NeedsVmx, NeedsCurrent
  <2>2. Cardinality(vmxon) = 0
        BY <2>1, FiniteSets, FS_EmptySet, FS_CardinalityType DEF VmxonCounted
  <2>3. vmxon = {}
        BY <2>2, FiniteSets, FS_EmptySet
  <2> QED BY <2>3 DEF VmxonCounted
<1> QED BY <1>1, <1>2, <1>3, TypeCorrect, PTL DEF Spec

(* A step of t that does not leave the MSR behind adds no attempt.          *)
LEMMA NoNewAttempt ==
    ASSUME TypeOK, OneAttemptPerProcessor, NEW t \in Threads, NEW l,
           pc' = [pc EXCEPT ![t] = l], UNCHANGED <<calls, locked>>, refused \subseteq refused',
           pc[t] \in {"cr4", "msr"} => l \in {"cr4", "msr"}
    PROVE  OneAttemptPerProcessor'
<1>1. Attempts' \subseteq Attempts
      BY DEF Attempts, TypeOK
<1>2. Cardinality(Attempts') <= Cardinality(Attempts)
      BY <1>1, FiniteSets, FS_Subset
<1>3. Cardinality(Attempts') \in Nat /\ Cardinality(Attempts) \in Nat
      BY <1>1, FiniteSets, FS_Subset, FS_CardinalityType
<1>4. Cardinality(locked) \in Nat
      BY FiniteSets, FS_CardinalityType
<1> QED BY <1>2, <1>3, <1>4 DEF OneAttemptPerProcessor

(* Every step keeps the number of attempts below that of locked MSRs.       *)
LEMMA AttemptStep ==
    ASSUME TypeOK, OneAttemptPerProcessor, [Next]_vars
    PROVE  OneAttemptPerProcessor'
<1>0. refused \subseteq refused'
      BY RefusedGrows
<1>1. ASSUME UNCHANGED <<pc, calls, locked>> PROVE OneAttemptPerProcessor'
      BY <1>0, <1>1 DEF OneAttemptPerProcessor, Attempts
<1>2. ASSUME NEW t \in Threads, WriteCr4(t) PROVE OneAttemptPerProcessor'
      BY <1>2, <1>0, NoNewAttempt DEF WriteCr4, SetVmxe, GoTo
<1>3. ASSUME NEW t \in Threads, WriteFeatureControl(t) PROVE OneAttemptPerProcessor'
  <2> SUFFICES ASSUME "wrmsr" \notin refused'
               PROVE  Cardinality(Attempts') <= Cardinality(locked')
      BY DEF OneAttemptPerProcessor
  <2>1. cpu[t] \notin locked /\ locked' = locked \cup {cpu[t]} /\ "wrmsr" \notin refused
        BY <1>3 DEF WriteFeatureControl, LockFeatureControl, Record
  <2>2. pc' = [pc EXCEPT ![t] = "vmxon"] /\ UNCHANGED calls
        BY <1>3 DEF WriteFeatureControl, GoTo
  <2>3. Attempts' \subseteq Attempts \cup {t}
        BY <2>2 DEF Attempts, TypeOK
  <2>4. /\ Cardinality(Attempts \cup {t}) <= Cardinality(locked \cup {cpu[t]})
        /\ IsFiniteSet(Attempts \cup {t}) /\ IsFiniteSet(locked \cup {cpu[t]})
        BY <2>1, FiniteSets, SizesKept, FS_AddElement DEF OneAttemptPerProcessor
  <2>5. Cardinality(Attempts') <= Cardinality(Attempts \cup {t})
        BY <2>3, <2>4, FS_Subset
  <2>6. /\ Cardinality(Attempts') \in Nat /\ Cardinality(Attempts \cup {t}) \in Nat
        /\ Cardinality(locked') \in Nat
        BY <2>1, <2>3, <2>4, FS_Subset, FS_CardinalityType
  <2> QED BY <2>1, <2>4, <2>5, <2>6
<1>4. ASSUME NEW t \in Threads, ExecVmxon(t) \/ ExecVmclear(t) \/ ExecVmptrld(t)
      PROVE  OneAttemptPerProcessor'
  <2>1. \E l : pc' = [pc EXCEPT ![t] = l] /\ UNCHANGED calls
        BY <1>4, VmxonEffect, VmclearEffect, VmptrldEffect
  <2>2. UNCHANGED locked /\ pc[t] \notin {"cr4", "msr"}
        BY <1>4 DEF ExecVmxon, ExecVmclear, ExecVmptrld, VmxOn, VmClear, VmPtrld, At
  <2> QED BY <2>1, <2>2, <1>0, NoNewAttempt
<1>5. ASSUME NEW t \in Threads, WriteControls(t) \/ WriteSegments(t) \/ WriteRegisters(t)
      PROVE  OneAttemptPerProcessor'
  <2>1. ASSUME NEW b \in {"controls", "segments", "registers"}, NEW l, Populated(t, b, l)
        PROVE  OneAttemptPerProcessor'
        BY <2>1, <1>0, NoNewAttempt DEF Populated, At, VmWrite
  <2> QED BY <1>5, <2>1, PopulateEffect
<1>6. ASSUME NEW t \in Threads, DumpGuestArea(t) PROVE OneAttemptPerProcessor'
      BY <1>6, DumpEffect, <1>0, NoNewAttempt DEF DumpGuestArea, At, hwVars
<1>7. ASSUME NEW t \in Threads, LaunchGuest(t) PROVE OneAttemptPerProcessor'
  <2>1. \E l : pc' = [pc EXCEPT ![t] = l]
        BY <1>7, LaunchEffect
  <2>2. UNCHANGED <<calls, locked>> /\ pc[t] = "vmlaunch"
        BY <1>7 DEF LaunchGuest, VmLaunch, At
  <2> QED BY <2>1, <2>2, <1>0, NoNewAttempt
<1>8. ASSUME NEW t \in Threads,
             StoreVmcsPointer(t) \/ ClearActiveVMCS(t) \/ ExecVmxoff(t) \/ Return(t)
      PROVE  OneAttemptPerProcessor'
      BY <1>8, <1>0, NoNewAttempt
      DEF StoreVmcsPointer, ClearActiveVMCS, ExecVmxoff, Return, VmClear, VmxOff, At, GoTo, hwVars
<1>9. ASSUME NEW t \in Threads, NEW c \in Cpus, Enter(t, c) PROVE OneAttemptPerProcessor'
  <2>1. /\ pc' = [pc EXCEPT ![t] = "cr4"] /\ UNCHANGED locked
        /\ calls' = [calls EXCEPT ![t] = calls[t] + 1]
        BY <1>9 DEF Enter, GoTo, hwVars
  <2>2. Attempts' \subseteq Attempts
        BY <2>1 DEF Attempts, TypeOK
  <2>3. /\ Cardinality(Attempts') <= Cardinality(Attempts)
        /\ Cardinality(Attempts') \in Nat /\ Cardinality(Attempts) \in Nat
        /\ Cardinality(locked) \in Nat
        BY <2>2, FiniteSets, FS_Subset, FS_CardinalityType
  <2> QED BY <1>0, <2>1, <2>3 DEF OneAttemptPerProcessor
<1>10. ASSUME NEW t \in Threads, FaultGP(t) \/ FaultUD(t) \/ StackOverflow(t)
       PROVE  OneAttemptPerProcessor'
       BY <1>1, <1>10 DEF FaultGP, FaultUD, StackOverflow, Bugcheck, threadVars, hwVars
<1>11. ASSUME NEW c \in Cpus, CpuStep(c) PROVE OneAttemptPerProcessor'
       BY <1>1, <1>11 DEF CpuStep, GuestStep, GuestExit, HandlerResume, threadVars, hwVars
<1>12. ASSUME NEW t \in Threads, NEW c \in Cpus, Migrate(t, c) PROVE OneAttemptPerProcessor'
       BY <1>1, <1>12 DEF Migrate, hwVars
<1>13. CASE UNCHANGED vars
       BY <1>1, <1>13 DEF vars, threadVars, hwVars
<1> QED BY <1>2, <1>3, <1>4, <1>5, <1>6, <1>7, <1>8, <1>9, <1>10, <1>11, <1>12, <1>13
        DEF Next, ThreadStep

(* A call that failed cannot be made again on its processor where WRMSR to  *)
(* the locked IA32_FEATURE_CONTROL faults.                                 *)
THEOREM OneAttempt == Spec => []OneAttemptPerProcessor
<1>1. Init => OneAttemptPerProcessor
  <2> SUFFICES ASSUME Init PROVE OneAttemptPerProcessor
      OBVIOUS
  <2>1. Attempts = {}
        BY DEF Init, Attempts
  <2>2. Cardinality(locked) \in Nat /\ Cardinality(Attempts) = 0
        BY <2>1, InitTypes, FiniteSets, FS_CardinalityType, FS_EmptySet
  <2> QED BY <2>2 DEF OneAttemptPerProcessor
<1>2. TypeOK /\ OneAttemptPerProcessor /\ [Next]_vars => OneAttemptPerProcessor'
      BY AttemptStep
<1> QED BY <1>1, <1>2, TypeCorrect, PTL DEF Spec
=============================================================================
