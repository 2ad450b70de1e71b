------------------------ MODULE EnterVmxSerialProofs ------------------------
(***************************************************************************)
(* What holds of EnterVmx when one call at a time is made: SerialInv is    *)
(* inductive, and the safety properties of the serialized model follow.    *)
(***************************************************************************)
EXTENDS EnterVmxProofs

(* The invariant holds before the first call.                              *)
LEMMA InitSerial == Init => SerialInv
BY DEF Init, HwInit, SerialInv, OneCaller, OffOutsideCall, OneProcessor, FlagsTrue,
       ActiveIsCurrent, ClearedUnlessRefused, FreshVmcs, captured, NeedsVmx, NeedsCurrent

(* The steps that touch neither the VMCS nor the callers' progress.        *)
LEMMA SerialFrame ==
    ASSUME SerialInv, captured' = captured,
           UNCHANGED <<hwVars, pc, entered, created, owner>>
    PROVE  SerialInv'
BY DEF SerialInv, OneCaller, OffOutsideCall, OneProcessor, FlagsTrue,
       ActiveIsCurrent, ClearedUnlessRefused, FreshVmcs, hwVars

(* A thread that is under way is the only one.                             *)
LEMMA Alone ==
    ASSUME SerialInv, NEW t \in Threads, pc[t] # "idle"
    PROVE  /\ \A u \in Threads : u # t => pc[u] = "idle"
           /\ pc[t] # "guest" => captured = {}
BY DEF SerialInv, OneCaller, OneProcessor

(* Every step with one call at a time keeps the invariant.                 *)
LEMMA NextSerial ==
    ASSUME Serialized, TypeOK, SerialInv, [Next]_vars
    PROVE  SerialInv'
<1> USE DEF SerialInv, OneCaller, OffOutsideCall, OneProcessor, FlagsTrue,
            ActiveIsCurrent, ClearedUnlessRefused, FreshVmcs, NeedsVmx, NeedsCurrent
<1>1. ASSUME NEW t \in Threads, NEW a \in Labels, At(t, a), a \notin {"idle", "guest"}
      PROVE  /\ pc[t] = a /\ t \in DOMAIN pc /\ captured = {}
             /\ \A u \in Threads : u # t => pc[u] = "idle"
      BY <1>1, Alone DEF At, TypeOK
<1>2. ASSUME NEW t \in Threads, WriteCr4(t) PROVE SerialInv'
  <2>1. /\ UNCHANGED <<vmxon, current, active, launch, corrupt, refused, entered, created, owner>>
        /\ captured' = captured
        /\ pc' = [pc EXCEPT ![t] = "msr"]
        BY <1>2 DEF WriteCr4, SetVmxe, guestVars, captured, GoTo
  <2>2. pc[t] = "cr4" /\ vmxon = {} /\ current = {}
        BY <1>2 DEF WriteCr4, At
  <2> QED BY <1>1, <1>2, <2>1, <2>2 DEF WriteCr4, TypeOK, Labels
<1>3. ASSUME NEW t \in Threads, WriteFeatureControl(t) PROVE SerialInv'
  <2>1. /\ UNCHANGED <<vmxon, current, active, launch, corrupt, entered, created, owner>>
        /\ \A operation \in Refusable : operation \in refused' <=> operation \in refused
        /\ captured' = captured
        /\ pc' = [pc EXCEPT ![t] = "vmxon"]
        BY <1>3 DEF WriteFeatureControl, LockFeatureControl, Record, Refusable, guestVars, captured, GoTo
  <2>2. pc[t] = "msr" /\ vmxon = {} /\ current = {}
        BY <1>3 DEF WriteFeatureControl, At
  <2> QED BY <1>1, <1>3, <2>1, <2>2 DEF WriteFeatureControl, TypeOK, Labels, Refusable
<1>4. ASSUME NEW t \in Threads, ExecVmxon(t) PROVE SerialInv'
  <2>1. PICK result \in {0, 1} :
           /\ VmxOn(cpu[t], result)
           /\ entered' = [entered EXCEPT ![t] = TRUE]
           /\ pc' = [pc EXCEPT ![t] = "vmclear"]
           /\ UNCHANGED <<created, owner, guestVars>>
        BY <1>4, VmxonEffect
  <2>2. pc[t] = "vmxon" /\ vmxon = {} /\ current = {}
        BY <1>4 DEF ExecVmxon, At
  <2>3. /\ vmxon' \in {{}, {cpu[t]}}
        /\ UNCHANGED <<current, active, launch, corrupt>>
        /\ "vmclear" \in refused' <=> "vmclear" \in refused
        BY <2>1, <2>2 DEF VmxOn, Record
  <2>4. captured' = captured
        BY <2>1 DEF captured, guestVars
  <2> QED BY <1>1, <1>4, <2>1, <2>2, <2>3, <2>4 DEF ExecVmxon, TypeOK, Labels
<1>5. ASSUME NEW t \in Threads, ExecVmclear(t) PROVE SerialInv'
  <2>1. PICK result \in {0, 1} :
           /\ VmClear(cpu[t], result)
           /\ created' = IF result = 0 THEN created ELSE [created EXCEPT ![t] = TRUE]
           /\ pc' = [pc EXCEPT ![t] = IF result = 0 THEN "vmptrld" ELSE "controls"]
           /\ UNCHANGED <<entered, owner, guestVars>>
        BY <1>5, VmclearEffect
  <2>2. pc[t] = "vmclear" /\ current = {} /\ cpu[t] \in vmxon
        BY <1>5 DEF ExecVmclear, At
  <2>3. captured' = captured
        BY <2>1 DEF captured, guestVars
  <2>4. CASE result = 0
    <3>1. /\ current' = {} /\ active' = active \ {cpu[t]} /\ launch' = "clear"
          /\ corrupt' = (corrupt \/ active \ {cpu[t]} # {})
          /\ UNCHANGED <<vmxon, refused>>
          BY <2>1, <2>2, <2>4 DEF VmClear, Record
    <3>2. pc' = [pc EXCEPT ![t] = "vmptrld"] /\ UNCHANGED created
          BY <2>1, <2>4
    <3>3. OneCaller' /\ OffOutsideCall' /\ FlagsTrue' /\ FreshVmcs'
          BY <1>1, <1>5, <2>1, <2>2, <3>1, <3>2 DEF ExecVmclear, TypeOK, Labels
    <3>4. OneProcessor'
          BY <1>1, <1>5, <2>3, <3>1 DEF ExecVmclear, Labels
    <3>5. ASSUME "vmclear" \notin refused
          PROVE  ~corrupt' /\ active' = {}
      <4>1. ~corrupt /\ active = {} BY <2>2, <3>5
      <4>2. active \ {cpu[t]} = {} BY <4>1
      <4> QED BY <3>1, <4>1, <4>2
    <3>6. ClearedUnlessRefused'
          BY <3>1, <3>5
    <3>7. ActiveIsCurrent'
          BY <2>2, <3>1
    <3> QED BY <3>3, <3>4, <3>6, <3>7
  <2>5. CASE result = 1
    <3>1. /\ UNCHANGED <<vmxon, current, active, launch, corrupt>>
          /\ "vmclear" \in refused'
          BY <2>1, <2>5 DEF VmClear, Record
    <3> QED BY <1>1, <1>5, <2>1, <2>2, <2>3, <2>5, <3>1 DEF ExecVmclear, TypeOK, Labels
  <2> QED BY <2>4, <2>5
<1>6. ASSUME NEW t \in Threads, ExecVmptrld(t) PROVE SerialInv'
  <2>1. PICK result \in {0, 1} :
           /\ VmPtrld(cpu[t], result)
           /\ created' = [created EXCEPT ![t] = TRUE]
           /\ pc' = [pc EXCEPT ![t] = "controls"]
           /\ UNCHANGED <<entered, owner, guestVars>>
        BY <1>6, VmptrldEffect
  <2>2. pc[t] = "vmptrld" /\ current = {} /\ launch = "clear" /\ cpu[t] \in vmxon
        BY <1>6 DEF ExecVmptrld, At
  <2>3. captured' = captured
        BY <2>1 DEF captured, guestVars
  <2>4. CASE result = 0
    <3>1. /\ current' = {cpu[t]} /\ active' = active \cup {cpu[t]}
          /\ corrupt' = (corrupt \/ active \ {cpu[t]} # {})
          /\ UNCHANGED <<vmxon, launch, refused>>
          BY <2>1, <2>2, <2>4 DEF VmPtrld, Record
    <3>2. OneCaller' /\ OffOutsideCall' /\ FlagsTrue' /\ FreshVmcs'
          BY <1>1, <1>6, <2>1, <2>2, <3>1 DEF ExecVmptrld, TypeOK, Labels
    <3>3. OneProcessor'
          BY <1>1, <1>6, <2>2, <2>3, <3>1 DEF ExecVmptrld, Labels
    <3>4. ASSUME "vmclear" \notin refused
          PROVE  ~corrupt' /\ active' = {cpu[t]}
      <4>1. ~corrupt /\ active = {} BY <2>2, <3>4
      <4>2. active \ {cpu[t]} = {} BY <4>1
      <4> QED BY <3>1, <4>1, <4>2
    <3>5. \A u \in Threads : pc'[u] # "vmxoff"
          BY <1>1, <1>6, <2>1 DEF ExecVmptrld, TypeOK, Labels
    <3>6. ClearedUnlessRefused'
          BY <3>1, <3>4, <3>5
    <3>7. ActiveIsCurrent'
          BY <2>2, <3>1
    <3> QED BY <3>2, <3>3, <3>6, <3>7
  <2>5. CASE result = 1
    <3>1. /\ UNCHANGED <<vmxon, current, active, launch, corrupt>>
          /\ "vmclear" \in refused' <=> "vmclear" \in refused
          BY <2>1, <2>5 DEF VmPtrld, Record
    <3> QED BY <1>1, <1>6, <2>1, <2>2, <2>3, <3>1 DEF ExecVmptrld, TypeOK, Labels
  <2> QED BY <2>4, <2>5
<1>7. ASSUME NEW t \in Threads, WriteControls(t) PROVE SerialInv'
  <2>1. Populated(t, "controls", "segments") /\ At(t, "controls")
        BY <1>7, PopulateEffect DEF Populated
  <2>2. /\ pc' = [pc EXCEPT ![t] = "segments"]
        /\ UNCHANGED <<vmxon, current, active, launch, corrupt, entered, created, captured>>
        /\ "vmclear" \in refused' <=> "vmclear" \in refused
        BY <2>1 DEF Populated, VmWrite, Record, captured, guestVars
  <2>3. /\ OneCaller' /\ OffOutsideCall' /\ OneProcessor' /\ FlagsTrue'
        /\ ActiveIsCurrent' /\ ClearedUnlessRefused'
        BY <1>1, <2>1, <2>2 DEF TypeOK, Labels
  <2>4. FreshVmcs'
    <3>1. current \subseteq {cpu[t]} /\ cpu[t] \in current
          BY <2>1 DEF Populated
    <3>2. /\ refused \subseteq refused'
          /\ "vmwrite" \notin refused' => owner' = [owner EXCEPT !["controls"] = <<t, cpu[t]>>]
          BY <1>7, StatusOfResult DEF WriteControls, WriteBlock, VmWrite, Record
    <3> QED BY <1>1, <2>1, <2>2, <3>1, <3>2 DEF TypeOK, Labels, Blocks
  <2> QED BY <2>3, <2>4
<1>8. ASSUME NEW t \in Threads, WriteSegments(t) PROVE SerialInv'
  <2>1. Populated(t, "segments", "registers") /\ At(t, "segments")
        BY <1>8, PopulateEffect DEF Populated
  <2>2. /\ pc' = [pc EXCEPT ![t] = "registers"]
        /\ UNCHANGED <<vmxon, current, active, launch, corrupt, entered, created, captured>>
        /\ "vmclear" \in refused' <=> "vmclear" \in refused
        BY <2>1 DEF Populated, VmWrite, Record, captured, guestVars
  <2>3. /\ OneCaller' /\ OffOutsideCall' /\ OneProcessor' /\ FlagsTrue'
        /\ ActiveIsCurrent' /\ ClearedUnlessRefused'
        BY <1>1, <2>1, <2>2 DEF TypeOK, Labels
  <2>4. FreshVmcs'
    <3>1. current \subseteq {cpu[t]} /\ cpu[t] \in current
          BY <2>1 DEF Populated
    <3>2. /\ refused \subseteq refused'
          /\ "vmwrite" \notin refused' => owner' = [owner EXCEPT !["segments"] = <<t, cpu[t]>>]
          BY <1>8, StatusOfResult DEF WriteSegments, WriteBlock, VmWrite, Record
    <3> QED BY <1>1, <2>1, <2>2, <3>1, <3>2 DEF TypeOK, Labels, Blocks
  <2> QED BY <2>3, <2>4
<1>9. ASSUME NEW t \in Threads, WriteRegisters(t) PROVE SerialInv'
  <2>1. Populated(t, "registers", "dump") /\ At(t, "registers")
        BY <1>9, PopulateEffect DEF Populated
  <2>2. /\ pc' = [pc EXCEPT ![t] = "dump"]
        /\ UNCHANGED <<vmxon, current, active, launch, corrupt, entered, created, captured>>
        /\ "vmclear" \in refused' <=> "vmclear" \in refused
        BY <2>1 DEF Populated, VmWrite, Record, captured, guestVars
  <2>3. /\ OneCaller' /\ OffOutsideCall' /\ OneProcessor' /\ FlagsTrue'
        /\ ActiveIsCurrent' /\ ClearedUnlessRefused'
        BY <1>1, <2>1, <2>2 DEF TypeOK, Labels
  <2>4. FreshVmcs'
    <3>1. current \subseteq {cpu[t]} /\ cpu[t] \in current
          BY <2>1 DEF Populated
    <3>2. /\ refused \subseteq refused'
          /\ "vmwrite" \notin refused' => owner' = [owner EXCEPT !["registers"] = <<t, cpu[t]>>]
          BY <1>9, StatusOfResult DEF WriteRegisters, WriteBlock, VmWrite, Record
    <3> QED BY <1>1, <2>1, <2>2, <3>1, <3>2 DEF TypeOK, Labels, Blocks
  <2> QED BY <2>3, <2>4
<1>10. ASSUME NEW t \in Threads, DumpGuestArea(t) PROVE SerialInv'
  <2>1. /\ pc' = [pc EXCEPT ![t] = "vmlaunch"] /\ captured' = captured
        /\ UNCHANGED <<hwVars, entered, created, owner>>
        BY <1>10, DumpEffect DEF DumpGuestArea, guestVars, captured
  <2> QED BY <1>1, <1>10, <2>1 DEF DumpGuestArea, hwVars, TypeOK, Labels
<1>11. ASSUME NEW t \in Threads, LaunchGuest(t) PROVE SerialInv'
  <2>1. PICK outcome \in {"fail", "exit", "guest"} :
           /\ VmLaunch(outcome)
           /\ \/ /\ outcome = "fail"
                 /\ pc' = [pc EXCEPT ![t] = CleanupLabel(created[t], entered[t])]
                 /\ UNCHANGED guestVars
              \/ /\ outcome \in {"exit", "guest"}
                 /\ pc' = [pc EXCEPT ![t] = "guest"]
                 /\ mode' = [mode EXCEPT ![cpu[t]] = outcome]
        BY <1>11, LaunchEffect
  <2>2. pc[t] = "vmlaunch" /\ cpu[t] \in vmxon \cap current /\ created[t]
        BY <1>11 DEF LaunchGuest, At
  <2>3. /\ UNCHANGED <<vmxon, current, active, corrupt, entered, created, owner>>
        /\ "vmclear" \in refused' <=> "vmclear" \in refused
        BY <1>11, <2>1 DEF LaunchGuest, VmLaunch
  <2>4. CASE outcome = "fail"
    <3>1. pc' = [pc EXCEPT ![t] = "vmptrst"] /\ captured' = captured
          BY <2>1, <2>2, <2>4 DEF CleanupLabel, captured, guestVars
    <3> QED BY <1>1, <1>11, <2>2, <2>3, <3>1 DEF LaunchGuest, TypeOK, Labels
  <2>5. CASE outcome \in {"exit", "guest"}
    <3>1. pc' = [pc EXCEPT ![t] = "guest"] /\ captured' \subseteq captured \cup {cpu[t]}
          BY <2>1, <2>5 DEF captured, TypeOK
    <3> QED BY <1>1, <1>11, <2>2, <2>3, <3>1 DEF LaunchGuest, TypeOK, Labels
  <2> QED BY <2>4, <2>5
<1>12. ASSUME NEW t \in Threads, StoreVmcsPointer(t) PROVE SerialInv'
  <2>1. /\ pc' = [pc EXCEPT ![t] = "clear"] /\ captured' = captured
        /\ UNCHANGED <<hwVars, entered, created, owner>>
        BY <1>12 DEF StoreVmcsPointer, guestVars, captured, GoTo
  <2> QED BY <1>1, <1>12, <2>1 DEF StoreVmcsPointer, hwVars, TypeOK, Labels
<1>13. ASSUME NEW t \in Threads, ClearActiveVMCS(t) PROVE SerialInv'
  <2>1. pc[t] = "clear" /\ cpu[t] \in vmxon /\ entered[t]
        BY <1>13 DEF ClearActiveVMCS, At
  <2>2. /\ pc' = [pc EXCEPT ![t] = "vmxoff"] /\ captured' = captured
        /\ UNCHANGED <<vmxon, entered, created, owner>>
        BY <1>13, <2>1
        DEF ClearActiveVMCS, VmClear, guestVars, captured, GoTo, CleanupLabel
  <2>3. vmxon = {cpu[t]}
        BY <2>1
  <2>4. PICK result \in {0, 1} : VmClear(cpu[t], result)
        BY <1>13 DEF ClearActiveVMCS
  <2>5. OneCaller' /\ OffOutsideCall' /\ FlagsTrue'
        BY <1>1, <1>13, <2>2 DEF ClearActiveVMCS, TypeOK, Labels
  <2>6. CASE result = 0
    <3>1. /\ current' = {} /\ active' = active \ {cpu[t]}
          /\ corrupt' = (corrupt \/ active \ {cpu[t]} # {})
          /\ UNCHANGED refused
          BY <2>3, <2>4, <2>6 DEF VmClear, Record
    <3>2. ASSUME "vmclear" \notin refused
          PROVE  ~corrupt' /\ active' = {}
      <4>1. ~corrupt /\ active \subseteq {cpu[t]} BY <2>3, <3>2
      <4>2. active \ {cpu[t]} = {} BY <4>1
      <4> QED BY <3>1, <4>1, <4>2
    <3>3. ClearedUnlessRefused'
          BY <3>1, <3>2
    <3>4. OneProcessor' /\ FreshVmcs'
          BY <1>1, <1>13, <2>2, <3>1 DEF ClearActiveVMCS, TypeOK, Labels
    <3>5. ActiveIsCurrent'
          BY <2>3, <3>1
    <3> QED BY <2>5, <3>3, <3>4, <3>5
  <2>7. CASE result = 1
    <3>1. UNCHANGED <<current, active, launch, corrupt>> /\ "vmclear" \in refused'
          BY <2>4, <2>7 DEF VmClear, Record
    <3>2. OneProcessor' /\ FreshVmcs'
          BY <1>1, <1>13, <2>2, <3>1 DEF ClearActiveVMCS, TypeOK, Labels
    <3> QED BY <2>5, <3>1, <3>2
  <2> QED BY <2>6, <2>7
<1>14. ASSUME NEW t \in Threads, ExecVmxoff(t) PROVE SerialInv'
  <2>1. pc[t] = "vmxoff" /\ cpu[t] \in vmxon
        BY <1>14 DEF ExecVmxoff, At
  <2>2. /\ vmxon' = {} /\ current' = {}
        /\ corrupt' = (corrupt \/ cpu[t] \in active)
        /\ UNCHANGED <<active, launch, refused, entered, created, owner>>
        BY <1>14, <2>1 DEF ExecVmxoff, VmxOff
  <2>3. pc' = [pc EXCEPT ![t] = "return"] /\ captured' = captured
        BY <1>14 DEF ExecVmxoff, GoTo, guestVars, captured
  <2>4. OneCaller' /\ OffOutsideCall' /\ OneProcessor' /\ FlagsTrue' /\ FreshVmcs'
        BY <1>1, <1>14, <2>2, <2>3 DEF ExecVmxoff, TypeOK, Labels
  <2>5. ASSUME "vmclear" \notin refused PROVE ~corrupt' /\ active' = {}
    <3>1. ~corrupt /\ active = {} BY <2>1, <2>5
    <3>2. cpu[t] \notin active BY <3>1
    <3> QED BY <2>2, <3>1, <3>2
  <2>6. ClearedUnlessRefused'
        BY <2>2, <2>5
  <2>7. ActiveIsCurrent'
    <3>1. CASE corrupt BY <2>2, <3>1
    <3>2. CASE active = {} BY <2>2, <3>2
    <3>3. CASE active = current /\ active # {}
      <4>1. cpu[t] \in active BY <2>1, <3>3
      <4> QED BY <2>2, <4>1
    <3> QED BY <3>1, <3>2, <3>3
  <2> QED BY <2>4, <2>6, <2>7
<1>15. ASSUME NEW t \in Threads, Return(t) PROVE SerialInv'
  <2>1. /\ pc' = [pc EXCEPT ![t] = "idle"] /\ captured' = captured
        /\ UNCHANGED <<hwVars, entered, created, owner>>
        BY <1>15 DEF Return, guestVars, captured, GoTo
  <2> QED BY <1>1, <1>15, <2>1 DEF Return, hwVars, TypeOK, Labels
<1>16. ASSUME NEW t \in Threads, NEW c \in Cpus, Enter(t, c) PROVE SerialInv'
  <2>1. /\ pc' = [pc EXCEPT ![t] = "cr4"] /\ captured' = captured
        /\ UNCHANGED <<hwVars, owner>>
        /\ entered' = [entered EXCEPT ![t] = FALSE]
        /\ created' = [created EXCEPT ![t] = FALSE]
        BY <1>16 DEF Enter, guestVars, captured, GoTo
  <2>2. \A u \in Threads : pc[u] = "idle"
        BY <1>16 DEF Enter
  <2> QED BY <2>1, <2>2 DEF hwVars, TypeOK, Labels
<1>17. ASSUME NEW t \in Threads, FaultGP(t) \/ FaultUD(t) \/ StackOverflow(t)
       PROVE  SerialInv'
       BY <1>17, SerialFrame
       DEF FaultGP, FaultUD, StackOverflow, Bugcheck, threadVars, guestVars, captured
<1>18. ASSUME NEW c \in Cpus, CpuStep(c) PROVE SerialInv'
  <2>1. captured' = captured
        BY <1>18 DEF CpuStep, GuestStep, GuestExit, HandlerResume, captured, TypeOK
  <2> QED BY <1>18, <2>1, SerialFrame
          DEF CpuStep, GuestStep, GuestExit, HandlerResume, threadVars
<1>19. ASSUME NEW t \in Threads, NEW c \in Cpus, Migrate(t, c) PROVE SerialInv'
       BY <1>19, SerialFrame DEF Migrate, guestVars, captured
<1>20. CASE UNCHANGED vars
       BY <1>20, SerialFrame DEF vars, threadVars, guestVars, captured
<1> HIDE DEF SerialInv
<1> QED BY <1>2, <1>3, <1>4, <1>5, <1>6, <1>7, <1>8, <1>9, <1>10, <1>11, <1>12, <1>13,
           <1>14, <1>15, <1>16, <1>17, <1>18, <1>19, <1>20
        DEF Next, ThreadStep

(* With one call at a time every reachable state of the handler has its    *)
(* types and satisfies the inductive invariant.                            *)
THEOREM SerialInvariant == ASSUME Serialized PROVE Spec => [](TypeOK /\ SerialInv)
<1>1. Init => TypeOK /\ SerialInv
      BY InitTypes, InitSerial
<1>2. TypeOK /\ SerialInv /\ [Next]_vars => (TypeOK /\ SerialInv)'
      BY NextTypes, NextSerial
<1> QED BY <1>1, <1>2, PTL DEF Spec

(* EnterVmxHandler's cleanup never leaves the VMCS active across VMXOFF,   *)
(* and never activates it on a second processor, unless VMCLEAR is refused.*)
THEOREM SerialNotCorrupted == ASSUME Serialized PROVE Spec => []NotCorrupted
<1>1. SerialInv => NotCorrupted
      BY DEF SerialInv, ClearedUnlessRefused, NotCorrupted
<1> QED BY <1>1, SerialInvariant, PTL

(* After the handler has returned to every caller VMX operation is off     *)
(* everywhere and the VMCS is inactive.                                    *)
THEOREM SerialQuiescent == ASSUME Serialized PROVE Spec => []QuiescentWhenIdle
<1>1. SerialInv => QuiescentWhenIdle
      BY DEF SerialInv, OffOutsideCall, OneProcessor, ClearedUnlessRefused, QuiescentWhenIdle
<1> QED BY <1>1, SerialInvariant, PTL

(* LaunchGuest is reached with a VMCS that this call cleared, loaded and   *)
(* filled on the processor that launches it.                               *)
THEOREM SerialLaunchReady == ASSUME Serialized PROVE Spec => []LaunchReady
<1>1. TypeOK /\ SerialInv => LaunchReady
  <2> SUFFICES ASSUME TypeOK, SerialInv, NEW t \in Threads,
                      pc[t] = "vmlaunch", cpu[t] \in current
               PROVE  /\ launch = "clear"
                      /\ active = {cpu[t]} \/ "vmclear" \in refused
                      /\ "vmwrite" \notin refused => \A b \in Blocks : owner[b] = <<t, cpu[t]>>
      BY DEF LaunchReady
  <2>1. current = {cpu[t]}
        BY DEF SerialInv, OneProcessor
  <2>2. active = {cpu[t]} \/ "vmclear" \in refused
        BY <2>1 DEF SerialInv, ClearedUnlessRefused
  <2>3. launch = "clear"
        BY <2>1 DEF SerialInv, FreshVmcs
  <2>4. "vmwrite" \notin refused => \A b \in Blocks : owner[b] = <<t, cpu[t]>>
        BY <2>1 DEF SerialInv, FreshVmcs, Blocks
  <2> QED BY <2>2, <2>3, <2>4
<1> QED BY <1>1, SerialInvariant, PTL

-----------------------------------------------------------------------------
(* The stack of the captured thread, and the causes of a stop.             *)

(* Steps that leave the captured processors and the populated part alone,   *)
(* and no captured thread's place.                                         *)
LEMMA StackKept ==
    ASSUME TypeOK, HostStackOwned, captured' \subseteq captured, UNCHANGED owner,
           refused \subseteq refused',
           \A t \in Threads : pc[t] = "guest" => pc'[t] = "guest" /\ cpu'[t] = cpu[t]
    PROVE  HostStackOwned'
<1> SUFFICES ASSUME NEW c \in captured', "vmwrite" \notin refused'
             PROVE  \E t \in Threads : owner'["registers"] = <<t, c>> /\ pc'[t] = "guest" /\ cpu'[t] = c
    BY DEF HostStackOwned
<1>1. PICK t \in Threads : owner["registers"] = <<t, c>> /\ pc[t] = "guest" /\ cpu[t] = c
      BY DEF HostStackOwned
<1> QED BY <1>1

(* Every step with one call at a time keeps the stack with its owner.       *)
LEMMA StackStep ==
    ASSUME Serialized, TypeOK, SerialInv, HostStackOwned, [Next]_vars
    PROVE  HostStackOwned'
<1>0. refused \subseteq refused'
      BY RefusedGrows
<1>1. ASSUME NEW t \in Threads, ThreadStep(t), ~LaunchGuest(t)
      PROVE  HostStackOwned'
  <2>1. CASE FaultGP(t) \/ FaultUD(t) \/ StackOverflow(t)
        BY <1>0, <2>1, StackKept
        DEF FaultGP, FaultUD, StackOverflow, Bugcheck, threadVars, guestVars, captured
  <2>2. CASE ~(FaultGP(t) \/ FaultUD(t) \/ StackOverflow(t))
    <3>1. UNCHANGED mode
          BY <1>1, <2>2
          DEF ThreadStep, WriteCr4, WriteFeatureControl, ExecVmxon, ExecVmclear, ExecVmptrld,
              WriteControls, WriteSegments, WriteRegisters, WriteBlock, DumpGuestArea,
              StoreVmcsPointer, ClearActiveVMCS, ExecVmxoff, Return, guestVars
    <3>2. pc[t] \notin {"idle", "guest"}
          BY <1>1, <2>2
          DEF ThreadStep, WriteCr4, WriteFeatureControl, ExecVmxon, ExecVmclear, ExecVmptrld,
              WriteControls, WriteSegments, WriteRegisters, WriteBlock, DumpGuestArea,
              StoreVmcsPointer, ClearActiveVMCS, ExecVmxoff, Return, At
    <3>3. captured = {}
          BY <3>2, Alone
    <3> QED BY <3>1, <3>3 DEF HostStackOwned, captured
  <2> QED BY <2>1, <2>2
<1>2. ASSUME NEW t \in Threads, LaunchGuest(t) PROVE HostStackOwned'
  <2>1. /\ pc[t] = "vmlaunch" /\ cpu[t] \in current
        /\ UNCHANGED <<cpu, owner>>
        BY <1>2 DEF LaunchGuest, At
  <2>2. captured = {}
        BY <2>1, Alone
  <2>3. PICK outcome \in {"fail", "exit", "guest"} :
           \/ UNCHANGED guestVars
           \/ /\ pc' = [pc EXCEPT ![t] = "guest"]
              /\ mode' = [mode EXCEPT ![cpu[t]] = outcome]
        BY <1>2, LaunchEffect
  <2>4. CASE UNCHANGED guestVars
        BY <2>2, <2>4 DEF HostStackOwned, captured, guestVars
  <2>5. CASE pc' = [pc EXCEPT ![t] = "guest"] /\ mode' = [mode EXCEPT ![cpu[t]] = outcome]
    <3>1. captured' \subseteq {cpu[t]}
          BY <2>2, <2>5 DEF captured, TypeOK
    <3>2. "vmwrite" \notin refused => owner["registers"] = <<t, cpu[t]>>
          BY <2>1 DEF SerialInv, FreshVmcs
    <3>3. pc'[t] = "guest"
          BY <2>5 DEF TypeOK
    <3> QED BY <1>0, <2>1, <3>1, <3>2, <3>3 DEF HostStackOwned
  <2> QED BY <2>3, <2>4, <2>5
<1>3. ASSUME NEW c \in Cpus, CpuStep(c) PROVE HostStackOwned'
      BY <1>0, <1>3, StackKept
      DEF CpuStep, GuestStep, GuestExit, HandlerResume, threadVars, captured, TypeOK
<1>4. ASSUME NEW t \in Threads, NEW c \in Cpus, Enter(t, c) PROVE HostStackOwned'
  <2>1. /\ pc[t] = "idle" /\ pc' = [pc EXCEPT ![t] = "cr4"] /\ UNCHANGED <<owner, mode>>
        /\ cpu' = [cpu EXCEPT ![t] = c]
        BY <1>4 DEF Enter, GoTo, guestVars
  <2> QED BY <1>0, <2>1, StackKept DEF captured, TypeOK
<1>5. ASSUME NEW t \in Threads, NEW c \in Cpus, Migrate(t, c) PROVE HostStackOwned'
      BY <1>0, <1>5, StackKept DEF Migrate, guestVars, captured, TypeOK
<1>6. CASE UNCHANGED vars
      BY <1>0, <1>6, StackKept DEF vars, threadVars, guestVars, captured
<1> QED BY <1>1, <1>2, <1>3, <1>4, <1>5, <1>6 DEF Next

(* vmexit_handler runs on the stack of a thread that never runs again.      *)
THEOREM SerialStackOwned == ASSUME Serialized PROVE Spec => []HostStackOwned
<1>1. Init => HostStackOwned
      BY DEF Init, HostStackOwned, captured
<1>2. TypeOK /\ SerialInv /\ HostStackOwned /\ [Next]_vars => HostStackOwned'
      BY StackStep
<1> QED BY <1>1, <1>2, SerialInvariant, PTL DEF Spec

(* What CrashExplained needs of the states before a stop: VMX operation is  *)
(* on where it is used, the VMCS current, and a running guest launched.    *)
OnWhereUsed ==
    \A t \in Threads :
        ("vmxon" \notin refused /\ ~moved[t])
            => /\ pc[t] \in {"msr", "vmxon"} => cpu[t] \in vmxe
               /\ pc[t] \in NeedsVmx => cpu[t] \in vmxon
CurrentWhereUsed ==
    refused \cap {"vmclear", "vmptrld"} = {}
        => \A t \in Threads : pc[t] \in NeedsCurrent => vmxon \subseteq current
RunningLaunched ==
    (captured # {} /\ "entry" \notin refused /\ ~corrupt) => launch = "launched"
CauseInv == CrashExplained /\ OnWhereUsed /\ CurrentWhereUsed /\ RunningLaunched

(* Steps that change no register of the hardware and stop nothing.          *)
LEMMA CauseFrame ==
    ASSUME CauseInv, UNCHANGED <<hwVars, crash, captured>>, crash = "none",
           \A t \in Threads :
              \/ pc'[t] \notin NeedsVmx \cup {"msr", "vmxon"}
              \/ /\ pc[t] \in NeedsVmx <=> pc'[t] \in NeedsVmx
                 /\ pc'[t] \in NeedsCurrent => pc[t] \in NeedsCurrent
                 /\ pc'[t] = pc[t] \/ pc'[t] \notin {"msr", "vmxon"}
                 /\ moved'[t] \/ (moved'[t] = moved[t] /\ cpu'[t] = cpu[t])
    PROVE  CauseInv'
<1> USE DEF hwVars, NeedsVmx, NeedsCurrent
<1>1. CrashExplained'
      BY DEF CrashExplained
<1>2. OnWhereUsed'
      BY DEF CauseInv, OnWhereUsed
<1>3. CurrentWhereUsed'
      BY DEF CauseInv, CurrentWhereUsed
<1>4. RunningLaunched'
      BY DEF CauseInv, RunningLaunched
<1> QED BY <1>1, <1>2, <1>3, <1>4 DEF CauseInv

(* Every step with one call at a time has its causes recorded.              *)
LEMMA CauseStep ==
    ASSUME Serialized, TypeOK, SerialInv, CauseInv, [Next]_vars
    PROVE  CauseInv'
<1> USE DEF NeedsVmx, NeedsCurrent
<1>1. ASSUME NEW t \in Threads, NEW a \in Labels, At(t, a), a \notin {"idle", "guest"}
      PROVE  /\ pc[t] = a /\ crash = "none" /\ captured = {}
             /\ \A u \in Threads : u # t => pc[u] = "idle"
      BY <1>1, Alone DEF At
<1>2. ASSUME NEW t \in Threads, WriteCr4(t) PROVE CauseInv'
  <2>1. /\ pc' = [pc EXCEPT ![t] = "msr"] /\ vmxe' = vmxe \cup {cpu[t]}
        /\ UNCHANGED <<vmxon, current, launch, corrupt, refused, cpu, moved, crash, mode>>
        BY <1>2 DEF WriteCr4, SetVmxe, GoTo, guestVars
  <2>2. captured' = captured
        BY <2>1 DEF captured
  <2> QED BY <1>1, <1>2, <2>1, <2>2
          DEF CauseInv, CrashExplained, OnWhereUsed, CurrentWhereUsed, RunningLaunched,
              WriteCr4, TypeOK, Labels
<1>3. ASSUME NEW t \in Threads, WriteFeatureControl(t) PROVE CauseInv'
  <2>1. /\ pc' = [pc EXCEPT ![t] = "vmxon"]
        /\ UNCHANGED <<vmxe, vmxon, current, launch, corrupt, cpu, moved, crash, mode>>
        /\ \A operation \in Refusable : operation \in refused' <=> operation \in refused
        BY <1>3 DEF WriteFeatureControl, LockFeatureControl, Record, Refusable, GoTo, guestVars
  <2>2. captured' = captured
        BY <2>1 DEF captured
  <2> QED BY <1>1, <1>3, <2>1, <2>2
          DEF CauseInv, CrashExplained, OnWhereUsed, CurrentWhereUsed, RunningLaunched,
              WriteFeatureControl, TypeOK, Labels, Refusable
<1>4. ASSUME NEW t \in Threads, ExecVmxon(t) PROVE CauseInv'
  <2>1. PICK result \in {0, 1} :
           /\ VmxOn(cpu[t], result)
           /\ pc' = [pc EXCEPT ![t] = "vmclear"]
           /\ UNCHANGED <<cpu, moved, guestVars, crash>>
        BY <1>4, VmxonEffect
  <2>2. /\ UNCHANGED <<vmxe, current, launch, corrupt>>
        /\ refused \subseteq refused'
        /\ "vmxon" \notin refused' => cpu[t] \in vmxon'
        BY <2>1 DEF VmxOn, Record
  <2>3. captured' = captured
        BY <2>1 DEF captured, guestVars
  <2>4. At(t, "vmxon")
        BY <1>4 DEF ExecVmxon
  <2>5. pc[t] = "vmxon" /\ crash = "none" /\ captured = {}
        /\ \A u \in Threads : u # t => pc[u] = "idle"
        BY <1>1, <2>4 DEF Labels
  <2>6. \A u \in Threads : pc'[u] = IF u = t THEN "vmclear" ELSE "idle"
        BY <2>1, <2>5 DEF TypeOK
  <2>7. CrashExplained' /\ RunningLaunched' /\ CurrentWhereUsed'
        BY <2>1, <2>3, <2>5, <2>6 DEF CrashExplained, RunningLaunched, CurrentWhereUsed
  <2>8. OnWhereUsed'
        BY <2>1, <2>2, <2>6 DEF OnWhereUsed
  <2> QED BY <2>7, <2>8 DEF CauseInv
<1>5. ASSUME NEW t \in Threads, NEW l \in {"vmptrld", "controls"}, NEW result \in {0, 1},
             pc' = [pc EXCEPT ![t] = l], UNCHANGED <<cpu, moved, guestVars, crash>>,
             \/ At(t, "vmclear") /\ VmClear(cpu[t], result)
                /\ l = IF result = 0 THEN "vmptrld" ELSE "controls"
             \/ At(t, "vmptrld") /\ VmPtrld(cpu[t], result) /\ l = "controls",
             cpu[t] \in vmxon
      PROVE  CauseInv'
  <2>1. /\ pc[t] \in {"vmclear", "vmptrld"} /\ crash = "none" /\ captured = {}
        /\ \A u \in Threads : u # t => pc[u] = "idle"
        BY <1>1, <1>5 DEF Labels
  <2>2. \A u \in Threads : pc'[u] = IF u = t THEN l ELSE "idle"
        BY <1>5, <2>1 DEF TypeOK
  <2>3. /\ UNCHANGED <<vmxe, vmxon>> /\ refused \subseteq refused'
        BY <1>5 DEF VmClear, VmPtrld, Record
  <2>4. vmxon = {cpu[t]}
        BY <1>5 DEF SerialInv, OneProcessor
  <2>5. l = "controls" /\ refused' \cap {"vmclear", "vmptrld"} = {} => cpu[t] \in current'
        BY <1>5 DEF VmClear, VmPtrld, Record
  <2>6. captured' = {}
        BY <1>5, <2>1 DEF captured, guestVars
  <2>7. CrashExplained' /\ RunningLaunched'
        BY <1>5, <2>1, <2>6 DEF CrashExplained, RunningLaunched
  <2>8. OnWhereUsed'
        BY <1>5, <2>2, <2>3 DEF OnWhereUsed
  <2>9. CurrentWhereUsed'
        BY <1>5, <2>2, <2>3, <2>4, <2>5 DEF CurrentWhereUsed
  <2> QED BY <2>7, <2>8, <2>9 DEF CauseInv
<1>6. ASSUME NEW t \in Threads, ExecVmclear(t) \/ ExecVmptrld(t) PROVE CauseInv'
  <2>1. CASE ExecVmclear(t)
    <3>1. At(t, "vmclear") /\ cpu[t] \in vmxon
          BY <2>1 DEF ExecVmclear
    <3>2. PICK result \in {0, 1} :
             /\ VmClear(cpu[t], result)
             /\ pc' = [pc EXCEPT ![t] = IF result = 0 THEN "vmptrld" ELSE "controls"]
             /\ UNCHANGED <<cpu, moved, guestVars, crash>>
          BY <2>1, VmclearEffect
    <3> QED BY <1>5, <3>1, <3>2
  <2>2. CASE ExecVmptrld(t)
    <3>1. At(t, "vmptrld") /\ cpu[t] \in vmxon
          BY <2>2 DEF ExecVmptrld
    <3>2. PICK result \in {0, 1} :
             /\ VmPtrld(cpu[t], result)
             /\ pc' = [pc EXCEPT ![t] = "controls"]
             /\ UNCHANGED <<cpu, moved, guestVars, crash>>
          BY <2>2, VmptrldEffect
    <3> QED BY <1>5, <3>1, <3>2
  <2> QED BY <1>6, <2>1, <2>2
<1>7. ASSUME NEW t \in Threads, WriteControls(t) \/ WriteSegments(t) \/ WriteRegisters(t)
      PROVE  CauseInv'
  <2>1. ASSUME NEW b \in {"controls", "segments", "registers"},
               NEW l \in {"segments", "registers", "dump"}, Populated(t, b, l)
        PROVE  CauseInv'
    <3>1. /\ pc[t] = b /\ crash = "none" /\ captured = {}
          /\ \A u \in Threads : u # t => pc[u] = "idle"
          BY <1>1, <2>1 DEF Populated, Labels
    <3>2. /\ \A u \in Threads : pc'[u] = IF u = t THEN l ELSE "idle"
          /\ UNCHANGED <<vmxe, vmxon, current, cpu, moved, crash>>
          /\ refused \subseteq refused'
          /\ captured' = {}
          BY <2>1, <3>1 DEF Populated, VmWrite, Record, captured, guestVars, TypeOK
    <3> QED BY <3>1, <3>2
            DEF CauseInv, CrashExplained, OnWhereUsed, CurrentWhereUsed, RunningLaunched
  <2> QED BY <1>7, <2>1, PopulateEffect
<1>8. ASSUME NEW t \in Threads, DumpGuestArea(t) PROVE CauseInv'
  <2>1. pc' = [pc EXCEPT ![t] = "vmlaunch"] /\ pc[t] = "dump" /\ crash = "none"
        BY <1>8, DumpEffect DEF DumpGuestArea, At
  <2>2. UNCHANGED <<hwVars, crash, captured, cpu, moved>>
        BY <1>8 DEF DumpGuestArea, guestVars, captured
  <2> QED BY <2>1, <2>2, CauseFrame DEF TypeOK
<1>9. ASSUME NEW t \in Threads, LaunchGuest(t) PROVE CauseInv'
  <2>1. /\ pc[t] = "vmlaunch" /\ crash = "none" /\ captured = {} /\ created[t] /\ entered[t]
        /\ \A u \in Threads : u # t => pc[u] = "idle"
        /\ UNCHANGED <<cpu, moved, crash>>
        BY <1>1, <1>9 DEF LaunchGuest, Labels, SerialInv, FlagsTrue
  <2>2. PICK outcome \in {"fail", "exit", "guest"} :
           /\ VmLaunch(outcome)
           /\ \/ /\ outcome = "fail"
                 /\ pc' = [pc EXCEPT ![t] = CleanupLabel(created[t], entered[t])]
                 /\ UNCHANGED guestVars
              \/ /\ outcome \in {"exit", "guest"}
                 /\ pc' = [pc EXCEPT ![t] = "guest"]
                 /\ mode' = [mode EXCEPT ![cpu[t]] = outcome]
        BY <1>9, LaunchEffect
  <2>3. /\ UNCHANGED <<vmxe, vmxon, current>> /\ refused \subseteq refused'
        BY <2>2 DEF VmLaunch
  <2>4. \E l \in {"guest", "vmptrst"} : \A u \in Threads : pc'[u] = IF u = t THEN l ELSE "idle"
        BY <2>1, <2>2 DEF CleanupLabel, TypeOK
  <2>5. CrashExplained' /\ OnWhereUsed' /\ CurrentWhereUsed'
        BY <2>1, <2>3, <2>4 DEF CauseInv, CrashExplained, OnWhereUsed, CurrentWhereUsed
  <2>6. RunningLaunched'
    <3>1. CASE outcome = "fail"
          BY <2>1, <2>2, <3>1 DEF RunningLaunched, captured, guestVars
    <3>2. CASE outcome = "exit"
          BY <2>2, <3>2 DEF RunningLaunched, VmLaunch
    <3>3. CASE outcome = "guest"
          BY <2>2, <3>3 DEF RunningLaunched, VmLaunch
    <3> QED BY <3>1, <3>2, <3>3
  <2> QED BY <2>5, <2>6 DEF CauseInv
<1>10. ASSUME NEW t \in Threads, StoreVmcsPointer(t) PROVE CauseInv'
  <2>1. pc' = [pc EXCEPT ![t] = "clear"] /\ pc[t] = "vmptrst" /\ crash = "none"
        BY <1>10 DEF StoreVmcsPointer, At, GoTo
  <2>2. UNCHANGED <<hwVars, crash, captured, cpu, moved>>
        BY <1>10 DEF StoreVmcsPointer, guestVars, captured
  <2> QED BY <2>1, <2>2, CauseFrame DEF TypeOK
<1>11. ASSUME NEW t \in Threads, ClearActiveVMCS(t) PROVE CauseInv'
  <2>1. /\ pc[t] = "clear" /\ crash = "none" /\ captured = {} /\ entered[t]
        /\ \A u \in Threads : u # t => pc[u] = "idle"
        BY <1>1, <1>11 DEF ClearActiveVMCS, Labels, SerialInv, FlagsTrue
  <2>2. /\ UNCHANGED <<cpu, moved, crash, vmxe, vmxon, guestVars>>
        /\ refused \subseteq refused'
        /\ pc' = [pc EXCEPT ![t] = "vmxoff"]
        BY <1>11, <2>1 DEF ClearActiveVMCS, VmClear, Record, GoTo, CleanupLabel
  <2>3. /\ \A u \in Threads : pc'[u] = IF u = t THEN "vmxoff" ELSE "idle"
        /\ captured' = {}
        BY <2>1, <2>2 DEF captured, guestVars, TypeOK
  <2> QED BY <2>1, <2>2, <2>3
          DEF CauseInv, CrashExplained, OnWhereUsed, CurrentWhereUsed, RunningLaunched
<1>12. ASSUME NEW t \in Threads, ExecVmxoff(t) PROVE CauseInv'
  <2>1. /\ pc[t] = "vmxoff" /\ crash = "none" /\ captured = {}
        /\ \A u \in Threads : u # t => pc[u] = "idle"
        BY <1>1, <1>12 DEF ExecVmxoff, Labels
  <2>2. UNCHANGED <<crash, mode>> /\ pc' = [pc EXCEPT ![t] = "return"]
        BY <1>12 DEF ExecVmxoff, GoTo, guestVars
  <2>3. /\ \A u \in Threads : pc'[u] \in {"return", "idle"}
        /\ captured' = {}
        BY <2>1, <2>2 DEF captured, TypeOK
  <2> QED BY <2>1, <2>2, <2>3
          DEF CauseInv, CrashExplained, OnWhereUsed, CurrentWhereUsed, RunningLaunched
<1>13. ASSUME NEW t \in Threads, Return(t) PROVE CauseInv'
  <2>1. pc' = [pc EXCEPT ![t] = "idle"] /\ pc[t] = "return" /\ crash = "none"
        BY <1>13 DEF Return, At, GoTo
  <2>2. UNCHANGED <<hwVars, crash, captured, cpu, moved>>
        BY <1>13 DEF Return, guestVars, captured
  <2> QED BY <2>1, <2>2, CauseFrame DEF TypeOK
<1>14. ASSUME NEW t \in Threads, FaultGP(t) \/ FaultUD(t) \/ StackOverflow(t)
       PROVE  CauseInv'
  <2>1. /\ UNCHANGED <<hwVars, pc, cpu, moved, captured>> /\ crash = "none"
        BY <1>14 DEF FaultGP, FaultUD, StackOverflow, Bugcheck, threadVars, guestVars, captured, At
  <2>2. OnWhereUsed' /\ CurrentWhereUsed' /\ RunningLaunched'
        BY <2>1 DEF CauseInv, OnWhereUsed, CurrentWhereUsed, RunningLaunched, hwVars
  <2>3. CASE FaultGP(t)
        BY <2>2, <2>3 DEF FaultGP, Bugcheck, CauseInv, CrashExplained
  <2>4. CASE FaultUD(t)
    <3>1. "vmxon" \in refused \/ moved[t]
          BY <2>4 DEF FaultUD, CauseInv, OnWhereUsed
    <3> QED BY <2>1, <2>2, <2>4, <3>1 DEF FaultUD, Bugcheck, CauseInv, CrashExplained, hwVars
  <2>5. CASE StackOverflow(t)
    <3>1. refused \cap {"vmclear", "vmptrld"} # {}
          BY <2>5 DEF StackOverflow, CauseInv, CurrentWhereUsed
    <3> QED BY <2>1, <2>2, <2>5, <3>1 DEF StackOverflow, Bugcheck, CauseInv, CrashExplained, hwVars
  <2> QED BY <1>14, <2>3, <2>4, <2>5
<1>15. ASSUME NEW c \in Cpus, GuestStep(c) \/ GuestExit(c) PROVE CauseInv'
       BY <1>15, CauseFrame DEF GuestStep, GuestExit, threadVars, captured, TypeOK
<1>16. ASSUME NEW c \in Cpus, HandlerResume(c) PROVE CauseInv'
  <2>1. UNCHANGED <<hwVars, pc, cpu, moved>> /\ crash = "none" /\ c \in captured
        BY <1>16 DEF HandlerResume, threadVars, captured
  <2>2. captured' = captured
        BY <1>16 DEF HandlerResume, captured, TypeOK
  <2>3. CASE crash' = "none"
        BY <2>1, <2>2, <2>3, CauseFrame
  <2>4. CASE crash' = "return"
    <3>1. "entry" \in refused \/ corrupt
          BY <1>16, <2>1, <2>4 DEF HandlerResume, LaunchStates, CauseInv, RunningLaunched
    <3>2. CrashExplained'
          BY <2>1, <2>4, <3>1 DEF CrashExplained, hwVars
    <3>3. OnWhereUsed' /\ CurrentWhereUsed' /\ RunningLaunched'
          BY <2>1, <2>2 DEF CauseInv, OnWhereUsed, CurrentWhereUsed, RunningLaunched, hwVars
    <3> QED BY <3>2, <3>3 DEF CauseInv
  <2> QED BY <1>16, <2>3, <2>4 DEF HandlerResume
<1>17. ASSUME NEW t \in Threads, NEW c \in Cpus, Enter(t, c) PROVE CauseInv'
  <2>1. /\ UNCHANGED <<hwVars, crash, mode>> /\ crash = "none"
        /\ pc' = [pc EXCEPT ![t] = "cr4"]
        /\ \A u \in Threads : pc[u] = "idle"
        BY <1>17 DEF Enter, GoTo, guestVars
  <2>2. \A u \in Threads : pc'[u] \in {"cr4", "idle"}
        BY <2>1 DEF TypeOK
  <2> QED BY <2>1, <2>2, CauseFrame DEF captured
<1>18. ASSUME NEW t \in Threads, NEW c \in Cpus, Migrate(t, c) PROVE CauseInv'
  <2>1. UNCHANGED <<hwVars, pc, crash, captured>> /\ crash = "none"
        BY <1>18 DEF Migrate, guestVars, captured
  <2>2. \A u \in Threads : moved'[u] \/ (moved'[u] = moved[u] /\ cpu'[u] = cpu[u])
        BY <1>18 DEF Migrate, TypeOK
  <2> QED BY <2>1, <2>2, CauseFrame
<1>19. CASE UNCHANGED vars
  <2>1. UNCHANGED <<hwVars, pc, cpu, moved, crash, captured>>
        BY <1>19 DEF vars, threadVars, guestVars, captured
  <2> QED BY <2>1 DEF CauseInv, CrashExplained, OnWhereUsed, CurrentWhereUsed,
                      RunningLaunched, hwVars
<1> QED BY <1>2, <1>3, <1>4, <1>6, <1>7, <1>8, <1>9, <1>10, <1>11, <1>12, <1>13, <1>14,
           <1>15, <1>16, <1>17, <1>18, <1>19
        DEF Next, ThreadStep, CpuStep

(* With one call at a time each way of stopping the machine has its cause.  *)
THEOREM SerialCrashes == ASSUME Serialized PROVE Spec => []CrashExplained
<1>1. Init => CauseInv
      BY DEF Init, HwInit, CauseInv, CrashExplained, OnWhereUsed, CurrentWhereUsed,
             RunningLaunched, captured, NeedsVmx, NeedsCurrent
<1>2. TypeOK /\ SerialInv /\ CauseInv /\ [Next]_vars => CauseInv'
      BY CauseStep
<1>3. CauseInv => CrashExplained
      BY DEF CauseInv
<1> QED BY <1>1, <1>2, <1>3, SerialInvariant, PTL DEF Spec

-----------------------------------------------------------------------------
(* With one call at a time, EnterVmx implements VmxSession. *)

sessionVars == <<SessionPlace, SessionVmcs, corrupt, SessionUp>>

(* SessionPlace is the processor in VMX operation, if there is one.        *)
LEMMA PlaceFacts ==
    ASSUME TypeOK, SerialInv
    PROVE  /\ vmxon = {} => SessionPlace = Nobody
           /\ \A c \in vmxon : SessionPlace = c /\ SessionPlace # Nobody
<1>1. ASSUME NEW c \in vmxon PROVE SessionPlace = c
  <2>1. c \in Cpus /\ \A d \in vmxon : d = c
        BY <1>1 DEF TypeOK, HwTypeOK, SerialInv, OneProcessor
  <2> QED BY <1>1, <2>1 DEF SessionPlace
<1> QED BY <1>1, NobodyAssumption DEF SessionPlace, TypeOK, HwTypeOK

(* A step that leaves what the session sees is a stutter of it.            *)
LEMMA SessionStutter ==
    ASSUME UNCHANGED <<vmxon, current, corrupt>>, captured' = captured, crash' = crash
    PROVE  UNCHANGED sessionVars
BY DEF sessionVars, SessionPlace, SessionVmcs, SessionUp

(* A bug check is the Halt of the session.                                 *)
LEMMA SessionHalt ==
    ASSUME UNCHANGED <<vmxon, current, corrupt>>, captured' = captured,
           crash = "none", crash' # "none"
    PROVE  Session!Halt
BY DEF Session!Halt, SessionPlace, SessionVmcs, SessionUp

(* The initial states are initial states of the session.                   *)
LEMMA InitSession == Init => Session!Init
BY DEF Init, HwInit, Session!Init, SessionPlace, SessionVmcs, SessionUp, captured

(* Every step is a step of the session or a stutter.                       *)
LEMMA NextSession ==
    ASSUME Serialized, TypeOK, SerialInv, TypeOK', SerialInv', [Next]_vars
    PROVE  Session!Next \/ UNCHANGED sessionVars
<1>1. ASSUME NEW t \in Threads, NEW a \in Labels, At(t, a), a \notin {"idle", "guest"}
      PROVE  pc[t] = a /\ captured = {} /\ crash = "none"
      BY <1>1, Alone DEF At
<1>2. ASSUME NEW t \in Threads, WriteCr4(t) \/ WriteFeatureControl(t)
      PROVE  UNCHANGED sessionVars
      BY <1>2, SessionStutter
      DEF WriteCr4, SetVmxe, WriteFeatureControl, LockFeatureControl, guestVars, captured
<1>3. ASSUME NEW t \in Threads, ExecVmxon(t)
      PROVE  Session!Next \/ UNCHANGED sessionVars
  <2>1. PICK result \in {0, 1} : VmxOn(cpu[t], result) /\ UNCHANGED <<guestVars, crash>>
        BY <1>3, VmxonEffect
  <2>2. captured = {} /\ captured' = {} /\ vmxon = {} /\ crash = "none" /\ cpu[t] \in Cpus
        BY <1>1, <1>3, <2>1
        DEF ExecVmxon, At, Labels, captured, guestVars, SerialInv, OffOutsideCall, TypeOK
  <2>3. UNCHANGED <<current, corrupt>>
        BY <2>1 DEF VmxOn
  <2>4. CASE vmxon' = vmxon
        BY <2>1, <2>2, <2>3, <2>4, SessionStutter
  <2>5. CASE vmxon' = {cpu[t]}
    <3>1. SessionPlace = Nobody /\ SessionPlace' = cpu[t]
          BY <2>2, <2>5, PlaceFacts DEF SessionPlace
    <3>2. UNCHANGED <<SessionVmcs, corrupt, SessionUp>> /\ SessionUp
          BY <2>1, <2>2, <2>3 DEF SessionVmcs, SessionUp
    <3>3. Session!Start(cpu[t])
          BY <3>1, <3>2 DEF Session!Start
    <3> QED BY <2>2, <3>3 DEF Session!Next
  <2> QED BY <2>1, <2>2, <2>4, <2>5 DEF VmxOn
<1>4. ASSUME NEW t \in Threads, ExecVmclear(t)
      PROVE  UNCHANGED sessionVars
  <2>1. PICK result \in {0, 1} : VmClear(cpu[t], result) /\ UNCHANGED <<guestVars, crash>>
        BY <1>4, VmclearEffect
  <2>2. current = {} /\ captured' = captured
        BY <1>4, <2>1 DEF ExecVmclear, At, captured, guestVars, SerialInv, FreshVmcs
  <2>3. UNCHANGED <<vmxon, current>>
        BY <2>1, <2>2 DEF VmClear
  <2>4. corrupt' = corrupt
    <3>1. CASE corrupt
          BY <2>1, <3>1 DEF VmClear, TypeOK, HwTypeOK
    <3>2. CASE ~corrupt
      <4>1. active \ {cpu[t]} = {}
            BY <2>2, <3>2 DEF SerialInv, ActiveIsCurrent
      <4>2. corrupt' <=> FALSE
            BY <2>1, <3>2, <4>1 DEF VmClear
      <4> QED BY <3>2, <4>2 DEF TypeOK, HwTypeOK
    <3> QED BY <3>1, <3>2
  <2> QED BY <2>1, <2>2, <2>3, <2>4, SessionStutter
<1>5. ASSUME NEW t \in Threads, ExecVmptrld(t)
      PROVE  Session!Next \/ UNCHANGED sessionVars
  <2>1. PICK result \in {0, 1} : VmPtrld(cpu[t], result) /\ UNCHANGED <<guestVars, crash>>
        BY <1>5, VmptrldEffect
  <2>2. /\ current = {} /\ captured = {} /\ captured' = {} /\ crash = "none"
        /\ cpu[t] \in vmxon /\ UNCHANGED vmxon
        BY <1>1, <1>5, <2>1
        DEF ExecVmptrld, At, Labels, captured, guestVars, SerialInv, FreshVmcs, VmPtrld
  <2>3. corrupt' = corrupt
    <3>1. CASE corrupt
          BY <2>1, <3>1 DEF VmPtrld, TypeOK, HwTypeOK
    <3>2. CASE ~corrupt
      <4>1. active \ {cpu[t]} = {}
            BY <2>2, <3>2 DEF SerialInv, ActiveIsCurrent
      <4>2. corrupt' <=> FALSE
            BY <2>1, <3>2, <4>1 DEF VmPtrld
      <4> QED BY <3>2, <4>2 DEF TypeOK, HwTypeOK
    <3> QED BY <3>1, <3>2
  <2>4. CASE current' = current
        BY <2>1, <2>2, <2>3, <2>4, SessionStutter
  <2>5. CASE current' = {cpu[t]}
    <3>1. SessionVmcs = "unloaded" /\ SessionVmcs' = "loaded"
          BY <2>2, <2>5 DEF SessionVmcs
    <3>2. UNCHANGED <<SessionPlace, SessionUp>> /\ SessionUp
          BY <2>1, <2>2 DEF SessionPlace, SessionUp
    <3>3. SessionPlace # Nobody
          BY <2>2, PlaceFacts
    <3>4. Session!Load
          BY <2>3, <3>1, <3>2, <3>3 DEF Session!Load
    <3> QED BY <3>4 DEF Session!Next
  <2> QED BY <2>1, <2>2, <2>4, <2>5 DEF VmPtrld
<1>6. ASSUME NEW t \in Threads, WriteControls(t) \/ WriteSegments(t) \/ WriteRegisters(t)
      PROVE  UNCHANGED sessionVars
      BY <1>6, SessionStutter
      DEF WriteControls, WriteSegments, WriteRegisters, WriteBlock, VmWrite, guestVars, captured
<1>7. ASSUME NEW t \in Threads, DumpGuestArea(t) \/ StoreVmcsPointer(t) \/ Return(t)
      PROVE  UNCHANGED sessionVars
      BY <1>7, SessionStutter
      DEF DumpGuestArea, StoreVmcsPointer, Return, hwVars, guestVars, captured
<1>8. ASSUME NEW t \in Threads, LaunchGuest(t)
      PROVE  Session!Next \/ UNCHANGED sessionVars
  <2>1. /\ captured = {} /\ crash = "none" /\ cpu[t] \in vmxon \cap current
        /\ UNCHANGED <<vmxon, current, corrupt, crash>>
        BY <1>1, <1>8 DEF LaunchGuest, VmLaunch, Labels
  <2>2. PICK outcome \in {"fail", "exit", "guest"} :
           \/ UNCHANGED guestVars
           \/ outcome # "fail" /\ mode' = [mode EXCEPT ![cpu[t]] = outcome]
        BY <1>8, LaunchEffect
  <2>3. CASE UNCHANGED guestVars
        BY <2>1, <2>3, SessionStutter DEF captured, guestVars
  <2>4. CASE outcome # "fail" /\ mode' = [mode EXCEPT ![cpu[t]] = outcome]
    <3>1. captured' # {}
          BY <2>4 DEF captured, TypeOK
    <3>2. SessionVmcs = "loaded" /\ SessionVmcs' = "running"
          BY <2>1, <3>1 DEF SessionVmcs
    <3>3. UNCHANGED <<SessionPlace, SessionUp>> /\ SessionUp
          BY <2>1 DEF SessionPlace, SessionUp
    <3>4. SessionPlace # Nobody
          BY <2>1, PlaceFacts
    <3>5. Session!Run
          BY <2>1, <3>2, <3>3, <3>4 DEF Session!Run
    <3> QED BY <3>5 DEF Session!Next
  <2> QED BY <2>2, <2>3, <2>4
<1>9. ASSUME NEW t \in Threads, ClearActiveVMCS(t)
      PROVE  Session!Next \/ UNCHANGED sessionVars
  <2>1. /\ captured = {} /\ captured' = {} /\ crash = "none" /\ cpu[t] \in vmxon
        /\ UNCHANGED <<vmxon, crash>> /\ \E r \in {0, 1} : VmClear(cpu[t], r)
        BY <1>1, <1>9 DEF ClearActiveVMCS, VmClear, Labels, captured, guestVars
  <2>2. vmxon = {cpu[t]} /\ current \subseteq {cpu[t]}
        BY <2>1 DEF SerialInv, OneProcessor
  <2>3. corrupt' = corrupt
    <3>1. CASE corrupt
          BY <2>1, <3>1 DEF VmClear, TypeOK, HwTypeOK
    <3>2. CASE ~corrupt
      <4>1. active \ {cpu[t]} = {}
            BY <2>2, <3>2 DEF SerialInv, ActiveIsCurrent
      <4>2. corrupt' <=> FALSE
            BY <2>1, <3>2, <4>1 DEF VmClear
      <4> QED BY <3>2, <4>2 DEF TypeOK, HwTypeOK
    <3> QED BY <3>1, <3>2
  <2>4. CASE current' = current
        BY <2>1, <2>3, <2>4, SessionStutter
  <2>5. CASE current' = {} /\ current # {}
    <3>1. SessionVmcs = "loaded" /\ SessionVmcs' = "unloaded"
          BY <2>1, <2>5 DEF SessionVmcs
    <3>2. UNCHANGED <<SessionPlace, SessionUp>> /\ SessionUp
          BY <2>1 DEF SessionPlace, SessionUp
    <3>3. SessionPlace # Nobody
          BY <2>1, PlaceFacts
    <3>4. Session!Unload
          BY <2>3, <3>1, <3>2, <3>3 DEF Session!Unload
    <3> QED BY <3>4 DEF Session!Next
  <2>6. current' = current \/ current' = {}
        BY <2>1, <2>2 DEF VmClear
  <2> QED BY <2>4, <2>5, <2>6
<1>10. ASSUME NEW t \in Threads, ExecVmxoff(t)
       PROVE  Session!Next
  <2>1. /\ captured = {} /\ captured' = {} /\ crash = "none" /\ cpu[t] \in vmxon
        /\ vmxon' = vmxon \ {cpu[t]} /\ current' = current \ {cpu[t]}
        /\ corrupt' = (corrupt \/ cpu[t] \in active) /\ UNCHANGED crash
        BY <1>1, <1>10 DEF ExecVmxoff, VmxOff, Labels, captured, guestVars
  <2>2. vmxon = {cpu[t]} /\ current \subseteq {cpu[t]} /\ current \subseteq active
        BY <2>1 DEF SerialInv, OneProcessor
  <2>3. vmxon' = {} /\ current' = {}
        BY <2>1, <2>2
  <2>4. SessionPlace # Nobody /\ SessionPlace' = Nobody
        BY <2>1, <2>3, PlaceFacts DEF SessionPlace
  <2>5. /\ SessionVmcs = IF current # {} THEN "loaded" ELSE "unloaded"
        /\ SessionVmcs' = "unloaded"
        BY <2>1, <2>3 DEF SessionVmcs
  <2>6. corrupt' = (corrupt \/ SessionVmcs = "loaded")
    <3>1. CASE corrupt
          BY <2>1, <3>1 DEF TypeOK, HwTypeOK
    <3>2. CASE ~corrupt
      <4>1. cpu[t] \in active <=> current # {}
            BY <2>2, <3>2 DEF SerialInv, ActiveIsCurrent
      <4>2. SessionVmcs = "loaded" <=> current # {}
            BY <2>5
      <4> QED BY <2>1, <3>2, <4>1, <4>2
    <3> QED BY <3>1, <3>2
  <2>7. SessionUp /\ UNCHANGED SessionUp
        BY <2>1 DEF SessionUp
  <2>8. SessionVmcs # "running"
        BY <2>5
  <2>9. Session!Stop
        BY <2>4, <2>5, <2>6, <2>7, <2>8 DEF Session!Stop
  <2> QED BY <2>9 DEF Session!Next
<1>11. ASSUME NEW t \in Threads, FaultGP(t) \/ FaultUD(t) \/ StackOverflow(t)
       PROVE  Session!Next
       BY <1>11, SessionHalt
       DEF FaultGP, FaultUD, StackOverflow, Bugcheck, At, hwVars, guestVars, captured, Session!Next
<1>12. ASSUME NEW c \in Cpus, CpuStep(c)
       PROVE  Session!Next \/ UNCHANGED sessionVars
  <2>1. /\ UNCHANGED <<vmxon, current, corrupt>> /\ captured' = captured
        /\ crash = "none" /\ crash' \in {"none", "return"}
        BY <1>12 DEF CpuStep, GuestStep, GuestExit, HandlerResume, hwVars, captured, TypeOK
  <2> QED BY <2>1, SessionStutter, SessionHalt DEF Session!Next
<1>13. ASSUME NEW t \in Threads, NEW c \in Cpus, Enter(t, c) \/ Migrate(t, c)
       PROVE  UNCHANGED sessionVars
       BY <1>13, SessionStutter DEF Enter, Migrate, hwVars, guestVars, captured
<1>14. CASE UNCHANGED vars
       BY <1>14, SessionStutter DEF vars, hwVars, guestVars, captured
<1> QED BY <1>2, <1>3, <1>4, <1>5, <1>6, <1>7, <1>8, <1>9, <1>10, <1>11, <1>12, <1>13, <1>14
        DEF Next, ThreadStep

(* EnterVmxHandler, called by one thread at a time, is a VmxSession: one   *)
(* processor at a time, no exit from VMX operation while a guest runs.     *)
THEOREM SessionRefined == ASSUME Serialized PROVE Spec => SessionImplemented
<1>1. Init => Session!Init
      BY InitSession
<1>2. TypeOK /\ SerialInv /\ (TypeOK /\ SerialInv)' /\ [Next]_vars
         => [Session!Next]_(Session!vars)
      BY NextSession DEF sessionVars, Session!vars
<1> QED BY <1>1, <1>2, SerialInvariant, PTL DEF Spec, SessionImplemented, Session!Spec
=============================================================================
