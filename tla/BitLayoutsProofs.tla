--------------------------- MODULE BitLayoutsProofs --------------------------
(***************************************************************************)
(* Where the compiler puts the fields of the code's structures.  That the  *)
(* recursion that Starts is defined by has a solution is shown first: it   *)
(* is over the fields' numbers, and its solution is built from the least   *)
(* number that has none.  Then places that obey the recursion are checked  *)
(* for each structure.                                                     *)
(***************************************************************************)
EXTENDS BitLayouts, Integers, TLAPS, WellFoundedInduction

\* A set of numbers that is not empty has a least one.
LEMMA Least ==
    ASSUME NEW T, T \subseteq Nat, T # {}
    PROVE  \E n \in T : \A m \in T : n <= m
<1> DEFINE R == OpToRel(<, Nat)
<1>1. IsWellFoundedOn(R, Nat)
  BY NatLessThanWellFounded
<1>2. \A m, n \in Nat : m < n => <<m, n>> \in R
  BY DEF OpToRel
<1> HIDE DEF R
<1>3. PICK n \in T : \A m \in T : ~(<<m, n>> \in R)
  BY <1>1, WFMin, Zenon
<1>4. \A m \in T : ~(m < n)
  BY <1>2, <1>3, Zenon
<1>5. \A m \in T : m \in Nat
  OBVIOUS
<1>6. \A m \in T : n <= m
  BY <1>4, <1>5
<1> QED
  BY <1>6

\* The start of a field of width w behind the bit end.
Placed(unit, end, w) ==
    IF (end % unit) + w <= unit THEN end ELSE unit * (1 + end \div unit)

\* start gives the fields of numbers in D the places that the recursion gives them.
Solves(start, layout, D) ==
    start = [i \in D |-> IF i = 1 THEN 0
                         ELSE Placed(layout.unit, start[i - 1] + layout.fields[i - 1][2],
                                     layout.fields[i][2])]

LEMMA StartsIsChoice ==
    ASSUME NEW layout
    PROVE  Starts(layout) = CHOOSE start : Solves(start, layout, DOMAIN layout.fields)
BY DEF Starts, Solves, Placed

LEMMA SolutionExists ==
    ASSUME NEW layout
    PROVE  \A n \in Nat : \E start : Solves(start, layout, 1 .. n)
<1> DEFINE T == {n \in Nat : ~\E start : Solves(start, layout, 1 .. n)}
<1> SUFFICES ASSUME T # {} PROVE FALSE
  OBVIOUS
<1>1. PICK n \in T : \A m \in T : n <= m
  BY Least
<1>2. n # 0
  <2>1. Solves([i \in 1 .. 0 |-> 0], layout, 1 .. 0)
    BY DEF Solves
  <2> QED
    BY <1>1, <2>1
<1>3. n - 1 \in Nat /\ n - 1 \notin T
  BY <1>1, <1>2
<1>4. PICK s : Solves(s, layout, 1 .. n - 1)
  BY <1>3
<1> DEFINE step(i, t) == IF i = 1 THEN 0
                         ELSE Placed(layout.unit, t[i - 1] + layout.fields[i - 1][2],
                                     layout.fields[i][2])
           t == [i \in 1 .. n |-> IF i = n THEN step(n, s) ELSE s[i]]
<1> HIDE DEF step
<1>5. \A i \in 1 .. n - 1 : t[i] = s[i]
  BY <1>1
<1>6. \A i \in 1 .. n : i # 1 => i - 1 \in 1 .. n - 1
  BY <1>1
<1>7. \A i \in 1 .. n : step(i, t) = step(i, s)
  BY <1>5, <1>6 DEF step
<1>8. \A i \in 1 .. n - 1 : s[i] = step(i, s)
  BY <1>4, Zenon DEF Solves, step
<1>9. \A i \in 1 .. n : t[i] = step(i, t)
  BY <1>1, <1>5, <1>7, <1>8
<1>10. t = [i \in 1 .. n |-> step(i, t)]
  BY <1>9
<1>11. Solves(t, layout, 1 .. n)
  BY <1>10, Zenon DEF Solves, step
<1> QED
  BY <1>1, <1>11

\* The compiler's places obey the recursion, in every structure.
LEMMA StartsSolves ==
    ASSUME NEW layout, NEW n \in Nat, DOMAIN layout.fields = 1 .. n
    PROVE  \A i \in 1 .. n :
               Starts(layout)[i] =
                   IF i = 1 THEN 0
                   ELSE Placed(layout.unit, Starts(layout)[i - 1] + layout.fields[i - 1][2],
                               layout.fields[i][2])
<1>1. Solves(Starts(layout), layout, 1 .. n)
  BY StartsIsChoice, SolutionExists, Zenon
<1> QED
  BY <1>1, Zenon DEF Solves

\* The places p of the first n fields obey the recursion.
Obeys(p, layout, n) ==
    /\ n > 0 => p[1] = 0
    /\ \A i \in 2 .. n : p[i] = Placed(layout.unit, p[i - 1] + layout.fields[i - 1][2],
                                       layout.fields[i][2])

\* Places that obey the recursion are the compiler's.
LEMMA PlacesAre ==
    ASSUME NEW layout, NEW n \in Nat, DOMAIN layout.fields = 1 .. n,
           NEW p, Obeys(p, layout, n)
    PROVE  \A i \in 1 .. n : Starts(layout)[i] = p[i]
<1> DEFINE T == {i \in 1 .. n : Starts(layout)[i] # p[i]}
<1> SUFFICES ASSUME T # {} PROVE FALSE
  OBVIOUS
<1>1. T \subseteq Nat
  OBVIOUS
<1>2. PICK i \in T : \A j \in T : i <= j
  <2> HIDE DEF T
  <2> QED
    BY <1>1, Least
<1>3. Starts(layout)[i] = IF i = 1 THEN 0
                          ELSE Placed(layout.unit,
                                      Starts(layout)[i - 1] + layout.fields[i - 1][2],
                                      layout.fields[i][2])
  BY StartsSolves
<1>4. i # 1 => i - 1 \in 1 .. n /\ i - 1 \notin T /\ i \in 2 .. n
  BY <1>2
<1>5. i # 1 => Starts(layout)[i - 1] = p[i - 1]
  BY <1>4
<1> QED
  BY <1>3, <1>4, <1>5 DEF Obeys

\* The bit of the exit reason that tells a failed entry is the processor's.
LEMMA ExitReasonPlaces ==
    Bit(ExitReason, "VMEntryFailure") = 31
<1> DEFINE p == <<0, 16, 27, 28, 29, 30, 31>>
<1>1. DOMAIN ExitReason.fields = 1 .. 7 /\ 7 \in Nat
  BY DEF ExitReason, Layout
<1>2. Obeys(p, ExitReason, 7)
  BY DEF ExitReason, Layout, Placed, Obeys
<1>3. p[7] = 31
  OBVIOUS
<1> HIDE DEF p
<1>4. \A i \in 1 .. 7 : Starts(ExitReason)[i] = p[i]
  BY <1>1, <1>2, PlacesAre, Zenon
<1>5. Index(ExitReason, "VMEntryFailure") = 7
  BY DEF Index, ExitReason, Layout
<1> QED
  BY <1>3, <1>4, <1>5 DEF Bit

\* The control that activates the secondary controls, and those that need a field.
LEMMA PrimaryPlaces ==
    /\ Bit(VMExecCtrlFields, "activateSecondaryControls") = 31
    /\ Bit(VMExecCtrlFields, "tscOffset") = 3
    /\ Bit(VMExecCtrlFields, "cr3LoadExit") = 15
    /\ Bit(VMExecCtrlFields, "useTprShadow") = 21
    /\ Bit(VMExecCtrlFields, "virtualizeIoBitmaps") = 25
    /\ Bit(VMExecCtrlFields, "virtualizeMsrBitmaps") = 28
<1> DEFINE p == <<0, 2, 3, 4, 7, 8, 9, 10, 11, 12, 13, 15, 16, 17, 19, 20, 21, 22, 23,
                  24, 25, 26, 27, 28, 29, 30, 31>>
<1>1. DOMAIN VMExecCtrlFields.fields = 1 .. 27 /\ 27 \in Nat
  BY DEF VMExecCtrlFields, Layout
<1>2. Obeys(p, VMExecCtrlFields, 27)
  BY DEF VMExecCtrlFields, Layout, Placed, Obeys
<1>3. p[27] = 31 /\ p[3] = 3 /\ p[12] = 15 /\ p[17] = 21 /\ p[21] = 25 /\ p[24] = 28
  OBVIOUS
<1> HIDE DEF p
<1>4. \A i \in 1 .. 27 : Starts(VMExecCtrlFields)[i] = p[i]
  BY <1>1, <1>2, PlacesAre, Zenon
<1>5. /\ Index(VMExecCtrlFields, "activateSecondaryControls") = 27
      /\ Index(VMExecCtrlFields, "tscOffset") = 3
      /\ Index(VMExecCtrlFields, "cr3LoadExit") = 12
      /\ Index(VMExecCtrlFields, "useTprShadow") = 17
      /\ Index(VMExecCtrlFields, "virtualizeIoBitmaps") = 21
      /\ Index(VMExecCtrlFields, "virtualizeMsrBitmaps") = 24
  BY DEF Index, VMExecCtrlFields, Layout
<1> QED
  BY <1>3, <1>4, <1>5 DEF Bit

\* The pin-based controls that need a field.
LEMMA PinPlaces ==
    /\ Bit(PinBasedControls, "vmxPreemptionTimer") = 6
    /\ Bit(PinBasedControls, "processInterrupts") = 7
<1> DEFINE p == <<0, 1, 3, 4, 5, 6, 7, 32>>
<1>1. DOMAIN PinBasedControls.fields = 1 .. 8 /\ 8 \in Nat
  BY DEF PinBasedControls, Layout
<1>2. Obeys(p, PinBasedControls, 8)
  BY DEF PinBasedControls, Layout, Placed, Obeys
<1>3. p[6] = 6 /\ p[7] = 7
  OBVIOUS
<1> HIDE DEF p
<1>4. \A i \in 1 .. 8 : Starts(PinBasedControls)[i] = p[i]
  BY <1>1, <1>2, PlacesAre, Zenon
<1>5. /\ Index(PinBasedControls, "vmxPreemptionTimer") = 6
      /\ Index(PinBasedControls, "processInterrupts") = 7
  BY DEF Index, PinBasedControls, Layout
<1> QED
  BY <1>3, <1>4, <1>5 DEF Bit

\* The secondary controls that need a field.
LEMMA SecondaryPlaces ==
    /\ Bit(SecondaryVMExecCtrls, "virtualizeApic") = 0
    /\ Bit(SecondaryVMExecCtrls, "enableEPT") = 1
    /\ Bit(SecondaryVMExecCtrls, "virtualizeAPICMsr") = 4
    /\ Bit(SecondaryVMExecCtrls, "enableVPID") = 5
    /\ Bit(SecondaryVMExecCtrls, "apicRegisterVirt") = 8
    /\ Bit(SecondaryVMExecCtrls, "virtualInterruptDelivery") = 9
    /\ Bit(SecondaryVMExecCtrls, "pauseLoopExiting") = 10
    /\ Bit(SecondaryVMExecCtrls, "enableVMFUNC") = 13
    /\ Bit(SecondaryVMExecCtrls, "vmcsShadowing") = 14
    /\ Bit(SecondaryVMExecCtrls, "enableENCLSExit") = 15
    /\ Bit(SecondaryVMExecCtrls, "enablePML") = 17
    /\ Bit(SecondaryVMExecCtrls, "EPTViolation") = 18
    /\ Bit(SecondaryVMExecCtrls, "enableXSaves_XStores") = 20
    /\ Bit(SecondaryVMExecCtrls, "useTSCScaling") = 25
<1> DEFINE p == <<0, 1, 2, 3, 4, 5, 6, 7, 8, 9, 10, 11, 12, 13, 14, 15, 16,
                  17, 18, 19, 20, 21, 22, 23, 25, 26>>
<1>1. DOMAIN SecondaryVMExecCtrls.fields = 1 .. 26 /\ 26 \in Nat
  BY DEF SecondaryVMExecCtrls, Layout
<1>2. Obeys(p, SecondaryVMExecCtrls, 26)
  BY DEF SecondaryVMExecCtrls, Layout, Placed, Obeys
<1>3. /\ p[1] = 0 /\ p[2] = 1 /\ p[5] = 4 /\ p[6] = 5 /\ p[9] = 8 /\ p[10] = 9 /\ p[11] = 10
      /\ p[14] = 13 /\ p[15] = 14 /\ p[16] = 15 /\ p[18] = 17 /\ p[19] = 18
      /\ p[21] = 20 /\ p[25] = 25
  OBVIOUS
<1> HIDE DEF p
<1>4. \A i \in 1 .. 26 : Starts(SecondaryVMExecCtrls)[i] = p[i]
  BY <1>1, <1>2, PlacesAre, Zenon
<1>5. /\ Index(SecondaryVMExecCtrls, "virtualizeApic") = 1
      /\ Index(SecondaryVMExecCtrls, "enableEPT") = 2
      /\ Index(SecondaryVMExecCtrls, "virtualizeAPICMsr") = 5
      /\ Index(SecondaryVMExecCtrls, "enableVPID") = 6
      /\ Index(SecondaryVMExecCtrls, "apicRegisterVirt") = 9
      /\ Index(SecondaryVMExecCtrls, "virtualInterruptDelivery") = 10
      /\ Index(SecondaryVMExecCtrls, "pauseLoopExiting") = 11
      /\ Index(SecondaryVMExecCtrls, "enableVMFUNC") = 14
      /\ Index(SecondaryVMExecCtrls, "vmcsShadowing") = 15
      /\ Index(SecondaryVMExecCtrls, "enableENCLSExit") = 16
      /\ Index(SecondaryVMExecCtrls, "enablePML") = 18
      /\ Index(SecondaryVMExecCtrls, "EPTViolation") = 19
      /\ Index(SecondaryVMExecCtrls, "enableXSaves_XStores") = 21
      /\ Index(SecondaryVMExecCtrls, "useTSCScaling") = 25
  BY DEF Index, SecondaryVMExecCtrls, Layout
<1> QED
  BY <1>3, <1>4, <1>5 DEF Bit

\* The control that makes the host run in 64-bit mode, and those that need a field.
LEMMA ExitPlaces ==
    /\ Bit(VMExitCtrlFields, "hostAddrSpaceSize") = 9
    /\ Bit(VMExitCtrlFields, "loadPerfGlobalCtrlOnExit") = 12
    /\ Bit(VMExitCtrlFields, "loadPATMsrOnExit") = 19
    /\ Bit(VMExitCtrlFields, "loadEFERMsrOnExit") = 21
<1> DEFINE p == <<0, 2, 3, 9, 10, 12, 13, 15, 16, 18, 19, 20, 21, 22, 23, 24, 25>>
<1>1. DOMAIN VMExitCtrlFields.fields = 1 .. 17 /\ 17 \in Nat
  BY DEF VMExitCtrlFields, Layout
<1>2. Obeys(p, VMExitCtrlFields, 17)
  BY DEF VMExitCtrlFields, Layout, Placed, Obeys
<1>3. p[4] = 9 /\ p[6] = 12 /\ p[11] = 19 /\ p[13] = 21
  OBVIOUS
<1> HIDE DEF p
<1>4. \A i \in 1 .. 17 : Starts(VMExitCtrlFields)[i] = p[i]
  BY <1>1, <1>2, PlacesAre, Zenon
<1>5. /\ Index(VMExitCtrlFields, "hostAddrSpaceSize") = 4
      /\ Index(VMExitCtrlFields, "loadPerfGlobalCtrlOnExit") = 6
      /\ Index(VMExitCtrlFields, "loadPATMsrOnExit") = 11
      /\ Index(VMExitCtrlFields, "loadEFERMsrOnExit") = 13
  BY DEF Index, VMExitCtrlFields, Layout
<1> QED
  BY <1>3, <1>4, <1>5 DEF Bit

\* The control that makes the guest run in IA-32e mode, and those that need a field.
LEMMA EntryPlaces ==
    /\ Bit(VMEntryCtrlFields, "ia32ModeGuest") = 9
    /\ Bit(VMEntryCtrlFields, "loadDebugCtrls") = 2
    /\ Bit(VMEntryCtrlFields, "loadPerfGlobalCtrlOnEntry") = 13
    /\ Bit(VMEntryCtrlFields, "loadPATMsrOnEntry") = 14
    /\ Bit(VMEntryCtrlFields, "loadEFERMsrOnEntry") = 15
    /\ Bit(VMEntryCtrlFields, "loadBNDCFGSOnEntry") = 16
<1> DEFINE p == <<0, 2, 3, 9, 10, 11, 12, 13, 14, 15, 16, 17, 18>>
<1>1. DOMAIN VMEntryCtrlFields.fields = 1 .. 13 /\ 13 \in Nat
  BY DEF VMEntryCtrlFields, Layout
<1>2. Obeys(p, VMEntryCtrlFields, 13)
  BY DEF VMEntryCtrlFields, Layout, Placed, Obeys
<1>3. p[2] = 2 /\ p[4] = 9 /\ p[8] = 13 /\ p[9] = 14 /\ p[10] = 15 /\ p[11] = 16
  OBVIOUS
<1> HIDE DEF p
<1>4. \A i \in 1 .. 13 : Starts(VMEntryCtrlFields)[i] = p[i]
  BY <1>1, <1>2, PlacesAre, Zenon
<1>5. /\ Index(VMEntryCtrlFields, "ia32ModeGuest") = 4
      /\ Index(VMEntryCtrlFields, "loadDebugCtrls") = 2
      /\ Index(VMEntryCtrlFields, "loadPerfGlobalCtrlOnEntry") = 8
      /\ Index(VMEntryCtrlFields, "loadPATMsrOnEntry") = 9
      /\ Index(VMEntryCtrlFields, "loadEFERMsrOnEntry") = 10
      /\ Index(VMEntryCtrlFields, "loadBNDCFGSOnEntry") = 11
  BY DEF Index, VMEntryCtrlFields, Layout
<1> QED
  BY <1>3, <1>4, <1>5 DEF Bit

\* The bits of IA32_FEATURE_CONTROL that the code looks at.
LEMMA FeaturePlaces ==
    /\ Bit(FeatureControlMsr, "lock") = 0
    /\ Bit(FeatureControlMsr, "enable_smx") = 1
    /\ Bit(FeatureControlMsr, "enable_vmxon") = 2
<1> DEFINE p == <<0, 1, 2, 3, 8, 15, 16, 32>>
<1>1. DOMAIN FeatureControlMsr.fields = 1 .. 8 /\ 8 \in Nat
  BY DEF FeatureControlMsr, Layout
<1>2. Obeys(p, FeatureControlMsr, 8)
  BY DEF FeatureControlMsr, Layout, Placed, Obeys
<1>3. p[1] = 0 /\ p[2] = 1 /\ p[3] = 2
  OBVIOUS
<1> HIDE DEF p
<1>4. \A i \in 1 .. 8 : Starts(FeatureControlMsr)[i] = p[i]
  BY <1>1, <1>2, PlacesAre, Zenon
<1>5. /\ Index(FeatureControlMsr, "lock") = 1
      /\ Index(FeatureControlMsr, "enable_smx") = 2
      /\ Index(FeatureControlMsr, "enable_vmxon") = 3
  BY DEF Index, FeatureControlMsr, Layout
<1> QED
  BY <1>3, <1>4, <1>5 DEF Bit

\* The bit of CR4 that VMXON needs.
LEMMA Cr4Places ==
    Bit(Cr4, "vmxe") = 13
<1> DEFINE p == <<0, 1, 2, 3, 4, 5, 6, 7, 8, 9, 10, 11, 12, 13, 14, 15, 16, 17, 18, 19,
                  20, 21, 22, 23, 24, 32, 64>>
<1>1. DOMAIN Cr4.fields = 1 .. 27 /\ 27 \in Nat
  BY DEF Cr4, Layout
<1>2. Obeys(p, Cr4, 27)
  BY DEF Cr4, Layout, Placed, Obeys
<1>3. p[14] = 13
  OBVIOUS
<1> HIDE DEF p
<1>4. \A i \in 1 .. 27 : Starts(Cr4)[i] = p[i]
  BY <1>1, <1>2, PlacesAre, Zenon
<1>5. Index(Cr4, "vmxe") = 14
  BY DEF Index, Cr4, Layout
<1> QED
  BY <1>3, <1>4, <1>5 DEF Bit
=============================================================================
