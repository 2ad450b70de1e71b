----------------------------- MODULE BitLayouts -----------------------------
(***************************************************************************)
(* Bit-field structures of vmcs.h, msr.h and processor.h, and where the    *)
(* compiler puts their fields.                                             *)
(*                                                                         *)
(* A layout is the width in bits of the declared type and the fields in    *)
(* their order, each a pair <<name, width>>; "-" is a reserved field.      *)
(***************************************************************************)
EXTENDS Naturals, Sequences

Layout(unit, fields) == [unit |-> unit, fields |-> fields]

\* The first bit of each field: a field that does not fit into what is left of
\* the present unit of the declared type starts a new unit (MSVC).
Starts(layout) ==
    LET start[i \in DOMAIN layout.fields] ==
            IF i = 1 THEN 0
            ELSE LET end == start[i - 1] + layout.fields[i - 1][2]
                 IN  IF (end % layout.unit) + layout.fields[i][2] <= layout.unit
                     THEN end
                     ELSE layout.unit * (1 + end \div layout.unit)
    IN  start

\* The first bit of the field called name, and all its bits.
Index(layout, name) == CHOOSE i \in DOMAIN layout.fields : layout.fields[i][1] = name
Bit(layout, name)   == Starts(layout)[Index(layout, name)]
BitsOf(layout, name) ==
    LET i == Index(layout, name)
    IN  Starts(layout)[i] .. (Starts(layout)[i] + layout.fields[i][2] - 1)

-----------------------------------------------------------------------------
(* Controls of the VMCS (vmcs.h) *)

PinBasedControls == Layout(32,
    << <<"externalInterruptExit", 1>>, <<"-", 2>>, <<"nmiExiting", 1>>, <<"-", 1>>,
       <<"virtualNMI", 1>>, <<"vmxPreemptionTimer", 1>>, <<"processInterrupts", 1>>,
       <<"reserved3", 25>> >>)

VMExecCtrlFields == Layout(32,
    << <<"-", 2>>, <<"interruptExit", 1>>, <<"tscOffset", 1>>, <<"-", 3>>, <<"hltExiting", 1>>,
       <<"-", 1>>, <<"invlpgExit", 1>>, <<"mwaitExit", 1>>, <<"rdpmcExit", 1>>,
       <<"rdstcExit", 1>>, <<"-", 2>>, <<"cr3LoadExit", 1>>, <<"cr3StoreExit", 1>>, <<"-", 2>>,
       <<"cr8LoadExit", 1>>, <<"cr8StoreExit", 1>>, <<"useTprShadow", 1>>,
       <<"nmiWindowExit", 1>>, <<"movDrExit", 1>>, <<"unconditionalIoExit", 1>>,
       <<"virtualizeIoBitmaps", 1>>, <<"-", 1>>, <<"monitorTrapFlag", 1>>,
       <<"virtualizeMsrBitmaps", 1>>, <<"monitorExit", 1>>, <<"pauseExit", 1>>,
       <<"activateSecondaryControls", 1>> >>)

SecondaryVMExecCtrls == Layout(32,
    << <<"virtualizeApic", 1>>, <<"enableEPT", 1>>, <<"descTableExit", 1>>,
       <<"enableRdtscp", 1>>, <<"virtualizeAPICMsr", 1>>, <<"enableVPID", 1>>,
       <<"wbinvdExit", 1>>, <<"unrestrictedGuest", 1>>, <<"apicRegisterVirt", 1>>,
       <<"virtualInterruptDelivery", 1>>, <<"pauseLoopExiting", 1>>, <<"rdrandExit", 1>>,
       <<"enableINVPCID", 1>>, <<"enableVMFUNC", 1>>, <<"vmcsShadowing", 1>>,
       <<"enableENCLSExit", 1>>, <<"rdseedExit", 1>>, <<"enablePML", 1>>, <<"EPTViolation", 1>>,
       <<"concealVirtualizationFromPT", 1>>, <<"enableXSaves_XStores", 1>>, <<"-", 1>>,
       <<"executeCtrlEPT", 1>>, <<"-", 2>>, <<"useTSCScaling", 1>>, <<"-", 6>> >>)

VMExitCtrlFields == Layout(32,
    << <<"-", 2>>, <<"saveDebugCtrls", 1>>, <<"-", 6>>, <<"hostAddrSpaceSize", 1>>, <<"-", 2>>,
       <<"loadPerfGlobalCtrlOnExit", 1>>, <<"-", 2>>, <<"acknowledgeInterruptOnExit", 1>>,
       <<"-", 2>>, <<"savePATMsrOnExit", 1>>, <<"loadPATMsrOnExit", 1>>,
       <<"saveEFERMsrOnExit", 1>>, <<"loadEFERMsrOnExit", 1>>,
       <<"savePreemptionTimerOnExit", 1>>, <<"clearBNDCFGSOnExit", 1>>,
       <<"concealVMExitPt", 1>>, <<"-", 7>> >>)

VMEntryCtrlFields == Layout(32,
    << <<"-", 2>>, <<"loadDebugCtrls", 1>>, <<"-", 6>>, <<"ia32ModeGuest", 1>>,
       <<"entryToSMM", 1>>, <<"deactivateDualMonitor", 1>>, <<"-", 1>>,
       <<"loadPerfGlobalCtrlOnEntry", 1>>, <<"loadPATMsrOnEntry", 1>>,
       <<"loadEFERMsrOnEntry", 1>>, <<"loadBNDCFGSOnEntry", 1>>, <<"concealVMEntryPt", 1>>,
       <<"-", 14>> >>)

\* A structure without the reserved bit before VMEntryFailure.
BadExitReason == Layout(32,
    << <<"basicExitReason", 16>>, <<"-", 11>>, <<"VMExitInclaveMode", 1>>,
       <<"pendingMonitorTrapFlagVMExit", 1>>, <<"VMExitFromRootOp", 1>>,
       <<"VMEntryFailure", 1>> >>)

ExitReason == Layout(32,
    << <<"basicExitReason", 16>>, <<"-", 11>>, <<"VMExitInclaveMode", 1>>,
       <<"pendingMonitorTrapFlagVMExit", 1>>, <<"VMExitFromRootOp", 1>>, <<"-", 1>>,
       <<"VMEntryFailure", 1>> >>)

-----------------------------------------------------------------------------
(* Registers (msr.h, processor.h) *)

FeatureControlMsr == Layout(32,
    << <<"lock", 1>>, <<"enable_smx", 1>>, <<"enable_vmxon", 1>>, <<"-", 5>>,
       <<"enable_local_senter", 7>>, <<"enable_global_senter", 1>>, <<"-", 16>>, <<"-", 32>> >>)

Cr4 == Layout(32,
    << <<"vme", 1>>, <<"pvi", 1>>, <<"tsd", 1>>, <<"de", 1>>, <<"pse", 1>>, <<"pae", 1>>,
       <<"mce", 1>>, <<"pge", 1>>, <<"pce", 1>>, <<"osfxsr", 1>>, <<"osxmmexcpt", 1>>,
       <<"umip", 1>>, <<"la57", 1>>, <<"vmxe", 1>>, <<"smxe", 1>>, <<"-", 1>>, <<"fsgsbase", 1>>,
       <<"pcide", 1>>, <<"osxsave", 1>>, <<"-", 1>>, <<"smep", 1>>, <<"smap", 1>>, <<"pke", 1>>,
       <<"cet", 1>>, <<"pks", 1>>, <<"-", 16>>, <<"-", 23>> >>)
=============================================================================
