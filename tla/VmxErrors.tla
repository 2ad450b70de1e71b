----------------------------- MODULE VmxErrors ------------------------------
(***************************************************************************)
(* How the driver reports failed VMX instructions and VM exits:            *)
(* PrintVMXError and ReadVMCSField64, which call each other, the names of  *)
(* error_codes.cpp, and what vmexit_handler prints.                        *)
(*                                                                         *)
(* One call of EnterVmxHandler runs on a processor that is in VMX          *)
(* operation; another one may run on the same processor in between, and    *)
(* there is one VMCS for both.  The error number and the exit reason are   *)
(* fields of that VMCS, written by the processor.                          *)
(***************************************************************************)
EXTENDS BitLayouts, NtStatus

CONSTANTS
    MaxDepth,    \* calls of PrintVMXError that the kernel stack has room for
    MaxOthers    \* bound on what the other call does

ASSUME DepthAssumption == MaxDepth \in Nat \ {0}
ASSUME OthersAssumption == MaxOthers \in Nat

VARIABLES
    current,   \* the processor has a current VMCS
    error,     \* the VM-instruction error field
    reason,    \* the exit reason field: the basic reason and the bits above
    stack,     \* the calls of PrintVMXError, the innermost first
    failed,    \* the error number of the instruction that is reported, 0 for none
    shown,     \* the last message
    others,    \* what the other call did: so far, and since the instruction failed
    mode       \* "driver", "guest", "exited", "overflow"

vars == <<current, error, reason, stack, failed, shown, others, mode>>

-----------------------------------------------------------------------------
(* error_codes.cpp *)

\* A table without "VM entry with events blocked by MOV SS".
BadNamedErrors == 1 .. 28 \ {14, 21, 26, 27}

NamedErrors == 1 .. 28 \ {14, 21, 27}
NamedReasons == 0 .. 68 \ {35, 38, 42, 65}

\* A name is the code that it stands for; NoName: "Invalid error code detected",
\* "No basic exit reason found.".
NoName == -1
InstructionErrorToString(code) == IF code \in NamedErrors THEN code ELSE NoName
BasicExitReasonToString(basic) == IF basic \in NamedReasons THEN basic ELSE NoName

-----------------------------------------------------------------------------
(* The processor *)

\* The errors of the instructions after which PrintVMXError is called: VMREAD
\* and VMWRITE, VMLAUNCH, and the VMCLEAR of ClearActiveVMCS.
Errors == {12, 13} \cup {4, 7, 8, 26} \cup {2}

\* What ends the guest's first instructions, and an entry that the guest's
\* state makes fail; bit 31 tells them apart.
Exits == {[basic |-> 10, flags |-> {}], [basic |-> 2, flags |-> {}]}
FailedEntries == {[basic |-> 33, flags |-> {31}], [basic |-> 34, flags |-> {31}]}

NoMessage == [kind |-> "none"]
Frame(at) == [at |-> at, error |-> 0]

Init ==
    /\ current \in BOOLEAN
    /\ error = 0
    /\ reason = [basic |-> 0, flags |-> {}]
    /\ stack = <<>>
    /\ failed = 0
    /\ shown = NoMessage
    /\ others = [all |-> 0, since |-> 0]
    /\ mode = "driver"

\* An instruction fails, with an error number if there is a VMCS to put it into,
\* and PrintVMXError is called.
InstructionFails ==
    /\ mode = "driver" /\ stack = <<>>
    /\ IF current THEN error' \in Errors /\ failed' = error'
                  ELSE UNCHANGED error /\ failed' = 0
    /\ stack' = <<Frame("error")>>
    /\ others' = [others EXCEPT !.since = 0]
    /\ shown' = NoMessage
    /\ UNCHANGED <<current, reason, mode>>

\* VMLAUNCH, or after an exit VMRESUME, which needs an entry that succeeded.
EnterGuest ==
    /\ stack = <<>> /\ current
    /\ \/ mode = "driver"
       \/ mode = "exited" /\ shown.kind = "exit" /\ reason \notin FailedEntries
    /\ mode' = "guest"
    /\ UNCHANGED <<current, error, reason, stack, failed, shown, others>>

VmExit ==
    /\ mode = "guest"
    /\ reason' \in Exits \cup FailedEntries
    /\ mode' = "exited"
    /\ shown' = NoMessage
    /\ UNCHANGED <<current, error, stack, failed, others>>

\* The other call loads the VMCS, clears it or has an instruction of its own fail.
Other ==
    /\ mode = "driver" /\ others.all < MaxOthers
    /\ others' = [all |-> others.all + 1, since |-> others.since + 1]
    /\ \/ current' = ~current /\ UNCHANGED error
       \/ current /\ error' \in Errors /\ UNCHANGED current
    /\ UNCHANGED <<reason, stack, failed, shown, mode>>

-----------------------------------------------------------------------------
(* PrintVMXError, ReadVMCSFieldGeneric and ReadVMCSField64 *)

Top == Head(stack)
Reporting == mode = "driver" /\ stack # <<>>
Continue(frame) == stack' = <<frame>> \o Tail(stack) /\ UNCHANGED shown

\* The message and the return to the caller.
Finish(message) == shown' = message /\ stack' = Tail(stack)
Message(e, r) == [kind |-> "cause", error |-> InstructionErrorToString(e),
                  reason |-> BasicExitReasonToString(r)]

\* VMREAD of the field that the innermost call reads succeeds; both fields exist
\* on every processor.  Of an encoding that does not exist it would fail.
BadVmreadSucceeds == current /\ Top.at # "reason"
VmreadSucceeds    == current

\* A report that begins again after its first reading.
BadGotError(e) == Continue([at |-> "error", error |-> e])

\* The instruction error has been read as e, or the exit reason as r.
GotError(e)  == Continue([at |-> "reason", error |-> e])
GotReason(r) == Finish(Message(Top.error, r))

\* VMREAD succeeds.
Read == /\ Reporting /\ VmreadSucceeds
        /\ \/ Top.at = "error" /\ GotError(error)
           \/ Top.at = "reason" /\ GotReason(reason.basic)
        /\ UNCHANGED <<current, error, reason, failed, others, mode>>

\* A call that reads again after its VMREAD has been reported.
BadPending(frame) == frame

\* A call that waits for the report of its VMREAD.
Pending(frame) ==
    [frame EXCEPT !.at = IF @ = "error" THEN "error failed" ELSE "reason failed"]

\* VMREAD fails without a current VMCS: ReadVMCSField64 calls PrintVMXError.
Recurse ==
    /\ Reporting /\ ~VmreadSucceeds
    /\ Top.at \in {"error", "reason"}
    /\ IF Len(stack) < MaxDepth
       THEN /\ stack' = <<Frame("error"), Pending(Top)>> \o Tail(stack)
            /\ UNCHANGED mode
       ELSE mode' = "overflow" /\ UNCHANGED stack
    /\ UNCHANGED <<current, error, reason, failed, shown, others>>

\* The failed VMREAD's status, STATUS_FAILED_VMREAD, comes back; the variable
\* that was read is still zero.
ReadFailed ==
    /\ Reporting
    /\ Top.at \in {"error failed", "reason failed"}
    /\ IF ~NT_SUCCESS(STATUS_FAILED_VMREAD) THEN Finish([kind |-> "unread"])
       ELSE IF Top.at = "error failed" THEN GotError(0) ELSE GotReason(0)
    /\ UNCHANGED <<current, error, reason, failed, others, mode>>

-----------------------------------------------------------------------------
(* vmexit_handler *)

\* The handler reads the exit reason, prints it and resumes (EnterGuest).
HandleExit ==
    /\ mode = "exited" /\ shown = NoMessage
    /\ shown' = [kind |-> "exit", reason |-> BasicExitReasonToString(reason.basic),
                 failed |-> Bit(ExitReason, "VMEntryFailure") \in reason.flags]
    /\ UNCHANGED <<current, error, reason, stack, failed, others, mode>>

Next ==
    \/ InstructionFails \/ EnterGuest \/ VmExit \/ Other
    \/ Read \/ Recurse \/ ReadFailed
    \/ HandleExit

Spec == Init /\ [][Next]_vars
FairSpec == Spec /\ WF_vars(Read \/ Recurse \/ ReadFailed)

-----------------------------------------------------------------------------
(* Properties *)

\* Undisturbed: the other call did nothing since the instruction failed.
Undisturbed == others.since = 0

TypeOK ==
    /\ current \in BOOLEAN /\ error \in Errors \cup {0} /\ failed \in Errors \cup {0}
    /\ Len(stack) <= MaxDepth
    /\ \A i \in DOMAIN stack :
           /\ stack[i].at \in {"error", "reason", "error failed", "reason failed"}
           /\ i > 1 => stack[i].at \in {"error failed", "reason failed"}
    /\ mode \in {"driver", "guest", "exited", "overflow"}

\* The reading of the VMCS that reports an error does not change what it reports:
\* undisturbed, and with a VMCS, one message is printed, and it names the error
\* of the instruction that failed.
NamesTheCause ==
    (mode = "driver" /\ failed # 0 /\ Undisturbed) =>
        /\ Len(stack) <= 1
        /\ stack = <<>> => shown.kind = "cause" /\ shown.error = failed

\* The stack overflows only where the instruction failed for want of a VMCS, or
\* where the other call took it away during the report.
OverflowExplained == mode = "overflow" => ~current /\ (failed = 0 \/ ~Undisturbed)

\* PrintVMXError and ReadVMCSField64 call each other: with a VMCS, and undisturbed,
\* the report names the cause; the stack overflows only for want of a VMCS.
ReportExplained == NamesTheCause /\ OverflowExplained

\* What vmexit_handler prints of the entry is true: the entry failed if and only
\* if the exit is one of those that the checks of the guest's state cause.
HandlerTellsEntry ==
    shown.kind = "exit" => shown.failed = (reason \in FailedEntries)

\* A report that has begun is over some time, or the stack is.
ReportEnds == (mode = "driver" /\ stack # <<>>) ~> (stack = <<>> \/ mode = "overflow")
=============================================================================
