--------------------------- MODULE VmxErrorsProofs --------------------------
(* What the reports of failed instructions say, for a stack of any depth and *)
(* any number of steps of the other call.                                    *)
EXTENDS VmxErrors, BitLayoutsProofs

ErrorNumbers == Errors \cup {0}

PendingAt == {"error failed", "reason failed"}
ActiveAt  == {"error", "reason"}
Frames    == [at : PendingAt \cup ActiveAt, error : ErrorNumbers]

\* The types, without the messages: all calls but the innermost wait.
Types ==
    /\ current \in BOOLEAN /\ error \in ErrorNumbers /\ failed \in ErrorNumbers
    /\ stack \in Seq(Frames) /\ Len(stack) <= MaxDepth
    /\ \A i \in 1 .. Len(stack) : i > 1 => stack[i].at \in PendingAt
    /\ others \in [all : Nat, since : Nat]
    /\ mode \in {"driver", "guest", "exited", "overflow"}

\* An undisturbed report of an error: the VMCS is there, its error number is
\* still that of the instruction, and what has been read of it is too.
ReportInv ==
    (mode \in {"driver", "overflow"} /\ failed # 0 /\ others.since = 0) =>
        /\ mode = "driver" /\ current
        /\ error = failed
        /\ Len(stack) \in {0, 1}
        /\ Len(stack) = 1 => /\ stack[1].at \in ActiveAt
                             /\ stack[1].at = "reason" => stack[1].error = failed
        /\ Len(stack) = 0 => shown.kind = "cause" /\ shown.error = failed

\* What overflows has no VMCS.
OverflowInv == mode = "overflow" => ~current

\* The inductive invariant.
Inv == Types /\ ReportInv /\ OverflowInv

-----------------------------------------------------------------------------

\* Every error number that can be reported has a name: its own.
LEMMA ErrorsNamed ==
    /\ 0 \notin Errors
    /\ \A e \in Errors : e \in Int /\ e # 0 /\ InstructionErrorToString(e) = e
BY DEF Errors, InstructionErrorToString, NamedErrors

\* STATUS_FAILED_VMREAD is a success to NT_SUCCESS.
LEMMA FailedReadSucceeds == NT_SUCCESS(STATUS_FAILED_VMREAD)
BY DEF NT_SUCCESS, STATUS_FAILED_VMREAD, CustomStatus, NT_ERROR, BASE_ERROR

\* The innermost call is replaced by frame.
LEMMA Replaced ==
    ASSUME NEW s \in Seq(Frames), s # <<>>, NEW f \in Frames
    PROVE  LET t == <<f>> \o Tail(s)
           IN  /\ t \in Seq(Frames) /\ Len(t) = Len(s) /\ t[1] = f
               /\ \A i \in 1 .. Len(s) : i > 1 => t[i] = s[i]
OBVIOUS

LEMMA Pushed ==
    ASSUME NEW s \in Seq(Frames), s # <<>>, NEW f \in Frames, NEW g \in Frames
    PROVE  LET t == <<f, g>> \o Tail(s)
           IN  /\ t \in Seq(Frames) /\ Len(t) = Len(s) + 1 /\ t[1] = f /\ t[2] = g
               /\ \A i \in 1 .. Len(t) : i > 2 => t[i] = s[i - 1]
OBVIOUS

LEMMA Popped ==
    ASSUME NEW s \in Seq(Frames), s # <<>>
    PROVE  /\ Tail(s) \in Seq(Frames) /\ Len(Tail(s)) = Len(s) - 1
           /\ \A i \in 1 .. Len(Tail(s)) : Tail(s)[i] = s[i + 1]
OBVIOUS

-----------------------------------------------------------------------------

LEMMA InitInv == Init => Inv
<1> SUFFICES ASSUME Init PROVE Inv
  OBVIOUS
<1>1. Len(stack) = 0 /\ stack \in Seq(Frames)
  BY DEF Init
<1>2. Types
  BY <1>1, DepthAssumption DEF Init, Types, ErrorNumbers
<1>3. ReportInv /\ OverflowInv
  BY DEF Init, ReportInv, OverflowInv
<1> QED
  BY <1>2, <1>3 DEF Inv

\* The steps of the processor, of the other call and of vmexit_handler, which do
\* not continue a report.
LEMMA OutsideStep ==
    ASSUME Inv, InstructionFails \/ EnterGuest \/ VmExit \/ Other \/ HandleExit
    PROVE  Inv'
<1> USE DEF Inv
<1>1. CASE InstructionFails
  <2>1. Frame("error") \in Frames /\ Frame("error").at = "error"
    BY DEF Frame, Frames, ActiveAt, ErrorNumbers
  <2>2. stack' \in Seq(Frames) /\ Len(stack') = 1 /\ stack'[1].at = "error"
    BY <1>1, <2>1 DEF InstructionFails
  <2>3. others' \in [all : Nat, since : Nat]
    BY <1>1 DEF InstructionFails, Types
  <2>4. error' \in ErrorNumbers /\ failed' \in ErrorNumbers
        /\ (failed' # 0 => current /\ error' = failed')
    BY <1>1 DEF InstructionFails, Types, ErrorNumbers
  <2>5. Types'
    BY <1>1, <2>2, <2>3, <2>4, DepthAssumption DEF InstructionFails, Types
  <2>6. ReportInv'
    BY <1>1, <2>2, <2>4 DEF InstructionFails, ReportInv, ActiveAt
  <2> QED
    BY <1>1, <2>5, <2>6 DEF InstructionFails, OverflowInv
<1>2. CASE EnterGuest
  BY <1>2 DEF EnterGuest, Types, ReportInv, OverflowInv
<1>3. CASE VmExit
  BY <1>3 DEF VmExit, Types, ReportInv, OverflowInv
<1>4. CASE Other
  <2>1. others' \in [all : Nat, since : Nat] /\ others'.since # 0
    BY <1>4 DEF Other, Types
  <2>2. current' \in BOOLEAN /\ error' \in ErrorNumbers
    BY <1>4 DEF Other, Types, ErrorNumbers
  <2> QED
    BY <1>4, <2>1, <2>2 DEF Other, Types, ReportInv, OverflowInv
<1>5. CASE HandleExit
  BY <1>5 DEF HandleExit, Types, ReportInv, OverflowInv
<1> QED
  BY <1>1, <1>2, <1>3, <1>4, <1>5

\* What the innermost call knows of a report.
LEMMA TopFacts ==
    ASSUME Types, Reporting
    PROVE  /\ mode = "driver" /\ stack # <<>> /\ Len(stack) \in Nat /\ Len(stack) # 0
           /\ Top = stack[1] /\ Top \in Frames
BY DEF Reporting, Top, Types

\* The innermost call goes on to read the exit reason, with the error e.
LEMMA GotErrorStep ==
    ASSUME Inv, Reporting, NEW e \in ErrorNumbers, GotError(e),
           UNCHANGED <<current, error, reason, failed, others, mode>>,
           (failed # 0 /\ others.since = 0) => e = failed
    PROVE  Inv'
<1> DEFINE f == [at |-> "reason", error |-> e]
<1>1. f \in Frames /\ f.at = "reason" /\ f.error = e
  BY DEF Frames, ActiveAt
<1>2. stack' = <<f>> \o Tail(stack) /\ shown' = shown
  BY DEF GotError, Continue
<1>3. stack \in Seq(Frames) /\ stack # <<>> /\ mode = "driver"
  BY TopFacts DEF Inv, Types
<1>4. /\ stack' \in Seq(Frames) /\ Len(stack') = Len(stack) /\ stack'[1] = f
      /\ \A i \in 1 .. Len(stack) : i > 1 => stack'[i] = stack[i]
  BY <1>1, <1>2, <1>3, Replaced
<1> HIDE DEF f
<1>5. Types'
  BY <1>1, <1>3, <1>4 DEF Inv, Types
<1>6. ReportInv'
  BY <1>1, <1>3, <1>4, TopFacts DEF Inv, ReportInv, ActiveAt
<1> QED
  BY <1>3, <1>5, <1>6 DEF Inv, OverflowInv

\* The innermost call prints its message and returns.
LEMMA GotReasonStep ==
    ASSUME Inv, Reporting, NEW r, GotReason(r),
           UNCHANGED <<current, error, reason, failed, others, mode>>,
           (failed # 0 /\ others.since = 0) => Top.at = "reason"
    PROVE  Inv'
<1>1. stack \in Seq(Frames) /\ stack # <<>> /\ mode = "driver"
  BY TopFacts DEF Inv, Types
<1>2. stack' = Tail(stack) /\ shown' = Message(Top.error, r)
  BY DEF GotReason, Finish
<1>3. /\ stack' \in Seq(Frames) /\ Len(stack') = Len(stack) - 1
      /\ \A i \in 1 .. Len(stack') : stack'[i] = stack[i + 1]
  BY <1>1, <1>2, Popped
<1>4. Types'
  <2>1. Len(stack) \in Nat /\ Len(stack) # 0 /\ Len(stack) <= MaxDepth
    BY <1>1 DEF Inv, Types
  <2>2. \A i \in 1 .. Len(stack') : stack'[i].at \in PendingAt
    <3> SUFFICES ASSUME NEW i \in 1 .. Len(stack') PROVE stack'[i].at \in PendingAt
      OBVIOUS
    <3>1. i + 1 \in 1 .. Len(stack) /\ i + 1 > 1
      BY <1>3, <2>1
    <3> QED
      BY <1>3, <3>1 DEF Inv, Types
  <2>3. Len(stack') <= MaxDepth
    BY <1>3, <2>1, DepthAssumption
  <2> QED
    BY <1>1, <1>3, <2>2, <2>3 DEF Inv, Types
<1>5. ReportInv'
  <2> SUFFICES ASSUME failed # 0, others.since = 0
               PROVE  /\ current /\ error = failed /\ Len(stack') = 0
                      /\ shown'.kind = "cause" /\ shown'.error = failed
    BY <1>1 DEF ReportInv
  <2>1. current /\ error = failed /\ Len(stack) \in {0, 1} /\ Top.at = "reason"
    BY <1>1 DEF Inv, ReportInv
  <2>3. Len(stack) = 1 /\ Top = stack[1]
    BY <2>1, TopFacts DEF Inv
  <2>4. Top.error = failed
    BY <1>1, <2>1, <2>3 DEF Inv, ReportInv
  <2>2. failed \in Errors
    BY DEF Inv, Types, ErrorNumbers
  <2> QED
    BY <1>2, <1>3, <2>1, <2>2, <2>3, <2>4, ErrorsNamed DEF Message
<1> QED
  BY <1>1, <1>4, <1>5 DEF Inv, OverflowInv

\* The steps of PrintVMXError and ReadVMCSField64.
LEMMA ReadStep == ASSUME Inv, Read PROVE Inv'
<1>1. Reporting /\ current
  BY DEF Read, VmreadSucceeds
<1>2. UNCHANGED <<current, error, reason, failed, others, mode>>
  BY DEF Read
<1>3. CASE Top.at = "error" /\ GotError(error)
  <2>1. (failed # 0 /\ others.since = 0) => error = failed
    BY <1>1, TopFacts DEF Inv, ReportInv
  <2> QED
    BY <1>1, <1>2, <1>3, <2>1, GotErrorStep DEF Inv, Types
<1>4. CASE Top.at = "reason" /\ GotReason(reason.basic)
  BY <1>1, <1>2, <1>4, GotReasonStep
<1> QED
  BY <1>3, <1>4 DEF Read

LEMMA ReadFailedStep == ASSUME Inv, ReadFailed PROVE Inv'
<1>1. Reporting /\ Top.at \in PendingAt
  BY DEF ReadFailed, PendingAt
<1>2. UNCHANGED <<current, error, reason, failed, others, mode>>
  BY DEF ReadFailed
<1>3. ~(failed # 0 /\ others.since = 0)
  <2> SUFFICES ASSUME failed # 0, others.since = 0 PROVE FALSE
    OBVIOUS
  <2>1. mode = "driver" /\ Len(stack) \in Nat /\ Len(stack) # 0 /\ Top = stack[1]
    BY <1>1, TopFacts DEF Inv
  <2>2. stack[1].at \in ActiveAt
    BY <2>1 DEF Inv, ReportInv
  <2> QED
    BY <1>1, <2>1, <2>2 DEF ActiveAt, PendingAt
<1>4. GotError(0) \/ GotReason(0)
  BY FailedReadSucceeds DEF ReadFailed
<1> QED
  BY <1>1, <1>2, <1>3, <1>4, GotErrorStep, GotReasonStep DEF ErrorNumbers

LEMMA RecurseStep == ASSUME Inv, Recurse PROVE Inv'
<1>1. Reporting /\ ~current /\ Top.at \in ActiveAt
  BY DEF Recurse, VmreadSucceeds, ActiveAt
<1>2. UNCHANGED <<current, error, reason, failed, shown, others>>
  BY DEF Recurse
<1>3. stack \in Seq(Frames) /\ stack # <<>> /\ mode = "driver" /\ Top \in Frames
  BY <1>1, TopFacts DEF Inv, Types
<1>4. ~(failed # 0 /\ others.since = 0)
  BY <1>1, <1>3 DEF Inv, ReportInv
<1>5. CASE Len(stack) < MaxDepth
  <2>1. Frame("error") \in Frames /\ Pending(Top) \in Frames /\ Pending(Top).at \in PendingAt
    BY <1>3 DEF Frame, Frames, ActiveAt, PendingAt, ErrorNumbers, Pending
  <2>2. stack' = <<Frame("error"), Pending(Top)>> \o Tail(stack) /\ mode' = mode
    BY <1>5 DEF Recurse
  <2>3. /\ stack' \in Seq(Frames) /\ Len(stack') = Len(stack) + 1
        /\ stack'[2] = Pending(Top)
        /\ \A i \in 1 .. Len(stack') : i > 2 => stack'[i] = stack[i - 1]
    BY <1>3, <2>1, <2>2, Pushed
  <2>4. \A i \in 1 .. Len(stack') : i > 1 => stack'[i].at \in PendingAt
    <3> SUFFICES ASSUME NEW i \in 1 .. Len(stack'), i > 1
                 PROVE  stack'[i].at \in PendingAt
      OBVIOUS
    <3>1. CASE i = 2
      BY <2>1, <2>3, <3>1
    <3>2. CASE i > 2
      BY <1>3, <2>3, <3>2 DEF Inv, Types
    <3> QED
      BY <3>1, <3>2
  <2>5. Types'
    BY <1>2, <1>5, <2>2, <2>3, <2>4, DepthAssumption DEF Inv, Types
  <2> QED
    BY <1>2, <1>3, <1>4, <2>2, <2>5 DEF Inv, ReportInv, OverflowInv
<1>6. CASE ~(Len(stack) < MaxDepth)
  <2>1. mode' = "overflow" /\ stack' = stack
    BY <1>6 DEF Recurse
  <2> QED
    BY <1>1, <1>2, <1>4, <2>1 DEF Inv, Types, ReportInv, OverflowInv
<1> QED
  BY <1>5, <1>6

LEMMA StepInv == Inv /\ [Next]_vars => Inv'
<1> SUFFICES ASSUME Inv, [Next]_vars PROVE Inv'
  OBVIOUS
<1>1. CASE InstructionFails \/ EnterGuest \/ VmExit \/ Other \/ HandleExit
  BY <1>1, OutsideStep
<1>2. CASE Read \/ Recurse \/ ReadFailed
  BY <1>2, ReadStep, RecurseStep, ReadFailedStep
<1>3. CASE UNCHANGED vars
  BY <1>3 DEF Inv, Types, ReportInv, OverflowInv, vars
<1> QED
  BY <1>1, <1>2, <1>3 DEF Next

\* The invariant of the reports: as long as nobody interferes, the VMCS is there
\* and holds the error of the instruction.
THEOREM ReportInvariant == Spec => []Inv
BY InitInv, StepInv, PTL DEF Spec

-----------------------------------------------------------------------------

\* Of the calls of PrintVMXError on the stack, no more than there is room for,
\* only the innermost does not wait for another (PrintVMXError, ReadVMCSField64).
THEOREM ReportTypes == Spec => []TypeOK
<1>1. Inv => TypeOK
  <2> SUFFICES ASSUME Inv PROVE TypeOK
    OBVIOUS
  <2>1. DOMAIN stack = 1 .. Len(stack) /\ \A i \in 1 .. Len(stack) : stack[i] \in Frames
    BY DEF Inv, Types
  <2>2. \A i \in 1 .. Len(stack) :
            stack[i].at \in {"error", "reason", "error failed", "reason failed"}
    BY <2>1 DEF Frames, PendingAt, ActiveAt
  <2> QED
    BY <2>1, <2>2 DEF Inv, Types, TypeOK, ErrorNumbers, PendingAt
<1> QED
  BY <1>1, ReportInvariant, PTL

\* The report of an undisturbed failure is one message that names the error
\* number of the instruction that failed, for every error number.
THEOREM CauseNamed == Spec => []NamesTheCause
<1>1. Inv => NamesTheCause
  BY DEF Inv, Types, ReportInv, NamesTheCause, Undisturbed
<1> QED
  BY <1>1, ReportInvariant, PTL

\* Whatever the depth of the stack, it overflows only without a VMCS: one that was
\* not there, or one that the other call took away.
THEOREM OverflowCause == Spec => []OverflowExplained
<1>1. Inv => OverflowExplained
  BY DEF Inv, ReportInv, OverflowInv, OverflowExplained, Undisturbed
<1> QED
  BY <1>1, ReportInvariant, PTL

\* An undisturbed report with a VMCS names its cause, and overflow means that there
\* is none, for a stack of any depth.
THEOREM ReportsExplained == Spec => []ReportExplained
<1>1. NamesTheCause /\ OverflowExplained => ReportExplained
  BY DEF ReportExplained
<1> QED
  BY <1>1, CauseNamed, OverflowCause, PTL

-----------------------------------------------------------------------------
(* vmexit_handler *)

\* What the handler has shown of an exit is what the field still holds: the next
\* exit takes the message away, and nothing else writes the exit reason.
ExitInv ==
    /\ shown.kind = "exit" => shown.failed = (reason \in FailedEntries)
    /\ mode = "exited" => reason \in Exits \cup FailedEntries

\* Bit 31 tells the two kinds of exits apart.
LEMMA Bit31 ==
    ASSUME NEW r \in Exits \cup FailedEntries
    PROVE  (31 \in r.flags) <=> (r \in FailedEntries)
BY DEF Exits, FailedEntries

LEMMA ExitStepInv == ExitInv /\ [Next]_vars => ExitInv'
<1> SUFFICES ASSUME ExitInv, [Next]_vars PROVE ExitInv'
  OBVIOUS
<1>1. CASE InstructionFails
  BY <1>1 DEF InstructionFails, ExitInv, NoMessage
<1>2. CASE EnterGuest
  BY <1>2 DEF EnterGuest, ExitInv
<1>3. CASE VmExit
  BY <1>3 DEF VmExit, ExitInv, NoMessage
<1>4. CASE Other
  BY <1>4 DEF Other, ExitInv
<1>5. CASE Read \/ Recurse \/ ReadFailed
  <2>1. mode' \in {"driver", "overflow"} /\ reason' = reason
    BY <1>5 DEF Read, Recurse, ReadFailed, Reporting
  <2>2. \A e : GotError(e) => shown' = shown
    BY DEF GotError, Continue
  <2>3. \A r : GotReason(r) => shown'.kind # "exit"
    <3>1. \A e, r : Message(e, r).kind = "cause"
      BY DEF Message
    <3> QED
      BY <3>1 DEF GotReason, Finish
  <2>4. shown' = shown \/ shown'.kind # "exit"
    <3>1. CASE Read
      BY <2>2, <2>3, <3>1 DEF Read
    <3>2. CASE Recurse
      BY <3>2 DEF Recurse
    <3>3. CASE ReadFailed
      BY <2>2, <2>3, <3>3, FailedReadSucceeds DEF ReadFailed
    <3> QED
      BY <1>5, <3>1, <3>2, <3>3
  <2> QED
    BY <2>1, <2>4 DEF ExitInv
<1>6. CASE HandleExit
  <2>1. /\ mode = "exited" /\ mode' = mode /\ reason' = reason
        /\ shown'.failed = (31 \in reason.flags)
    BY <1>6, ExitReasonPlaces DEF HandleExit
  <2>2. (31 \in reason.flags) <=> (reason \in FailedEntries)
    BY <2>1, Bit31 DEF ExitInv
  <2> QED
    BY <2>1, <2>2 DEF ExitInv
<1>7. CASE UNCHANGED vars
  BY <1>7 DEF vars, ExitInv
<1> QED
  BY <1>1, <1>2, <1>3, <1>4, <1>5, <1>6, <1>7 DEF Next

\* What vmexit_handler says of a failed entry is true of every exit: the bit that the
\* compiler gives to VMEntryFailure, behind the reserved fields, is the processor's.
THEOREM HandlerTells == Spec => []HandlerTellsEntry
<1>1. Init => ExitInv
  BY DEF Init, ExitInv, NoMessage
<1>2. ExitInv => HandlerTellsEntry
  BY DEF ExitInv, HandlerTellsEntry
<1> QED
  BY <1>1, <1>2, ExitStepInv, PTL DEF Spec
=============================================================================
