---------------------------- MODULE PopulateVmcs ----------------------------
(***************************************************************************)
(* PopulateActiveVMCS and the DumpVmcsGuestArea that ends it, one          *)
(* instruction at a time.                                                  *)
(*                                                                         *)
(* The function is a straight line of two kinds of step: it reads          *)
(* something of the processor it runs on into a local variable, or it      *)
(* writes a field of the current VMCS from constants and from locals.      *)
(* Nothing pins the thread, so a value may be read on one processor and    *)
(* written when the thread is back on the one that holds the VMCS; and the *)
(* region is not zeroed between calls, so that a field keeps what an       *)
(* earlier call wrote.  A value is therefore abstracted to its provenance: *)
(* the field it was meant for, the call that wrote it, the processors that *)
(* its sources were read on, and how many of its bits were kept.           *)
(***************************************************************************)
EXTENDS VmcsFields, NtStatus

CONSTANTS
    Cpus,             \* logical processors
    MaxCalls,         \* bound on the calls, one after another
    SecondaryCpus,    \* those that have IA32_VMX_PROCBASED_CTLS2
    MaxMoves,         \* bound on the moves of the thread in one call
    UnsupportedSets   \* the sets of encodings of which this machine may lack one

ASSUME CpusAssumption   == Cpus # {}
ASSUME BoundsAssumption == MaxCalls \in Nat /\ MaxMoves \in Nat

-----------------------------------------------------------------------------
(* The steps of PopulateActiveVMCS *)

NoField == <<"none", "none", "none">>

\* The variables that hold what was read: the adjusted controls, the selectors
\* and descriptor tables, the descriptor last read, registers and MSRs.
Locals == {"basic", "secondary", "pin", "primary", "exit", "entry_controls", "selectors", "gdtr",
           "idtr", "entry", "gsbase", "cr0", "cr4", "hostcr", "dr7", "syscs", "sysesp", "syseip"}

\* The steps of the function.
Ops == {"read", "or", "assign"}
Names == {"control", "guest", "host", "none"}
         \X {"none", "es", "cs", "ss", "ds", "fs", "gs", "ldtr", "tr", "gdtr", "idtr", "cr0", "cr3",
             "cr4", "dr7", "rsp", "rip", "rflags", "sysenter_cs", "sysenter_esp", "sysenter_eip",
             "vmcs_link", "activity", "interruptibility", "pending_debug", "pin", "primary",
             "secondary", "exit", "entry", "exception_bitmap"}
         \X {"none", "value", "selector", "limit", "access", "base", "mask", "shadow"}
Steps == [op : Ops, local : Locals \cup {"none"}, from : SUBSET Locals, field : Names,
          width : {"none", "16", "32", "natural", "64"}]

\* local := something of this processor (and of the locals in from).
Read(local, from) ==
    [op |-> "read", local |-> local, from |-> from, field |-> NoField, width |-> "none"]

\* status |= WriteVMCSField<width>(field, a value of the locals in from), and
\* the one write whose result is assigned to status.
Put(width, field, from) ==
    [op |-> "or", local |-> "none", from |-> from, field |-> field, width |-> width]
PutAssign(width, field, from) == [Put(width, field, from) EXCEPT !.op = "assign"]

Control(name) == <<"control", name, "value">>
Guest(name)   == <<"guest", name, "value">>
Host(name)    == <<"host", name, "value">>

\* ModifyControlValue(an MSR that may depend on IA32_VMX_BASIC), then the write.
AdjustAndPut(local, name, from) ==
    <<Read(local, from), Put("32", Control(name), {local})>>

\* The guest's part of a segment without its base.
SegmentStart(s) ==
    << Read("entry", {"gdtr", "selectors"}),
       Put("16", <<"guest", s, "selector">>, {"selectors"}),
       Put("32", <<"guest", s, "limit">>, {"entry"}),
       Put("32", <<"guest", s, "access">>, {"entry"}) >>

GuestBase(s)    == <<Put("natural", <<"guest", s, "base">>, {"entry"})>>
HostBase(s)     == <<Put("natural", <<"host", s, "base">>, {"entry"})>>
HostSelector(s) == <<Put("16", <<"host", s, "selector">>, {"selectors"})>>

Ldtr == SegmentStart("ldtr") \o GuestBase("ldtr")

ControlsBefore ==
    << Read("basic", {}), Put("64", Guest("vmcs_link"), {}) >>
    \o AdjustAndPut("secondary", "secondary", {})
    \o AdjustAndPut("pin", "pin", {"basic"})
    \o AdjustAndPut("primary", "primary", {"basic"})
    \o << Put("32", Control("exception_bitmap"), {}) >>
    \o AdjustAndPut("exit", "exit", {"basic"})
    \o AdjustAndPut("entry_controls", "entry", {"basic"})
    \o << Put("32", Guest("activity"), {}), Put("32", Guest("interruptibility"), {}) >>

Controls == ControlsBefore \o << PutAssign("natural", Guest("pending_debug"), {}) >>

Flat(s) == SegmentStart(s) \o GuestBase(s) \o HostSelector(s)

\* GS's bases are the MSR's, read in the argument of each write.
SegmentGroup ==
    << Read("selectors", {}), Read("gdtr", {}), Read("idtr", {}) >>
    \o Flat("cs") \o Flat("ss") \o Flat("ds") \o Flat("es")
    \o SegmentStart("fs") \o GuestBase("fs") \o HostBase("fs") \o HostSelector("fs")
    \o SegmentStart("gs")
    \o << Read("gsbase", {}), Put("natural", <<"guest", "gs", "base">>, {"gsbase"}),
          Read("gsbase", {}), Put("natural", <<"host", "gs", "base">>, {"gsbase"}) >>
    \o HostSelector("gs")
    \o SegmentStart("tr") \o GuestBase("tr") \o HostBase("tr") \o HostSelector("tr")
    \o Ldtr
    \o << Put("32", <<"guest", "gdtr", "limit">>, {"gdtr"}),
          Put("natural", <<"guest", "gdtr", "base">>, {"gdtr"}),
          Put("natural", <<"host", "gdtr", "base">>, {"gdtr"}) >>

InterruptTable ==
    << Put("32", <<"guest", "idtr", "limit">>, {"idtr"}),
       Put("natural", <<"guest", "idtr", "base">>, {"idtr"}),
       Put("natural", <<"host", "idtr", "base">>, {"idtr"}) >>

Cr0 ==
    << Put("natural", Guest("cr0"), {"cr0"}),
       Read("hostcr", {}), Put("natural", Host("cr0"), {"hostcr"}),
       Put("natural", <<"control", "cr0", "mask">>, {}),
       Put("natural", <<"control", "cr0", "shadow">>, {"cr0"}) >>

Cr4 ==
    << Put("natural", Guest("cr4"), {"cr4"}),
       Read("hostcr", {}), Put("natural", Host("cr4"), {"hostcr"}),
       Put("natural", <<"control", "cr4", "mask">>, {}),
       Put("natural", <<"control", "cr4", "shadow">>, {"cr4"}) >>

Sysenter ==
    << Read("syscs", {}), Read("sysesp", {}), Read("syseip", {}),
       Put("32", Host("sysenter_cs"), {"syscs"}), Put("32", Guest("sysenter_cs"), {"syscs"}),
       Put("natural", Guest("sysenter_esp"), {"sysesp"}),
       Put("natural", Guest("sysenter_eip"), {"syseip"}),
       Put("natural", Host("sysenter_esp"), {"sysesp"}),
       Put("natural", Host("sysenter_eip"), {"syseip"}) >>

\* CR3, RFLAGS and the stacks go with the thread, not with the processor.
Registers ==
    InterruptTable
    \o << Read("cr0", {}), Read("cr4", {}) >>
    \o Cr0
    \o << Put("natural", Guest("cr3"), {}), Put("natural", Host("cr3"), {}) >>
    \o Cr4
    \o << Read("dr7", {}), Put("natural", Guest("dr7"), {"dr7"}),
          Put("natural", Guest("rsp"), {}), Put("natural", Guest("rip"), {}),
          Put("natural", Guest("rflags"), {}),
          Put("natural", Host("rsp"), {}), Put("natural", Host("rip"), {}) >>
    \o Sysenter

Program == Controls \o SegmentGroup \o Registers

\* The enumerator of vmcs_field_index.h.
Code(f) == VmcsField[f].code

\* The fields that populating writes.
Written == {Program[i].field : i \in DOMAIN Program} \ {NoField}

\* The last steps of the first two parts.
EndOfControls == Len(Controls)
EndOfSegments == Len(Controls) + Len(SegmentGroup)
EndOfProgram  == Len(Program)

-----------------------------------------------------------------------------
(* The steps of DumpVmcsGuestArea *)

\* ReadVMCSFieldGeneric(field, &value_<width>), printed with the name of label.
Show(width, label, field) == [width |-> width, label |-> label, field |-> field]
ShowAll(width, fields) == [i \in DOMAIN fields |-> Show(width, fields[i], fields[i])]
Values(names) == Named("guest", "value", names)

\* A dump that reads the access rights into the 16-bit variable.
BadAccessRights == ShowAll("16", Named("guest", "access", Segments))

AccessRights == ShowAll("32", Named("guest", "access", Segments))

Dump ==
    ShowAll("16", Named("guest", "selector", Segments))
    \o << Show("64", <<"exit", "guest_physical_address", "value">>,
                     <<"exit", "guest_physical_address", "value">>) >>
    \o ShowAll("64", Values(<<"vmcs_link", "debugctl", "pat", "efer", "perf_global",
                              "pdpte0", "pdpte1", "pdpte2", "pdpte3">>))
    \o ShowAll("32", Named("guest", "limit", Segments \o Tables))
    \o AccessRights
    \o ShowAll("32", Values(<<"interruptibility", "activity", "smbase", "sysenter_cs">>))
    \o ShowAll("64", Values(<<"cr0", "cr3", "cr4">>))
    \o ShowAll("64", Named("guest", "base", Segments \o Tables))
    \o ShowAll("64", Values(<<"dr7", "rsp", "rip", "rflags", "pending_debug">>))
    \o << Show("64", Guest("sysenter_esp"), Guest("sysenter_eip")),
          Show("64", Guest("sysenter_eip"), Guest("sysenter_esp")) >>

-----------------------------------------------------------------------------
VARIABLES
    stage,        \* "idle", "populate", "dump", "done"
    step,         \* the step of Program or Dump that comes next
    cpu,          \* the processor the thread runs on
    home,         \* the processor on which this call loaded the VMCS
    calls, moves, \* calls so far, moves of this call
    known,        \* known[l]: the processors that l's value was read on
    vmcs,         \* vmcs[e]: the provenance of what the field encoded e holds
    unsupported,  \* the encodings that the processors do not have
    failed,       \* history: the steps of this call whose VMWRITE failed
    status,
    said,         \* "Something went wrong" was printed
    shown,        \* shown[w]: the provenance of value_<w> of the dump
    crash

vars == <<stage, step, cpu, home, calls, moves, known, vmcs, unsupported, failed, status, said,
          shown, crash>>

\* The fields that the driver writes or shows.
Encodings == {Code(f) : f \in Written \cup {Dump[i].field : i \in DOMAIN Dump}}

\* What a field of the zeroed region holds, and value_16, value_32, value_64.
Zero == [field |-> NoField, call |-> 0, cpus |-> {}, width |-> "16"]

\* A value of width v put into, or taken out of, something of width w.
Bits == [w \in {"16", "32", "64", "natural"} |->
            CASE w = "16" -> 16 [] w = "32" -> 32 [] OTHER -> 64]
Cut(v, w) == IF Bits[v] <= Bits[w] THEN v ELSE w

Init ==
    /\ stage = "idle"
    /\ step = 1
    /\ cpu \in Cpus
    /\ home = cpu
    /\ calls = 0 /\ moves = 0
    /\ known = [l \in Locals |-> {}]
    /\ vmcs = [e \in Encodings |-> Zero]
    /\ unsupported \in UnsupportedSets
    /\ failed = {}
    /\ status = STATUS_SUCCESS
    /\ said = FALSE
    /\ shown = [w \in {"16", "32", "64"} |-> Zero]
    /\ crash = "none"

\* InitializeVMCS has loaded the VMCS on c; an earlier call has come back.
Begin(c) ==
    /\ crash = "none"
    /\ stage \in {"idle", "done"}
    /\ calls < MaxCalls
    /\ stage' = "populate"
    /\ step' = 1
    /\ cpu' = c /\ home' = c
    /\ calls' = calls + 1 /\ moves' = 0
    /\ known' = [l \in Locals |-> {}]
    /\ failed' = {}
    /\ status' = STATUS_SUCCESS
    /\ said' = FALSE
    /\ shown' = [w \in {"16", "32", "64"} |-> Zero]
    /\ UNCHANGED <<vmcs, unsupported, crash>>

Running == crash = "none" /\ stage = "populate" /\ step <= EndOfProgram

Sources(from) == UNION {known[l] : l \in from}

\* GDTR's value is kept from the processor that the driver was loaded on.
BadSeen(l, here) == IF l = "gdtr" THEN CHOOSE c \in Cpus : TRUE ELSE here

\* The processor that a read of l on here finds its value on.
Seen(l, here) == here

\* A read of the processor's state, or of the descriptor that a selector names.
ReadLocal ==
    LET now == Program[step] IN
    /\ Running
    /\ now.op = "read"
    /\ now.local = "secondary" => cpu \in SecondaryCpus
    /\ known' = [known EXCEPT ![now.local] = {Seen(now.local, cpu)} \cup Sources(now.from)]
    /\ step' = step + 1
    /\ UNCHANGED <<stage, cpu, home, calls, moves, vmcs, unsupported, failed, status, said, shown,
                   crash>>

\* VMREAD and VMWRITE fail for a field that the processor does not have, and
\* VMWRITE for VM-exit information.
Refuses(e) == e \in unsupported

\* Every write assigns status.
BadStatusAfter(op, old, result) == result

\* status |= result or status = result.
StatusAfter(op, old, result) == IF op = "assign" THEN result ELSE OrStatus(old, result)

\* A failed VMWRITE is reported through status and printed; populating goes on.
WriteField ==
    LET now == Program[step]
        code == Code(now.field)
        ok == ~Refuses(code) /\ HwArea(code) # "exit"
    IN
    /\ Running
    /\ now.op # "read"
    /\ cpu = home
    /\ vmcs' = IF ok
               THEN [vmcs EXCEPT ![code] =
                        [field |-> now.field, call |-> calls, cpus |-> Sources(now.from),
                         width |-> Cut(now.width, HwWidth(code))]]
               ELSE vmcs
    /\ failed' = IF ok THEN failed ELSE failed \cup {step}
    /\ status' = StatusAfter(now.op, status, IF ok THEN STATUS_SUCCESS ELSE STATUS_FAILED_VMWRITE)
    /\ step' = step + 1
    /\ UNCHANGED <<stage, cpu, home, calls, moves, known, unsupported, said, shown, crash>>

EndPopulate ==
    /\ crash = "none"
    /\ stage = "populate" /\ step > EndOfProgram
    /\ stage' = "dump"
    /\ step' = 1
    /\ UNCHANGED <<cpu, home, calls, moves, known, vmcs, unsupported, failed, status, said, shown,
                   crash>>

\* The dump ignores the status of a read, and STATUS_FAILED_VMREAD counts as a
\* success: after a failed read it shows the zero that the reading began with.
ShowField ==
    LET now == Dump[step] IN
    /\ crash = "none"
    /\ stage = "dump" /\ step \in DOMAIN Dump
    /\ cpu = home
    /\ shown' = [shown EXCEPT ![now.width] =
                    IF Refuses(Code(now.field)) THEN Zero
                    ELSE [vmcs[Code(now.field)] EXCEPT !.width = Cut(@, now.width)]]
    /\ step' = step + 1
    /\ UNCHANGED <<stage, cpu, home, calls, moves, known, vmcs, unsupported, failed, status, said,
                   crash>>

Return ==
    /\ crash = "none"
    /\ stage = "dump" /\ step \notin DOMAIN Dump
    /\ stage' = "done"
    /\ said' = (status # STATUS_SUCCESS)
    /\ UNCHANGED <<step, cpu, home, calls, moves, known, vmcs, unsupported, failed, status, shown,
                   crash>>

\* The scheduler moves the thread to another processor.
Migrate(c) ==
    /\ crash = "none"
    /\ stage \in {"populate", "dump"}
    /\ moves < MaxMoves
    /\ c # cpu
    /\ cpu' = c
    /\ moves' = moves + 1
    /\ UNCHANGED <<stage, step, home, calls, known, vmcs, unsupported, failed, status, said, shown,
                   crash>>

\* #UD of VMREAD and VMWRITE where this call did not enter VMX operation; #GP
\* of reading the MSR of the secondary controls where there is none.
Fault ==
    /\ crash = "none"
    /\ \/ /\ Running /\ Program[step].op # "read" /\ cpu # home
          /\ crash' = "UD"
       \/ /\ stage = "dump" /\ step \in DOMAIN Dump /\ cpu # home
          /\ crash' = "UD"
       \/ /\ Running /\ Program[step].local = "secondary" /\ Program[step].op = "read"
          /\ cpu \notin SecondaryCpus
          /\ crash' = "GP"
    /\ UNCHANGED <<stage, step, cpu, home, calls, moves, known, vmcs, unsupported, failed, status,
                   said, shown>>

Next ==
    \/ ReadLocal
    \/ WriteField
    \/ EndPopulate
    \/ ShowField
    \/ Return
    \/ Fault
    \/ \E c \in Cpus : Begin(c) \/ Migrate(c)

Spec == Init /\ [][Next]_vars

-----------------------------------------------------------------------------
(* Properties *)

ProvenanceOK(v) ==
    /\ v.field \in Names
    /\ v.call \in 0 .. MaxCalls
    /\ v.cpus \subseteq Cpus

\* Every variable has its type; status is STATUS_SUCCESS or STATUS_FAILED_VMWRITE.
TypeOK ==
    /\ stage \in {"idle", "populate", "dump", "done"}
    /\ step \in Nat \ {0}
    /\ cpu \in Cpus /\ home \in Cpus
    /\ calls \in 0 .. MaxCalls /\ moves \in 0 .. MaxMoves
    /\ known \in [Locals -> SUBSET Cpus]
    /\ DOMAIN vmcs = Encodings /\ \A e \in Encodings : ProvenanceOK(vmcs[e])
    /\ unsupported \in UnsupportedSets
    /\ failed \subseteq DOMAIN Program
    /\ status \in {STATUS_SUCCESS, STATUS_FAILED_VMWRITE}
    /\ said \in BOOLEAN
    /\ DOMAIN shown = {"16", "32", "64"} /\ \A w \in DOMAIN shown : ProvenanceOK(shown[w])
    /\ crash \in {"none", "UD", "GP"}

\* What VM entry and VM exit take from the VMCS of this guest and do not accept
\* as zero, or would load as zero into the processor.  (The counts of MSRs and of
\* CR3 targets are not among them: a zero count is accepted and means none.)
EntryNeeds ==
    {Control(n) : n \in {"pin", "primary", "secondary", "exit", "entry", "exception_bitmap"}}
    \cup {Guest(n) : n \in {"vmcs_link", "activity", "interruptibility", "pending_debug", "cr0",
                            "cr3", "cr4", "dr7", "debugctl", "rsp", "rip", "rflags",
                            "sysenter_cs", "sysenter_esp", "sysenter_eip"}}
    \cup {Host(n) : n \in {"cr0", "cr3", "cr4", "rsp", "rip", "sysenter_cs", "sysenter_esp",
                           "sysenter_eip"}}
    \cup ({"guest"} \X Range(Segments) \X {"selector", "limit", "access", "base"})
    \cup ({"guest"} \X Range(Tables) \X {"limit", "base"})
    \cup {<<"host", s, "selector">> : s \in Range(Segments) \ {"ldtr"}}
    \cup {<<"host", r, "base">> : r \in {"fs", "gs", "tr", "gdtr", "idtr"}}

\* The field of it whose write is commented out: IA32_DEBUGCTL, which the control
\* that loads DR7 loads too.
LeftOut == {Guest("debugctl")}

FailedFields == {Program[i].field : i \in failed}

\* When populating is over, every field that the guest and the VM exit need but
\* one holds, under its own encoding and with all its bits, the value that this
\* call meant for it: none is left from an earlier call on another processor,
\* overwritten under another's encoding or cut by its writer, unless the
\* processor refused the write.  The one is the guest's IA32_DEBUGCTL: no call
\* writes it, under its own name or another's, so that a VM entry that loads the
\* debug controls always loads the zero of the allocated region beside the
\* processor's DR7.
EntryStateComplete ==
    (crash = "none" /\ stage \in {"dump", "done"}) =>
        \A f \in EntryNeeds \ FailedFields :
            LET held == vmcs[Code(f)] IN
            IF f \in LeftOut THEN held = Zero
            ELSE /\ held.field = f
                 /\ held.call = calls
                 /\ Bits[held.width] >= Bits[VmcsField[f].width]

\* The VMCS mixes the state of two processors only if the thread was moved
\* away and back during the call: one move ends in #UD at the next VMWRITE.
MixingNeedsMoves ==
    moves < 2 => \A e \in DOMAIN vmcs : vmcs[e].call = calls => vmcs[e].cpus \subseteq {home}

\* Populating comes back with a failure exactly if a VMWRITE failed from the
\* pending debug exceptions on, whose result is assigned to status; what
\* failed before leaves no trace.
StatusTellsLate ==
    stage \in {"dump", "done"} =>
        (status # STATUS_SUCCESS
            <=> \E i \in failed : \A j \in i + 1 .. EndOfProgram : Program[j].op # "assign")

\* Each line of the dump shows, whole, what the field it names holds, whenever
\* the field can be read, except that the two SYSENTER addresses stand under one
\* another's names.
DumpShowsWhole ==
    (stage = "dump" /\ step > 1) =>
        LET last == Dump[step - 1]
            sysenter == {Guest("sysenter_esp"), Guest("sysenter_eip")}
        IN
        \/ Refuses(Code(last.field))
        \/ /\ shown[last.width] = vmcs[Code(last.field)]
           /\ IF last.label \in sysenter
              THEN last.field \in sysenter \ {last.label}
              ELSE last.field = last.label

\* PopulateVmcs implements PopulateBlocks, which is how EnterVmx models it.
\* A part is written once its last step is behind and none of its steps failed.
BlocksStage ==
    IF crash # "none" THEN "stopped"
    ELSE IF stage # "populate" THEN stage
    ELSE IF step <= EndOfControls THEN "controls"
    ELSE IF step <= EndOfSegments THEN "segments"
    ELSE IF step <= EndOfProgram THEN "registers" ELSE "dump"

BlockOf(i) == IF i <= EndOfControls THEN "controls"
              ELSE IF i <= EndOfSegments THEN "segments" ELSE "registers"

Over == {"dump", "done"}
Behind ==
    IF stage \in Over THEN {"controls", "segments", "registers"}
    ELSE IF stage = "idle" THEN {}
    ELSE (IF step > EndOfControls THEN {"controls"} ELSE {})
         \cup (IF step > EndOfSegments THEN {"segments"} ELSE {})
         \cup (IF step > EndOfProgram THEN {"registers"} ELSE {})

BlocksWritten == {b \in Behind : \A i \in failed : BlockOf(i) # b}

\* The status as it was after the last part that is behind.
BlocksStatus ==
    IF stage \in Over THEN status
    ELSE IF \E i \in failed : i >= EndOfControls /\ BlockOf(i) \in Behind
    THEN STATUS_FAILED_VMWRITE ELSE STATUS_SUCCESS

Blocks == INSTANCE PopulateBlocks WITH
    stage <- BlocksStage, written <- BlocksWritten, status <- BlocksStatus

BlocksImplemented == Blocks!Spec
=============================================================================
