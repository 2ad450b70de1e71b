------------------------------ MODULE Segments ------------------------------
(***************************************************************************)
(* The segment registers on their way into the VMCS: LoadSegmentSelectors, *)
(* ReadGDTEntry and the segment part of PopulateActiveVMCS, up to the      *)
(* checks that VM entry makes of them.                                     *)
(*                                                                         *)
(* A selector is an entry's number, the table indicator and the requested  *)
(* privilege level.  A base is its four pieces base0, base1, base2, base3; *)
(* a limit is its low 12 and its high 20 bits.  The selectors of DS, ES,   *)
(* FS and GS are those that the calling program left in the registers.     *)
(***************************************************************************)
EXTENDS BitLayouts, FiniteSets

Registers == {"cs", "ss", "ds", "es", "fs", "gs", "tr", "ldtr"}

CONSTANTS
    Gdt,        \* Gdt[i]: the system's descriptor number i
    Loadable,   \* Loadable[r]: the selectors that r may hold
    GsBase,     \* IA32_GS_BASE in the kernel
    FsBases,    \* what WRFSBASE may have put into FS's base
    Leftovers,  \* what RAX may hold when LAR fails, shifted right by 8
    Undefined   \* Undefined[i]: what LAR may leave in bits 19:16 for descriptor i

Selector == [index : DOMAIN Gdt, ti : {0, 1}, rpl : 0 .. 3]
IsNull(s) == s.index = 0 /\ s.ti = 0
IsZero(s) == IsNull(s) /\ s.rpl = 0

\* kRplMask == 3: the table indicator stays.
WithoutRpl(s) == [s EXCEPT !.rpl = 0]

\* The system's table: no local descriptor table, its own code and TSS, flat
\* data; a system descriptor takes two places, the second of which begins with
\* the high half of its base.
GdtAssumption ==
    /\ 0 \in DOMAIN Gdt /\ Gdt[0].base = <<0, 0, 0>> /\ Gdt[0].system = 0
    /\ 1 \in DOMAIN Gdt /\ Gdt[1].dword = 0
    /\ \A r \in Registers : \A s \in Loadable[r] :
           /\ s \in Selector /\ s.ti = 0
           /\ r \in {"cs", "ss", "tr"} => ~IsNull(s) /\ s.rpl = 0
           /\ r = "ldtr" => IsNull(s) /\ s.rpl = 0
           /\ Gdt[s.index].system = IF IsNull(s) \/ r = "tr" THEN 0 ELSE 1
           /\ s.index + 1 \in DOMAIN Gdt
ASSUME GdtIsTheSystems == GdtAssumption

\* Four bits, of which the manual says nothing; in practice the limit's.
ASSUME UndefinedAssumption ==
    \A i \in DOMAIN Gdt : Undefined[i] \subseteq 0 .. 15 /\ Undefined[i] # {}

VARIABLES
    next,      \* the place in Order of the register that comes next
    selector,  \* segment_selector: what the registers hold
    fsbase,    \* the base that FS has
    entry,     \* current_entry, which one segment leaves to the next
    guest,     \* guest[r]: the guest's selector, limit, access rights and base of r
    host,      \* host[r]: the host's selector and base of r
    outcome    \* "none", "entered", "refused"

segmentVars == <<next, selector, fsbase, entry, guest, host, outcome>>

-----------------------------------------------------------------------------
(* What the processor knows of a segment *)

NoAccess == [type |-> 0, system |-> 0, dpl |-> 0, present |-> 0, reserved |-> 0,
             l |-> 0, d |-> 0, g |-> 0, unusable |-> 0]

\* What is defined of LAR's result, without its low byte.
LarShifted(s) ==
    LET d == Gdt[s.index]
    IN  [type |-> d.type, system |-> d.system, dpl |-> d.dpl, present |-> d.present,
         reserved |-> 0, l |-> d.l, d |-> d.d, g |-> d.g, unusable |-> 0]

\* LSL: the limit in bytes.
SegmentLimit(s) ==
    LET d == Gdt[s.index]
    IN  IF d.g = 1 THEN [low |-> 4095, high |-> d.limit]
        ELSE [low |-> d.limit % 4096, high |-> d.limit \div 4096]

NoLimit == [low |-> 0, high |-> 0]

\* The base in the register: all pieces of a system descriptor's, and 32 bits
\* of another's.
BaseOf(s) ==
    LET d == Gdt[s.index]
    IN  Append(d.base, IF d.system = 0 /\ ~IsNull(s) THEN Gdt[s.index + 1].dword ELSE 0)

RegisterBase(r) == IF r = "fs" THEN fsbase ELSE IF r = "gs" THEN GsBase ELSE BaseOf(selector[r])

-----------------------------------------------------------------------------
(* ReadGDTEntry *)

Empty == [limit |-> NoLimit, access |-> NoAccess, base |-> <<0, 0, 0, 0>>]

\* The "LDT" branch.
TakesLdtBranch(s) == s.rpl = 1

\* LAR and LSL fail on a null selector and leave what there was.  The undefined
\* bits of LAR's result come to stand where VM entry wants zeros; the lines that
\* would clear them are commented out.
Limits(s) == IF IsNull(s) THEN {SegmentLimit(s), [low |-> 1, high |-> 0]} ELSE {SegmentLimit(s)}
Accesses(s) ==
    IF IsNull(s) THEN Leftovers
    ELSE {[LarShifted(s) EXCEPT !.reserved = n] : n \in Undefined[s.index]}

\* A reading that takes base3 for the descriptors that do not have it.
BadBase(s) ==
    LET d == Gdt[s.index]
    IN  Append(d.base, IF d.system = 1 THEN Gdt[s.index + 1].dword ELSE 0)

\* base3 is the first half of the next descriptor, whose value is part of the
\* base if this one is a system descriptor (or the null descriptor).
Base(s) ==
    LET d == Gdt[s.index]
    IN  Append(d.base, IF d.system = 0 THEN Gdt[s.index + 1].dword ELSE 0)

\* A reading that does not zero the entry first.
BadReadGDTEntry(s, old) ==
    IF TakesLdtBranch(s) THEN {old}
    ELSE {[limit |-> l, access |-> a, base |-> Base(s)] :
              l \in Limits(s), a \in IF IsZero(s) THEN {[old.access EXCEPT !.unusable = 1]}
                                     ELSE Accesses(s)}

\* The entries that reading s may leave where old was.
ReadGDTEntry(s, old) ==
    IF TakesLdtBranch(s) THEN {Empty}
    ELSE {[limit |-> l, access |-> a, base |-> Base(s)] :
              l \in Limits(s), a \in IF IsZero(s) THEN {[NoAccess EXCEPT !.unusable = 1]}
                                     ELSE Accesses(s)}

-----------------------------------------------------------------------------
(* PopulateActiveVMCS *)

Order == <<"cs", "ss", "ds", "es", "fs", "gs", "tr", "ldtr">>
Unset == [selector |-> "unset", base |-> "unset"]

SegmentInit ==
    /\ next = 1
    /\ selector \in [cs : Loadable["cs"], ss : Loadable["ss"], ds : Loadable["ds"],
                    es : Loadable["es"], fs : Loadable["fs"], gs : Loadable["gs"],
                    tr : Loadable["tr"], ldtr : Loadable["ldtr"]]
    /\ fsbase \in FsBases \cup {BaseOf(selector["fs"])}
    /\ entry = Empty
    /\ guest = <<>> /\ host = <<>>
    /\ outcome = "none"

\* The host has no LDTR; only FS, GS and TR have a base in the host's area.
\* The host's selector keeps the privilege level.
BadHostSegment(r, e) == [selector |-> selector[r],
                         base |-> IF r \in {"fs", "tr"} THEN e.base
                                  ELSE IF r = "gs" THEN GsBase ELSE <<0, 0, 0, 0>>]
HostSegment(r, e) == [selector |-> WithoutRpl(selector[r]),
                      base |-> IF r \in {"fs", "tr"} THEN e.base
                               ELSE IF r = "gs" THEN GsBase ELSE <<0, 0, 0, 0>>]

\* A populating that gives the host an LDTR.
BadHasHost(r) == TRUE

HasHost(r) == r # "ldtr"

LoadSegment ==
    /\ next \in DOMAIN Order
    /\ LET r == Order[next]
       IN  /\ entry' \in ReadGDTEntry(selector[r], entry)
           /\ guest' = [x \in DOMAIN guest \cup {r} |->
                            IF x # r THEN guest[x]
                            ELSE [selector |-> selector[r], limit |-> entry'.limit,
                                  access |-> entry'.access,
                                  base |-> IF r = "gs" THEN GsBase ELSE entry'.base]]
           /\ host' = IF ~HasHost(r) THEN host
                      ELSE [x \in DOMAIN host \cup {r} |->
                                IF x # r THEN host[x] ELSE HostSegment(r, entry')]
    /\ next' = next + 1
    /\ UNCHANGED <<selector, fsbase, outcome>>

-----------------------------------------------------------------------------
(* VM entry (the processor's checks of a 64-bit guest's segments) *)

Usable(g) == g.access.unusable = 0

GranularityFits(g) ==
    /\ g.limit.low # 4095 => g.access.g = 0
    /\ g.limit.high >= 256 => g.access.g = 1

Ordinary(g) == g.access.system = 1 /\ g.access.present = 1 /\ g.access.reserved = 0
               /\ GranularityFits(g)

\* An address in the lower or in the upper half, by its high 32 bits.
KernelHalf == 9
Canonical(base) == base[4] \in {0, KernelHalf}

\* A limit has 20 bits.
LimitField == {n \in Nat : n \div 4096 < 256}

\* What the processor demanded of a descriptor when a register was loaded from it
\* (a code, data or TSS descriptor of the right type, present, accessed or busy, of
\* no higher privilege than the selector asks for), and what the kernel loads: 64-bit
\* code and a stack of level 0, a TSS and GS's structures at canonical addresses.
LoadedAssumption ==
    /\ \A i \in DOMAIN Gdt :
           Gdt[i].base \in Seq(Nat) /\ Len(Gdt[i].base) = 3 /\ Gdt[i].dword \in Nat
    /\ \A r \in Registers : \A s \in Loadable[r] : ~IsNull(s) =>
           LET d == Gdt[s.index]
           IN  /\ d.present = 1 /\ d.g \in {0, 1} /\ d.limit \in LimitField
               /\ r = "cs" => d.type \in {9, 11, 13, 15} /\ d.dpl = 0 /\ ~(d.l = 1 /\ d.d = 1)
               /\ r = "ss" => d.type \in {3, 7} /\ d.dpl = 0
               /\ r = "tr" => d.type = 11 /\ Gdt[s.index + 1].dword \in {0, KernelHalf}
               /\ r \in {"ds", "es", "fs", "gs"} => /\ d.type \in {1, 3, 5, 7, 11, 15}
                                                  /\ (d.type < 12 => d.dpl >= s.rpl)
    /\ Canonical(GsBase)
ASSUME LoadedIsLoadable == LoadedAssumption

Accepted(r) ==
    LET g == guest[r]
        a == g.access
    IN  CASE r = "cs" -> /\ Usable(g) /\ Ordinary(g) /\ a.type \in {9, 11, 13, 15}
                         /\ a.dpl = guest["ss"].access.dpl /\ ~(a.l = 1 /\ a.d = 1)
                         /\ g.base[4] = 0
          [] r = "ss" -> /\ Usable(g) => Ordinary(g) /\ a.type \in {3, 7} /\ g.base[4] = 0
                         /\ a.dpl = g.selector.rpl
                         /\ g.selector.rpl = guest["cs"].selector.rpl
          [] r \in {"ds", "es", "fs", "gs"} ->
                 /\ Usable(g) => /\ Ordinary(g)
                                 /\ a.type \in {1, 3, 5, 7, 11, 15}
                                 /\ a.type < 12 => a.dpl >= g.selector.rpl
                 /\ IF r \in {"fs", "gs"} THEN Canonical(g.base)
                    ELSE Usable(g) => g.base[4] = 0
          [] r = "tr" -> /\ Usable(g) /\ a.type = 11 /\ a.system = 0 /\ a.present = 1
                         /\ a.reserved = 0 /\ GranularityFits(g)
                         /\ g.selector.ti = 0 /\ Canonical(g.base)
          [] r = "ldtr" -> Usable(g) => a.type = 2 /\ a.system = 0 /\ a.present = 1
                                        /\ a.reserved = 0 /\ g.selector.ti = 0

VmEntry ==
    /\ next = Len(Order) + 1
    /\ outcome = "none"
    /\ outcome' = IF \A r \in Registers : Accepted(r) THEN "entered" ELSE "refused"
    /\ UNCHANGED <<next, selector, fsbase, entry, guest, host>>

SegmentNext == LoadSegment \/ VmEntry

SegmentSpec == SegmentInit /\ [][SegmentNext]_segmentVars

-----------------------------------------------------------------------------
(* Properties *)

\* A selector on which ReadGDTEntry tells the truth: not the level that is taken
\* for a table indicator, and not a null selector with another level than 0.
Plain(s) == s.rpl # 1 /\ (IsNull(s) => s.rpl = 0)

\* The registers before the next one are in the VMCS, the shared entry is an
\* entry, and the processor takes the result or does not.
SegmentTypeOK ==
    /\ next \in 1 .. Len(Order) + 1
    /\ DOMAIN guest = {Order[i] : i \in 1 .. next - 1}
    /\ DOMAIN host = DOMAIN guest \ {"ldtr"}
    /\ \A r \in Registers : selector[r] \in Loadable[r]
    /\ outcome \in {"none", "entered", "refused"}

\* The guest continues with the caller's segments: what the VMCS has of a
\* register with a plain selector is what the processor has, but for the reserved
\* bits, and nothing of the segment read before; the base of FS only if WRFSBASE
\* did not change it.
GuestSegmentsTrue ==
    \A r \in DOMAIN guest : Plain(selector[r]) =>
        /\ guest[r].selector = selector[r]
        /\ IF IsNull(selector[r]) THEN guest[r].access = [NoAccess EXCEPT !.unusable = 1]
           ELSE /\ [guest[r].access EXCEPT !.reserved = 0] = LarShifted(selector[r])
                /\ guest[r].limit = SegmentLimit(selector[r])
        /\ (r # "fs" \/ fsbase = BaseOf(selector["fs"])) => guest[r].base = RegisterBase(r)

\* A VM exit is not refused by the host's segments: no selector has a privilege
\* level or a table indicator, CS and TR are not null, and the bases are those
\* that the kernel needs to find its processor's structures and its TSS.
HostSegmentsSound ==
    \A r \in DOMAIN host :
        /\ host[r].selector.rpl = 0 /\ host[r].selector.ti = 0
        /\ r \in {"cs", "tr"} => ~IsNull(host[r].selector)
        /\ r \in {"gs", "tr"} => host[r].base = RegisterBase(r)

\* The guest goes on with its caller's segments, and a VM exit finds the host's.
SegmentsSound == GuestSegmentsTrue /\ HostSegmentsSound

\* Whether VM entry takes the segments depends on the selectors that the caller
\* left in DS, ES, FS and GS and on the undefined bits of LAR, and on nothing else:
\* with plain selectors and those bits zero it does; with a selector of level 1,
\* null or not, which the program may load, or with one of the bits set in a
\* usable segment, it never does.
EntryHangsOnSegments ==
    /\ outcome = "refused" =>
           \E r \in Registers : ~Plain(selector[r]) \/ guest[r].access.reserved # 0
    /\ outcome = "entered" =>
           \A r \in Registers :
               selector[r].rpl # 1 /\ (Usable(guest[r]) => guest[r].access.reserved = 0)
=============================================================================
