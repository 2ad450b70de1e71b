---------------------------- MODULE MCGuestEntry ----------------------------
(* Processors and the segments of a 64-bit Windows system for TLC. *)
EXTENDS GuestEntry

\* Of each word: a bit of the default1 class, which only a TRUE MSR lets be zero;
\* an optional bit (of the secondary controls: EPT); the bit that is asked for.
Default1(w) == CASE w = "pin" -> 1 [] w = "primary" -> 15 [] w = "exit" -> 2
                 [] w = "entry" -> 2 [] OTHER -> 0
Optional(w) == CASE w = "pin" -> 3 [] w = "primary" -> 7 [] w = "exit" -> 18
                 [] w = "entry" -> 14 [] OTHER -> 1
Asked(w) == CASE w = "primary" -> {31} [] w \in {"exit", "entry"} -> {9} [] OTHER -> {}

LowOf(w)       == IF w = "secondary" THEN {} ELSE {Default1(w)}
TrueLowOf(s)   == [w \in Words |-> IF w \in s THEN LowOf(w) ELSE {}]
HighOf(asked)  == [w \in Words |-> LowOf(w) \cup {Optional(w)}
                                   \cup (IF w \in asked THEN Asked(w) ELSE {})]

\* CR0: PE, NE and PG are needed; CR4: VMXE; SMEP may or may not be supported.
Processor(true, freed, asked, smx, locked, bits4) ==
    [true |-> true, low |-> [w \in Words |-> LowOf(w)], trueLow |-> TrueLowOf(freed),
     high |-> HighOf(asked), smx |-> smx, locked |-> locked,
     cr0 |-> {0, 31}, cr0Fixed0 |-> {0, 5, 31}, cr0Fixed1 |-> 0 .. 31,
     cr4 |-> bits4, cr4Fixed0 |-> {13}, cr4Fixed1 |-> {5, 13, 14, 18} \cup bits4]

\* Those that reach VM entry have SMX and no lock; the others fault before.
AllProcessors ==
    {Processor(t, s, a, TRUE, FALSE, c) :
        t \in BOOLEAN, s \in {{}, {"primary"}, {"pin", "exit", "entry"}},
        a \in {{"primary", "exit", "entry"}, {"primary", "entry"}}, c \in {{5}, {5, 18, 20}}}
    \cup {Processor(TRUE, {}, {"exit", "entry"}, x, l, {5}) : x \in BOOLEAN, l \in BOOLEAN}

Descriptor(type, system, dpl, limit, l, d, g) ==
    [base |-> <<0, 0, 0>>, dword |-> 0, limit |-> limit, type |-> type, system |-> system,
     dpl |-> dpl, present |-> 1, l |-> l, d |-> d, g |-> g]

Absent == [Descriptor(0, 0, 0, 0, 0, 0, 0) EXCEPT !.present = 0]

\* 0 null, 1 unused, 2 and 3 kernel code and data, 4 to 6 user code and data,
\* 8 and 9 the TSS, 10 the 32-bit TEB; in each dword, a piece of the base or 0.
WindowsGdt ==
    [n \in 0 .. 11 |->
        CASE n = 2  -> Descriptor(11, 1, 0, 0, 1, 0, 0)
          [] n = 3  -> Descriptor(3, 1, 0, 0, 0, 1, 0)
          [] n = 4  -> [Descriptor(11, 1, 3, 1048575, 0, 1, 1) EXCEPT !.dword = 5]
          [] n = 5  -> [Descriptor(3, 1, 3, 1048575, 0, 1, 1) EXCEPT !.dword = 5]
          [] n = 6  -> Descriptor(11, 1, 3, 0, 1, 0, 0)
          [] n = 8  -> [Descriptor(11, 0, 0, 103, 0, 0, 0) EXCEPT !.base = <<1, 2, 3>>]
          [] n = 9  -> [Absent EXCEPT !.dword = KernelHalf]
          [] n = 10 -> [Descriptor(3, 1, 3, 15360, 0, 1, 0) EXCEPT !.base = <<4, 5, 6>>]
          [] n = 11 -> [Absent EXCEPT !.dword = 7]
          [] OTHER  -> Absent]

\* Cleared, or the limit's bits 19:16.
LimitBits == [n \in DOMAIN WindowsGdt |-> {0, (WindowsGdt[n].limit \div 65536) % 16}]

Sel(index, rpl) == [index |-> index, ti |-> 0, rpl |-> rpl]

\* A program may load its data segments with level 1 and with any null selector.
WindowsSelectors ==
    [r \in Registers |->
        CASE r = "cs"   -> {Sel(2, 0)}
          [] r = "ss"   -> {Sel(3, 0)}
          [] r = "tr"   -> {Sel(8, 0)}
          [] r = "ldtr" -> {Sel(0, 0)}
          [] r = "fs"   -> {Sel(10, 3), Sel(10, 1)}
          [] r = "ds"   -> {Sel(5, 3), Sel(5, 1), Sel(0, 0)}
          [] r = "es"   -> {Sel(5, 3), Sel(0, 2)}
          [] OTHER      -> {Sel(5, 3)}]

KernelGsBase == <<7, 7, 7, KernelHalf>>
WrittenFsBases == {<<8, 8, 8, 0>>}

\* RAX shifted: zero, something like a data segment, something with bit 16.
LarLeftovers ==
    {NoAccess, [NoAccess EXCEPT !.type = 3, !.system = 1, !.dpl = 3, !.present = 1],
     [NoAccess EXCEPT !.unusable = 1]}
=============================================================================
