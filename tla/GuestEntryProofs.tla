-------------------------- MODULE GuestEntryProofs --------------------------
(***************************************************************************)
(* Proofs about GuestEntry: that it does what each of its parts does, so   *)
(* that what is proved of a part holds of the whole; what holds of the EPT *)
(* tables and of the segments by themselves (the control words have their  *)
(* own module); and what holds where the parts meet.                       *)
(***************************************************************************)
EXTENDS GuestEntry, ControlBitsProofs

-----------------------------------------------------------------------------
(* The parts *)

\* The control words and registers are computed as ControlBits computes them.
THEOREM ControlPart == Spec => ControlSpec
<1>1. Init => ControlInit
  BY DEF Init
<1>2. [Next]_vars => [ControlNext]_controlVars
  BY DEF Next, vars, BuildEpt, Control, Segment, Entry
<1> QED
  BY <1>1, <1>2, PTL DEF Spec, ControlSpec

\* The segments are written as Segments writes them.
THEOREM SegmentPart == Spec => SegmentSpec
<1>1. Init => SegmentInit
  BY DEF Init
<1>2. [Next]_vars => [SegmentNext]_segmentVars
  BY DEF Next, vars, BuildEpt, Control, Segment, Entry, SegmentNext
<1> QED
  BY <1>1, <1>2, PTL DEF Spec, SegmentSpec

\* The tables are built as EptTables builds them.
THEOREM EptPart == Spec => EptSpec
<1>1. Init => EptInit
  BY DEF Init
<1>2. [Next]_vars => [EptNext]_eptVars
  BY DEF Next, vars, BuildEpt, Control, Segment, Entry
<1> QED
  BY <1>1, <1>2, PTL DEF Spec, EptSpec

-----------------------------------------------------------------------------
(* The EPT tables *)

LEMMA SlotFacts ==
    /\ N \in Nat /\ 0 \in Slots
    /\ \A n \in Slots : n \in Nat
    /\ \A n \in Nat : n < N => n \in Slots
<1>1. N \in Nat /\ N > 0
  BY SizesAssumption
<1> QED
  BY <1>1 DEF Slots

LEMMA ProductInNat == \A n, e \in Nat : n * e \in Nat
OBVIOUS

LEMMA ProductGrows ==
    ASSUME NEW n \in Nat, NEW m \in Nat, NEW e \in Nat, n <= m
    PROVE  n * e <= m * e
<1>1. PICK d \in Nat : m = n + d
  <2>1. m - n \in Nat /\ m = n + (m - n)
    OBVIOUS
  <2> QED
    BY <2>1
<1>2. m * e = n * e + d * e
  BY <1>1
<1>3. d * e \in Nat /\ n * e \in Nat
  BY ProductInNat
<1> QED
  BY <1>2, <1>3

\* Zeroing all the bytes of a table zeroes all its entries.
LEMMA AllZeroed ==
    ASSUME NEW table, NEW k \in DOMAIN table, k \in Slots
    PROVE  Zeroed(table, N * EntrySize)[k] = Zero
<1>1. k + 1 \in Nat /\ k + 1 <= N /\ N \in Nat /\ EntrySize \in Nat
  BY SizesAssumption DEF Slots
<1>2. (k + 1) * EntrySize <= N * EntrySize
  BY <1>1, ProductGrows
<1>3. Zeroed(table, N * EntrySize)[k] =
          IF (k + 1) * EntrySize <= N * EntrySize THEN Zero ELSE table[k]
  BY ZenonT(30) DEF Zeroed
<1> QED
  BY <1>2, <1>3, Zenon

\* Zeroing as many bytes as a table has entries zeroes the first eighth of them.
LEMMA FirstEighthZeroed ==
    ASSUME NEW table, NEW k \in DOMAIN table, k \in Slots, k < N \div EntrySize
    PROVE  Zeroed(table, N)[k] = Zero
<1> DEFINE q == N \div EntrySize
<1>1. k \in Nat /\ N \in Nat /\ EntrySize \in Nat \ {0}
  BY SlotFacts, SizesAssumption
<1>2. q \in Nat /\ q * EntrySize <= N
  BY <1>1
<1>3. (k + 1) * EntrySize <= q * EntrySize
  BY <1>1, <1>2, ProductGrows
<1>4. (k + 1) * EntrySize \in Nat /\ q * EntrySize \in Nat
  BY <1>1, <1>2, ProductInNat
<1>5. (k + 1) * EntrySize <= N
  BY <1>1, <1>2, <1>3, <1>4
<1>6. Zeroed(table, N)[k] = IF (k + 1) * EntrySize <= N THEN Zero ELSE table[k]
  BY ZenonT(30) DEF Zeroed
<1> QED
  BY <1>5, <1>6, Zenon

Statements == {"zero pml4", "zero pdpt", "zero pd", "pml4", "pdpt loop", "pd loop", "done"}

LEMMA EntryFacts ==
    /\ Zero \in Entries /\ Leftover \in Entries /\ To(PdptPage) \in Entries
    /\ Zero.rights = FALSE
    /\ To(PdptPage).rights = TRUE /\ To(PdptPage).page # Elsewhere
BY DEF Zero, Leftover, To, Entries, Pages, NoPage, Elsewhere, PdptPage

LEMMA ZeroedIsTable ==
    ASSUME NEW table \in [Slots -> Entries], NEW bytes
    PROVE  Zeroed(table, bytes) \in [Slots -> Entries]
BY EntryFacts, ZenonT(30) DEF Zeroed

\* The tables' types; what is zero in the top table and in the pointer table once
\* they were zeroed; and the one entry that is set.
EptInv ==
    /\ statement \in Statements
    /\ EptTypeOK
    /\ statement # "zero pml4" => \A k \in Slots \ {0} : pml4[k] = Zero
    /\ statement \notin {"zero pml4", "zero pdpt"} =>
           \A k \in Slots : k < N \div EntrySize => pdpt[k] = Zero
    /\ statement \in {"pdpt loop", "pd loop", "done"} => pml4[0] = To(PdptPage)

LEMMA EptInvInit == EptInit => EptInv
<1> SUFFICES ASSUME EptInit PROVE EptInv
  OBVIOUS
<1>1. round \in Slots
  BY SlotFacts, Zenon DEF EptInit
<1>2. statement = "zero pml4"
  BY Zenon DEF EptInit
<1>3. pml4 \in [Slots -> Entries] /\ pdpt \in [Slots -> Entries]
  <2>1. ASSUME NEW s
        PROVE  [k \in Slots |-> IF k \in s THEN Leftover ELSE Zero] \in [Slots -> Entries]
    <3>1. \A k \in Slots : (IF k \in s THEN Leftover ELSE Zero) \in Entries
      BY EntryFacts
    <3> QED
      BY <3>1, Zenon
  <2>2. PICK s \in SUBSET Slots : pml4 = [k \in Slots |-> IF k \in s THEN Leftover ELSE Zero]
    BY Zenon DEF EptInit
  <2>3. PICK t \in SUBSET Slots : pdpt = [k \in Slots |-> IF k \in t THEN Leftover ELSE Zero]
    BY Zenon DEF EptInit
  <2> QED
    BY <2>1, <2>2, <2>3, Zenon
<1>4. pd \in [Slots -> [Slots -> Entries]]
  <2>1. PICK e \in {Zero, Leftover} : pd = [k \in Slots |-> [l \in Slots |-> e]]
    BY Zenon DEF EptInit
  <2> QED
    BY <2>1, EntryFacts
<1> QED
  BY <1>1, <1>2, <1>3, <1>4 DEF EptInv, EptTypeOK, Statements

LEMMA EptInvNext == EptInv /\ [EptNext]_eptVars => EptInv'
<1> SUFFICES ASSUME EptInv, [EptNext]_eptVars PROVE EptInv'
  OBVIOUS
<1>a. /\ pml4 \in [Slots -> Entries] /\ pdpt \in [Slots -> Entries]
      /\ pd \in [Slots -> [Slots -> Entries]]
      /\ round \in Slots
  BY DEF EptInv, EptTypeOK
<1>1. CASE ZeroPml4
  <2>1. /\ statement' = "zero pdpt" /\ UNCHANGED <<round, pdpt, pd>>
        /\ pml4' = Zeroed(pml4, N * EntrySize)
    BY <1>1 DEF ZeroPml4, Follows, BytesOfPml4
  <2>2. pml4' \in [Slots -> Entries]
    BY <1>a, <2>1, ZeroedIsTable
  <2>3. \A k \in Slots : pml4'[k] = Zero
    BY <1>a, <2>1, AllZeroed
  <2> QED
    BY <1>a, <2>1, <2>2, <2>3 DEF EptInv, EptTypeOK, Statements
<1>2. CASE ZeroPdpt
  <2>1. /\ statement = "zero pdpt" /\ statement' = "zero pd" /\ UNCHANGED <<round, pml4, pd>>
        /\ pdpt' = Zeroed(pdpt, N)
    BY <1>2 DEF ZeroPdpt, Follows, BytesOfPdpt
  <2>2. pdpt' \in [Slots -> Entries]
    BY <1>a, <2>1, ZeroedIsTable
  <2>3. \A k \in Slots : k < N \div EntrySize => pdpt'[k] = Zero
    BY <1>a, <2>1, FirstEighthZeroed
  <2> QED
    BY <1>a, <2>1, <2>2, <2>3 DEF EptInv, EptTypeOK, Statements
<1>3. CASE ZeroPd
  <2>1. /\ statement = "zero pd" /\ statement' = "pml4" /\ UNCHANGED <<round, pml4, pdpt>>
        /\ pd' = [k \in Slots |-> Zeroed(pd[k], N * N - k * N * EntrySize)]
    BY <1>3 DEF ZeroPd, Follows
  <2>2. pd' \in [Slots -> [Slots -> Entries]]
    <3>1. \A k \in Slots : \A bytes : Zeroed(pd[k], bytes) \in [Slots -> Entries]
      BY <1>a, ZeroedIsTable
    <3> QED
      BY <2>1, <3>1, Zenon
  <2> QED
    BY <1>a, <2>1, <2>2 DEF EptInv, EptTypeOK, Statements
<1>4. CASE WritePml4
  <2>1. /\ statement = "pml4" /\ statement' = "pdpt loop" /\ UNCHANGED <<round, pdpt, pd>>
        /\ pml4' = [pml4 EXCEPT ![0] = To(PdptPage)]
    BY <1>4 DEF WritePml4, Follows
  <2>2. /\ pml4' \in [Slots -> Entries]
        /\ pml4'[0] = To(PdptPage) /\ \A k \in Slots \ {0} : pml4'[k] = pml4[k]
    BY <1>a, <2>1, SlotFacts, EntryFacts
  <2> QED
    BY <1>a, <2>1, <2>2 DEF EptInv, EptTypeOK, Statements
<1>5. CASE PdptLoop \/ PdLoop
  <2>1. /\ pml4' = pml4 /\ statement \in {"pdpt loop", "pd loop"}
        /\ statement' \in {statement, "pd loop", "done"}
        /\ round' = IF round + 1 < N THEN round + 1 ELSE 0
        /\ pdpt' = pdpt
    <3>1. CASE PdptLoop
      BY <3>1 DEF PdptLoop, Loop, Stored
    <3>2. CASE PdLoop
      BY <3>2 DEF PdLoop, Loop
    <3> QED
      BY <1>5, <3>1, <3>2
  <2>2. round' \in Slots
    <3>1. round + 1 \in Nat
      BY <1>a, SlotFacts
    <3>2. CASE round + 1 < N
      <4>1. round' = round + 1
        BY <2>1, <3>2
      <4> QED
        BY <3>1, <3>2, <4>1, SlotFacts
    <3>3. CASE ~(round + 1 < N)
      <4>1. round' = 0
        BY <2>1, <3>3
      <4> QED
        BY <4>1, SlotFacts
    <3> QED
      BY <3>2, <3>3
  <2>3. pd' = pd
    <3>1. CASE PdptLoop
      BY <3>1 DEF PdptLoop
    <3>2. CASE PdLoop
      <4>1. pd' = [pd EXCEPT ![round] = [k \in Slots |-> pd[round][k]]]
        BY <3>2 DEF PdLoop, Stored
      <4>2. [k \in Slots |-> pd[round][k]] = pd[round]
        BY <1>a
      <4> QED
        BY <1>a, <4>1, <4>2
    <3> QED
      BY <1>5, <3>1, <3>2
  <2> QED
    BY <1>a, <2>1, <2>2, <2>3 DEF EptInv, EptTypeOK, Statements
<1>6. CASE UNCHANGED eptVars
  BY <1>6 DEF eptVars, EptInv, EptTypeOK
<1> QED
  BY <1>1, <1>2, <1>3, <1>4, <1>5, <1>6 DEF EptNext

LEMMA EptInvariance == EptSpec => []EptInv
BY EptInvInit, EptInvNext, PTL DEF EptSpec

\* Whatever the pool's memory held, and for tables of any size, no guest-physical
\* address beyond the first entry of the top table leads anywhere.
THEOREM OnlyLow == EptSpec => []OnlyLowReached
<1>1. EptInv => OnlyLowReached
  <2> SUFFICES ASSUME EptInv, statement = "done", NEW a \in Addresses, a.l4 # 0
               PROVE  Translate(a) = Fault
    BY DEF OnlyLowReached
  <2>1. pml4[a.l4].rights = FALSE
    BY EntryFacts DEF EptInv, Addresses
  <2> QED
    BY <2>1 DEF Translate, Through
<1> QED
  BY <1>1, EptInvariance, PTL

\* For tables of any size, the part of the pointer table that is zeroed translates
\* nothing.
THEOREM FirstEighth == EptSpec => []LeftoversBehindFirstEighth
<1>1. EptInv => LeftoversBehindFirstEighth
  <2> SUFFICES ASSUME EptInv, statement = "done", NEW a \in Addresses,
                      a.l3 < N \div EntrySize
               PROVE  Translate(a) = Fault
    BY DEF LeftoversBehindFirstEighth
  <2>1. pdpt[a.l3].rights = FALSE
    BY EntryFacts DEF EptInv, Addresses
  <2>2. CASE a.l4 = 0
    <3>1. pml4[a.l4].rights = TRUE /\ pml4[a.l4].page # Elsewhere
      BY <2>2, EntryFacts DEF EptInv
    <3> QED
      BY <2>1, <3>1 DEF Translate, Through
  <2>3. CASE a.l4 # 0
    <3>1. pml4[a.l4].rights = FALSE
      BY <2>3, EntryFacts DEF EptInv, Addresses
    <3> QED
      BY <3>1 DEF Translate, Through
  <2> QED
    BY <2>2, <2>3
<1> QED
  BY <1>1, EptInvariance, PTL

-----------------------------------------------------------------------------
(* The segments *)

LEMMA OrderFacts ==
    /\ Len(Order) = 8 /\ DOMAIN Order = 1 .. 8
    /\ \A i \in 1 .. 8 : Order[i] \in Registers
    /\ \A i, j \in 1 .. 8 : Order[i] = Order[j] => i = j
    /\ Order[8] = "ldtr" /\ \A i \in 1 .. 7 : Order[i] # "ldtr"
BY DEF Order, Registers

\* The registers whose fields have been written when n comes next.
Done(n) == {Order[i] : i \in 1 .. n - 1}

LEMMA DoneGrows ==
    ASSUME NEW n \in 1 .. 8
    PROVE  Done(n + 1) = Done(n) \cup {Order[n]} /\ Order[n] \notin Done(n)
<1>1. Done(n + 1) = Done(n) \cup {Order[n]}
  <2>1. 1 .. (n + 1) - 1 = (1 .. n - 1) \cup {n}
    OBVIOUS
  <2> QED
    BY <2>1 DEF Done
<1>2. Order[n] \notin Done(n)
  BY OrderFacts DEF Done
<1> QED
  BY <1>1, <1>2

\* Access rights that LAR gives of the descriptor of s.
LarGives(s, a) == \E n \in Undefined[s.index] : a = [LarShifted(s) EXCEPT !.reserved = n]

\* Of them, those whose undefined bits are zero are the defined ones, and so are
\* the others without those bits.
LEMMA LarDefined ==
    ASSUME NEW s, NEW a, LarGives(s, a)
    PROVE  /\ [a EXCEPT !.reserved = 0] = LarShifted(s)
           /\ a.reserved = 0 => a = LarShifted(s)
<1> DEFINE d == Gdt[s.index]
           With(n) == [type |-> d.type, system |-> d.system, dpl |-> d.dpl, present |-> d.present,
                       reserved |-> n, l |-> d.l, d |-> d.d, g |-> d.g, unusable |-> 0]
<1>1. LarShifted(s) = With(0)
  BY DEF LarShifted
<1>2. PICK n \in Undefined[s.index] : a = [LarShifted(s) EXCEPT !.reserved = n]
  BY DEF LarGives
<1>3. a = With(n)
  BY <1>1, <1>2
<1>4. a.reserved = n /\ [a EXCEPT !.reserved = 0] = With(0)
  BY <1>3
<1> QED
  BY <1>1, <1>3, <1>4

\* What reading a plain selector's entry must give.
True(r, g) ==
    Plain(selector[r]) =>
        /\ g.selector = selector[r]
        /\ IF IsNull(selector[r]) THEN g.access = [NoAccess EXCEPT !.unusable = 1]
           ELSE LarGives(selector[r], g.access)
        /\ ~IsNull(selector[r]) => g.limit = SegmentLimit(selector[r])
        /\ (r # "fs" \/ fsbase = BaseOf(selector["fs"])) => g.base = RegisterBase(r)
        /\ r = "fs" => g.base = BaseOf(selector["fs"])

Sound(r, h) ==
    /\ h.selector.rpl = 0 /\ h.selector.ti = 0
    /\ r \in {"cs", "tr"} => ~IsNull(h.selector)
    /\ r \in {"gs", "tr"} => h.base = RegisterBase(r)

SegmentShape ==
    /\ next \in 1 .. 9
    /\ DOMAIN guest = Done(next)
    /\ DOMAIN host = Done(next) \ {"ldtr"}
    /\ \A r \in Registers : selector[r] \in Loadable[r]
    /\ outcome \in {"none", "entered", "refused"}

\* The inductive invariant.
SegmentInv ==
    /\ SegmentShape
    /\ \A r \in DOMAIN guest : True(r, guest[r])
    /\ \A r \in DOMAIN host : Sound(r, host[r])

\* The base that ReadGDTEntry puts together is the one the processor has.
LEMMA BasePieces ==
    ASSUME NEW r \in Registers, NEW s \in Loadable[r]
    PROVE  Base(s) = BaseOf(s)
BY GdtIsTheSystems DEF GdtAssumption, Base, BaseOf, IsNull

LEMMA SegmentInitInv == SegmentInit => SegmentInv
<1> SUFFICES ASSUME SegmentInit PROVE SegmentInv
  OBVIOUS
<1>1. Done(1) = {}
  BY DEF Done
<1>2. DOMAIN guest = {} /\ DOMAIN host = {}
  BY DEF SegmentInit
<1>3. \A r \in Registers : selector[r] \in Loadable[r]
  BY DEF SegmentInit, Registers
<1> QED
  BY <1>1, <1>2, <1>3 DEF SegmentInit, SegmentInv, SegmentShape

\* A plain selector is read as the processor has it, whatever entry held before.
LEMMA PlainRead ==
    ASSUME NEW r \in Registers, selector[r] \in Loadable[r], Plain(selector[r]),
           NEW old, NEW e \in ReadGDTEntry(selector[r], old)
    PROVE  /\ IF IsNull(selector[r]) THEN e.access = [NoAccess EXCEPT !.unusable = 1]
              ELSE LarGives(selector[r], e.access)
           /\ ~IsNull(selector[r]) => e.limit = SegmentLimit(selector[r])
           /\ e.base = BaseOf(selector[r])
<1> DEFINE s == selector[r]
<1>1. ~TakesLdtBranch(s) /\ (IsNull(s) <=> IsZero(s))
  BY DEF Plain, TakesLdtBranch, IsZero
<1>2. PICK l \in Limits(s), a \in IF IsZero(s) THEN {[NoAccess EXCEPT !.unusable = 1]}
                                  ELSE Accesses(s) :
          e = [limit |-> l, access |-> a, base |-> Base(s)]
  BY <1>1 DEF ReadGDTEntry
<1>3. e.limit = l /\ e.access = a /\ e.base = Base(s)
  BY <1>2
<1>4. Base(s) = BaseOf(s)
  BY BasePieces
<1>5. IF IsNull(s) THEN a = [NoAccess EXCEPT !.unusable = 1] ELSE LarGives(s, a)
  BY <1>1, <1>2 DEF Accesses, LarGives
<1>6. ~IsNull(s) => l = SegmentLimit(s)
  BY <1>2 DEF Limits
<1> QED
  BY <1>3, <1>4, <1>5, <1>6

\* The base of a TSS, which no branch of ReadGDTEntry but the last one gets.
LEMMA TssBase ==
    ASSUME selector["tr"] \in Loadable["tr"], NEW old, NEW e \in ReadGDTEntry(selector["tr"], old)
    PROVE  e.base = BaseOf(selector["tr"])
<1>1. Plain(selector["tr"]) /\ "tr" \in Registers
  BY GdtIsTheSystems DEF GdtAssumption, Plain, Registers
<1> QED
  BY <1>1, PlainRead

LEMMA LoadSegmentInv == SegmentInv /\ LoadSegment => SegmentInv'
<1> SUFFICES ASSUME SegmentInv, LoadSegment PROVE SegmentInv'
  OBVIOUS
<1> PICK r : r = Order[next]
  OBVIOUS
<1>1. next \in 1 .. 8 /\ r \in Registers /\ next' = next + 1
  BY OrderFacts DEF LoadSegment
<1>2. /\ entry' \in ReadGDTEntry(selector[r], entry)
      /\ guest' = [x \in DOMAIN guest \cup {r} |->
                      IF x # r THEN guest[x]
                      ELSE [selector |-> selector[r], limit |-> entry'.limit,
                            access |-> entry'.access,
                            base |-> IF r = "gs" THEN GsBase ELSE entry'.base]]
      /\ host' = IF r = "ldtr" THEN host
                 ELSE [x \in DOMAIN host \cup {r} |->
                          IF x # r THEN host[x] ELSE HostSegment(r, entry')]
      /\ UNCHANGED <<selector, fsbase, outcome>>
  BY DEF LoadSegment, HasHost
<1>3. Done(next') = Done(next) \cup {r} /\ r \notin Done(next)
  BY <1>1, DoneGrows
<1>4. selector[r] \in Loadable[r]
  BY <1>1 DEF SegmentInv, SegmentShape
<1>5. SegmentShape'
  BY <1>1, <1>2, <1>3 DEF SegmentInv, SegmentShape
<1>6. \A x \in DOMAIN guest' : True(x, guest'[x])
  <2>1. ASSUME NEW x \in DOMAIN guest, x # r PROVE True(x, guest'[x])
    BY <1>2, <2>1 DEF SegmentInv, True, RegisterBase
  <2>2. True(r, guest'[r])
    <3> SUFFICES ASSUME Plain(selector[r])
                 PROVE  /\ guest'[r].selector = selector[r]
                        /\ IF IsNull(selector[r])
                           THEN guest'[r].access = [NoAccess EXCEPT !.unusable = 1]
                           ELSE LarGives(selector[r], guest'[r].access)
                        /\ ~IsNull(selector[r]) => guest'[r].limit = SegmentLimit(selector[r])
                        /\ (r # "fs" \/ fsbase = BaseOf(selector["fs"]))
                              => guest'[r].base = RegisterBase(r)
                        /\ r = "fs" => guest'[r].base = BaseOf(selector["fs"])
      BY <1>2 DEF True, RegisterBase
    <3>1. /\ IF IsNull(selector[r]) THEN entry'.access = [NoAccess EXCEPT !.unusable = 1]
             ELSE LarGives(selector[r], entry'.access)
          /\ ~IsNull(selector[r]) => entry'.limit = SegmentLimit(selector[r])
          /\ entry'.base = BaseOf(selector[r])
      BY <1>1, <1>2, <1>4, PlainRead
    <3>2. guest'[r] = [selector |-> selector[r], limit |-> entry'.limit,
                       access |-> entry'.access,
                       base |-> IF r = "gs" THEN GsBase ELSE entry'.base]
      BY <1>2
    <3> QED
      BY <3>1, <3>2 DEF RegisterBase
  <2>3. DOMAIN guest' = DOMAIN guest \cup {r}
    BY <1>2
  <2> QED
    BY <2>1, <2>2, <2>3
<1>7. \A x \in DOMAIN host' : Sound(x, host'[x])
  <2>1. ASSUME NEW x \in DOMAIN host, x # r PROVE Sound(x, host'[x])
    BY <1>2, <2>1 DEF SegmentInv, Sound, RegisterBase
  <2>2. r # "ldtr" => Sound(r, host'[r])
    <3> SUFFICES ASSUME r # "ldtr"
                 PROVE  /\ host'[r].selector.rpl = 0 /\ host'[r].selector.ti = 0
                        /\ r \in {"cs", "tr"} => ~IsNull(host'[r].selector)
                        /\ r \in {"gs", "tr"} => host'[r].base = RegisterBase(r)
      BY <1>2 DEF Sound, RegisterBase
    <3>1. host'[r] = HostSegment(r, entry')
      BY <1>2
    <3>2. /\ selector[r] \in Selector /\ selector[r].ti = 0
          /\ r \in {"cs", "ss", "tr"} => ~IsNull(selector[r])
      BY <1>1, <1>4, GdtIsTheSystems DEF GdtAssumption
    <3>3. /\ host'[r].selector = [selector[r] EXCEPT !.rpl = 0]
          /\ r = "tr" => host'[r].base = entry'.base
          /\ r = "gs" => host'[r].base = GsBase
      BY <3>1 DEF HostSegment, WithoutRpl
    <3>4. r = "tr" => entry'.base = BaseOf(selector[r])
      BY <1>2, <1>4, TssBase
    <3> QED
      BY <3>2, <3>3, <3>4 DEF Selector, IsNull, RegisterBase
  <2>3. DOMAIN host' = IF r = "ldtr" THEN DOMAIN host ELSE DOMAIN host \cup {r}
    BY <1>2
  <2>4. r \notin DOMAIN host
    BY <1>3 DEF SegmentInv, SegmentShape
  <2>5. CASE r = "ldtr"
    BY <2>1, <2>3, <2>4, <2>5
  <2>6. CASE r # "ldtr"
    BY <2>1, <2>2, <2>3, <2>6
  <2> QED
    BY <2>5, <2>6
<1>8. (\A x \in DOMAIN guest : True(x, guest[x]))'
  BY <1>2, <1>6 DEF True, RegisterBase
<1>9. (\A x \in DOMAIN host : Sound(x, host[x]))'
  BY <1>2, <1>7 DEF Sound, RegisterBase
<1> QED
  BY <1>5, <1>8, <1>9 DEF SegmentInv

LEMMA SegmentNextInv == SegmentInv /\ [SegmentNext]_segmentVars => SegmentInv'
<1> SUFFICES ASSUME SegmentInv, [SegmentNext]_segmentVars PROVE SegmentInv'
  OBVIOUS
<1>1. CASE LoadSegment
  BY <1>1, LoadSegmentInv
<1>2. ASSUME UNCHANGED <<next, selector, fsbase, guest, host>>,
             outcome' \in {"none", "entered", "refused"}
      PROVE  SegmentInv'
  <2>1. SegmentShape'
    BY <1>2 DEF SegmentInv, SegmentShape
  <2>2. \A r : True(r, guest[r]) = True(r, guest[r])' /\ Sound(r, host[r]) = Sound(r, host[r])'
    BY <1>2 DEF True, Sound, RegisterBase
  <2> QED
    BY <1>2, <2>1, <2>2 DEF SegmentInv
<1>3. CASE VmEntry
  BY <1>2, <1>3 DEF VmEntry
<1>4. CASE UNCHANGED segmentVars
  BY <1>2, <1>4 DEF segmentVars, SegmentInv, SegmentShape
<1> QED
  BY <1>1, <1>3, <1>4 DEF SegmentNext

LEMMA SegmentInvariance == SegmentSpec => []SegmentInv
BY SegmentInitInv, SegmentNextInv, PTL DEF SegmentSpec

\* What the LDT branch leaves of a segment whose selector takes it, and what the
\* outcome of VM entry says of the segments.
SelectorInv ==
    /\ SegmentInv
    /\ \A r \in DOMAIN guest : TakesLdtBranch(selector[r]) =>
           guest[r].access = NoAccess /\ guest[r].selector = selector[r]
    /\ outcome # "none" => next = 9
    /\ EntryHangsOnSegments

\* The register that a plain selector fills is taken from its descriptor.
LEMMA PlainGuest ==
    ASSUME SegmentInv, DOMAIN guest = Registers, NEW r \in Registers, Plain(selector[r])
    PROVE  /\ selector[r] \in Loadable[r] /\ selector[r] \in Selector /\ selector[r].ti = 0
           /\ guest[r].selector = selector[r]
           /\ IF IsNull(selector[r]) THEN guest[r].access = [NoAccess EXCEPT !.unusable = 1]
              ELSE LarGives(selector[r], guest[r].access)
           /\ ~IsNull(selector[r]) => guest[r].limit = SegmentLimit(selector[r])
           /\ r # "fs" => guest[r].base = RegisterBase(r)
           /\ r = "fs" => guest[r].base = BaseOf(selector["fs"])
BY GdtIsTheSystems DEF SegmentInv, SegmentShape, True, GdtAssumption

\* A base's last piece.
LEMMA LastPiece ==
    ASSUME NEW r \in Registers, NEW s \in Loadable[r]
    PROVE  BaseOf(s)[4] = IF Gdt[s.index].system = 0 /\ ~IsNull(s)
                          THEN Gdt[s.index + 1].dword ELSE 0
<1>1. s.index \in DOMAIN Gdt
  BY GdtIsTheSystems DEF GdtAssumption, Selector
<1>2. Gdt[s.index].base \in Seq(Nat) /\ Len(Gdt[s.index].base) = 3
  BY <1>1, LoadedIsLoadable DEF LoadedAssumption
<1>3. \A x \in Nat : Append(Gdt[s.index].base, x)[4] = x
  <2>1. \A b \in Seq(Nat) : \A x \in Nat : Append(b, x)[Len(b) + 1] = x
    OBVIOUS
  <2>2. Len(Gdt[s.index].base) + 1 = 4
    BY <1>2
  <2> QED
    BY <1>2, <2>1, <2>2, Zenon
<1>4. s.index + 1 \in DOMAIN Gdt
  BY GdtIsTheSystems DEF GdtAssumption
<1>5. Gdt[s.index + 1].dword \in Nat
  BY <1>4, LoadedIsLoadable DEF LoadedAssumption
<1> QED
  BY <1>3, <1>5 DEF BaseOf

\* A limit that LSL gives has the form that the granularity bit says.
LEMMA LimitFits ==
    ASSUME NEW s, Gdt[s.index].g \in {0, 1}, Gdt[s.index].limit \in LimitField
    PROVE  /\ SegmentLimit(s).low # 4095 => Gdt[s.index].g = 0
           /\ SegmentLimit(s).high >= 256 => Gdt[s.index].g = 1
<1>1. Gdt[s.index].limit \div 4096 \in Nat
  BY DEF LimitField
<1>2. CASE Gdt[s.index].g = 1
  BY <1>2 DEF SegmentLimit
<1>3. CASE Gdt[s.index].g = 0
  <2>1. SegmentLimit(s).high = Gdt[s.index].limit \div 4096
    BY <1>3 DEF SegmentLimit
  <2>2. SegmentLimit(s).high \in Nat /\ SegmentLimit(s).high < 256
    BY <1>1, <2>1 DEF LimitField
  <2> QED
    BY <1>3, <2>2
<1> QED
  BY <1>2, <1>3

\* An ordinary segment of a plain selector passes the checks common to all, if
\* LAR left the undefined bits zero.
LEMMA PlainIsOrdinary ==
    ASSUME SegmentInv, DOMAIN guest = Registers, NEW r \in Registers \ {"tr", "ldtr"},
           Plain(selector[r]), ~IsNull(selector[r]), guest[r].access.reserved = 0
    PROVE  Ordinary(guest[r]) /\ guest[r].access = LarShifted(selector[r])
<1> DEFINE s == selector[r]
<1>1. s \in Loadable[r] /\ guest[r].access = LarShifted(s) /\ guest[r].limit = SegmentLimit(s)
  BY PlainGuest, LarDefined
<1>2. Gdt[s.index].system = 1
  BY <1>1, GdtIsTheSystems DEF GdtAssumption
<1>3. Gdt[s.index].present = 1 /\ Gdt[s.index].g \in {0, 1} /\ Gdt[s.index].limit \in LimitField
  BY <1>1, LoadedIsLoadable DEF LoadedAssumption
<1>4. GranularityFits(guest[r])
  BY <1>1, <1>3, LimitFits DEF GranularityFits, LarShifted
<1> QED
  BY <1>1, <1>2, <1>3, <1>4 DEF Ordinary, LarShifted

LEMMA PlainAccepted ==
    ASSUME SegmentInv, DOMAIN guest = Registers,
           \A r \in Registers : Plain(selector[r]) /\ guest[r].access.reserved = 0
    PROVE  \A r \in Registers : Accepted(r)
<1>1. \A r \in Registers : selector[r] \in Loadable[r] /\ selector[r].ti = 0
                            /\ guest[r].selector = selector[r]
                            /\ (r # "fs" => guest[r].base = RegisterBase(r))
  BY PlainGuest
<1>2. \A r \in Registers \ {"tr", "ldtr"} : ~IsNull(selector[r]) =>
          Ordinary(guest[r]) /\ guest[r].access = LarShifted(selector[r])
  BY PlainIsOrdinary
<1>3. \A r \in Registers : IsNull(selector[r]) => guest[r].access.unusable = 1
  BY PlainGuest DEF NoAccess
<1>4. /\ ~IsNull(selector["cs"]) /\ selector["cs"].rpl = 0
      /\ ~IsNull(selector["ss"]) /\ selector["ss"].rpl = 0
      /\ ~IsNull(selector["tr"]) /\ IsNull(selector["ldtr"])
  BY <1>1, GdtIsTheSystems DEF GdtAssumption, Registers
<1>5. \A r \in Registers \ {"tr"} : BaseOf(selector[r])[4] = 0
  BY <1>1, LastPiece, GdtIsTheSystems DEF GdtAssumption
<1>6. Accepted("cs")
  <2>1. "cs" \in Registers /\ "ss" \in Registers
    BY DEF Registers
  <2>2. /\ Gdt[selector["cs"].index].type \in {9, 11, 13, 15}
        /\ Gdt[selector["cs"].index].dpl = 0 /\ Gdt[selector["ss"].index].dpl = 0
        /\ ~(Gdt[selector["cs"].index].l = 1 /\ Gdt[selector["cs"].index].d = 1)
    BY <1>1, <1>4, <2>1, LoadedIsLoadable DEF LoadedAssumption
  <2>3. /\ Ordinary(guest["cs"]) /\ guest["cs"].access = LarShifted(selector["cs"])
        /\ guest["ss"].access = LarShifted(selector["ss"])
    BY <1>2, <1>4, <2>1
  <2>4. guest["cs"].base[4] = 0
    BY <1>1, <1>5, <2>1 DEF RegisterBase
  <2>5. Usable(guest["cs"])
    BY <2>3 DEF Usable, LarShifted
  <2> QED
    BY <2>2, <2>3, <2>4, <2>5 DEF Accepted, LarShifted
<1>7. Accepted("ss")
  <2>1. "cs" \in Registers /\ "ss" \in Registers
    BY DEF Registers
  <2>2. Gdt[selector["ss"].index].type \in {3, 7} /\ Gdt[selector["ss"].index].dpl = 0
    BY <1>1, <1>4, <2>1, LoadedIsLoadable DEF LoadedAssumption
  <2>3. Ordinary(guest["ss"]) /\ guest["ss"].access = LarShifted(selector["ss"])
    BY <1>2, <1>4, <2>1
  <2>4. guest["ss"].base[4] = 0
    BY <1>1, <1>5, <2>1 DEF RegisterBase
  <2>5. guest["cs"].selector.rpl = 0 /\ guest["ss"].selector.rpl = 0
    BY <1>1, <1>4, <2>1
  <2> QED
    BY <2>2, <2>3, <2>4, <2>5 DEF Accepted, LarShifted
<1>8. ASSUME NEW r \in {"ds", "es", "fs", "gs"} PROVE Accepted(r)
  <2>1. /\ r \in Registers \ {"tr", "ldtr"} /\ selector[r] \in Loadable[r]
        /\ guest[r].selector = selector[r]
    BY <1>1 DEF Registers
  <2>2. guest[r].base[4] \in {0, KernelHalf} /\ (r # "gs" => guest[r].base[4] = 0)
    <3>1. CASE r = "gs"
      BY <1>1, <2>1, <3>1, LoadedIsLoadable DEF LoadedAssumption, Canonical, RegisterBase
    <3>2. CASE r = "fs"
      <4>1. guest[r].base = BaseOf(selector[r])
        BY <2>1, <3>2, PlainGuest
      <4> QED
        BY <1>5, <2>1, <3>2, <4>1
    <3>3. CASE r \in {"ds", "es"}
      BY <1>1, <1>5, <2>1, <3>3 DEF RegisterBase
    <3> QED
      BY <1>8, <3>1, <3>2, <3>3
  <2>3. CASE IsNull(selector[r])
    <3>1. ~Usable(guest[r])
      BY <1>3, <2>1, <2>3 DEF Usable
    <3> QED
      BY <1>8, <2>2, <3>1 DEF Accepted, Canonical
  <2>4. CASE ~IsNull(selector[r])
    <3>1. Ordinary(guest[r]) /\ guest[r].access = LarShifted(selector[r])
      BY <1>2, <2>1, <2>4
    <3>2. /\ Gdt[selector[r].index].type \in {1, 3, 5, 7, 11, 15}
          /\ Gdt[selector[r].index].type < 12 => Gdt[selector[r].index].dpl >= selector[r].rpl
      BY <1>8, <2>1, <2>4, LoadedIsLoadable DEF LoadedAssumption
    <3>3. /\ guest[r].access.type \in {1, 3, 5, 7, 11, 15}
          /\ guest[r].access.type < 12 => guest[r].access.dpl >= guest[r].selector.rpl
      BY <2>1, <3>1, <3>2 DEF LarShifted
    <3> QED
      BY <1>8, <2>2, <3>1, <3>3 DEF Accepted, Canonical
  <2> QED
    BY <2>3, <2>4
<1>9. Accepted("tr")
  <2> DEFINE s == selector["tr"]
             d == Gdt[s.index]
  <2>1. "tr" \in Registers /\ s \in Loadable["tr"] /\ s.ti = 0
    BY <1>1 DEF Registers
  <2>2. guest["tr"].access = LarShifted(s) /\ guest["tr"].limit = SegmentLimit(s)
        /\ guest["tr"].base = BaseOf(s) /\ guest["tr"].selector.ti = 0
    BY <1>4, <2>1, PlainGuest, LarDefined DEF RegisterBase
  <2>3. d.system = 0
    BY <1>4, <2>1, GdtIsTheSystems DEF GdtAssumption
  <2>4. /\ d.present = 1 /\ d.g \in {0, 1} /\ d.limit \in LimitField
        /\ d.type = 11 /\ Gdt[s.index + 1].dword \in {0, KernelHalf}
    BY <1>4, <2>1, LoadedIsLoadable DEF LoadedAssumption
  <2>5. GranularityFits(guest["tr"])
    BY <2>2, <2>4, LimitFits DEF GranularityFits, LarShifted
  <2>6. Canonical(guest["tr"].base)
    BY <1>4, <2>1, <2>2, <2>3, <2>4, LastPiece DEF Canonical
  <2> QED
    BY <2>2, <2>3, <2>4, <2>5, <2>6 DEF Accepted, LarShifted, Usable
<1>10. Accepted("ldtr")
  <2>1. ~Usable(guest["ldtr"])
    BY <1>3, <1>4 DEF Usable, Registers
  <2> QED
    BY <2>1 DEF Accepted
<1> QED
  BY <1>6, <1>7, <1>8, <1>9, <1>10 DEF Registers

\* A segment left empty by the LDT branch is usable and not ordinary.
LEMMA EmptyRefused ==
    ASSUME NEW r \in {"ds", "es", "fs", "gs"}, guest[r].access = NoAccess
    PROVE  ~Accepted(r)
<1>1. Usable(guest[r]) /\ ~Ordinary(guest[r])
  BY DEF Usable, Ordinary, NoAccess
<1> QED
  BY <1>1 DEF Accepted

\* VM entry does not take a usable segment with a reserved bit.
LEMMA ReservedRefused ==
    ASSUME NEW r \in Registers, Usable(guest[r]), guest[r].access.reserved # 0
    PROVE  ~Accepted(r)
<1>1. ~Ordinary(guest[r])
  BY DEF Ordinary
<1> QED
  BY <1>1 DEF Accepted, Registers

LEMMA VmEntryInv == SelectorInv /\ VmEntry => SelectorInv'
<1> SUFFICES ASSUME SelectorInv, VmEntry PROVE SelectorInv'
  OBVIOUS
<1>1. /\ next = 9 /\ UNCHANGED <<next, selector, fsbase, entry, guest, host>>
      /\ outcome' = IF \A r \in Registers : Accepted(r) THEN "entered" ELSE "refused"
  BY OrderFacts DEF VmEntry
<1>2. SegmentInv'
  BY SegmentNextInv DEF SelectorInv, SegmentNext
<1>3. DOMAIN guest = Registers
  <2>1. Done(9) = Registers
    BY DEF Done, Order, Registers
  <2> QED
    BY <1>1, <2>1 DEF SelectorInv, SegmentInv, SegmentShape
<1>4. outcome' = "refused" =>
          \E r \in Registers : ~Plain(selector[r]) \/ guest[r].access.reserved # 0
  BY <1>1, <1>3, PlainAccepted DEF SelectorInv
<1>5. ASSUME outcome' = "entered", NEW r \in Registers, selector[r].rpl = 1 PROVE FALSE
  <2>1. guest[r].access = NoAccess
    BY <1>3, <1>5 DEF SelectorInv, TakesLdtBranch
  <2>2. selector[r] \in Loadable[r]
    BY DEF SelectorInv, SegmentInv, SegmentShape
  <2>3. r \in {"ds", "es", "fs", "gs"}
    BY <1>5, <2>2, GdtIsTheSystems DEF GdtAssumption, Registers
  <2>4. ~Accepted(r)
    BY <2>1, <2>3, EmptyRefused
  <2> QED
    BY <1>1, <1>5, <2>4
<1>6. ASSUME outcome' = "entered", NEW r \in Registers, Usable(guest[r])
      PROVE  guest[r].access.reserved = 0
  BY <1>1, <1>6, ReservedRefused
<1>7. EntryHangsOnSegments'
  BY <1>1, <1>4, <1>5, <1>6 DEF EntryHangsOnSegments, Plain, IsNull, Usable
<1> QED
  BY <1>1, <1>2, <1>7 DEF SelectorInv, TakesLdtBranch

LEMMA SelectorNextInv == SelectorInv /\ [SegmentNext]_segmentVars => SelectorInv'
<1> SUFFICES ASSUME SelectorInv, [SegmentNext]_segmentVars PROVE SelectorInv'
  OBVIOUS
<1>1. SegmentInv'
  BY SegmentNextInv DEF SelectorInv
<1>2. CASE LoadSegment
  <2> PICK r : r = Order[next]
    OBVIOUS
  <2>1. /\ entry' \in ReadGDTEntry(selector[r], entry)
        /\ guest' = [x \in DOMAIN guest \cup {r} |->
                        IF x # r THEN guest[x]
                        ELSE [selector |-> selector[r], limit |-> entry'.limit,
                              access |-> entry'.access,
                              base |-> IF r = "gs" THEN GsBase ELSE entry'.base]]
        /\ next \in 1 .. 8 /\ UNCHANGED <<selector, outcome>>
    BY <1>2, OrderFacts DEF LoadSegment
  <2>2. TakesLdtBranch(selector[r]) => entry'.access = NoAccess
    BY <2>1 DEF ReadGDTEntry, Empty
  <2>3. \A x \in DOMAIN guest' : TakesLdtBranch(selector[x]) =>
            guest'[x].access = NoAccess /\ guest'[x].selector = selector[x]
    BY <2>1, <2>2 DEF SelectorInv
  <2>4. outcome' = "none"
    BY <2>1 DEF SelectorInv, SegmentInv, SegmentShape
  <2>5. EntryHangsOnSegments'
    BY <2>4 DEF EntryHangsOnSegments
  <2> QED
    BY <1>1, <2>1, <2>3, <2>4, <2>5 DEF SelectorInv, TakesLdtBranch
<1>3. CASE VmEntry
  BY <1>3, VmEntryInv
<1>4. CASE UNCHANGED segmentVars
  BY <1>1, <1>4
     DEF segmentVars, SelectorInv, EntryHangsOnSegments, TakesLdtBranch, Plain, IsNull, Usable
<1> QED
  BY <1>2, <1>3, <1>4 DEF SegmentNext

\* Every register that was read, and no other, has its fields in the VMCS; the
\* host gets no LDTR.
THEOREM SegmentTypes == SegmentSpec => []SegmentTypeOK
<1>1. SegmentInv => SegmentTypeOK
  BY OrderFacts DEF SegmentInv, SegmentShape, SegmentTypeOK, Done
<1> QED
  BY <1>1, SegmentInvariance, PTL

\* In every system's table: the guest gets of each register with a plain selector
\* what the processor has in it.
THEOREM GuestSegments == SegmentSpec => []GuestSegmentsTrue
<1>1. SegmentInv => GuestSegmentsTrue
  BY LarDefined DEF SegmentInv, True, GuestSegmentsTrue
<1> QED
  BY <1>1, SegmentInvariance, PTL

\* Whatever the caller had in its data segments, the host's are fit for a VM exit.
THEOREM HostSegments == SegmentSpec => []HostSegmentsSound
<1>1. SegmentInv => HostSegmentsSound
  BY DEF SegmentInv, Sound, HostSegmentsSound
<1> QED
  BY <1>1, SegmentInvariance, PTL

\* In every system's table, and whatever LAR may leave in its undefined bits: VM
\* entry takes the caller's segments when all selectors are plain and those bits
\* are zero; never one that was loaded with level 1, nor a usable one with such a bit.
THEOREM EntryBySegments == SegmentSpec => []EntryHangsOnSegments
<1>1. SegmentInit => SelectorInv
  BY SegmentInitInv DEF SegmentInit, SelectorInv, EntryHangsOnSegments
<1>2. SelectorInv => EntryHangsOnSegments
  BY DEF SelectorInv
<1> QED
  BY <1>1, <1>2, SelectorNextInv, PTL DEF SegmentSpec

-----------------------------------------------------------------------------
(* The whole *)

\* What is proved of each part holds in the whole.
THEOREM PartsHold ==
    Spec => []( /\ EptTypeOK /\ ControlTypeOK /\ SegmentTypeOK
                /\ OnlyLowReached /\ LeftoversBehindFirstEighth
                /\ FixedBitsHold /\ NothingSwitchedOff /\ ControlsMinimal /\ NothingDangling
                /\ LongModeBothWays /\ FaultExplained
                /\ GuestSegmentsTrue /\ HostSegmentsSound )
<1>1. EptInv => EptTypeOK
  BY DEF EptInv
<1>2. EptSpec => []EptTypeOK
  BY <1>1, EptInvariance, PTL
<1>3. Spec => []EptTypeOK /\ []OnlyLowReached /\ []LeftoversBehindFirstEighth
  BY <1>2, EptPart, OnlyLow, FirstEighth, PTL
<1>4. Spec => /\ []ControlTypeOK /\ []FixedBitsHold /\ []NothingSwitchedOff
              /\ []ControlsMinimal /\ []NothingDangling /\ []LongModeBothWays
              /\ []FaultExplained
  BY ControlPart, ControlTypes, FixedBits, NothingLost, MinimalControls, NoneDangles, LongMode,
     Faults, PTL
<1>5. Spec => []SegmentTypeOK /\ []GuestSegmentsTrue /\ []HostSegmentsSound
  BY SegmentPart, SegmentTypes, GuestSegments, HostSegments, PTL
<1> QED
  BY <1>3, <1>4, <1>5, PTL

\* The order in which the parts are written, which no part knows.
Ordered ==
    /\ ~EptBuilt => stage = "cr0"
    /\ next > 1 => StepNumber(stage) >= StepNumber("guestcr")
    /\ stage \in {"vmlaunch", "launched"} => SegmentsLoaded
    /\ outcome # "none" => stage = "launched"

LEMMA StageGoesOn ==
    ASSUME ControlNext, stage \in Stages
    PROVE  stage' = stage \/ (stage # "launched" /\ stage' = After(stage))
<1>1. CASE SetCr0 \/ SetCr4 \/ SetVmxe \/ WriteGuestRegisters \/ Vmlaunch
  BY <1>1 DEF SetCr0, SetCr4, SetVmxe, WriteGuestRegisters, Vmlaunch, At, Proceeds
<1>2. CASE WriteFeatureControl
  BY <1>2 DEF WriteFeatureControl, At, Proceeds
<1>3. CASE Vmxon
  BY <1>3 DEF Vmxon, At, Proceeds
<1>4. ASSUME NEW w \in Words, WriteControl(w)
      PROVE  stage' = stage \/ (stage # "launched" /\ stage' = After(stage))
  BY <1>4 DEF WriteControl, At, Proceeds, Words
<1> QED
  BY <1>1, <1>2, <1>3, <1>4 DEF ControlNext

\* The parts of the VMCS are written in the order of PopulateActiveVMCS, after the
\* tables were built and before the processor judges them.
THEOREM EntryTypes == Spec => []TypeOK
<1>1. Init => Ordered
  BY StepNumbers DEF Init, Ordered, ControlInit, SegmentInit
<1>2. ControlTypeOK /\ SegmentTypeOK /\ Ordered /\ [Next]_vars => Ordered'
  <2> SUFFICES ASSUME ControlTypeOK, SegmentTypeOK, Ordered, [Next]_vars PROVE Ordered'
    OBVIOUS
  <2> USE StepNumbers
  <2>a. stage \in Stages
    BY StageType
  <2>1. CASE BuildEpt
    BY <2>1 DEF BuildEpt, Ordered, EptBuilt, SegmentsLoaded, controlVars, segmentVars, EptNext,
       ZeroPml4, ZeroPdpt, ZeroPd, WritePml4, PdptLoop, PdLoop, Follows, Loop
  <2>2. CASE Control
    <3>1. /\ EptBuilt /\ EptBuilt' /\ UNCHANGED <<next, outcome>>
          /\ stage = "guestcr" => SegmentsLoaded
      BY <2>2 DEF Control, EptBuilt, eptVars, segmentVars
    <3>2. stage' = stage \/ (stage # "launched" /\ stage' = After(stage))
      BY <2>2, <2>a, StageGoesOn DEF Control
    <3>3. SegmentsLoaded' = SegmentsLoaded
      BY <3>1 DEF SegmentsLoaded
    <3>4. CASE stage' = stage
      BY <3>1, <3>3, <3>4 DEF Ordered
    <3>5. CASE stage # "launched" /\ stage' = After(stage)
      BY <2>a, <3>1, <3>3, <3>5, Afters DEF Ordered, Stages
    <3> QED
      BY <3>2, <3>4, <3>5
  <2>3. CASE Segment
    <3>1. /\ stage = "guestcr" /\ UNCHANGED <<statement, stage, outcome>>
      BY <2>3 DEF Segment, LoadSegment, eptVars, controlVars
    <3> QED
      BY <3>1 DEF Ordered, EptBuilt
  <2>4. CASE Entry
    <3>1. /\ stage = "launched" /\ UNCHANGED <<statement, stage, next>>
      BY <2>4 DEF Entry, VmEntry, eptVars, controlVars
    <3> QED
      BY <3>1 DEF Ordered, EptBuilt, SegmentsLoaded
  <2>5. CASE UNCHANGED vars
    BY <2>5 DEF vars, eptVars, controlVars, segmentVars, Ordered, EptBuilt, SegmentsLoaded
  <2> QED
    BY <2>1, <2>2, <2>3, <2>4, <2>5 DEF Next
<1>3. EptTypeOK /\ ControlTypeOK /\ SegmentTypeOK /\ Ordered => TypeOK
  BY DEF TypeOK, Ordered
<1> QED
  BY <1>1, <1>2, <1>3, PartsHold, PTL DEF Spec

\* The tables of InitializeEPT never translate an address of the guest, on any
\* processor and whatever the pool's memory held.
THEOREM EntryMemory == Spec => []GuestMemoryTrue
<1>1. NothingDangling => GuestMemoryTrue
  <2> SUFFICES ASSUME NothingDangling, stage = "launched"
               PROVE  Bit(SecondaryVMExecCtrls, "enableEPT") \notin words["secondary"]
    BY DEF GuestMemoryTrue
  <2>1. Bit(SecondaryVMExecCtrls, "enableEPT") \in NeedAField["secondary"]
    BY FieldPlaces
  <2>2. DefaultOne["secondary"] = {}
    BY DEF DefaultOne, Words
  <2> QED
    BY <2>1, <2>2 DEF NothingDangling, Words
<1> QED
  BY <1>1, PartsHold, PTL

\* What VMXON and VM entry get of CR0 and CR4, and the faults on the way, on every
\* processor and beside the other parts.
THEOREM EntryRegisters == Spec => []RegistersSound
<1>1. FixedBitsHold /\ NothingSwitchedOff /\ FaultExplained => RegistersSound
  BY DEF RegistersSound
<1> QED
  BY <1>1, PartsHold, PTL

\* The control words of PopulateActiveVMCS on every processor: the controls that
\* use a field which the driver does not write are off, but for the two that a
\* processor without the TRUE capabilities insists on.
THEOREM EntryControls == Spec => []ControlsSound
<1>1. ControlsMinimal /\ NothingDangling /\ LongModeBothWays => ControlsSound
  BY DEF ControlsSound
<1> QED
  BY <1>1, PartsHold, PTL

\* The segments of guest and host for every descriptor table and selector that the
\* assumptions allow, up to the reserved bits of the access rights.
THEOREM EntrySegments == Spec => []SegmentsSound
<1>1. GuestSegmentsTrue /\ HostSegmentsSound => SegmentsSound
  BY DEF SegmentsSound
<1> QED
  BY <1>1, PartsHold, PTL

\* What the pool left in EPT tables of any size stays out of their lower part.
THEOREM EntryTables == Spec => []LeftoversContained
<1>1. OnlyLowReached /\ LeftoversBehindFirstEighth => LeftoversContained
  BY DEF LeftoversContained
<1> QED
  BY <1>1, PartsHold, PTL

\* Whether the processor takes the guest's segments hangs on the selectors in DS,
\* ES, FS and GS and on LAR's undefined bits, whatever the processor and the EPT
\* tables are.
THEOREM EntryOutcome == Spec => []EntryHangsOnSegments
BY SegmentPart, EntryBySegments, PTL
=============================================================================
