------------------------- MODULE PopulateVmcsProofs -------------------------
(***************************************************************************)
(* Proofs about PopulateVmcs, for any processors and any bounds: that the  *)
(* call leaves every field that VM entry and VM exit need but one as it    *)
(* was meant, that the dump shows the fields whole, how many moves it      *)
(* takes to mix two processors in the VMCS, what the status that           *)
(* PopulateActiveVMCS returns says of the failed VMWRITEs, and that the    *)
(* three atomic parts of EnterVmx are what it implements.                  *)
(*                                                                         *)
(* The first section is about vmcs_field_index.h: no two fields share an   *)
(* encoding.  The second is about the text of the function; of it the      *)
(* others use ProgramShape only.                                           *)
(***************************************************************************)
EXTENDS PopulateVmcs, SequenceTheorems, TLAPS

-----------------------------------------------------------------------------
(* The encodings *)

\* Every field of family is listed under the area and the width, and its encoding
\* is in the block of 1024 that begins at 1024 * q, in a place of its own.
InBlock(family, q, width, area) ==
    /\ \A f \in DOMAIN family :
           /\ f[1] = area
           /\ family[f].width = width
           /\ family[f].code \in 1024 * q .. 1024 * q + 1023
    /\ \A f, g \in DOMAIN family : family[f].code = family[g].code => f = g

\* A family of at most 512 names of one area is in its block.
LEMMA FamilyInBlock ==
    ASSUME NEW q \in Nat, NEW width, NEW area, NEW fields, NEW n \in Nat, n <= 512,
           DOMAIN fields = 1 .. n, \A i \in 1 .. n : fields[i][1] = area,
           NEW first, first = 1024 * q
    PROVE  InBlock(Family(width, first, fields), q, width, area)
<1> DEFINE family == Family(width, first, fields)
<1>1. ASSUME NEW f \in DOMAIN family
      PROVE  /\ Place(fields, f) \in 0 .. n - 1
             /\ fields[Place(fields, f) + 1] = f
             /\ family[f] = [code |-> first + 2 * Place(fields, f), width |-> width]
  <2>1. f \in Range(fields)
    BY DEF Family
  <2>2. \E i \in 1 .. n : fields[i] = f
    BY <2>1 DEF Range
  <2> DEFINE j == CHOOSE i \in 1 .. n : fields[i] = f
  <2>3. j \in 1 .. n /\ fields[j] = f
    BY <2>2
  <2>4. Place(fields, f) = j - 1
    BY DEF Place
  <2> HIDE DEF j
  <2>5. Place(fields, f) \in 0 .. n - 1 /\ Place(fields, f) + 1 = j
    BY <2>3, <2>4
  <2>6. family[f] = [code |-> first + 2 * Place(fields, f), width |-> width]
    BY DEF Family
  <2> QED
    BY <2>3, <2>5, <2>6
<1> HIDE DEF family
<1>2. ASSUME NEW f \in DOMAIN family
      PROVE  /\ f[1] = area
             /\ family[f].width = width
             /\ family[f].code \in 1024 * q .. 1024 * q + 1023
  <2> DEFINE p == Place(fields, f)
  <2>1. p \in 0 .. n - 1 /\ fields[p + 1] = f
        /\ family[f] = [code |-> first + 2 * p, width |-> width]
    BY <1>1
  <2> HIDE DEF p
  <2>2. f[1] = area
    BY <2>1
  <2>3. family[f].code = 1024 * q + 2 * p
    BY <2>1
  <2>4. 1024 * q \in Nat /\ 2 * p \in 0 .. 1023
    BY <2>1
  <2> QED
    BY <2>1, <2>2, <2>3, <2>4
<1>3. ASSUME NEW f \in DOMAIN family, NEW g \in DOMAIN family,
             family[f].code = family[g].code
      PROVE  f = g
  <2>1. 1024 * q + 2 * Place(fields, f) = 1024 * q + 2 * Place(fields, g)
    BY <1>1, <1>3
  <2>2. 1024 * q \in Nat /\ Place(fields, f) \in Nat /\ Place(fields, g) \in Nat
    BY <1>1
  <2>3. Place(fields, f) = Place(fields, g)
    BY <2>1, <2>2
  <2> QED
    BY <1>1, <2>3
<1> QED
  BY <1>2, <1>3 DEF InBlock, family

\* The blocks of table are those of the numbers in Q; the processor's reading of an
\* encoding in it is the area and the width under which the field is listed.
FieldTable(table, Q) ==
    \A f \in DOMAIN table :
        /\ table[f].code \in Nat /\ table[f].code \div 1024 \in Q
        /\ HwArea(table[f].code) = f[1] /\ HwWidth(table[f].code) = table[f].width
        /\ \A g \in DOMAIN table : table[f].code = table[g].code => f = g

\* The processor's reading of an encoding in block q.
LEMMA BlockIsRead ==
    ASSUME NEW q \in Nat, NEW e \in 1024 * q .. 1024 * q + 1023
    PROVE  /\ e \in Nat /\ e \div 1024 = q
           /\ HwArea(e) = Areas[1 + (q % 4)] /\ HwWidth(e) = Widths[1 + ((q \div 8) % 4)]
<1>1. e \in Nat
  OBVIOUS
<1>2. e \div 1024 = q
  OBVIOUS
<1>3. e \div 8192 = (e \div 1024) \div 8
  BY <1>1
<1> QED
  BY <1>1, <1>2, <1>3 DEF HwArea, HwWidth

LEMMA BlockIsTable ==
    ASSUME NEW q \in Nat, NEW width, NEW area, NEW family, InBlock(family, q, width, area),
           area = Areas[1 + (q % 4)], width = Widths[1 + ((q \div 8) % 4)]
    PROVE  FieldTable(family, {q})
BY BlockIsRead DEF FieldTable, InBlock

LEMMA TablesMerge ==
    ASSUME NEW s, NEW t, NEW P, NEW Q, FieldTable(s, P), FieldTable(t, Q), P \cap Q = {}
    PROVE  FieldTable(s ++ t, P \cup Q) /\ DOMAIN (s ++ t) = DOMAIN s \cup DOMAIN t
<1> DEFINE u == s ++ t
<1>1. /\ DOMAIN u = DOMAIN s \cup DOMAIN t
      /\ \A f \in DOMAIN s : u[f] = s[f]
      /\ \A f \in DOMAIN u : f \in DOMAIN s \/ (f \in DOMAIN t /\ u[f] = t[f])
  BY DEF ++
<1> HIDE DEF u
<1>2. ASSUME NEW f \in DOMAIN u
      PROVE  /\ u[f].code \in Nat /\ u[f].code \div 1024 \in P \cup Q
             /\ HwArea(u[f].code) = f[1] /\ HwWidth(u[f].code) = u[f].width
  BY <1>1 DEF FieldTable
<1>3. ASSUME NEW f \in DOMAIN u, NEW g \in DOMAIN u, u[f].code = u[g].code
      PROVE  f = g
  <2>1. CASE f \in DOMAIN s /\ g \in DOMAIN s
    BY <1>1, <1>3, <2>1 DEF FieldTable
  <2>2. CASE f \in DOMAIN s /\ g \notin DOMAIN s
    BY <1>1, <1>3, <2>2 DEF FieldTable
  <2>3. CASE f \notin DOMAIN s /\ g \in DOMAIN s
    BY <1>1, <1>3, <2>3 DEF FieldTable
  <2>4. CASE f \notin DOMAIN s /\ g \notin DOMAIN s
    BY <1>1, <1>3, <2>4 DEF FieldTable
  <2> QED
    BY <2>1, <2>2, <2>3, <2>4
<1> QED
  BY <1>1, <1>2, <1>3 DEF FieldTable, u

\* A list of names or of fields.
Listed(s) == s \in Seq(Range(s))

LEMMA ListedIs ==
    ASSUME NEW S, NEW s \in Seq(S)
    PROVE  Listed(s)
<1>1. Len(s) \in Nat /\ DOMAIN s = 1 .. Len(s) /\ s \in [1 .. Len(s) -> S]
  BY LenProperties
<1>2. s \in [1 .. Len(s) -> Range(s)]
  BY <1>1 DEF Range
<1> QED
  BY <1>1, <1>2, SeqDef DEF Listed

LEMMA ListedHas ==
    ASSUME NEW s, Listed(s)
    PROVE  /\ Len(s) \in Nat /\ DOMAIN s = 1 .. Len(s)
           /\ \A i \in 1 .. Len(s) : s[i] \in Range(s)
           /\ \A x \in Range(s) : \E i \in 1 .. Len(s) : s[i] = x
<1>1. s \in Seq(Range(s))
  BY DEF Listed
<1>2. Len(s) \in Nat /\ DOMAIN s = 1 .. Len(s)
  BY <1>1, LenProperties
<1> QED
  BY <1>2 DEF Range

LEMMA IsListed ==
    ASSUME NEW s, NEW n \in Nat, s = [i \in 1 .. n |-> s[i]]
    PROVE  Listed(s) /\ Len(s) = n
<1>1. s \in [1 .. n -> Range(s)]
  BY DEF Range
<1>2. s \in Seq(Range(s))
  BY <1>1, SeqDef
<1>3. Len(s) \in Nat /\ DOMAIN s = 1 .. Len(s) /\ DOMAIN s = 1 .. n
  BY <1>2, LenProperties
<1>4. Len(s) = n
  BY <1>3
<1> QED
  BY <1>2, <1>4 DEF Listed

LEMMA NamedIsListed ==
    ASSUME NEW area, NEW part, NEW registers, Listed(registers)
    PROVE  /\ Listed(Named(area, part, registers))
           /\ Len(Named(area, part, registers)) = Len(registers)
           /\ Range(Named(area, part, registers)) =
                  {<<area, r, part>> : r \in Range(registers)}
<1> DEFINE list == Named(area, part, registers)
           n == Len(registers)
<1>1. /\ n \in Nat /\ DOMAIN registers = 1 .. n
      /\ \A i \in 1 .. n : registers[i] \in Range(registers)
      /\ \A x \in Range(registers) : \E i \in 1 .. n : registers[i] = x
  BY ListedHas
<1> HIDE DEF n
<1>2. list = [i \in 1 .. n |-> <<area, registers[i], part>>]
  BY <1>1 DEF Named
<1> HIDE DEF list
<1>3. Range(list) = {<<area, r, part>> : r \in Range(registers)}
  <2>1. ASSUME NEW x \in Range(list) PROVE x \in {<<area, r, part>> : r \in Range(registers)}
    <3>1. PICK i \in 1 .. n : list[i] = x
      BY <1>2, <2>1 DEF Range
    <3> QED
      BY <1>1, <1>2, <3>1
  <2>2. ASSUME NEW r \in Range(registers) PROVE <<area, r, part>> \in Range(list)
    <3>1. PICK i \in 1 .. n : registers[i] = r
      BY <1>1, <2>2
    <3>2. list[i] = <<area, r, part>>
      BY <1>2, <3>1
    <3> QED
      BY <1>2, <3>2 DEF Range
  <2> QED
    BY <2>1, <2>2
<1>4. list = [i \in 1 .. n |-> list[i]]
  BY <1>2
<1>5. Listed(list) /\ Len(list) = n
  BY <1>1, <1>4, IsListed
<1> QED
  BY <1>3, <1>5 DEF list, n

LEMMA ListsJoin ==
    ASSUME NEW s, NEW t, Listed(s), Listed(t)
    PROVE  /\ Listed(s \o t) /\ Len(s \o t) = Len(s) + Len(t)
           /\ Range(s \o t) = Range(s) \cup Range(t)
<1> DEFINE S == Range(s) \cup Range(t)
<1>0. s \in Seq(S) /\ t \in Seq(S)
  BY SeqMonotonic DEF Listed
<1> HIDE DEF S
<1>1. /\ s \o t \in Seq(S) /\ Len(s \o t) = Len(s) + Len(t)
      /\ \A i \in 1 .. Len(s) + Len(t) : (s \o t)[i] = IF i <= Len(s) THEN s[i] ELSE t[i - Len(s)]
  BY <1>0, ConcatProperties
<1>2. /\ DOMAIN s = 1 .. Len(s) /\ DOMAIN t = 1 .. Len(t) /\ Len(s) \in Nat /\ Len(t) \in Nat
      /\ DOMAIN (s \o t) = 1 .. Len(s) + Len(t)
  BY <1>0, <1>1, LenProperties
<1>3. ASSUME NEW x \in Range(s \o t) PROVE x \in Range(s) \cup Range(t)
  <2>1. PICK i \in 1 .. Len(s) + Len(t) : (s \o t)[i] = x
    BY <1>2, <1>3 DEF Range
  <2> QED
    BY <1>1, <1>2, <2>1 DEF Range
<1>4. ASSUME NEW x \in Range(s) PROVE x \in Range(s \o t)
  <2>1. PICK i \in 1 .. Len(s) : s[i] = x
    BY <1>2, <1>4 DEF Range
  <2>2. (s \o t)[i] = x /\ i \in 1 .. Len(s) + Len(t)
    BY <1>1, <1>2, <2>1
  <2> QED
    BY <1>2, <2>2 DEF Range
<1>5. ASSUME NEW x \in Range(t) PROVE x \in Range(s \o t)
  <2>1. PICK i \in 1 .. Len(t) : t[i] = x
    BY <1>2, <1>5 DEF Range
  <2>2. i + Len(s) \in 1 .. Len(s) + Len(t) /\ (i + Len(s)) - Len(s) = i /\ ~(i + Len(s) <= Len(s))
    BY <1>2, <2>1
  <2>3. (s \o t)[i + Len(s)] = x
    BY <1>1, <2>1, <2>2
  <2> QED
    BY <1>2, <2>2, <2>3 DEF Range
<1> QED
  BY <1>1, <1>3, <1>4, <1>5, ListedIs

\* A list of n fields of one area, which are those in F and gaps.
FieldList(s, n, area, F) ==
    /\ Listed(s) /\ Len(s) = n
    /\ F = {f \in Range(s) : f[2] # "none"}
    /\ \A f \in Range(s) : f[1] = area

\* The parts of the registers that have one of the names.
PartsOf(area, part, names) == {<<area, r, part>> : r \in names \ {"none"}}

LEMMA NamedList ==
    ASSUME NEW area, NEW part, NEW registers, NEW n, Listed(registers), Len(registers) = n
    PROVE  FieldList(Named(area, part, registers), n, area, PartsOf(area, part, Range(registers)))
<1>1. /\ Listed(Named(area, part, registers)) /\ Len(Named(area, part, registers)) = n
      /\ Range(Named(area, part, registers)) = {<<area, r, part>> : r \in Range(registers)}
  BY NamedIsListed
<1> QED
  BY <1>1 DEF FieldList, PartsOf

LEMMA ListsMerge ==
    ASSUME NEW area, NEW s, NEW m, NEW F, NEW t, NEW n, NEW G,
           FieldList(s, m, area, F), FieldList(t, n, area, G)
    PROVE  FieldList(s \o t, m + n, area, F \cup G)
<1>1. /\ Listed(s \o t) /\ Len(s \o t) = m + n
      /\ Range(s \o t) = Range(s) \cup Range(t)
  BY ListsJoin DEF FieldList
<1> QED
  BY <1>1 DEF FieldList

\* The area and the width of the encodings in block q, the first of which is first.
FieldBlock(q, first, width, area) ==
    /\ q \in Nat /\ first = 1024 * q
    /\ area = Areas[1 + (q % 4)]
    /\ width = Widths[1 + ((q \div 8) % 4)]

\* A table of the fields F, all of one width, in the blocks of Q.
Group(table, Q, width, F) ==
    /\ FieldTable(table, Q)
    /\ DOMAIN table = F
    /\ \A f \in F : table[f].width = width

\* A list of at most 512 fields of one area, as a family from 1024 * q on.
LEMMA FamilyIsGroup ==
    ASSUME NEW q, NEW first, NEW width, NEW area, FieldBlock(q, first, width, area),
           NEW fields, NEW n, NEW F, FieldList(fields, n, area, F), n <= 512
    PROVE  Group(Family(width, first, fields), {q}, width, F)
<1> DEFINE family == Family(width, first, fields)
<1>1. n \in Nat /\ n <= 512 /\ DOMAIN fields = 1 .. n /\ \A i \in 1 .. n : fields[i][1] = area
  BY ListedHas DEF FieldList
<1>2. InBlock(family, q, width, area)
  <2>1. q \in Nat /\ first = 1024 * q
    BY DEF FieldBlock
  <2> QED
    BY <1>1, <2>1, FamilyInBlock
<1>3. DOMAIN family = F
  BY DEF Family, FieldList
<1> HIDE DEF family
<1>4. FieldTable(family, {q})
  BY <1>2, BlockIsTable DEF FieldBlock
<1>5. \A f \in DOMAIN family : family[f].width = width
  BY <1>2 DEF InBlock
<1> QED
  BY <1>3, <1>4, <1>5 DEF family, Group

LEMMA GroupsMerge ==
    ASSUME NEW w, NEW s, NEW P, NEW F, NEW t, NEW Q, NEW G,
           Group(s, P, w, F), Group(t, Q, w, G), P \cap Q = {}
    PROVE  Group(s ++ t, P \cup Q, w, F \cup G)
<1>1. FieldTable(s ++ t, P \cup Q) /\ DOMAIN (s ++ t) = F \cup G
  BY TablesMerge DEF Group
<1>2. \A f \in F \cup G : (s ++ t)[f].width = w
  BY DEF Group, ++
<1> QED
  BY <1>1, <1>2 DEF Group

LEMMA AreasAndWidths ==
    /\ Areas[1] = "control" /\ Areas[2] = "exit" /\ Areas[3] = "guest" /\ Areas[4] = "host"
    /\ Widths[1] = "16" /\ Widths[2] = "64" /\ Widths[3] = "32" /\ Widths[4] = "natural"
BY DEF Areas, Widths

LEMMA SegmentNames ==
    /\ Listed(Segments) /\ Len(Segments) = 8
    /\ Range(Segments) = {"es", "cs", "ss", "ds", "fs", "gs", "ldtr", "tr"}
    /\ Listed(Tables) /\ Len(Tables) = 2 /\ Range(Tables) = {"gdtr", "idtr"}
    /\ Listed(ControlRegisters) /\ Len(ControlRegisters) = 3
    /\ Range(ControlRegisters) = {"cr0", "cr3", "cr4"}
    /\ Listed(Segments \o Tables) /\ Len(Segments \o Tables) = 10
    /\ Range(Segments \o Tables) = Range(Segments) \cup Range(Tables)
<1>1. /\ Segments = [i \in 1 .. 8 |-> Segments[i]]
      /\ Range(Segments) = {"es", "cs", "ss", "ds", "fs", "gs", "ldtr", "tr"}
  BY DEF Segments, Range
<1>2. Tables = [i \in 1 .. 2 |-> Tables[i]] /\ Range(Tables) = {"gdtr", "idtr"}
  BY DEF Tables, Range
<1>3. /\ ControlRegisters = [i \in 1 .. 3 |-> ControlRegisters[i]]
      /\ Range(ControlRegisters) = {"cr0", "cr3", "cr4"}
  BY DEF ControlRegisters, Range
<1>4. /\ Listed(Segments) /\ Len(Segments) = 8 /\ Listed(Tables) /\ Len(Tables) = 2
      /\ Listed(ControlRegisters) /\ Len(ControlRegisters) = 3
  BY <1>1, <1>2, <1>3, IsListed
<1> QED
  BY <1>1, <1>2, <1>3, <1>4, ListsJoin

LEMMA Names16 ==
    /\ Listed(ControlValues16) /\ Len(ControlValues16) = 3
    /\ Range(ControlValues16) = {"vpid", "posted_vector", "eptp_index"}
    /\ Listed(GuestValues16) /\ Len(GuestValues16) = 2
    /\ Range(GuestValues16) = {"interrupt_status", "pml_index"}
    /\ Listed(HostSelectors) /\ Len(HostSelectors) = 7
    /\ Range(HostSelectors) = {"es", "cs", "ss", "ds", "fs", "gs", "tr"}
<1>1. /\ ControlValues16 = [i \in 1 .. 3 |-> ControlValues16[i]]
      /\ Range(ControlValues16) = {"vpid", "posted_vector", "eptp_index"}
  BY DEF ControlValues16, Range
<1>2. /\ GuestValues16 = [i \in 1 .. 2 |-> GuestValues16[i]]
      /\ Range(GuestValues16) = {"interrupt_status", "pml_index"}
  BY DEF GuestValues16, Range
<1>3. /\ HostSelectors = [i \in 1 .. 7 |-> HostSelectors[i]]
      /\ Range(HostSelectors) = {"es", "cs", "ss", "ds", "fs", "gs", "tr"}
  BY DEF HostSelectors, Range
<1> QED
  BY <1>1, <1>2, <1>3, IsListed

LEMMA Names64 ==
    /\ Listed(ControlAddresses) /\ Len(ControlAddresses) = 28
    /\ Listed(GuestValues64) /\ Len(GuestValues64) = 12
    /\ Range(GuestValues64) = {"vmcs_link", "debugctl", "pat", "efer", "perf_global", "pdpte0",
                                "pdpte1", "pdpte2", "pdpte3", "bndcfgs", "rtit_ctl", "pkrs"}
    /\ Listed(HostValues64) /\ Len(HostValues64) = 4
    /\ Range(HostValues64) = {"pat", "efer", "perf_global", "pkrs"}
<1>1. ControlAddresses = [i \in 1 .. 28 |-> ControlAddresses[i]]
  BY DEF ControlAddresses
<1>2. /\ GuestValues64 = [i \in 1 .. 12 |-> GuestValues64[i]]
      /\ Range(GuestValues64) = {"vmcs_link", "debugctl", "pat", "efer", "perf_global", "pdpte0",
             "pdpte1", "pdpte2", "pdpte3", "bndcfgs", "rtit_ctl", "pkrs"}
  BY DEF GuestValues64, Range
<1>3. /\ HostValues64 = [i \in 1 .. 4 |-> HostValues64[i]]
      /\ Range(HostValues64) = {"pat", "efer", "perf_global", "pkrs"}
  BY DEF HostValues64, Range
<1> QED
  BY <1>1, <1>2, <1>3, IsListed

LEMMA Names32 ==
    /\ Listed(ControlValues32) /\ Len(ControlValues32) = 18
    /\ {"pin", "primary", "exception_bitmap", "exit", "entry", "secondary"}
           \subseteq Range(ControlValues32)
    /\ Listed(ExitValues32) /\ Len(ExitValues32) = 8
    /\ Listed(GuestValues32) /\ Len(GuestValues32) = 5
    /\ Range(GuestValues32) =
           {"interruptibility", "activity", "smbase", "sysenter_cs", "preemption_timer"}
<1>1. /\ ControlValues32 = [i \in 1 .. 18 |-> ControlValues32[i]]
      /\ {"pin", "primary", "exception_bitmap", "exit", "entry", "secondary"}
             \subseteq Range(ControlValues32)
  BY DEF ControlValues32, Range
<1>2. ExitValues32 = [i \in 1 .. 8 |-> ExitValues32[i]]
  BY DEF ExitValues32
<1>3. /\ GuestValues32 = [i \in 1 .. 5 |-> GuestValues32[i]]
      /\ Range(GuestValues32) =
             {"interruptibility", "activity", "smbase", "sysenter_cs", "preemption_timer"}
  BY DEF GuestValues32, Range
<1> QED
  BY <1>1, <1>2, <1>3, IsListed

LEMMA NamesNatural ==
    /\ Listed(OwnedRegisters) /\ Len(OwnedRegisters) = 2 /\ Range(OwnedRegisters) = {"cr0", "cr4"}
    /\ Listed(Cr3Targets) /\ Len(Cr3Targets) = 4
    /\ Listed(ExitValues) /\ Len(ExitValues) = 6
    /\ Listed(GuestValues) /\ Len(GuestValues) = 10
    /\ {"dr7", "rsp", "rip", "rflags", "pending_debug", "sysenter_esp", "sysenter_eip"}
           \subseteq Range(GuestValues)
    /\ Listed(HostBases) /\ Len(HostBases) = 5
    /\ Range(HostBases) = {"fs", "gs", "tr", "gdtr", "idtr"}
    /\ Listed(HostValues) /\ Len(HostValues) = 7
    /\ {"sysenter_esp", "sysenter_eip", "rsp", "rip"} \subseteq Range(HostValues)
<1>1. /\ OwnedRegisters = [i \in 1 .. 2 |-> OwnedRegisters[i]]
      /\ Range(OwnedRegisters) = {"cr0", "cr4"}
  BY DEF OwnedRegisters, Range
<1>2. Cr3Targets = [i \in 1 .. 4 |-> Cr3Targets[i]] /\ ExitValues = [i \in 1 .. 6 |-> ExitValues[i]]
  BY DEF Cr3Targets, ExitValues
<1>3. /\ GuestValues = [i \in 1 .. 10 |-> GuestValues[i]]
      /\ {"dr7", "rsp", "rip", "rflags", "pending_debug", "sysenter_esp", "sysenter_eip"}
             \subseteq Range(GuestValues)
  BY DEF GuestValues, Range
<1>4. /\ HostBases = [i \in 1 .. 5 |-> HostBases[i]]
      /\ Range(HostBases) = {"fs", "gs", "tr", "gdtr", "idtr"}
  BY DEF HostBases, Range
<1>5. /\ HostValues = [i \in 1 .. 7 |-> HostValues[i]]
      /\ {"sysenter_esp", "sysenter_eip", "rsp", "rip"} \subseteq Range(HostValues)
  BY DEF HostValues, Range
<1> QED
  BY <1>1, <1>2, <1>3, <1>4, <1>5, IsListed

\* A name on its own.
LEMMA OneListed == ASSUME NEW x PROVE Listed(<<x>>) /\ Len(<<x>>) = 1 /\ Range(<<x>>) = {x}
<1>1. <<x>> = [i \in 1 .. 1 |-> <<x>>[i]] /\ Range(<<x>>) = {x}
  BY DEF Range
<1> QED
  BY <1>1, IsListed

LEMMA TheBlocks ==
    /\ FieldBlock(0, 0, "16", "control")
    /\ FieldBlock(2, 2048, "16", "guest") /\ FieldBlock(3, 3072, "16", "host")
    /\ FieldBlock(8, 8192, "64", "control") /\ FieldBlock(9, 9216, "64", "exit")
    /\ FieldBlock(10, 10240, "64", "guest") /\ FieldBlock(11, 11264, "64", "host")
    /\ FieldBlock(16, 16384, "32", "control") /\ FieldBlock(17, 17408, "32", "exit")
    /\ FieldBlock(18, 18432, "32", "guest") /\ FieldBlock(19, 19456, "32", "host")
    /\ FieldBlock(24, 24576, "natural", "control") /\ FieldBlock(25, 25600, "natural", "exit")
    /\ FieldBlock(26, 26624, "natural", "guest") /\ FieldBlock(27, 27648, "natural", "host")
BY AreasAndWidths DEF FieldBlock

LEMMA Fields16Group ==
    Group(Fields16, {0, 2, 3}, "16",
          PartsOf("control", "value", Range(ControlValues16))
          \cup PartsOf("guest", "selector", Range(Segments))
          \cup PartsOf("guest", "value", Range(GuestValues16))
          \cup PartsOf("host", "selector", Range(HostSelectors)))
<1> DEFINE F == PartsOf("control", "value", Range(ControlValues16))
           G == PartsOf("guest", "selector", Range(Segments))
                \cup PartsOf("guest", "value", Range(GuestValues16))
           H == PartsOf("host", "selector", Range(HostSelectors))
           control == Family("16", 0, Named("control", "value", ControlValues16))
           guest == Family("16", 2048, Named("guest", "selector", Segments)
                                    \o Named("guest", "value", GuestValues16))
           host == Family("16", 3072, Named("host", "selector", HostSelectors))
<1>1. Group(control, {0}, "16", F)
  <2>1. FieldList(Named("control", "value", ControlValues16),
                  3, "control", F)
    BY NamedList, Names16
  <2> HIDE DEF F
  <2> QED
    BY <2>1, FamilyIsGroup, TheBlocks
<1>2. Group(guest, {2}, "16", G)
  <2>1. FieldList(Named("guest", "selector", Segments)
                  \o Named("guest", "value", GuestValues16),
                  8 + 2, "guest", G)
    BY NamedList, ListsMerge, SegmentNames, Names16
  <2> HIDE DEF G
  <2> QED
    BY <2>1, FamilyIsGroup, TheBlocks
<1>3. Group(host, {3}, "16", H)
  <2>1. FieldList(Named("host", "selector", HostSelectors),
                  7, "host", H)
    BY NamedList, Names16
  <2> HIDE DEF H
  <2> QED
    BY <2>1, FamilyIsGroup, TheBlocks
<1>4. Fields16 = control ++ guest ++ host
  BY DEF Fields16
<1> HIDE DEF F, G, H, control, guest, host
<1>5. Group(control ++ guest, {0} \cup {2}, "16", F \cup G)
  BY <1>1, <1>2, GroupsMerge
<1>6. Group(Fields16, ({0} \cup {2}) \cup {3}, "16", (F \cup G) \cup H)
  BY <1>3, <1>4, <1>5, GroupsMerge
<1>7. ({0} \cup {2}) \cup {3} = {0, 2, 3}
  OBVIOUS
<1> QED
  BY <1>6, <1>7 DEF F, G, H

LEMMA Fields64ControlGroup ==
    Group(Fields64Control, {8}, "64",
          PartsOf("control", "address", Range(ControlAddresses)))
<1> DEFINE F == PartsOf("control", "address", Range(ControlAddresses))
<1>1. FieldList(Named("control", "address", ControlAddresses), 28, "control", F)
  BY NamedList, Names64
<1> HIDE DEF F
<1>2. Group(Fields64Control, {8}, "64", F)
  BY <1>1, FamilyIsGroup, TheBlocks DEF Fields64Control
<1> QED
  BY <1>2 DEF F

LEMMA Fields64StateGroup ==
    Group(Fields64State, {9, 10, 11}, "64",
          PartsOf("exit", "value", Range(<<"guest_physical_address">>))
          \cup PartsOf("guest", "value", Range(GuestValues64))
          \cup PartsOf("host", "value", Range(HostValues64)))
<1> DEFINE F == PartsOf("exit", "value", Range(<<"guest_physical_address">>))
           G == PartsOf("guest", "value", Range(GuestValues64))
           H == PartsOf("host", "value", Range(HostValues64))
           exit == Family("64", 9216, Named("exit", "value", <<"guest_physical_address">>))
           guest == Family("64", 10240, Named("guest", "value", GuestValues64))
           host == Family("64", 11264, Named("host", "value", HostValues64))
<1>1. Group(exit, {9}, "64", F)
  <2>1. FieldList(Named("exit", "value", <<"guest_physical_address">>),
                  1, "exit", F)
    BY NamedList, OneListed
  <2> HIDE DEF F
  <2> QED
    BY <2>1, FamilyIsGroup, TheBlocks
<1>2. Group(guest, {10}, "64", G)
  <2>1. FieldList(Named("guest", "value", GuestValues64),
                  12, "guest", G)
    BY NamedList, Names64
  <2> HIDE DEF G
  <2> QED
    BY <2>1, FamilyIsGroup, TheBlocks
<1>3. Group(host, {11}, "64", H)
  <2>1. FieldList(Named("host", "value", HostValues64),
                  4, "host", H)
    BY NamedList, Names64
  <2> HIDE DEF H
  <2> QED
    BY <2>1, FamilyIsGroup, TheBlocks
<1>4. Fields64State = exit ++ guest ++ host
  BY DEF Fields64State
<1> HIDE DEF F, G, H, exit, guest, host
<1>5. Group(exit ++ guest, {9} \cup {10}, "64", F \cup G)
  BY <1>1, <1>2, GroupsMerge
<1>6. Group(Fields64State, ({9} \cup {10}) \cup {11}, "64", (F \cup G) \cup H)
  BY <1>3, <1>4, <1>5, GroupsMerge
<1>7. ({9} \cup {10}) \cup {11} = {9, 10, 11}
  OBVIOUS
<1> QED
  BY <1>6, <1>7 DEF F, G, H

LEMMA Fields32ControlGroup ==
    Group(Fields32Control, {16, 17}, "32",
          PartsOf("control", "value", Range(ControlValues32))
          \cup PartsOf("exit", "value", Range(ExitValues32)))
<1> DEFINE F == PartsOf("control", "value", Range(ControlValues32))
           G == PartsOf("exit", "value", Range(ExitValues32))
           control == Family("32", 16384, Named("control", "value", ControlValues32))
           exit == Family("32", 17408, Named("exit", "value", ExitValues32))
<1>1. Group(control, {16}, "32", F)
  <2>1. FieldList(Named("control", "value", ControlValues32),
                  18, "control", F)
    BY NamedList, Names32
  <2> HIDE DEF F
  <2> QED
    BY <2>1, FamilyIsGroup, TheBlocks
<1>2. Group(exit, {17}, "32", G)
  <2>1. FieldList(Named("exit", "value", ExitValues32),
                  8, "exit", G)
    BY NamedList, Names32
  <2> HIDE DEF G
  <2> QED
    BY <2>1, FamilyIsGroup, TheBlocks
<1>3. Fields32Control = control ++ exit
  BY DEF Fields32Control
<1> HIDE DEF F, G, control, exit
<1>4. Group(Fields32Control, {16} \cup {17}, "32", F \cup G)
  BY <1>1, <1>2, <1>3, GroupsMerge
<1>5. {16} \cup {17} = {16, 17}
  OBVIOUS
<1> QED
  BY <1>4, <1>5 DEF F, G

LEMMA Fields32StateGroup ==
    Group(Fields32State, {18, 19}, "32",
          PartsOf("guest", "limit", Range(Segments \o Tables))
          \cup PartsOf("guest", "access", Range(Segments))
          \cup PartsOf("guest", "value", Range(GuestValues32))
          \cup PartsOf("host", "value", Range(<<"sysenter_cs">>)))
<1> DEFINE F == PartsOf("guest", "limit", Range(Segments \o Tables))
                \cup PartsOf("guest", "access", Range(Segments))
                \cup PartsOf("guest", "value", Range(GuestValues32))
           G == PartsOf("host", "value", Range(<<"sysenter_cs">>))
           guest == Family("32", 18432, Named("guest", "limit", Segments \o Tables)
                                     \o Named("guest", "access", Segments)
                                     \o Named("guest", "value", GuestValues32))
           host == Family("32", 19456, Named("host", "value", <<"sysenter_cs">>))
<1>1. Group(guest, {18}, "32", F)
  <2>1. FieldList(Named("guest", "limit", Segments \o Tables)
                  \o Named("guest", "access", Segments)
                  \o Named("guest", "value", GuestValues32),
                  10 + 8 + 5, "guest", F)
    BY NamedList, ListsMerge, SegmentNames, Names32
  <2> HIDE DEF F
  <2> QED
    BY <2>1, FamilyIsGroup, TheBlocks
<1>2. Group(host, {19}, "32", G)
  <2>1. FieldList(Named("host", "value", <<"sysenter_cs">>),
                  1, "host", G)
    BY NamedList, OneListed
  <2> HIDE DEF G
  <2> QED
    BY <2>1, FamilyIsGroup, TheBlocks
<1>3. Fields32State = guest ++ host
  BY DEF Fields32State
<1> HIDE DEF F, G, guest, host
<1>4. Group(Fields32State, {18} \cup {19}, "32", F \cup G)
  BY <1>1, <1>2, <1>3, GroupsMerge
<1>5. {18} \cup {19} = {18, 19}
  OBVIOUS
<1> QED
  BY <1>4, <1>5 DEF F, G

LEMMA FieldsNaturalControlGroup ==
    Group(FieldsNaturalControl, {24, 25}, "natural",
          PartsOf("control", "mask", Range(OwnedRegisters))
          \cup PartsOf("control", "shadow", Range(OwnedRegisters))
          \cup PartsOf("control", "cr3_target", Range(Cr3Targets))
          \cup PartsOf("exit", "value", Range(ExitValues)))
<1> DEFINE F == PartsOf("control", "mask", Range(OwnedRegisters))
                \cup PartsOf("control", "shadow", Range(OwnedRegisters))
                \cup PartsOf("control", "cr3_target", Range(Cr3Targets))
           G == PartsOf("exit", "value", Range(ExitValues))
           control == Family("natural", 24576, Named("control", "mask", OwnedRegisters)
                                            \o Named("control", "shadow", OwnedRegisters)
                                            \o Named("control", "cr3_target", Cr3Targets))
           exit == Family("natural", 25600, Named("exit", "value", ExitValues))
<1>1. Group(control, {24}, "natural", F)
  <2>1. FieldList(Named("control", "mask", OwnedRegisters)
                  \o Named("control", "shadow", OwnedRegisters)
                  \o Named("control", "cr3_target", Cr3Targets),
                  2 + 2 + 4, "control", F)
    BY NamedList, ListsMerge, SegmentNames, NamesNatural
  <2> HIDE DEF F
  <2> QED
    BY <2>1, FamilyIsGroup, TheBlocks
<1>2. Group(exit, {25}, "natural", G)
  <2>1. FieldList(Named("exit", "value", ExitValues),
                  6, "exit", G)
    BY NamedList, NamesNatural
  <2> HIDE DEF G
  <2> QED
    BY <2>1, FamilyIsGroup, TheBlocks
<1>3. FieldsNaturalControl = control ++ exit
  BY DEF FieldsNaturalControl
<1> HIDE DEF F, G, control, exit
<1>4. Group(FieldsNaturalControl, {24} \cup {25}, "natural", F \cup G)
  BY <1>1, <1>2, <1>3, GroupsMerge
<1>5. {24} \cup {25} = {24, 25}
  OBVIOUS
<1> QED
  BY <1>4, <1>5 DEF F, G

LEMMA FieldsNaturalStateGroup ==
    Group(FieldsNaturalState, {26, 27}, "natural",
          PartsOf("guest", "value", Range(ControlRegisters))
          \cup PartsOf("guest", "base", Range(Segments \o Tables))
          \cup PartsOf("guest", "value", Range(GuestValues))
          \cup PartsOf("host", "value", Range(ControlRegisters))
          \cup PartsOf("host", "base", Range(HostBases))
          \cup PartsOf("host", "value", Range(HostValues)))
<1> DEFINE F == PartsOf("guest", "value", Range(ControlRegisters))
                \cup PartsOf("guest", "base", Range(Segments \o Tables))
                \cup PartsOf("guest", "value", Range(GuestValues))
           G == PartsOf("host", "value", Range(ControlRegisters))
                \cup PartsOf("host", "base", Range(HostBases))
                \cup PartsOf("host", "value", Range(HostValues))
           guest == Family("natural", 26624, Named("guest", "value", ControlRegisters)
                                          \o Named("guest", "base", Segments \o Tables)
                                          \o Named("guest", "value", GuestValues))
           host == Family("natural", 27648, Named("host", "value", ControlRegisters)
                                         \o Named("host", "base", HostBases)
                                         \o Named("host", "value", HostValues))
<1>1. Group(guest, {26}, "natural", F)
  <2>1. FieldList(Named("guest", "value", ControlRegisters)
                  \o Named("guest", "base", Segments \o Tables)
                  \o Named("guest", "value", GuestValues),
                  3 + 10 + 10, "guest", F)
    BY NamedList, ListsMerge, SegmentNames, NamesNatural
  <2> HIDE DEF F
  <2> QED
    BY <2>1, FamilyIsGroup, TheBlocks
<1>2. Group(host, {27}, "natural", G)
  <2>1. FieldList(Named("host", "value", ControlRegisters)
                  \o Named("host", "base", HostBases)
                  \o Named("host", "value", HostValues),
                  3 + 5 + 7, "host", G)
    BY NamedList, ListsMerge, SegmentNames, NamesNatural
  <2> HIDE DEF G
  <2> QED
    BY <2>1, FamilyIsGroup, TheBlocks
<1>3. FieldsNaturalState = guest ++ host
  BY DEF FieldsNaturalState
<1> HIDE DEF F, G, guest, host
<1>4. Group(FieldsNaturalState, {26} \cup {27}, "natural", F \cup G)
  BY <1>1, <1>2, <1>3, GroupsMerge
<1>5. {26} \cup {27} = {26, 27}
  OBVIOUS
<1> QED
  BY <1>4, <1>5 DEF F, G

LEMMA TablesStack ==
    ASSUME NEW s, NEW t, NEW P, NEW Q, NEW R, FieldTable(s, P), FieldTable(t, Q),
           P \cap Q = {}, P \cup Q \subseteq R
    PROVE  FieldTable(s ++ t, R) /\ DOMAIN (s ++ t) = DOMAIN s \cup DOMAIN t
<1>1. FieldTable(s ++ t, P \cup Q) /\ DOMAIN (s ++ t) = DOMAIN s \cup DOMAIN t
  BY TablesMerge
<1> QED
  BY <1>1 DEF FieldTable

LEMMA VmcsFieldTable ==
    /\ FieldTable(VmcsField, 0 .. 27)
    /\ DOMAIN VmcsField =
           DOMAIN Fields16 \cup DOMAIN Fields64Control \cup DOMAIN Fields64State
           \cup DOMAIN Fields32Control \cup DOMAIN Fields32State
           \cup DOMAIN FieldsNaturalControl \cup DOMAIN FieldsNaturalState
<1> DEFINE a == Fields16 ++ Fields64Control
           b == a ++ Fields64State
           c == b ++ Fields32Control
           d == c ++ Fields32State
           e == d ++ FieldsNaturalControl
<1>1. /\ FieldTable(Fields16, {0, 2, 3}) /\ FieldTable(Fields64Control, {8})
      /\ FieldTable(Fields64State, {9, 10, 11}) /\ FieldTable(Fields32Control, {16, 17})
      /\ FieldTable(Fields32State, {18, 19}) /\ FieldTable(FieldsNaturalControl, {24, 25})
      /\ FieldTable(FieldsNaturalState, {26, 27})
  BY Fields16Group, Fields64ControlGroup, Fields64StateGroup, Fields32ControlGroup,
     Fields32StateGroup, FieldsNaturalControlGroup, FieldsNaturalStateGroup DEF Group
<1>2. VmcsField = e ++ FieldsNaturalState
  BY DEF VmcsField
<1>3. FieldTable(Fields16, 0 .. 3)
  BY <1>1 DEF FieldTable
<1>4. FieldTable(a, 0 .. 8) /\ DOMAIN a = DOMAIN Fields16 \cup DOMAIN Fields64Control
  <2>1. (0 .. 3) \cap {8} = {} /\ (0 .. 3) \cup {8} \subseteq 0 .. 8
    OBVIOUS
  <2> QED
    BY <1>1, <1>3, <2>1, TablesStack
<1> HIDE DEF a
<1>5. FieldTable(b, 0 .. 11) /\ DOMAIN b = DOMAIN a \cup DOMAIN Fields64State
  <2>1. (0 .. 8) \cap {9, 10, 11} = {} /\ (0 .. 8) \cup {9, 10, 11} \subseteq 0 .. 11
    OBVIOUS
  <2> QED
    BY <1>1, <1>4, <2>1, TablesStack
<1> HIDE DEF b
<1>6. FieldTable(c, 0 .. 17) /\ DOMAIN c = DOMAIN b \cup DOMAIN Fields32Control
  <2>1. (0 .. 11) \cap {16, 17} = {} /\ (0 .. 11) \cup {16, 17} \subseteq 0 .. 17
    OBVIOUS
  <2> QED
    BY <1>1, <1>5, <2>1, TablesStack
<1> HIDE DEF c
<1>7. FieldTable(d, 0 .. 19) /\ DOMAIN d = DOMAIN c \cup DOMAIN Fields32State
  <2>1. (0 .. 17) \cap {18, 19} = {} /\ (0 .. 17) \cup {18, 19} \subseteq 0 .. 19
    OBVIOUS
  <2> QED
    BY <1>1, <1>6, <2>1, TablesStack
<1> HIDE DEF d
<1>8. FieldTable(e, 0 .. 25) /\ DOMAIN e = DOMAIN d \cup DOMAIN FieldsNaturalControl
  <2>1. (0 .. 19) \cap {24, 25} = {} /\ (0 .. 19) \cup {24, 25} \subseteq 0 .. 25
    OBVIOUS
  <2> QED
    BY <1>1, <1>7, <2>1, TablesStack
<1> HIDE DEF e
<1>9. FieldTable(VmcsField, 0 .. 27) /\ DOMAIN VmcsField = DOMAIN e \cup DOMAIN FieldsNaturalState
  <2>1. (0 .. 25) \cap {26, 27} = {} /\ (0 .. 25) \cup {26, 27} \subseteq 0 .. 27
    OBVIOUS
  <2> QED
    BY <1>1, <1>2, <1>8, <2>1, TablesStack
<1> QED
  BY <1>4, <1>5, <1>6, <1>7, <1>8, <1>9

\* u is s and, where s has nothing, t.
Joins(u, s, t) ==
    /\ DOMAIN u = DOMAIN s \cup DOMAIN t
    /\ \A f \in DOMAIN s : u[f] = s[f]
    /\ \A f \in DOMAIN t : f \notin DOMAIN s => u[f] = t[f]

LEMMA MergeJoins == ASSUME NEW s, NEW t PROVE Joins(s ++ t, s, t)
BY DEF Joins, ++

\* What is listed in the 16-bit families is 16 bits wide, and what the 32-bit ones list
\* and no one before them, 32 bits.
LEMMA FieldWidths ==
    /\ \A f \in DOMAIN VmcsField : VmcsField[f].width \in {"16", "32", "64", "natural"}
    /\ \A f \in DOMAIN Fields16 : VmcsField[f].width = "16"
    /\ \A f \in DOMAIN Fields32Control \cup DOMAIN Fields32State :
           f \notin DOMAIN Fields16 \cup DOMAIN Fields64Control \cup DOMAIN Fields64State
               => VmcsField[f].width = "32"
<1>1. /\ \A f \in DOMAIN Fields16 : Fields16[f].width = "16"
      /\ \A f \in DOMAIN Fields64Control : Fields64Control[f].width = "64"
      /\ \A f \in DOMAIN Fields64State : Fields64State[f].width = "64"
      /\ \A f \in DOMAIN Fields32Control : Fields32Control[f].width = "32"
      /\ \A f \in DOMAIN Fields32State : Fields32State[f].width = "32"
      /\ \A f \in DOMAIN FieldsNaturalControl : FieldsNaturalControl[f].width = "natural"
      /\ \A f \in DOMAIN FieldsNaturalState : FieldsNaturalState[f].width = "natural"
  BY Fields16Group, Fields64ControlGroup, Fields64StateGroup, Fields32ControlGroup,
     Fields32StateGroup, FieldsNaturalControlGroup, FieldsNaturalStateGroup DEF Group
<1> DEFINE a == Fields16 ++ Fields64Control
           b == a ++ Fields64State
           c == b ++ Fields32Control
           d == c ++ Fields32State
           e == d ++ FieldsNaturalControl
<1>2. VmcsField = e ++ FieldsNaturalState
  BY DEF VmcsField
<1>3. /\ Joins(a, Fields16, Fields64Control) /\ Joins(b, a, Fields64State)
      /\ Joins(c, b, Fields32Control) /\ Joins(d, c, Fields32State)
      /\ Joins(e, d, FieldsNaturalControl) /\ Joins(VmcsField, e, FieldsNaturalState)
  BY <1>2, MergeJoins
<1> HIDE DEF a, b, c, d, e
<1>4. /\ DOMAIN b = DOMAIN Fields16 \cup DOMAIN Fields64Control \cup DOMAIN Fields64State
      /\ \A f \in DOMAIN b : b[f].width \in {"16", "64"}
      /\ \A f \in DOMAIN Fields16 : b[f].width = "16"
  BY <1>1, <1>3 DEF Joins
<1>5. /\ DOMAIN d = DOMAIN b \cup DOMAIN Fields32Control \cup DOMAIN Fields32State
      /\ \A f \in DOMAIN d : d[f].width \in {"16", "32", "64"}
      /\ \A f \in DOMAIN b : d[f].width = b[f].width
      /\ \A f \in DOMAIN Fields32Control \cup DOMAIN Fields32State :
             f \notin DOMAIN b => d[f].width = "32"
  BY <1>1, <1>3, <1>4 DEF Joins
<1>6. /\ \A f \in DOMAIN VmcsField : VmcsField[f].width \in {"16", "32", "64", "natural"}
      /\ \A f \in DOMAIN d : VmcsField[f].width = d[f].width
  BY <1>1, <1>3, <1>5 DEF Joins
<1> QED
  BY <1>4, <1>5, <1>6

\* No two fields of vmcs_field_index.h have the same encoding, and what the
\* processor reads from each, its area and its width, is what the comment over
\* its family says.
THEOREM EncodingsDistinct ==
    \A f \in DOMAIN VmcsField :
        /\ Code(f) \in Nat
        /\ HwArea(Code(f)) = f[1] /\ HwWidth(Code(f)) = VmcsField[f].width
        /\ \A g \in DOMAIN VmcsField : Code(f) = Code(g) => f = g
BY VmcsFieldTable DEF FieldTable, Code

LEMMA WidthsAre ==
    /\ \A w \in {"16", "32", "64", "natural"} : Bits[w] \in Nat /\ Bits[w] >= 16
    /\ Bits["16"] = 16 /\ Bits["32"] = 32 /\ Bits["64"] = 64 /\ Bits["natural"] = 64
BY DEF Bits

-----------------------------------------------------------------------------
(* The program *)

\* A value of width w is enough for the field f, which the enumerator has.
FieldFits(w, f) == f \in DOMAIN VmcsField /\ Bits[w] >= Bits[VmcsField[f].width]
Takes(w, f) == f \in Names /\ FieldFits(w, f)

GoodSteps  == {s \in Steps : IF s.op = "read" THEN s.field = NoField
                             ELSE s.width # "none" /\ FieldFits(s.width, s.field)}
PlainSteps == {s \in GoodSteps : s.op # "assign"}

\* Each field that the function writes has a name and takes a value of the width given.
LEMMA WritesFit ==
    /\ \A s \in {"es", "cs", "ss", "ds", "fs", "gs", "ldtr", "tr"} :
           /\ Takes("16", <<"guest", s, "selector">>)
           /\ Takes("32", <<"guest", s, "limit">>)
           /\ Takes("32", <<"guest", s, "access">>)
           /\ Takes("natural", <<"guest", s, "base">>)
    /\ \A s \in {"es", "cs", "ss", "ds", "fs", "gs", "tr"} : Takes("16", <<"host", s, "selector">>)
    /\ \A r \in {"gdtr", "idtr"} : /\ Takes("32", <<"guest", r, "limit">>)
                                   /\ Takes("natural", <<"guest", r, "base">>)
    /\ \A r \in {"fs", "gs", "tr", "gdtr", "idtr"} : Takes("natural", <<"host", r, "base">>)
    /\ \A n \in {"pin", "primary", "secondary", "exit", "entry", "exception_bitmap"} :
           Takes("32", Control(n))
    /\ \A r \in {"cr0", "cr4"} : /\ Takes("natural", <<"control", r, "mask">>)
                                 /\ Takes("natural", <<"control", r, "shadow">>)
    /\ Takes("64", Guest("vmcs_link"))
    /\ \A n \in {"activity", "interruptibility", "sysenter_cs"} : Takes("32", Guest(n))
    /\ \A n \in {"cr0", "cr3", "cr4", "dr7", "rsp", "rip", "rflags", "pending_debug",
                 "sysenter_esp", "sysenter_eip"} : Takes("natural", Guest(n))
    /\ Takes("32", Host("sysenter_cs"))
    /\ \A n \in {"cr0", "cr3", "cr4", "rsp", "rip", "sysenter_esp", "sysenter_eip"} :
           Takes("natural", Host(n))
<1>b. /\ Bits["16"] = 16 /\ Bits["32"] = 32 /\ Bits["64"] = 64 /\ Bits["natural"] = 64
  BY DEF Bits
<1>1. \A f \in DOMAIN VmcsField : FieldFits("64", f) /\ FieldFits("natural", f)
  BY <1>b, FieldWidths DEF FieldFits
<1>2. \A f \in DOMAIN Fields16 : FieldFits("16", f)
  BY <1>b, FieldWidths, VmcsFieldTable DEF FieldFits
<1>3. \A f \in DOMAIN Fields32Control \cup DOMAIN Fields32State :
          f \notin DOMAIN Fields16 \cup DOMAIN Fields64Control \cup DOMAIN Fields64State
              => FieldFits("32", f)
  BY <1>b, FieldWidths, VmcsFieldTable DEF FieldFits
<1>n. /\ Range(Segments) = {"es", "cs", "ss", "ds", "fs", "gs", "ldtr", "tr"}
      /\ Range(Tables) = {"gdtr", "idtr"}
      /\ Range(Segments \o Tables) = Range(Segments) \cup Range(Tables)
      /\ Range(ControlRegisters) = {"cr0", "cr3", "cr4"}
  BY SegmentNames
<1>4. /\ DOMAIN Fields16 =
             PartsOf("control", "value", {"vpid", "posted_vector", "eptp_index"})
             \cup PartsOf("guest", "selector", Range(Segments))
             \cup PartsOf("guest", "value", {"interrupt_status", "pml_index"})
             \cup PartsOf("host", "selector", {"es", "cs", "ss", "ds", "fs", "gs", "tr"})
  BY Fields16Group, Names16 DEF Group
<1>5. \A f \in DOMAIN Fields64Control : f[3] = "address"
  BY Fields64ControlGroup DEF Group, PartsOf
<1>6. DOMAIN Fields64State =
          PartsOf("exit", "value", {"guest_physical_address"})
          \cup PartsOf("guest", "value",
                       {"vmcs_link", "debugctl", "pat", "efer", "perf_global", "pdpte0",
                        "pdpte1", "pdpte2", "pdpte3", "bndcfgs", "rtit_ctl", "pkrs"})
          \cup PartsOf("host", "value", {"pat", "efer", "perf_global", "pkrs"})
  BY Fields64StateGroup, Names64, OneListed DEF Group
<1>7. \A n \in {"pin", "primary", "exception_bitmap", "exit", "entry", "secondary"} :
          Control(n) \in DOMAIN Fields32Control
  BY Fields32ControlGroup, Names32 DEF Group, PartsOf, Control
<1>8. DOMAIN Fields32State =
          PartsOf("guest", "limit", Range(Segments \o Tables))
          \cup PartsOf("guest", "access", Range(Segments))
          \cup PartsOf("guest", "value", {"interruptibility", "activity", "smbase",
                                          "sysenter_cs", "preemption_timer"})
          \cup PartsOf("host", "value", {"sysenter_cs"})
  BY Fields32StateGroup, Names32, OneListed DEF Group
<1>9. \A r \in {"cr0", "cr4"} : /\ <<"control", r, "mask">> \in DOMAIN FieldsNaturalControl
                                /\ <<"control", r, "shadow">> \in DOMAIN FieldsNaturalControl
  BY FieldsNaturalControlGroup, NamesNatural DEF Group, PartsOf
<1>10. /\ \A n \in {"cr0", "cr3", "cr4", "dr7", "rsp", "rip", "rflags", "pending_debug",
                    "sysenter_esp", "sysenter_eip"} : Guest(n) \in DOMAIN FieldsNaturalState
       /\ \A r \in Range(Segments \o Tables) : <<"guest", r, "base">> \in DOMAIN FieldsNaturalState
       /\ \A r \in {"fs", "gs", "tr", "gdtr", "idtr"} :
              <<"host", r, "base">> \in DOMAIN FieldsNaturalState
       /\ \A n \in {"cr0", "cr3", "cr4", "rsp", "rip", "sysenter_esp", "sysenter_eip"} :
              Host(n) \in DOMAIN FieldsNaturalState
  <2>1. DOMAIN FieldsNaturalState =
            PartsOf("guest", "value", {"cr0", "cr3", "cr4"})
            \cup PartsOf("guest", "base", Range(Segments \o Tables))
            \cup PartsOf("guest", "value", Range(GuestValues))
            \cup PartsOf("host", "value", {"cr0", "cr3", "cr4"})
            \cup PartsOf("host", "base", {"fs", "gs", "tr", "gdtr", "idtr"})
            \cup PartsOf("host", "value", Range(HostValues))
    BY FieldsNaturalStateGroup, NamesNatural, <1>n DEF Group
  <2> QED
    BY <2>1, NamesNatural, <1>n DEF PartsOf, Guest, Host
<1>11. DOMAIN Fields16 \cup DOMAIN Fields64State \cup DOMAIN Fields32Control
       \cup DOMAIN Fields32State \cup DOMAIN FieldsNaturalControl \cup DOMAIN FieldsNaturalState
           \subseteq DOMAIN VmcsField
  BY VmcsFieldTable
<1>12. ASSUME NEW s \in {"es", "cs", "ss", "ds", "fs", "gs", "ldtr", "tr"}
       PROVE  /\ FieldFits("16", <<"guest", s, "selector">>)
              /\ FieldFits("32", <<"guest", s, "limit">>)
              /\ FieldFits("32", <<"guest", s, "access">>)
              /\ FieldFits("natural", <<"guest", s, "base">>)
  <2>1. <<"guest", s, "selector">> \in DOMAIN Fields16
    BY <1>4, <1>n DEF PartsOf
  <2>2. /\ <<"guest", s, "limit">> \in DOMAIN Fields32State
        /\ <<"guest", s, "access">> \in DOMAIN Fields32State
    BY <1>8, <1>n DEF PartsOf
  <2>3. /\ <<"guest", s, "limit">> \notin
               DOMAIN Fields16 \cup DOMAIN Fields64Control \cup DOMAIN Fields64State
        /\ <<"guest", s, "access">> \notin
               DOMAIN Fields16 \cup DOMAIN Fields64Control \cup DOMAIN Fields64State
    BY <1>4, <1>5, <1>6 DEF PartsOf
  <2>4. <<"guest", s, "base">> \in DOMAIN VmcsField
    BY <1>10, <1>11, <1>n
  <2> QED
    BY <1>1, <1>2, <1>3, <2>1, <2>2, <2>3, <2>4
<1>13. ASSUME NEW r \in {"gdtr", "idtr"}
       PROVE  /\ FieldFits("32", <<"guest", r, "limit">>)
              /\ FieldFits("natural", <<"guest", r, "base">>)
  <2>1. <<"guest", r, "limit">> \in DOMAIN Fields32State
    BY <1>8, <1>n DEF PartsOf
  <2>2. <<"guest", r, "limit">> \notin
               DOMAIN Fields16 \cup DOMAIN Fields64Control \cup DOMAIN Fields64State
    BY <1>4, <1>5, <1>6 DEF PartsOf
  <2>3. <<"guest", r, "base">> \in DOMAIN VmcsField
    BY <1>10, <1>11, <1>n
  <2> QED
    BY <1>1, <1>3, <2>1, <2>2, <2>3
<1>14. \A s \in {"es", "cs", "ss", "ds", "fs", "gs", "tr"} :
           FieldFits("16", <<"host", s, "selector">>)
  BY <1>2, <1>4 DEF PartsOf
<1>15. \A n \in {"pin", "primary", "secondary", "exit", "entry", "exception_bitmap"} :
           FieldFits("32", Control(n))
  <2> SUFFICES ASSUME NEW n \in {"pin", "primary", "secondary", "exit", "entry",
                                 "exception_bitmap"}
               PROVE  FieldFits("32", Control(n))
    OBVIOUS
  <2>1. Control(n) \notin DOMAIN Fields16 \cup DOMAIN Fields64Control \cup DOMAIN Fields64State
    BY <1>4, <1>5, <1>6 DEF PartsOf, Control
  <2> QED
    BY <1>3, <1>7, <2>1
<1>16. \A n \in {"activity", "interruptibility", "sysenter_cs"} : FieldFits("32", Guest(n))
  <2> SUFFICES ASSUME NEW n \in {"activity", "interruptibility", "sysenter_cs"}
               PROVE  FieldFits("32", Guest(n))
    OBVIOUS
  <2>1. Guest(n) \notin DOMAIN Fields16 \cup DOMAIN Fields64Control \cup DOMAIN Fields64State
    BY <1>4, <1>5, <1>6 DEF PartsOf, Guest
  <2>2. Guest(n) \in DOMAIN Fields32State
    BY <1>8 DEF PartsOf, Guest
  <2> QED
    BY <1>3, <2>1, <2>2
<1>17. FieldFits("32", Host("sysenter_cs"))
  <2>1. Host("sysenter_cs") \notin
            DOMAIN Fields16 \cup DOMAIN Fields64Control \cup DOMAIN Fields64State
    BY <1>4, <1>5, <1>6 DEF PartsOf, Host
  <2>2. Host("sysenter_cs") \in DOMAIN Fields32State
    BY <1>8 DEF PartsOf, Host
  <2> QED
    BY <1>3, <2>1, <2>2
<1>18. FieldFits("64", Guest("vmcs_link"))
  BY <1>1, <1>6, <1>11 DEF PartsOf, Guest
<1>19. /\ \A s \in {"es", "cs", "ss", "ds", "fs", "gs", "ldtr", "tr"} :
              /\ <<"guest", s, "selector">> \in Names /\ <<"guest", s, "limit">> \in Names
              /\ <<"guest", s, "access">> \in Names /\ <<"guest", s, "base">> \in Names
       /\ \A s \in {"es", "cs", "ss", "ds", "fs", "gs", "tr"} : <<"host", s, "selector">> \in Names
       /\ \A r \in {"gdtr", "idtr"} : /\ <<"guest", r, "limit">> \in Names
                                      /\ <<"guest", r, "base">> \in Names
       /\ \A r \in {"fs", "gs", "tr", "gdtr", "idtr"} : <<"host", r, "base">> \in Names
       /\ \A r \in {"cr0", "cr4"} : /\ <<"control", r, "mask">> \in Names
                                    /\ <<"control", r, "shadow">> \in Names
  BY DEF Names
<1>20. /\ \A n \in {"pin", "primary", "secondary", "exit", "entry", "exception_bitmap"} :
              Control(n) \in Names
       /\ \A n \in {"vmcs_link", "activity", "interruptibility", "sysenter_cs", "cr0", "cr3",
                    "cr4", "dr7", "rsp", "rip", "rflags", "pending_debug", "sysenter_esp",
                    "sysenter_eip"} : Guest(n) \in Names
       /\ \A n \in {"sysenter_cs", "cr0", "cr3", "cr4", "rsp", "rip", "sysenter_esp",
                    "sysenter_eip"} : Host(n) \in Names
  BY DEF Names, Control, Guest, Host
<1> QED
  BY <1>1, <1>9, <1>10, <1>11, <1>12, <1>13, <1>14, <1>15, <1>16, <1>17, <1>18, <1>19, <1>20
     DEF Takes

\* The fields that the steps of s write.
Meant(s) == {s[i].field : i \in {j \in DOMAIN s : s[j].op # "read"}}

\* s is a sequence of plain steps that write the fields of F, and maybe others.
Plain(s, F) == s \in Seq(PlainSteps) /\ F \subseteq Meant(s)

LEMMA MeantJoins ==
    ASSUME NEW S, NEW s \in Seq(S), NEW t \in Seq(S)
    PROVE  Meant(s) \cup Meant(t) \subseteq Meant(s \o t)
<1>1. /\ s \o t \in Seq(S) /\ Len(s \o t) = Len(s) + Len(t)
      /\ \A i \in 1 .. Len(s) + Len(t) : (s \o t)[i] = IF i <= Len(s) THEN s[i] ELSE t[i - Len(s)]
  BY ConcatProperties
<1>2. /\ DOMAIN s = 1 .. Len(s) /\ DOMAIN t = 1 .. Len(t) /\ Len(s) \in Nat /\ Len(t) \in Nat
      /\ DOMAIN (s \o t) = 1 .. Len(s) + Len(t)
  BY <1>1, LenProperties
<1>3. ASSUME NEW f \in Meant(s) PROVE f \in Meant(s \o t)
  <2>1. PICK i \in 1 .. Len(s) : s[i].op # "read" /\ s[i].field = f
    BY <1>2, <1>3 DEF Meant
  <2>2. (s \o t)[i] = s[i] /\ i \in DOMAIN (s \o t)
    BY <1>1, <1>2, <2>1
  <2> QED
    BY <2>1, <2>2 DEF Meant
<1>4. ASSUME NEW f \in Meant(t) PROVE f \in Meant(s \o t)
  <2>1. PICK i \in 1 .. Len(t) : t[i].op # "read" /\ t[i].field = f
    BY <1>2, <1>4 DEF Meant
  <2>2. /\ i + Len(s) \in 1 .. Len(s) + Len(t) /\ (i + Len(s)) - Len(s) = i
        /\ ~(i + Len(s) <= Len(s))
    BY <1>2, <2>1
  <2>3. (s \o t)[i + Len(s)] = t[i] /\ i + Len(s) \in DOMAIN (s \o t)
    BY <1>1, <1>2, <2>1, <2>2
  <2> QED
    BY <2>1, <2>3 DEF Meant
<1> QED
  BY <1>3, <1>4

LEMMA PlainJoins ==
    ASSUME NEW s, NEW F, NEW t, NEW G, Plain(s, F), Plain(t, G)
    PROVE  Plain(s \o t, F \cup G) /\ (Len(t) > 0 => Len(s \o t) > 0)
<1>1. s \in Seq(PlainSteps) /\ t \in Seq(PlainSteps)
  BY DEF Plain
<1>2. /\ s \o t \in Seq(PlainSteps) /\ Len(s \o t) = Len(s) + Len(t)
      /\ Len(s) \in Nat /\ Len(t) \in Nat
  BY <1>1, ConcatProperties, LenProperties
<1>3. Meant(s) \cup Meant(t) \subseteq Meant(s \o t)
  BY <1>1, MeantJoins
<1>4. F \subseteq Meant(s) /\ G \subseteq Meant(t)
  BY DEF Plain
<1> QED
  BY <1>2, <1>3, <1>4 DEF Plain

LEMMA ReadIsStep ==
    ASSUME NEW l \in Locals, NEW F \in SUBSET Locals
    PROVE  Read(l, F) \in PlainSteps
BY DEF Read, PlainSteps, GoodSteps, Steps, Ops, Names, NoField

LEMMA PutIsStep ==
    ASSUME NEW w \in {"16", "32", "natural", "64"}, NEW f, Takes(w, f), NEW F \in SUBSET Locals
    PROVE  /\ Put(w, f, F) \in PlainSteps
           /\ Put(w, f, F).op # "read" /\ Put(w, f, F).field = f
           /\ PutAssign(w, f, F) \in GoodSteps
           /\ PutAssign(w, f, F).op = "assign" /\ PutAssign(w, f, F).field = f
BY DEF Put, PutAssign, PlainSteps, GoodSteps, Steps, Ops, Takes

\* A segment's steps, whatever the segment; LDTR has no place in the host's area.
LEMMA SegmentIsPlain ==
    ASSUME NEW s \in {"es", "cs", "ss", "ds", "fs", "gs", "ldtr", "tr"}
    PROVE  /\ Plain(SegmentStart(s), {<<"guest", s, "selector">>, <<"guest", s, "limit">>,
                                      <<"guest", s, "access">>})
           /\ Plain(GuestBase(s), {<<"guest", s, "base">>})
           /\ s \in {"fs", "gs", "tr"} => Plain(HostBase(s), {<<"host", s, "base">>})
           /\ s # "ldtr" => Plain(HostSelector(s), {<<"host", s, "selector">>})
           /\ s # "ldtr" => Plain(Flat(s), {<<"guest", s, "selector">>, <<"guest", s, "limit">>,
                                            <<"guest", s, "access">>, <<"guest", s, "base">>,
                                            <<"host", s, "selector">>})
<1>1. {"gdtr", "selectors"} \in SUBSET Locals /\ {"selectors"} \in SUBSET Locals
      /\ {"entry"} \in SUBSET Locals /\ "entry" \in Locals
  BY DEF Locals
<1>2. /\ Takes("16", <<"guest", s, "selector">>) /\ Takes("32", <<"guest", s, "limit">>)
      /\ Takes("32", <<"guest", s, "access">>) /\ Takes("natural", <<"guest", s, "base">>)
      /\ s \in {"fs", "gs", "tr"} => Takes("natural", <<"host", s, "base">>)
      /\ s # "ldtr" => Takes("16", <<"host", s, "selector">>)
  BY WritesFit
<1>3. Plain(SegmentStart(s), {<<"guest", s, "selector">>, <<"guest", s, "limit">>,
                              <<"guest", s, "access">>})
  <2> DEFINE a == Read("entry", {"gdtr", "selectors"})
             b == Put("16", <<"guest", s, "selector">>, {"selectors"})
             c == Put("32", <<"guest", s, "limit">>, {"entry"})
             d == Put("32", <<"guest", s, "access">>, {"entry"})
  <2>1. /\ a \in PlainSteps
        /\ b \in PlainSteps /\ b.op # "read" /\ b.field = <<"guest", s, "selector">>
        /\ c \in PlainSteps /\ c.op # "read" /\ c.field = <<"guest", s, "limit">>
        /\ d \in PlainSteps /\ d.op # "read" /\ d.field = <<"guest", s, "access">>
    BY <1>1, <1>2, ReadIsStep, PutIsStep
  <2>2. SegmentStart(s) = <<a, b, c, d>>
    BY DEF SegmentStart
  <2> HIDE DEF a, b, c, d
  <2>3. <<a, b, c, d>> \in Seq(PlainSteps)
    BY <2>1
  <2>4. {b.field, c.field, d.field} \subseteq Meant(<<a, b, c, d>>)
    BY <2>1 DEF Meant
  <2> QED
    BY <2>1, <2>2, <2>3, <2>4 DEF Plain
<1>4. ASSUME NEW w \in {"16", "natural"}, NEW f, Takes(w, f), NEW F \in SUBSET Locals
      PROVE  Plain(<<Put(w, f, F)>>, {f})
  <2> DEFINE p == Put(w, f, F)
  <2>1. p \in PlainSteps /\ p.op # "read" /\ p.field = f
    BY <1>4, PutIsStep
  <2> HIDE DEF p
  <2>2. <<p>> \in Seq(PlainSteps) /\ p.field \in Meant(<<p>>)
    BY <2>1 DEF Meant
  <2> QED
    BY <2>1, <2>2 DEF Plain, p
<1>5. Plain(GuestBase(s), {<<"guest", s, "base">>})
  BY <1>1, <1>2, <1>4 DEF GuestBase
<1>6. s \in {"fs", "gs", "tr"} => Plain(HostBase(s), {<<"host", s, "base">>})
  BY <1>1, <1>2, <1>4 DEF HostBase
<1>7. s # "ldtr" => Plain(HostSelector(s), {<<"host", s, "selector">>})
  BY <1>1, <1>2, <1>4 DEF HostSelector
<1>8. ASSUME s # "ldtr"
      PROVE  Plain(Flat(s), {<<"guest", s, "selector">>, <<"guest", s, "limit">>,
                             <<"guest", s, "access">>, <<"guest", s, "base">>,
                             <<"host", s, "selector">>})
  <2>1. Plain((SegmentStart(s) \o GuestBase(s)) \o HostSelector(s),
              ({<<"guest", s, "selector">>, <<"guest", s, "limit">>, <<"guest", s, "access">>}
               \cup {<<"guest", s, "base">>}) \cup {<<"host", s, "selector">>})
    BY <1>3, <1>5, <1>7, <1>8, PlainJoins
  <2> QED
    BY <2>1 DEF Flat, Plain
<1> QED
  BY <1>3, <1>5, <1>6, <1>7, <1>8

LEMMA LocalsAre ==
    /\ {} \in SUBSET Locals
    /\ \A l \in {"basic", "secondary", "pin", "primary", "exit", "entry_controls", "selectors",
                 "gdtr", "idtr", "gsbase", "cr0", "cr4", "hostcr", "dr7", "syscs", "sysesp",
                 "syseip"} : l \in Locals /\ {l} \in SUBSET Locals
BY DEF Locals

\* A control's two steps, whatever the control.
LEMMA AdjustIsPlain ==
    ASSUME NEW l \in {"secondary", "pin", "primary", "exit", "entry_controls"},
           NEW name \in {"secondary", "pin", "primary", "exit", "entry"},
           NEW F \in {{}, {"basic"}}
    PROVE  Plain(AdjustAndPut(l, name, F), {Control(name)})
<1> DEFINE a == Read(l, F)
           b == Put("32", Control(name), {l})
<1>1. /\ a \in PlainSteps
      /\ b \in PlainSteps /\ b.op # "read" /\ b.field = Control(name)
  <2>1. l \in Locals /\ F \in SUBSET Locals /\ {l} \in SUBSET Locals
    BY LocalsAre
  <2>2. Takes("32", Control(name))
    BY WritesFit
  <2> QED
    BY <2>1, <2>2, ReadIsStep, PutIsStep
<1>2. AdjustAndPut(l, name, F) = <<a, b>>
  BY DEF AdjustAndPut
<1> HIDE DEF a, b
<1>3. <<a, b>> \in Seq(PlainSteps) /\ b.field \in Meant(<<a, b>>)
  BY <1>1 DEF Meant
<1> QED
  BY <1>1, <1>2, <1>3 DEF Plain

LEMMA InterruptTableIsPlain ==
    Plain(InterruptTable, {<<"guest", "idtr", "limit">>, <<"guest", "idtr", "base">>,
                           <<"host", "idtr", "base">>})
<1> DEFINE a == Put("32", <<"guest", "idtr", "limit">>, {"idtr"})
           b == Put("natural", <<"guest", "idtr", "base">>, {"idtr"})
           c == Put("natural", <<"host", "idtr", "base">>, {"idtr"})
<1>1. /\ a \in PlainSteps /\ a.op # "read" /\ a.field = <<"guest", "idtr", "limit">>
      /\ b \in PlainSteps /\ b.op # "read" /\ b.field = <<"guest", "idtr", "base">>
      /\ c \in PlainSteps /\ c.op # "read" /\ c.field = <<"host", "idtr", "base">>
  BY LocalsAre, WritesFit, PutIsStep
<1>2. InterruptTable = <<a, b, c>>
  BY DEF InterruptTable
<1> HIDE DEF a, b, c
<1>3. <<a, b, c>> \in Seq(PlainSteps)
  BY <1>1
<1>4. {a.field, b.field, c.field} \subseteq Meant(<<a, b, c>>)
  BY <1>1 DEF Meant
<1> QED
  BY <1>1, <1>2, <1>3, <1>4 DEF Plain

LEMMA Cr0IsPlain ==
    Plain(Cr0, {Guest("cr0"), Host("cr0"), <<"control", "cr0", "mask">>,
                <<"control", "cr0", "shadow">>})
<1> DEFINE a == Put("natural", Guest("cr0"), {"cr0"})
           b == Read("hostcr", {})
           c == Put("natural", Host("cr0"), {"hostcr"})
           d == Put("natural", <<"control", "cr0", "mask">>, {})
           e == Put("natural", <<"control", "cr0", "shadow">>, {"cr0"})
<1>1. /\ a \in PlainSteps /\ a.op # "read" /\ a.field = Guest("cr0")
      /\ b \in PlainSteps
      /\ c \in PlainSteps /\ c.op # "read" /\ c.field = Host("cr0")
      /\ d \in PlainSteps /\ d.op # "read" /\ d.field = <<"control", "cr0", "mask">>
      /\ e \in PlainSteps /\ e.op # "read" /\ e.field = <<"control", "cr0", "shadow">>
  BY LocalsAre, WritesFit, ReadIsStep, PutIsStep
<1>2. Cr0 = <<a, b, c, d, e>>
  BY DEF Cr0
<1> HIDE DEF a, b, c, d, e
<1>3. <<a, b, c, d, e>> \in Seq(PlainSteps)
  BY <1>1
<1>4. {a.field, c.field, d.field, e.field} \subseteq Meant(<<a, b, c, d, e>>)
  BY <1>1 DEF Meant
<1> QED
  BY <1>1, <1>2, <1>3, <1>4 DEF Plain

LEMMA Cr4IsPlain ==
    Plain(Cr4, {Guest("cr4"), Host("cr4"), <<"control", "cr4", "mask">>,
                <<"control", "cr4", "shadow">>})
<1> DEFINE a == Put("natural", Guest("cr4"), {"cr4"})
           b == Read("hostcr", {})
           c == Put("natural", Host("cr4"), {"hostcr"})
           d == Put("natural", <<"control", "cr4", "mask">>, {})
           e == Put("natural", <<"control", "cr4", "shadow">>, {"cr4"})
<1>1. /\ a \in PlainSteps /\ a.op # "read" /\ a.field = Guest("cr4")
      /\ b \in PlainSteps
      /\ c \in PlainSteps /\ c.op # "read" /\ c.field = Host("cr4")
      /\ d \in PlainSteps /\ d.op # "read" /\ d.field = <<"control", "cr4", "mask">>
      /\ e \in PlainSteps /\ e.op # "read" /\ e.field = <<"control", "cr4", "shadow">>
  BY LocalsAre, WritesFit, ReadIsStep, PutIsStep
<1>2. Cr4 = <<a, b, c, d, e>>
  BY DEF Cr4
<1> HIDE DEF a, b, c, d, e
<1>3. <<a, b, c, d, e>> \in Seq(PlainSteps)
  BY <1>1
<1>4. {a.field, c.field, d.field, e.field} \subseteq Meant(<<a, b, c, d, e>>)
  BY <1>1 DEF Meant
<1> QED
  BY <1>1, <1>2, <1>3, <1>4 DEF Plain

LEMMA SysenterIsPlain ==
    /\ Plain(Sysenter, {Host("sysenter_cs"), Guest("sysenter_cs"), Guest("sysenter_esp"),
                        Guest("sysenter_eip"), Host("sysenter_esp"), Host("sysenter_eip")})
    /\ Len(Sysenter) > 0
<1> DEFINE a == Read("syscs", {})
           b == Read("sysesp", {})
           c == Read("syseip", {})
           d == Put("32", Host("sysenter_cs"), {"syscs"})
           e == Put("32", Guest("sysenter_cs"), {"syscs"})
           f == Put("natural", Guest("sysenter_esp"), {"sysesp"})
           g == Put("natural", Guest("sysenter_eip"), {"syseip"})
           h == Put("natural", Host("sysenter_esp"), {"sysesp"})
           i == Put("natural", Host("sysenter_eip"), {"syseip"})
<1>1. /\ a \in PlainSteps
      /\ b \in PlainSteps
      /\ c \in PlainSteps
      /\ d \in PlainSteps /\ d.op # "read" /\ d.field = Host("sysenter_cs")
      /\ e \in PlainSteps /\ e.op # "read" /\ e.field = Guest("sysenter_cs")
      /\ f \in PlainSteps /\ f.op # "read" /\ f.field = Guest("sysenter_esp")
      /\ g \in PlainSteps /\ g.op # "read" /\ g.field = Guest("sysenter_eip")
      /\ h \in PlainSteps /\ h.op # "read" /\ h.field = Host("sysenter_esp")
      /\ i \in PlainSteps /\ i.op # "read" /\ i.field = Host("sysenter_eip")
  BY LocalsAre, WritesFit, ReadIsStep, PutIsStep
<1>2. Sysenter = <<a, b, c, d, e, f, g, h, i>>
  BY DEF Sysenter
<1> HIDE DEF a, b, c, d, e, f, g, h, i
<1>3. <<a, b, c, d, e, f, g, h, i>> \in Seq(PlainSteps) /\ Len(<<a, b, c, d, e, f, g, h, i>>) = 9
  BY <1>1
<1>4. {d.field, e.field, f.field, g.field, h.field, i.field}
          \subseteq Meant(<<a, b, c, d, e, f, g, h, i>>)
  BY <1>1 DEF Meant
<1> QED
  BY <1>1, <1>2, <1>3, <1>4 DEF Plain

LEMMA ControlsBeforeIsPlain ==
    Plain(ControlsBefore,
          {Guest("vmcs_link"), Control("secondary"), Control("pin"), Control("primary"),
           Control("exception_bitmap"), Control("exit"), Control("entry"), Guest("activity"),
           Guest("interruptibility")})
<1> DEFINE a == Read("basic", {})
           b == Put("64", Guest("vmcs_link"), {})
           c == Put("32", Control("exception_bitmap"), {})
           d == Put("32", Guest("activity"), {})
           e == Put("32", Guest("interruptibility"), {})
<1>1. /\ a \in PlainSteps
      /\ b \in PlainSteps /\ b.op # "read" /\ b.field = Guest("vmcs_link")
      /\ c \in PlainSteps /\ c.op # "read" /\ c.field = Control("exception_bitmap")
      /\ d \in PlainSteps /\ d.op # "read" /\ d.field = Guest("activity")
      /\ e \in PlainSteps /\ e.op # "read" /\ e.field = Guest("interruptibility")
  BY LocalsAre, WritesFit, ReadIsStep, PutIsStep
<1>2. /\ Plain(AdjustAndPut("secondary", "secondary", {}), {Control("secondary")})
      /\ Plain(AdjustAndPut("pin", "pin", {"basic"}), {Control("pin")})
      /\ Plain(AdjustAndPut("primary", "primary", {"basic"}), {Control("primary")})
      /\ Plain(AdjustAndPut("exit", "exit", {"basic"}), {Control("exit")})
      /\ Plain(AdjustAndPut("entry_controls", "entry", {"basic"}), {Control("entry")})
  BY AdjustIsPlain
<1> DEFINE first == <<a, b>>
           front == first \o AdjustAndPut("secondary", "secondary", {})
                          \o AdjustAndPut("pin", "pin", {"basic"})
                          \o AdjustAndPut("primary", "primary", {"basic"})
<1>3. ControlsBefore = front \o <<c>> \o AdjustAndPut("exit", "exit", {"basic"})
                             \o AdjustAndPut("entry_controls", "entry", {"basic"}) \o <<d, e>>
  BY DEF ControlsBefore
<1> HIDE DEF a, b, c, d, e
<1>4. /\ Plain(first, {b.field}) /\ Plain(<<c>>, {c.field}) /\ Plain(<<d, e>>, {d.field, e.field})
  <2>1. <<a, b>> \in Seq(PlainSteps) /\ <<c>> \in Seq(PlainSteps) /\ <<d, e>> \in Seq(PlainSteps)
    BY <1>1
  <2>2. b.field \in Meant(<<a, b>>) /\ c.field \in Meant(<<c>>)
        /\ {d.field, e.field} \subseteq Meant(<<d, e>>)
    BY <1>1 DEF Meant
  <2> QED
    BY <2>1, <2>2 DEF Plain
<1> HIDE DEF first
<1>5. Plain(front, (({b.field} \cup {Control("secondary")}) \cup {Control("pin")})
                   \cup {Control("primary")})
  BY <1>2, <1>4, PlainJoins
<1> HIDE DEF front
<1>6. Plain(front \o <<c>> \o AdjustAndPut("exit", "exit", {"basic"})
                  \o AdjustAndPut("entry_controls", "entry", {"basic"}) \o <<d, e>>,
            (((((({b.field} \cup {Control("secondary")}) \cup {Control("pin")})
                \cup {Control("primary")}) \cup {c.field}) \cup {Control("exit")})
             \cup {Control("entry")}) \cup {d.field, e.field})
  BY <1>2, <1>4, <1>5, PlainJoins
<1> QED
  BY <1>1, <1>3, <1>6 DEF Plain

\* The fields of a flat segment.
FlatFields(s) == {<<"guest", s, "selector">>, <<"guest", s, "limit">>, <<"guest", s, "access">>,
                  <<"guest", s, "base">>, <<"host", s, "selector">>}

LEMMA SegmentGroupIsPlain ==
    /\ Plain(SegmentGroup,
             FlatFields("cs") \cup FlatFields("ss") \cup FlatFields("ds") \cup FlatFields("es")
             \cup FlatFields("fs") \cup FlatFields("gs") \cup FlatFields("tr")
             \cup {<<"host", "fs", "base">>, <<"host", "gs", "base">>, <<"host", "tr", "base">>}
             \cup {<<"guest", "ldtr", p>> : p \in {"selector", "limit", "access", "base"}}
             \cup {<<"guest", "gdtr", "limit">>, <<"guest", "gdtr", "base">>,
                   <<"host", "gdtr", "base">>})
    /\ Len(SegmentGroup) > 0
<1> DEFINE a == Read("selectors", {})
           b == Read("gdtr", {})
           c == Read("idtr", {})
           d == Read("gsbase", {})
           e == Put("natural", <<"guest", "gs", "base">>, {"gsbase"})
           f == Put("natural", <<"host", "gs", "base">>, {"gsbase"})
           g == Put("32", <<"guest", "gdtr", "limit">>, {"gdtr"})
           h == Put("natural", <<"guest", "gdtr", "base">>, {"gdtr"})
           i == Put("natural", <<"host", "gdtr", "base">>, {"gdtr"})
           reads == <<a, b, c>>
           bases == <<d, e, d, f>>
           last == <<g, h, i>>
<1>1. /\ a \in PlainSteps /\ b \in PlainSteps /\ c \in PlainSteps /\ d \in PlainSteps
      /\ e \in PlainSteps /\ e.op # "read" /\ e.field = <<"guest", "gs", "base">>
      /\ f \in PlainSteps /\ f.op # "read" /\ f.field = <<"host", "gs", "base">>
      /\ g \in PlainSteps /\ g.op # "read" /\ g.field = <<"guest", "gdtr", "limit">>
      /\ h \in PlainSteps /\ h.op # "read" /\ h.field = <<"guest", "gdtr", "base">>
      /\ i \in PlainSteps /\ i.op # "read" /\ i.field = <<"host", "gdtr", "base">>
  BY LocalsAre, WritesFit, ReadIsStep, PutIsStep
<1> DEFINE A == reads \o Flat("cs") \o Flat("ss") \o Flat("ds") \o Flat("es")
           B == A \o SegmentStart("fs") \o GuestBase("fs") \o HostBase("fs") \o HostSelector("fs")
           C == B \o SegmentStart("gs") \o bases \o HostSelector("gs")
           D == C \o SegmentStart("tr") \o GuestBase("tr") \o HostBase("tr") \o HostSelector("tr")
<1>2. SegmentGroup = D \o Ldtr \o last
  BY DEF SegmentGroup
<1> HIDE DEF a, b, c, d, e, f, g, h, i
<1>3. /\ Plain(reads, {})
      /\ Plain(bases, {e.field, f.field})
      /\ Plain(last, {g.field, h.field, i.field})
      /\ Len(last) > 0
  <2>1. /\ <<a, b, c>> \in Seq(PlainSteps) /\ <<d, e, d, f>> \in Seq(PlainSteps)
        /\ <<g, h, i>> \in Seq(PlainSteps)
    BY <1>1
  <2>2. {e.field, f.field} \subseteq Meant(<<d, e, d, f>>)
    BY <1>1 DEF Meant
  <2>3. {g.field, h.field, i.field} \subseteq Meant(<<g, h, i>>)
    BY <1>1 DEF Meant
  <2> QED
    BY <2>1, <2>2, <2>3 DEF Plain
<1> HIDE DEF reads, bases, last
<1>4. /\ Plain(Flat("cs"), FlatFields("cs")) /\ Plain(Flat("ss"), FlatFields("ss"))
      /\ Plain(Flat("ds"), FlatFields("ds")) /\ Plain(Flat("es"), FlatFields("es"))
  BY SegmentIsPlain DEF FlatFields
<1> DEFINE Start(s) == {<<"guest", s, "selector">>, <<"guest", s, "limit">>,
                        <<"guest", s, "access">>}
           Base(s) == {<<"guest", s, "base">>}
<1>5. /\ Plain(SegmentStart("fs"), Start("fs")) /\ Plain(GuestBase("fs"), Base("fs"))
      /\ Plain(HostBase("fs"), {<<"host", "fs", "base">>})
      /\ Plain(HostSelector("fs"), {<<"host", "fs", "selector">>})
      /\ Plain(SegmentStart("gs"), Start("gs"))
      /\ Plain(HostSelector("gs"), {<<"host", "gs", "selector">>})
      /\ Plain(SegmentStart("tr"), Start("tr")) /\ Plain(GuestBase("tr"), Base("tr"))
      /\ Plain(HostBase("tr"), {<<"host", "tr", "base">>})
      /\ Plain(HostSelector("tr"), {<<"host", "tr", "selector">>})
      /\ Plain(SegmentStart("ldtr"), Start("ldtr")) /\ Plain(GuestBase("ldtr"), Base("ldtr"))
  BY SegmentIsPlain
<1>6. Plain(Ldtr, Start("ldtr") \cup Base("ldtr"))
  BY <1>5, PlainJoins DEF Ldtr
<1> DEFINE F == ((({} \cup FlatFields("cs")) \cup FlatFields("ss")) \cup FlatFields("ds"))
                \cup FlatFields("es")
           G == (((F \cup Start("fs")) \cup Base("fs")) \cup {<<"host", "fs", "base">>})
                \cup {<<"host", "fs", "selector">>}
           H == ((G \cup Start("gs")) \cup {e.field, f.field}) \cup {<<"host", "gs", "selector">>}
           I == (((H \cup Start("tr")) \cup Base("tr")) \cup {<<"host", "tr", "base">>})
                \cup {<<"host", "tr", "selector">>}
<1> HIDE DEF Start, Base
<1>7. Plain(A, F)
  BY <1>3, <1>4, PlainJoins
<1> HIDE DEF A, F
<1>8. Plain(B, G)
  BY <1>5, <1>7, PlainJoins
<1> HIDE DEF B, G
<1>9. Plain(C, H)
  BY <1>3, <1>5, <1>8, PlainJoins
<1> HIDE DEF C, H
<1>10. Plain(D, I)
  BY <1>5, <1>9, PlainJoins
<1> HIDE DEF D, I
<1>11. /\ Plain(SegmentGroup, (I \cup (Start("ldtr") \cup Base("ldtr")))
                              \cup {g.field, h.field, i.field})
       /\ Len(SegmentGroup) > 0
  <2> DEFINE front == D \o Ldtr
             J == I \cup (Start("ldtr") \cup Base("ldtr"))
  <2>1. Plain(front, J)
    BY <1>6, <1>10, PlainJoins
  <2> HIDE DEF front, J
  <2>2. Plain(front \o last, J \cup {g.field, h.field, i.field}) /\ Len(front \o last) > 0
    BY <1>3, <2>1, PlainJoins
  <2> QED
    BY <1>2, <2>2 DEF front, J
<1>12. /\ F = FlatFields("cs") \cup FlatFields("ss") \cup FlatFields("ds") \cup FlatFields("es")
       /\ G = F \cup FlatFields("fs") \cup {<<"host", "fs", "base">>}
       /\ H = G \cup FlatFields("gs") \cup {<<"host", "gs", "base">>}
       /\ I = H \cup FlatFields("tr") \cup {<<"host", "tr", "base">>}
  <2>1. ASSUME NEW s
        PROVE  FlatFields(s) = (Start(s) \cup Base(s)) \cup {<<"host", s, "selector">>}
    BY DEF FlatFields, Start, Base
  <2>2. {e.field} = Base("gs") /\ f.field = <<"host", "gs", "base">>
    BY <1>1 DEF Base
  <2>3. F = FlatFields("cs") \cup FlatFields("ss") \cup FlatFields("ds") \cup FlatFields("es")
    BY DEF F
  <2>4. G = F \cup FlatFields("fs") \cup {<<"host", "fs", "base">>}
    BY <2>1 DEF G
  <2>5. H = G \cup FlatFields("gs") \cup {<<"host", "gs", "base">>}
    BY <2>1, <2>2 DEF H
  <2>6. I = H \cup FlatFields("tr") \cup {<<"host", "tr", "base">>}
    BY <2>1 DEF I
  <2> QED
    BY <2>3, <2>4, <2>5, <2>6
<1>13. {<<"guest", "ldtr", p>> : p \in {"selector", "limit", "access", "base"}}
           = Start("ldtr") \cup Base("ldtr")
  BY DEF Start, Base
<1> QED
  BY <1>1, <1>11, <1>12, <1>13 DEF Plain

LEMMA RegistersIsPlain ==
    /\ Plain(Registers,
             {<<"guest", "idtr", "limit">>, <<"guest", "idtr", "base">>, <<"host", "idtr", "base">>}
             \cup {Guest(n) : n \in {"cr0", "cr3", "cr4", "dr7", "rsp", "rip", "rflags",
                                     "sysenter_cs", "sysenter_esp", "sysenter_eip"}}
             \cup {Host(n) : n \in {"cr0", "cr3", "cr4", "rsp", "rip", "sysenter_cs",
                                    "sysenter_esp", "sysenter_eip"}})
    /\ Len(Registers) > 0
<1> DEFINE a == Read("cr0", {})
           b == Read("cr4", {})
           c == Put("natural", Guest("cr3"), {})
           d == Put("natural", Host("cr3"), {})
           e == Read("dr7", {})
           f == Put("natural", Guest("dr7"), {"dr7"})
           g == Put("natural", Guest("rsp"), {})
           h == Put("natural", Guest("rip"), {})
           i == Put("natural", Guest("rflags"), {})
           j == Put("natural", Host("rsp"), {})
           k == Put("natural", Host("rip"), {})
<1>1. /\ a \in PlainSteps /\ b \in PlainSteps /\ e \in PlainSteps
      /\ c \in PlainSteps /\ c.op # "read" /\ c.field = Guest("cr3")
      /\ d \in PlainSteps /\ d.op # "read" /\ d.field = Host("cr3")
      /\ f \in PlainSteps /\ f.op # "read" /\ f.field = Guest("dr7")
      /\ g \in PlainSteps /\ g.op # "read" /\ g.field = Guest("rsp")
      /\ h \in PlainSteps /\ h.op # "read" /\ h.field = Guest("rip")
      /\ i \in PlainSteps /\ i.op # "read" /\ i.field = Guest("rflags")
      /\ j \in PlainSteps /\ j.op # "read" /\ j.field = Host("rsp")
      /\ k \in PlainSteps /\ k.op # "read" /\ k.field = Host("rip")
  BY LocalsAre, WritesFit, ReadIsStep, PutIsStep
<1> DEFINE reads == <<a, b>>
           tables == <<c, d>>
           stacks == <<e, f, g, h, i, j, k>>
<1>2. Registers = InterruptTable \o reads \o Cr0 \o tables \o Cr4 \o stacks \o Sysenter
  BY DEF Registers
<1> HIDE DEF a, b, c, d, e, f, g, h, i, j, k
<1>3. /\ Plain(reads, {})
      /\ Plain(tables, {c.field, d.field})
      /\ Plain(stacks, {f.field, g.field, h.field, i.field, j.field, k.field})
  <2>1. /\ <<a, b>> \in Seq(PlainSteps) /\ <<c, d>> \in Seq(PlainSteps)
        /\ <<e, f, g, h, i, j, k>> \in Seq(PlainSteps)
    BY <1>1
  <2>2. {c.field, d.field} \subseteq Meant(<<c, d>>)
    BY <1>1 DEF Meant
  <2>3. {f.field, g.field, h.field, i.field, j.field, k.field}
            \subseteq Meant(<<e, f, g, h, i, j, k>>)
    BY <1>1 DEF Meant
  <2> QED
    BY <2>1, <2>2, <2>3 DEF Plain
<1> HIDE DEF reads, tables, stacks
<1> DEFINE F == {<<"guest", "idtr", "limit">>, <<"guest", "idtr", "base">>,
                 <<"host", "idtr", "base">>}
           G == {Guest("cr0"), Host("cr0"), <<"control", "cr0", "mask">>,
                 <<"control", "cr0", "shadow">>}
           H == {Guest("cr4"), Host("cr4"), <<"control", "cr4", "mask">>,
                 <<"control", "cr4", "shadow">>}
           I == {Host("sysenter_cs"), Guest("sysenter_cs"), Guest("sysenter_esp"),
                 Guest("sysenter_eip"), Host("sysenter_esp"), Host("sysenter_eip")}
           J == {f.field, g.field, h.field, i.field, j.field, k.field}
           K == {c.field, d.field}
<1>4. /\ Plain(InterruptTable, F) /\ Plain(Cr0, G) /\ Plain(Cr4, H)
      /\ Plain(Sysenter, I) /\ Len(Sysenter) > 0
      /\ Plain(stacks, J) /\ Plain(tables, K)
  BY <1>3, InterruptTableIsPlain, Cr0IsPlain, Cr4IsPlain, SysenterIsPlain
<1> HIDE DEF F, G, H, I, J, K
<1> DEFINE front == InterruptTable \o reads \o Cr0 \o tables \o Cr4 \o stacks
           L == ((((F \cup {}) \cup G) \cup K) \cup H) \cup J
<1>5. Plain(front, L)
  BY <1>3, <1>4, PlainJoins
<1> HIDE DEF front, L
<1>6. Plain(Registers, L \cup I) /\ Len(Registers) > 0
  <2>1. Plain(front \o Sysenter, L \cup I) /\ Len(front \o Sysenter) > 0
    BY <1>4, <1>5, PlainJoins
  <2> QED
    BY <1>2, <2>1 DEF front
<1>7. /\ F \cup {Guest("cr0"), Guest("cr3"), Guest("cr4"), Guest("dr7"), Guest("rsp"),
                 Guest("rip"), Guest("rflags")}
             \subseteq L
      /\ {Host("cr0"), Host("cr3"), Host("cr4"), Host("rsp"), Host("rip")} \subseteq L
  BY <1>1 DEF G, H, J, K, L
<1>8. F \cup {Guest(n) : n \in {"cr0", "cr3", "cr4", "dr7", "rsp", "rip", "rflags",
                                "sysenter_cs", "sysenter_esp", "sysenter_eip"}}
        \cup {Host(n) : n \in {"cr0", "cr3", "cr4", "rsp", "rip", "sysenter_cs",
                               "sysenter_esp", "sysenter_eip"}}
          \subseteq L \cup I
  BY <1>7 DEF I
<1> QED
  BY <1>6, <1>8 DEF Plain, F

\* Of the function's text the proofs use this: a sequence of steps of which
\* exactly the last one of the first part assigns status, which write every
\* field but one that the guest and the VM exit need and nothing that would be cut.
LEMMA ProgramShape ==
    /\ Program \in Seq(GoodSteps)
    /\ EndOfControls \in Nat \ {0} /\ EndOfSegments \in Nat /\ EndOfProgram \in Nat
    /\ EndOfControls < EndOfSegments /\ EndOfSegments < EndOfProgram
    /\ \A i \in 1 .. EndOfProgram : Program[i].op = "assign" <=> i = EndOfControls
    /\ EntryNeeds \ LeftOut \subseteq Meant(Program)
<1> DEFINE last == PutAssign("natural", Guest("pending_debug"), {})
<1>1. last \in GoodSteps /\ last.op = "assign" /\ last.field = Guest("pending_debug")
  BY WritesFit, PutIsStep
<1>2. \A s \in Seq(PlainSteps) : s \in Seq(GoodSteps)
  BY SeqMonotonic DEF PlainSteps
<1>3. /\ ControlsBefore \in Seq(GoodSteps) /\ <<last>> \in Seq(GoodSteps)
      /\ SegmentGroup \in Seq(GoodSteps) /\ Registers \in Seq(GoodSteps)
      /\ Len(<<last>>) = 1 /\ <<last>>[1] = last
  <2> HIDE DEF last
  <2> QED
    BY <1>1, <1>2, ControlsBeforeIsPlain, SegmentGroupIsPlain, RegistersIsPlain DEF Plain
<1>4. /\ Controls \in Seq(GoodSteps)
      /\ Len(Controls) = Len(ControlsBefore) + 1
      /\ \A i \in 1 .. Len(Controls) :
             Controls[i] = IF i <= Len(ControlsBefore) THEN ControlsBefore[i] ELSE last
  <2>1. Controls = ControlsBefore \o <<last>>
    BY DEF Controls
  <2> HIDE DEF last
  <2>2. Len(ControlsBefore) \in Nat
    BY <1>3, LenProperties
  <2>3. /\ ControlsBefore \o <<last>> \in Seq(GoodSteps)
        /\ Len(ControlsBefore \o <<last>>) = Len(ControlsBefore) + 1
        /\ \A i \in 1 .. Len(ControlsBefore) + 1 : (ControlsBefore \o <<last>>)[i] =
               IF i <= Len(ControlsBefore) THEN ControlsBefore[i]
               ELSE <<last>>[i - Len(ControlsBefore)]
    BY <1>3, ConcatProperties
  <2>4. ASSUME NEW i \in 1 .. Len(ControlsBefore) + 1, ~(i <= Len(ControlsBefore))
        PROVE  <<last>>[i - Len(ControlsBefore)] = last
    <3>1. i - Len(ControlsBefore) = 1
      BY <2>2, <2>4
    <3> QED
      BY <1>3, <3>1
  <2>5. \A i \in 1 .. Len(ControlsBefore) + 1 : (ControlsBefore \o <<last>>)[i] =
            IF i <= Len(ControlsBefore) THEN ControlsBefore[i] ELSE last
    BY <2>3, <2>4
  <2> QED
    BY <2>1, <2>3, <2>5
<1> HIDE DEF last
<1> DEFINE front == Controls \o SegmentGroup
<1>5. /\ front \in Seq(GoodSteps)
      /\ Len(front) = Len(Controls) + Len(SegmentGroup)
      /\ \A i \in 1 .. Len(Controls) + Len(SegmentGroup) : front[i] =
             IF i <= Len(Controls) THEN Controls[i] ELSE SegmentGroup[i - Len(Controls)]
  BY <1>3, <1>4, ConcatProperties
<1> HIDE DEF front
<1>6. Program = front \o Registers
  BY DEF Program, front
<1>7. /\ Program \in Seq(GoodSteps)
      /\ Len(Program) = Len(front) + Len(Registers)
      /\ \A i \in 1 .. Len(front) + Len(Registers) : Program[i] =
             IF i <= Len(front) THEN front[i] ELSE Registers[i - Len(front)]
  BY <1>3, <1>5, <1>6, ConcatProperties
<1>8. /\ Len(ControlsBefore) \in Nat
      /\ Len(SegmentGroup) \in Nat \ {0} /\ Len(Registers) \in Nat \ {0}
  BY <1>3, LenProperties, SegmentGroupIsPlain, RegistersIsPlain
<1>9. /\ \A i \in 1 .. Len(ControlsBefore) : ControlsBefore[i].op # "assign"
      /\ \A i \in 1 .. Len(SegmentGroup) : SegmentGroup[i].op # "assign"
      /\ \A i \in 1 .. Len(Registers) : Registers[i].op # "assign"
  BY ControlsBeforeIsPlain, SegmentGroupIsPlain, RegistersIsPlain, ElementOfSeq
     DEF PlainSteps, Plain
<1>10. ASSUME NEW i \in 1 .. EndOfProgram
       PROVE  Program[i].op = "assign" <=> i = EndOfControls
  <2>1. CASE i <= Len(ControlsBefore)
    <3>1. Program[i] = ControlsBefore[i] /\ i \in 1 .. Len(ControlsBefore)
      BY <1>4, <1>5, <1>7, <1>8, <2>1 DEF EndOfProgram
    <3> QED
      BY <1>4, <1>8, <1>9, <2>1, <3>1 DEF EndOfControls
  <2>2. CASE i = Len(ControlsBefore) + 1
    <3>1. Program[i] = last
      BY <1>4, <1>5, <1>7, <1>8, <2>2 DEF EndOfProgram
    <3> QED
      BY <1>1, <1>4, <2>2, <3>1 DEF EndOfControls
  <2>3. CASE i > Len(ControlsBefore) + 1 /\ i <= Len(front)
    <3>1. /\ Program[i] = SegmentGroup[i - Len(Controls)]
          /\ i - Len(Controls) \in 1 .. Len(SegmentGroup)
      BY <1>4, <1>5, <1>7, <1>8, <2>3 DEF EndOfProgram
    <3> QED
      BY <1>4, <1>8, <1>9, <2>3, <3>1 DEF EndOfControls
  <2>4. CASE i > Len(front)
    <3>1. Program[i] = Registers[i - Len(front)] /\ i - Len(front) \in 1 .. Len(Registers)
      BY <1>4, <1>5, <1>7, <1>8, <2>4 DEF EndOfProgram
    <3> QED
      BY <1>4, <1>5, <1>8, <1>9, <2>4, <3>1 DEF EndOfControls
  <2> QED
    BY <1>4, <1>5, <1>8, <2>1, <2>2, <2>3, <2>4
<1>11. Meant(ControlsBefore) \cup {Guest("pending_debug")} \cup Meant(SegmentGroup)
       \cup Meant(Registers) \subseteq Meant(Program)
  <2>1. Guest("pending_debug") \in Meant(<<last>>)
    BY <1>1, <1>3 DEF Meant
  <2>2. Meant(ControlsBefore) \cup Meant(<<last>>) \subseteq Meant(Controls)
    BY <1>3, MeantJoins DEF Controls, last
  <2>3. Meant(Controls) \cup Meant(SegmentGroup) \subseteq Meant(front)
    BY <1>3, <1>4, MeantJoins DEF front
  <2>4. Meant(front) \cup Meant(Registers) \subseteq Meant(Program)
    BY <1>3, <1>5, <1>6, MeantJoins
  <2> QED
    BY <2>1, <2>2, <2>3, <2>4
<1>12. EntryNeeds \ LeftOut \subseteq Meant(Program)
  <2>1. /\ \A n \in {"pin", "primary", "secondary", "exit", "entry", "exception_bitmap"} :
               Control(n) \in Meant(Program)
        /\ \A n \in {"vmcs_link", "activity", "interruptibility", "pending_debug"} :
               Guest(n) \in Meant(Program)
    BY <1>11, ControlsBeforeIsPlain DEF Plain
  <2>2. /\ \A n \in {"cr0", "cr3", "cr4", "dr7", "rsp", "rip", "rflags", "sysenter_cs",
                     "sysenter_esp", "sysenter_eip"} : Guest(n) \in Meant(Program)
        /\ \A n \in {"cr0", "cr3", "cr4", "rsp", "rip", "sysenter_cs", "sysenter_esp",
                     "sysenter_eip"} : Host(n) \in Meant(Program)
        /\ {<<"guest", "idtr", "limit">>, <<"guest", "idtr", "base">>, <<"host", "idtr", "base">>}
               \subseteq Meant(Program)
    BY <1>11, RegistersIsPlain DEF Plain
  <2>3. /\ FlatFields("cs") \cup FlatFields("ss") \cup FlatFields("ds") \cup FlatFields("es")
           \cup FlatFields("fs") \cup FlatFields("gs") \cup FlatFields("tr")
               \subseteq Meant(Program)
        /\ {<<"host", "fs", "base">>, <<"host", "gs", "base">>, <<"host", "tr", "base">>}
               \subseteq Meant(Program)
        /\ \A p \in {"selector", "limit", "access", "base"} :
               <<"guest", "ldtr", p>> \in Meant(Program)
        /\ {<<"guest", "gdtr", "limit">>, <<"guest", "gdtr", "base">>, <<"host", "gdtr", "base">>}
               \subseteq Meant(Program)
    BY <1>11, SegmentGroupIsPlain DEF Plain
  <2>4. \A s \in Range(Segments), p \in {"selector", "limit", "access", "base"} :
            <<"guest", s, p>> \in Meant(Program)
    BY <2>3, SegmentNames DEF FlatFields
  <2>5. \A r \in Range(Tables), p \in {"limit", "base"} : <<"guest", r, p>> \in Meant(Program)
    BY <2>2, <2>3, SegmentNames
  <2>6. \A s \in Range(Segments) \ {"ldtr"} : <<"host", s, "selector">> \in Meant(Program)
    BY <2>3, SegmentNames DEF FlatFields
  <2>7. \A r \in {"fs", "gs", "tr", "gdtr", "idtr"} : <<"host", r, "base">> \in Meant(Program)
    BY <2>2, <2>3
  <2> DEFINE A == {Control(n) : n \in {"pin", "primary", "secondary", "exit", "entry",
                                     "exception_bitmap"}}
             B == {Guest(n) : n \in {"vmcs_link", "activity", "interruptibility",
                                     "pending_debug", "cr0", "cr3", "cr4", "dr7", "rsp", "rip",
                                     "rflags", "sysenter_cs", "sysenter_esp", "sysenter_eip"}}
             C == {Host(n) : n \in {"cr0", "cr3", "cr4", "rsp", "rip", "sysenter_cs",
                                    "sysenter_esp", "sysenter_eip"}}
             D == {"guest"} \X Range(Segments) \X {"selector", "limit", "access", "base"}
             E == {"guest"} \X Range(Tables) \X {"limit", "base"}
             F == {<<"host", s, "selector">> : s \in Range(Segments) \ {"ldtr"}}
             G == {<<"host", r, "base">> : r \in {"fs", "gs", "tr", "gdtr", "idtr"}}
  <2>8. A \subseteq Meant(Program) /\ B \subseteq Meant(Program) /\ C \subseteq Meant(Program)
    <3>1. A \subseteq Meant(Program)
      BY <2>1
    <3>2. B \subseteq Meant(Program)
      BY <2>1, <2>2
    <3>3. C \subseteq Meant(Program)
      BY <2>2
    <3> QED
      BY <3>1, <3>2, <3>3
  <2>9. /\ D \subseteq Meant(Program) /\ E \subseteq Meant(Program)
        /\ F \subseteq Meant(Program) /\ G \subseteq Meant(Program)
    <3>1. ASSUME NEW f \in D PROVE f \in Meant(Program)
      <4>1. PICK s \in Range(Segments), p \in {"selector", "limit", "access", "base"} :
                f = <<"guest", s, p>>
        OBVIOUS
      <4> QED
        BY <2>4, <4>1
    <3>2. ASSUME NEW f \in E PROVE f \in Meant(Program)
      <4>1. PICK r \in Range(Tables), p \in {"limit", "base"} : f = <<"guest", r, p>>
        OBVIOUS
      <4> QED
        BY <2>5, <4>1
    <3>3. F \subseteq Meant(Program)
      BY <2>6
    <3>4. G \subseteq Meant(Program)
      BY <2>7
    <3> QED
      BY <3>1, <3>2, <3>3, <3>4
  <2>10. EntryNeeds = A \cup (B \cup LeftOut) \cup C \cup D \cup E \cup F \cup G
    <3>1. {Guest(n) : n \in {"vmcs_link", "activity", "interruptibility", "pending_debug", "cr0",
                             "cr3", "cr4", "dr7", "debugctl", "rsp", "rip", "rflags",
                             "sysenter_cs", "sysenter_esp", "sysenter_eip"}} = B \cup LeftOut
      BY DEF LeftOut
    <3> HIDE DEF B
    <3> QED
      BY <3>1 DEF EntryNeeds
  <2> HIDE DEF A, B, C, D, E, F, G
  <2> QED
    BY <2>8, <2>9, <2>10
<1> QED
  BY <1>4, <1>5, <1>7, <1>8, <1>10, <1>12 DEF EndOfControls, EndOfSegments, EndOfProgram

-----------------------------------------------------------------------------
(* Types *)

LEMMA ProgramStep ==
    ASSUME NEW i \in 1 .. EndOfProgram
    PROVE  /\ i \in DOMAIN Program
           /\ Program[i].field \in Names
           /\ Program[i].from \subseteq Locals
           /\ Program[i].op \in Ops
           /\ IF Program[i].op = "read" THEN Program[i].field = NoField
              ELSE /\ Program[i].width \in {"16", "32", "64", "natural"}
                   /\ FieldFits(Program[i].width, Program[i].field)
<1>1. Program[i] \in GoodSteps /\ i \in DOMAIN Program
  BY ProgramShape, ElementOfSeq, LenProperties DEF EndOfProgram
<1> QED
  BY <1>1 DEF GoodSteps, Steps

LEMMA Codes ==
    /\ STATUS_SUCCESS = 0 /\ STATUS_FAILED_VMWRITE = 1
    /\ OrStatus(0, 0) = 0 /\ OrStatus(0, 1) = 1 /\ OrStatus(1, 0) = 1 /\ OrStatus(1, 1) = 1
BY DEF STATUS_SUCCESS, STATUS_FAILED_VMWRITE, CustomStatus, NT_ERROR, BASE_ERROR, OrStatus

\* The variables keep their types, and a step of populating is not left behind
\* the end of the program.
TypeInv ==
    /\ TypeOK
    /\ stage = "populate" => step <= EndOfProgram + 1
    /\ failed \subseteq 1 .. EndOfProgram

LEMMA TypeInit == Init => TypeInv
<1> SUFFICES ASSUME Init PROVE TypeInv
  OBVIOUS
<1>1. ProvenanceOK(Zero)
  BY BoundsAssumption DEF ProvenanceOK, Zero, NoField, Names
<1>2. \A e \in Encodings : ProvenanceOK(vmcs[e])
  BY <1>1 DEF Init
<1>3. \A w \in {"16", "32", "64"} : ProvenanceOK(shown[w])
  BY <1>1 DEF Init
<1>4. /\ calls \in 0 .. MaxCalls /\ moves \in 0 .. MaxMoves
      /\ step \in Nat \ {0}
      /\ known \in [Locals -> SUBSET Cpus]
  BY BoundsAssumption DEF Init
<1>5. DOMAIN vmcs = Encodings /\ DOMAIN shown = {"16", "32", "64"}
  BY DEF Init
<1> QED
  BY <1>2, <1>3, <1>4, <1>5 DEF Init, TypeInv, TypeOK

LEMMA TypeStep == TypeInv /\ [Next]_vars => TypeInv'
<1> SUFFICES ASSUME TypeInv, [Next]_vars PROVE TypeInv'
  OBVIOUS
<1> USE DEF TypeInv, TypeOK
<1>0. EndOfProgram \in Nat
  BY ProgramShape
<1>1. CASE ReadLocal
  <2>1. step \in 1 .. EndOfProgram
    BY <1>0, <1>1 DEF ReadLocal, Running
  <2>2. Sources(Program[step].from) \subseteq Cpus
    BY <2>1, ProgramStep DEF Sources
  <2>3. {Seen(Program[step].local, cpu)} \cup Sources(Program[step].from) \in SUBSET Cpus
    BY <2>2 DEF Seen
  <2>4. known' \in [Locals -> SUBSET Cpus]
    BY <1>1, <2>3 DEF ReadLocal
  <2>5. UNCHANGED <<vmcs, shown>>
    BY <1>1 DEF ReadLocal
  <2>6. /\ (\A e \in Encodings : ProvenanceOK(vmcs[e]))'
        /\ (\A w \in DOMAIN shown : ProvenanceOK(shown[w]))'
    BY <2>5 DEF ProvenanceOK
  <2> QED
    BY <1>0, <1>1, <2>1, <2>4, <2>5, <2>6 DEF ReadLocal
<1>2. CASE WriteField
  <2> DEFINE now == Program[step]
             code == Code(now.field)
             ok == ~Refuses(code) /\ HwArea(code) # "exit"
             v == [field |-> now.field, call |-> calls, cpus |-> Sources(now.from),
                   width |-> Cut(now.width, HwWidth(code))]
  <2>1. step \in 1 .. EndOfProgram
    BY <1>0, <1>2 DEF WriteField, Running
  <2>2. ProvenanceOK(v)
    <3>1. Sources(now.from) \subseteq Cpus
      BY <2>1, ProgramStep DEF Sources
    <3>2. now.field \in Names
      BY <2>1, ProgramStep
    <3> QED
      BY <3>1, <3>2 DEF ProvenanceOK
  <2>3. vmcs' = IF ok THEN [vmcs EXCEPT ![code] = v] ELSE vmcs
    BY <1>2 DEF WriteField
  <2>4. DOMAIN vmcs' = Encodings /\ \A e \in Encodings : vmcs'[e] = v \/ vmcs'[e] = vmcs[e]
    <3> HIDE DEF v, code, ok
    <3> QED
      BY <2>3
  <2>5. (\A e \in Encodings : ProvenanceOK(vmcs[e]))'
    <3> HIDE DEF v
    <3> SUFFICES ASSUME NEW e \in Encodings PROVE ProvenanceOK(vmcs'[e])
      BY DEF ProvenanceOK
    <3> QED
      BY <2>2, <2>4
  <2>6. status' \in {STATUS_SUCCESS, STATUS_FAILED_VMWRITE}
    BY <1>2, Codes DEF WriteField, StatusAfter
  <2>7. failed' \subseteq 1 .. EndOfProgram /\ failed' \subseteq DOMAIN Program
    <3>1. step \in DOMAIN Program
      BY <2>1, ProgramStep
    <3>2. failed' = failed \/ failed' = failed \cup {step}
      BY <1>2 DEF WriteField
    <3> QED
      BY <2>1, <3>1, <3>2
  <2>8. /\ step' = step + 1
        /\ UNCHANGED <<stage, cpu, home, calls, moves, known, unsupported, said, shown, crash>>
    BY <1>2 DEF WriteField
  <2>9. (\A w \in DOMAIN shown : ProvenanceOK(shown[w]))'
    BY <2>8 DEF ProvenanceOK
  <2> QED
    BY <1>0, <2>1, <2>4, <2>5, <2>6, <2>7, <2>8, <2>9
<1>3. CASE EndPopulate
  BY <1>3 DEF EndPopulate, ProvenanceOK
<1>4. CASE ShowField
  <2> DEFINE now == Dump[step]
             code == Code(now.field)
             v == [vmcs[code] EXCEPT !.width = Cut(@, now.width)]
             u == IF Refuses(code) THEN Zero ELSE v
  <2>1. step \in DOMAIN Dump
    BY <1>4 DEF ShowField
  <2>2. code \in Encodings
    BY <2>1 DEF Encodings
  <2>3. ProvenanceOK(u)
    <3>1. ProvenanceOK(vmcs[code])
      BY <2>2
    <3>2. v.field = vmcs[code].field /\ v.call = vmcs[code].call /\ v.cpus = vmcs[code].cpus
      OBVIOUS
    <3>3. ProvenanceOK(v)
      BY <3>1, <3>2 DEF ProvenanceOK
    <3>4. ProvenanceOK(Zero)
      BY BoundsAssumption DEF ProvenanceOK, Zero, NoField, Names
    <3> QED
      BY <3>3, <3>4
  <2>4. shown' = [shown EXCEPT ![now.width] = u]
    BY <1>4 DEF ShowField
  <2>5. /\ DOMAIN shown' = {"16", "32", "64"}
        /\ \A w \in {"16", "32", "64"} : shown'[w] = u \/ shown'[w] = shown[w]
    <3> HIDE DEF u, v, code, now
    <3> QED
      BY <2>4
  <2>6. (\A w \in DOMAIN shown : ProvenanceOK(shown[w]))'
    <3> HIDE DEF u, v
    <3> SUFFICES ASSUME NEW w \in {"16", "32", "64"} PROVE ProvenanceOK(shown'[w])
      BY <2>5 DEF ProvenanceOK
    <3> QED
      BY <2>3, <2>5
  <2>7. /\ step' = step + 1
        /\ UNCHANGED <<stage, cpu, home, calls, moves, known, vmcs, unsupported, failed, status,
                       said, crash>>
        /\ stage = "dump"
    BY <1>4 DEF ShowField
  <2>8. (\A e \in Encodings : ProvenanceOK(vmcs[e]))'
    BY <2>7 DEF ProvenanceOK
  <2> QED
    BY <2>5, <2>6, <2>7, <2>8
<1>5. CASE Return
  BY <1>5 DEF Return, ProvenanceOK
<1>6. CASE Fault
  <2>1. UNCHANGED <<stage, step, cpu, home, calls, moves, known, vmcs, unsupported, failed, status,
                    said, shown>> /\ crash' \in {"UD", "GP"}
    BY <1>6 DEF Fault
  <2> QED
    BY <2>1 DEF ProvenanceOK
<1>7. ASSUME NEW c \in Cpus, Begin(c) PROVE TypeInv'
  <2>1. ProvenanceOK(Zero)
    BY BoundsAssumption DEF ProvenanceOK, Zero, NoField, Names
  <2>2. (\A w \in DOMAIN shown : ProvenanceOK(shown[w]))'
    <3> SUFFICES ASSUME NEW w \in {"16", "32", "64"} PROVE ProvenanceOK(shown'[w])
      BY <1>7 DEF ProvenanceOK, Begin
    <3> QED
      BY <1>7, <2>1 DEF Begin
  <2>3. (\A e \in Encodings : ProvenanceOK(vmcs[e]))'
    BY <1>7 DEF Begin, ProvenanceOK
  <2>4. calls' \in 0 .. MaxCalls /\ moves' \in 0 .. MaxMoves
    BY <1>7, BoundsAssumption DEF Begin
  <2>5. known' \in [Locals -> SUBSET Cpus]
    BY <1>7 DEF Begin
  <2>6. step' \in Nat \ {0} /\ step' <= EndOfProgram + 1 /\ failed' = {}
    BY <1>0, <1>7 DEF Begin
  <2>7. DOMAIN vmcs' = Encodings /\ DOMAIN shown' = {"16", "32", "64"}
    BY <1>7 DEF Begin
  <2>8. /\ stage' = "populate" /\ cpu' \in Cpus /\ home' \in Cpus
        /\ unsupported' \in UnsupportedSets
        /\ status' = STATUS_SUCCESS /\ said' \in BOOLEAN
        /\ crash' \in {"none", "UD", "GP"}
    BY <1>7 DEF Begin
  <2> QED
    BY <2>2, <2>3, <2>4, <2>5, <2>6, <2>7, <2>8
<1>8. ASSUME NEW c \in Cpus, Migrate(c) PROVE TypeInv'
  <2>1. moves' \in 0 .. MaxMoves
    BY <1>8, BoundsAssumption DEF Migrate
  <2> QED
    BY <1>8, <2>1 DEF Migrate, ProvenanceOK
<1>9. CASE UNCHANGED vars
  BY <1>9 DEF vars, ProvenanceOK
<1> QED
  BY <1>1, <1>2, <1>3, <1>4, <1>5, <1>6, <1>7, <1>8, <1>9 DEF Next

\* PopulateActiveVMCS's variables keep their types, for any processors, any
\* moves and whatever fields the machine lacks; a status is 0 or 1.
THEOREM PopulateTypes == Spec => []TypeOK
<1>1. Spec => []TypeInv
  BY TypeInit, TypeStep, PTL DEF Spec
<1>2. TypeInv => TypeOK
  BY DEF TypeInv
<1> QED
  BY <1>1, <1>2, PTL

-----------------------------------------------------------------------------
(* The text of the dump *)

Crossed == {Guest("sysenter_esp"), Guest("sysenter_eip")}

\* A step of the dump: its variable takes the whole field, which is the one it
\* names, or the other one of the pair.
Fair(d) ==
    /\ d.width \in {"16", "32", "64"}
    /\ FieldFits(d.width, d.field)
    /\ IF d.label \in Crossed THEN d.field \in Crossed \ {d.label} ELSE d.field = d.label

FairList(s) == Listed(s) /\ \A d \in Range(s) : Fair(d)

LEMMA FairJoins ==
    ASSUME NEW s, NEW t, FairList(s), FairList(t)
    PROVE  FairList(s \o t) /\ Range(s \o t) = Range(s) \cup Range(t)
<1>1. Listed(s \o t) /\ Range(s \o t) = Range(s) \cup Range(t)
  BY ListsJoin DEF FairList
<1> QED
  BY <1>1 DEF FairList

LEMMA ShowAllIsFair ==
    ASSUME NEW w \in {"16", "32", "64"}, NEW area, NEW part, NEW names, Listed(names),
           \A r \in Range(names) : /\ FieldFits(w, <<area, r, part>>)
                                   /\ <<area, r, part>> \notin Crossed
    PROVE  FairList(ShowAll(w, Named(area, part, names)))
<1> DEFINE fields == Named(area, part, names)
           list == ShowAll(w, fields)
           n == Len(fields)
<1>1. Listed(fields) /\ Range(fields) = {<<area, r, part>> : r \in Range(names)}
  BY NamedIsListed
<1> HIDE DEF fields
<1>2. /\ n \in Nat /\ DOMAIN fields = 1 .. n
      /\ \A i \in 1 .. n : fields[i] \in Range(fields)
  BY <1>1, ListedHas
<1> HIDE DEF n
<1>3. list = [i \in 1 .. n |-> Show(w, fields[i], fields[i])]
  BY <1>2 DEF ShowAll
<1> HIDE DEF list
<1>4. list = [i \in 1 .. n |-> list[i]]
  BY <1>3
<1>5. Listed(list)
  BY <1>2, <1>4, IsListed
<1>6. ASSUME NEW f \in Range(fields) PROVE Fair(Show(w, f, f))
  BY <1>1 DEF Fair, Show
<1>7. ASSUME NEW d \in Range(list) PROVE Fair(d)
  <2>1. PICK i \in 1 .. n : d = list[i]
    BY <1>3 DEF Range
  <2>2. d = Show(w, fields[i], fields[i])
    BY <1>3, <2>1
  <2> QED
    BY <1>2, <1>6, <2>2
<1> QED
  BY <1>5, <1>7 DEF FairList, list, fields

\* The fields that the dump reads are fields of the enumerator, and the widths
\* of its variables are enough for them.
LEMMA ShowsFit ==
    /\ \A s \in Range(Segments) : /\ FieldFits("16", <<"guest", s, "selector">>)
                                  /\ FieldFits("32", <<"guest", s, "access">>)
    /\ \A r \in Range(Segments \o Tables) : /\ FieldFits("32", <<"guest", r, "limit">>)
                                            /\ FieldFits("64", <<"guest", r, "base">>)
    /\ FieldFits("64", <<"exit", "guest_physical_address", "value">>)
    /\ \A n \in {"vmcs_link", "debugctl", "pat", "efer", "perf_global", "pdpte0", "pdpte1",
                 "pdpte2", "pdpte3"} : FieldFits("64", <<"guest", n, "value">>)
    /\ \A n \in {"interruptibility", "activity", "smbase", "sysenter_cs"} :
           FieldFits("32", <<"guest", n, "value">>)
    /\ \A n \in {"cr0", "cr3", "cr4", "dr7", "rsp", "rip", "rflags", "pending_debug",
                 "sysenter_esp", "sysenter_eip"} : FieldFits("64", <<"guest", n, "value">>)
<1>1. \A f \in DOMAIN VmcsField : FieldFits("64", f)
  BY FieldWidths, WidthsAre DEF FieldFits
<1>2. /\ Range(Segments) = {"es", "cs", "ss", "ds", "fs", "gs", "ldtr", "tr"}
      /\ Range(Segments \o Tables) = Range(Segments) \cup {"gdtr", "idtr"}
  BY SegmentNames
<1>3. DOMAIN Fields64State =
          PartsOf("exit", "value", {"guest_physical_address"})
          \cup PartsOf("guest", "value",
                       {"vmcs_link", "debugctl", "pat", "efer", "perf_global", "pdpte0",
                        "pdpte1", "pdpte2", "pdpte3", "bndcfgs", "rtit_ctl", "pkrs"})
          \cup PartsOf("host", "value", {"pat", "efer", "perf_global", "pkrs"})
  BY Fields64StateGroup, Names64, OneListed DEF Group
<1>4. /\ <<"exit", "guest_physical_address", "value">> \in DOMAIN VmcsField
      /\ \A n \in {"vmcs_link", "debugctl", "pat", "efer", "perf_global", "pdpte0", "pdpte1",
                   "pdpte2", "pdpte3"} : <<"guest", n, "value">> \in DOMAIN VmcsField
  BY <1>3, VmcsFieldTable DEF PartsOf
<1>5. FieldFits("32", <<"guest", "smbase", "value">>)
  <2>1. DOMAIN Fields16 =
            PartsOf("control", "value", {"vpid", "posted_vector", "eptp_index"})
            \cup PartsOf("guest", "selector", Range(Segments))
            \cup PartsOf("guest", "value", {"interrupt_status", "pml_index"})
            \cup PartsOf("host", "selector", {"es", "cs", "ss", "ds", "fs", "gs", "tr"})
    BY Fields16Group, Names16 DEF Group
  <2>2. \A f \in DOMAIN Fields64Control : f[3] = "address"
    BY Fields64ControlGroup DEF Group, PartsOf
  <2>3. <<"guest", "smbase", "value">> \in DOMAIN Fields32State
    BY Fields32StateGroup, Names32 DEF Group, PartsOf
  <2>4. <<"guest", "smbase", "value">> \notin
            DOMAIN Fields16 \cup DOMAIN Fields64Control \cup DOMAIN Fields64State
    BY <1>3, <2>1, <2>2 DEF PartsOf
  <2> QED
    BY <2>3, <2>4, FieldWidths, VmcsFieldTable, WidthsAre DEF FieldFits
<1>6. ASSUME NEW f, FieldFits("natural", f) PROVE FieldFits("64", f)
  BY <1>6, WidthsAre DEF FieldFits
<1>7. /\ \A n \in {"interruptibility", "activity", "sysenter_cs"} :
             FieldFits("32", <<"guest", n, "value">>)
      /\ \A n \in {"cr0", "cr3", "cr4", "dr7", "rsp", "rip", "rflags", "pending_debug",
                   "sysenter_esp", "sysenter_eip"} : FieldFits("natural", <<"guest", n, "value">>)
  BY WritesFit DEF Takes, Guest
<1>8. /\ \A s \in Range(Segments) : /\ FieldFits("16", <<"guest", s, "selector">>)
                                    /\ FieldFits("32", <<"guest", s, "access">>)
      /\ \A r \in Range(Segments \o Tables) : /\ FieldFits("32", <<"guest", r, "limit">>)
                                              /\ FieldFits("natural", <<"guest", r, "base">>)
  BY <1>2, WritesFit DEF Takes
<1> QED
  BY <1>1, <1>4, <1>5, <1>6, <1>7, <1>8

LEMMA ShowIsFair ==
    ASSUME NEW w \in {"16", "32", "64"}, NEW label, NEW field, FieldFits(w, field),
           IF label \in Crossed THEN field \in Crossed \ {label} ELSE field = label
    PROVE  Fair(Show(w, label, field))
BY DEF Fair, Show

LEMMA ValuesAreFair ==
    ASSUME NEW w \in {"16", "32", "64"}, NEW names, NEW n \in Nat,
           names = [i \in 1 .. n |-> names[i]],
           \A x \in Range(names) : FieldFits(w, <<"guest", x, "value">>) /\
                                   x \notin {"sysenter_esp", "sysenter_eip"}
    PROVE  FairList(ShowAll(w, Values(names)))
<1>1. Listed(names)
  BY IsListed
<1>2. \A x \in Range(names) : <<"guest", x, "value">> \notin Crossed
  BY DEF Crossed, Guest
<1> QED
  BY <1>1, <1>2, ShowAllIsFair DEF Values

\* Every read of the dump gets its field whole and prints it under its name,
\* but for the SYSENTER addresses; and it shows the guest's IA32_DEBUGCTL.
LEMMA DumpIsFair ==
    /\ \A i \in DOMAIN Dump : Fair(Dump[i])
    /\ \E i \in DOMAIN Dump : Dump[i].field = Guest("debugctl")
<1> DEFINE debugctl == Show("64", Guest("debugctl"), Guest("debugctl"))
<1>1. FairList(Dump) /\ debugctl \in Range(Dump)
  <2>1. /\ FairList(ShowAll("16", Named("guest", "selector", Segments)))
        /\ FairList(AccessRights)
        /\ FairList(ShowAll("32", Named("guest", "limit", Segments \o Tables)))
        /\ FairList(ShowAll("64", Named("guest", "base", Segments \o Tables)))
    <3>1. \A r, p : p \in {"selector", "access", "limit", "base"} =>
              <<"guest", r, p>> \notin Crossed
      BY DEF Crossed, Guest
    <3> QED
      BY <3>1, ShowsFit, SegmentNames, ShowAllIsFair DEF AccessRights
  <2> DEFINE v64 == <<"vmcs_link", "debugctl", "pat", "efer", "perf_global", "pdpte0", "pdpte1",
                      "pdpte2", "pdpte3">>
             v32 == <<"interruptibility", "activity", "smbase", "sysenter_cs">>
             crs == <<"cr0", "cr3", "cr4">>
             others == <<"dr7", "rsp", "rip", "rflags", "pending_debug">>
             address == <<"exit", "guest_physical_address", "value">>
             one == Show("64", address, address)
             esp == Show("64", Guest("sysenter_esp"), Guest("sysenter_eip"))
             eip == Show("64", Guest("sysenter_eip"), Guest("sysenter_esp"))
  <2>2. FairList(ShowAll("64", Values(v64)))
    <3>1. /\ v64 = [i \in 1 .. 9 |-> v64[i]]
          /\ Range(v64) = {"vmcs_link", "debugctl", "pat", "efer", "perf_global", "pdpte0",
                           "pdpte1", "pdpte2", "pdpte3"}
      BY DEF Range
    <3> HIDE DEF v64
    <3> QED
      BY <3>1, ShowsFit, ValuesAreFair
  <2>w. debugctl \in Range(ShowAll("64", Values(v64)))
    <3>1. DOMAIN v64 = 1 .. 9 /\ v64[2] = "debugctl"
      OBVIOUS
    <3> HIDE DEF v64
    <3>2. DOMAIN Values(v64) = 1 .. 9 /\ Values(v64)[2] = Guest("debugctl")
      BY <3>1 DEF Values, Named, Guest
    <3>3. /\ DOMAIN ShowAll("64", Values(v64)) = 1 .. 9
          /\ ShowAll("64", Values(v64))[2] = debugctl
      BY <3>2 DEF ShowAll
    <3> QED
      BY <3>3 DEF Range
  <2>3. FairList(ShowAll("32", Values(v32)))
    <3>1. /\ v32 = [i \in 1 .. 4 |-> v32[i]]
          /\ Range(v32) = {"interruptibility", "activity", "smbase", "sysenter_cs"}
      BY DEF Range
    <3> HIDE DEF v32
    <3> QED
      BY <3>1, ShowsFit, ValuesAreFair
  <2>4. FairList(ShowAll("64", Values(crs)))
    <3>1. crs = [i \in 1 .. 3 |-> crs[i]] /\ Range(crs) = {"cr0", "cr3", "cr4"}
      BY DEF Range
    <3> HIDE DEF crs
    <3> QED
      BY <3>1, ShowsFit, ValuesAreFair
  <2>5. FairList(ShowAll("64", Values(others)))
    <3>1. /\ others = [i \in 1 .. 5 |-> others[i]]
          /\ Range(others) = {"dr7", "rsp", "rip", "rflags", "pending_debug"}
      BY DEF Range
    <3> HIDE DEF others
    <3> QED
      BY <3>1, ShowsFit, ValuesAreFair
  <2>6. Fair(one) /\ Fair(esp) /\ Fair(eip)
    <3>1. address \notin Crossed
      BY DEF Crossed, Guest
    <3>2. /\ Guest("sysenter_esp") \in Crossed \ {Guest("sysenter_eip")}
          /\ Guest("sysenter_eip") \in Crossed \ {Guest("sysenter_esp")}
      BY DEF Crossed, Guest
    <3>3. FieldFits("64", Guest("sysenter_esp")) /\ FieldFits("64", Guest("sysenter_eip"))
      BY ShowsFit DEF Guest
    <3> QED
      BY <3>1, <3>2, <3>3, ShowsFit, ShowIsFair
  <2>7. Dump = ShowAll("16", Named("guest", "selector", Segments))
               \o <<one>>
               \o ShowAll("64", Values(v64))
               \o ShowAll("32", Named("guest", "limit", Segments \o Tables))
               \o AccessRights
               \o ShowAll("32", Values(v32))
               \o ShowAll("64", Values(crs))
               \o ShowAll("64", Named("guest", "base", Segments \o Tables))
               \o ShowAll("64", Values(others))
               \o <<esp, eip>>
    BY DEF Dump
  <2> HIDE DEF v64, v32, crs, others, one, esp, eip, debugctl
  <2>8. FairList(<<one>>) /\ FairList(<<esp, eip>>)
    <3> DEFINE s == <<one>>
               t == <<esp, eip>>
    <3>1. s = [i \in 1 .. 1 |-> s[i]] /\ Range(s) = {one}
      BY DEF Range
    <3>2. t = [i \in 1 .. 2 |-> t[i]] /\ Range(t) = {esp, eip}
      BY DEF Range
    <3> HIDE DEF s, t
    <3>3. Listed(s) /\ Listed(t)
      BY <3>1, <3>2, IsListed
    <3> QED
      BY <2>6, <3>1, <3>2, <3>3 DEF FairList, s, t
  <2> QED
    BY <2>1, <2>2, <2>w, <2>3, <2>4, <2>5, <2>7, <2>8, FairJoins
<1>2. \A i \in DOMAIN Dump : Fair(Dump[i])
  BY <1>1 DEF FairList, Range
<1>3. PICK i \in DOMAIN Dump : Dump[i] = debugctl
  BY <1>1 DEF Range
<1>4. Dump[i].field = Guest("debugctl")
  BY <1>3 DEF Show
<1> QED
  BY <1>2, <1>4

\* The field that the driver leaves out is one of the enumerator and of those that
\* the dump reads, and no step of the function writes one of its name.
LEMMA LeftOutShown ==
    ASSUME NEW f \in LeftOut
    PROVE  f \in DOMAIN VmcsField /\ Code(f) \in Encodings /\ f \notin Names
<1>1. f = Guest("debugctl")
  BY DEF LeftOut
<1>2. PICK i \in DOMAIN Dump : Dump[i].field = f
  BY <1>1, DumpIsFair
<1>3. f \in DOMAIN VmcsField
  BY <1>2, DumpIsFair DEF Fair, FieldFits
<1>4. Code(f) \in Encodings
  BY <1>2 DEF Encodings
<1>5. f \notin Names
  BY <1>1 DEF Names, Guest
<1> QED
  BY <1>3, <1>4, <1>5


-----------------------------------------------------------------------------
(* What populating leaves in the VMCS *)

\* The field that step i writes holds what this call meant for it, with all its bits.
Holds(i) ==
    LET f == Program[i].field IN
    /\ vmcs[Code(f)].field = f
    /\ vmcs[Code(f)].call = calls
    /\ Bits[vmcs[Code(f)].width] >= Bits[VmcsField[f].width]

\* So do the fields of all writes that are behind and did not fail: a later write
\* either is of another encoding or is of the same field.
KeptInv ==
    /\ TypeInv
    /\ stage = "populate" =>
           \A i \in 1 .. EndOfProgram :
               i < step /\ Program[i].op # "read" /\ i \notin failed => Holds(i)
    /\ stage \in {"dump", "done"} =>
           \A i \in 1 .. EndOfProgram : Program[i].op # "read" /\ i \notin failed => Holds(i)
    /\ \A f \in LeftOut : vmcs[Code(f)] = Zero

LEMMA ProgramWrite ==
    ASSUME NEW i \in 1 .. EndOfProgram, Program[i].op # "read"
    PROVE  /\ Program[i].field \in DOMAIN VmcsField
           /\ Code(Program[i].field) \in Encodings
           /\ Program[i].width \in {"16", "32", "64", "natural"}
           /\ Bits[Program[i].width] >= Bits[VmcsField[Program[i].field].width]
<1> DEFINE f == Program[i].field
<1>1. /\ i \in DOMAIN Program /\ Program[i].width \in {"16", "32", "64", "natural"}
      /\ FieldFits(Program[i].width, f)
  BY ProgramStep
<1>2. f \in DOMAIN VmcsField
  BY <1>1 DEF FieldFits
<1>3. f # NoField
  <2>1. HwArea(Code(f)) = f[1] /\ Code(f) \in Nat
    BY <1>2, EncodingsDistinct
  <2>2. f[1] # "none"
    BY <2>1, AreasAndWidths DEF HwArea
  <2> QED
    BY <2>2 DEF NoField
<1>4. f \in Written
  BY <1>1, <1>3 DEF Written
<1> QED
  BY <1>1, <1>2, <1>4 DEF FieldFits, Encodings

LEMMA KeptInit == Init => KeptInv
<1> SUFFICES ASSUME Init PROVE KeptInv
  OBVIOUS
<1>1. \A f \in LeftOut : vmcs[Code(f)] = Zero
  BY LeftOutShown DEF Init
<1> QED
  BY <1>1, TypeInit DEF Init, KeptInv

LEMMA KeptStep == KeptInv /\ [Next]_vars => KeptInv'
<1> SUFFICES ASSUME KeptInv, [Next]_vars PROVE KeptInv'
  OBVIOUS
<1>0. TypeInv'
  BY TypeStep DEF KeptInv
<1>t. /\ step \in Nat \ {0} /\ EndOfProgram \in Nat /\ DOMAIN vmcs = Encodings
      /\ stage = "populate" => step <= EndOfProgram + 1
  BY ProgramShape DEF KeptInv, TypeInv, TypeOK
<1>1. CASE ReadLocal
  <2>1. /\ stage = "populate" /\ stage' = "populate" /\ step' = step + 1
        /\ Program[step].op = "read" /\ UNCHANGED <<calls, vmcs, failed>>
    BY <1>1 DEF ReadLocal, Running
  <2>2. ASSUME NEW i \in 1 .. EndOfProgram, i < step', Program[i].op # "read", i \notin failed'
        PROVE  Holds(i)'
    <3>1. i < step
      BY <1>t, <2>1, <2>2
    <3>2. Holds(i)
      BY <2>1, <2>2, <3>1 DEF KeptInv
    <3> QED
      BY <2>1, <3>2 DEF Holds
  <2> QED
    BY <1>0, <2>1, <2>2 DEF KeptInv
<1>2. CASE WriteField
  <2> DEFINE now == Program[step]
             code == Code(now.field)
             ok == ~Refuses(code) /\ HwArea(code) # "exit"
             v == [field |-> now.field, call |-> calls, cpus |-> Sources(now.from),
                   width |-> Cut(now.width, HwWidth(code))]
  <2>1. /\ stage = "populate" /\ stage' = "populate" /\ step' = step + 1
        /\ step \in 1 .. EndOfProgram /\ now.op # "read" /\ calls' = calls
        /\ vmcs' = IF ok THEN [vmcs EXCEPT ![code] = v] ELSE vmcs
        /\ failed' = IF ok THEN failed ELSE failed \cup {step}
    BY <1>2, <1>t DEF WriteField, Running
  <2>2. /\ now.field \in DOMAIN VmcsField /\ code \in Encodings
        /\ Bits[now.width] >= Bits[VmcsField[now.field].width]
    BY <2>1, ProgramWrite
  <2>3. Bits[v.width] >= Bits[VmcsField[now.field].width]
    <3>1. HwWidth(code) = VmcsField[now.field].width
      BY <2>2, EncodingsDistinct
    <3>2. Bits[VmcsField[now.field].width] \in Nat
      BY <2>2, FieldWidths, WidthsAre
    <3> QED
      BY <2>2, <3>1, <3>2 DEF Cut
  <2>4. v.field = now.field /\ v.call = calls
    OBVIOUS
  <2> HIDE DEF v, ok
  <2>5. ASSUME NEW i \in 1 .. EndOfProgram, i < step', Program[i].op # "read", i \notin failed'
        PROVE  Holds(i)'
    <3> DEFINE f == Program[i].field
    <3>1. f \in DOMAIN VmcsField /\ Code(f) \in Encodings
      BY <2>5, ProgramWrite
    <3>2. CASE ok /\ Code(f) = code
      <4>1. f = now.field
        BY <2>2, <3>1, <3>2, EncodingsDistinct
      <4>2. vmcs'[Code(f)] = v
        BY <1>t, <2>1, <3>1, <3>2
      <4> QED
        BY <2>1, <2>3, <2>4, <4>1, <4>2 DEF Holds
    <3>3. CASE ~(ok /\ Code(f) = code)
      <4>1. vmcs'[Code(f)] = vmcs[Code(f)]
        BY <1>t, <2>1, <3>1, <3>3
      <4>2. i # step
        BY <2>1, <2>5, <3>3
      <4>3. i < step /\ i \notin failed
        BY <1>t, <2>1, <2>5, <4>2
      <4>4. Holds(i)
        BY <2>1, <2>5, <4>3 DEF KeptInv
      <4> QED
        BY <2>1, <4>1, <4>4 DEF Holds
    <3> QED
      BY <3>2, <3>3
  <2>6. ASSUME NEW f \in LeftOut PROVE vmcs'[Code(f)] = Zero
    <3>1. f \in DOMAIN VmcsField /\ Code(f) \in Encodings /\ f \notin Names
      BY <2>6, LeftOutShown
    <3>2. now.field \in Names
      BY <2>1, ProgramStep
    <3>3. Code(f) # code
      BY <2>2, <3>1, <3>2, EncodingsDistinct
    <3>4. vmcs'[Code(f)] = vmcs[Code(f)]
      BY <1>t, <2>1, <3>1, <3>3
    <3> QED
      BY <2>6, <3>4 DEF KeptInv
  <2> QED
    BY <1>0, <2>1, <2>5, <2>6 DEF KeptInv
<1>3. CASE EndPopulate
  <2>1. /\ stage = "populate" /\ step > EndOfProgram /\ stage' = "dump"
        /\ UNCHANGED <<calls, vmcs, failed>>
    BY <1>3 DEF EndPopulate
  <2>2. \A i \in 1 .. EndOfProgram : i < step
    BY <1>t, <2>1
  <2>3. \A i \in 1 .. EndOfProgram : Holds(i)' <=> Holds(i)
    BY <2>1 DEF Holds
  <2> QED
    BY <1>0, <2>1, <2>2, <2>3 DEF KeptInv
<1>4. CASE ShowField
  BY <1>0, <1>4 DEF ShowField, KeptInv, Holds
<1>5. CASE Return
  BY <1>0, <1>5 DEF Return, KeptInv, Holds
<1>6. CASE Fault
  <2>1. UNCHANGED <<stage, step, calls, vmcs, failed>>
    BY <1>6 DEF Fault
  <2> QED
    BY <1>0, <2>1 DEF KeptInv, Holds
<1>7. ASSUME NEW c \in Cpus, Begin(c) PROVE KeptInv'
  <2>1. stage' = "populate" /\ step' = 1 /\ vmcs' = vmcs
    BY <1>7 DEF Begin
  <2>2. \A i \in 1 .. EndOfProgram : ~(i < step')
    BY <2>1
  <2> QED
    BY <1>0, <2>1, <2>2 DEF KeptInv
<1>8. ASSUME NEW c \in Cpus, Migrate(c) PROVE KeptInv'
  BY <1>0, <1>8 DEF Migrate, KeptInv, Holds
<1>9. CASE UNCHANGED vars
  BY <1>0, <1>9 DEF vars, KeptInv, Holds
<1> QED
  BY <1>1, <1>2, <1>3, <1>4, <1>5, <1>6, <1>7, <1>8, <1>9 DEF Next

\* Whatever processors run the calls and whatever fields the machine lacks, every
\* field that VM entry and VM exit need and whose VMWRITE did not fail is left as
\* the last call meant it, and whole, but for the guest's IA32_DEBUGCTL, which no
\* call changes from the zero of the region: it has no write, and no other field's
\* encoding is its own.
THEOREM EntryStateIsComplete == Spec => []EntryStateComplete
<1>1. Spec => []KeptInv
  BY KeptInit, KeptStep, PTL DEF Spec
<1>2. KeptInv => EntryStateComplete
  <2> SUFFICES ASSUME KeptInv, stage \in {"dump", "done"},
                      NEW f \in EntryNeeds, f \notin FailedFields
               PROVE  IF f \in LeftOut THEN vmcs[Code(f)] = Zero
                      ELSE /\ vmcs[Code(f)].field = f
                           /\ vmcs[Code(f)].call = calls
                           /\ Bits[vmcs[Code(f)].width] >= Bits[VmcsField[f].width]
    BY DEF EntryStateComplete
  <2> SUFFICES ASSUME f \notin LeftOut
               PROVE  /\ vmcs[Code(f)].field = f
                      /\ vmcs[Code(f)].call = calls
                      /\ Bits[vmcs[Code(f)].width] >= Bits[VmcsField[f].width]
    BY DEF KeptInv
  <2>1. PICK i \in DOMAIN Program : Program[i].op # "read" /\ Program[i].field = f
    BY ProgramShape DEF Meant
  <2>2. i \in 1 .. EndOfProgram
    BY ProgramShape, LenProperties DEF EndOfProgram
  <2>3. i \notin failed
    BY <2>1 DEF FailedFields
  <2> QED
    BY <2>1, <2>2, <2>3 DEF KeptInv, Holds
<1> QED
  BY <1>1, <1>2, PTL

-----------------------------------------------------------------------------
(* What the dump shows *)

\* The encodings that the driver uses are the enumerator's.
LEMMA EncodingsAreRead ==
    ASSUME NEW e \in Encodings
    PROVE  HwWidth(e) \in {"16", "32", "64", "natural"}
<1>1. PICK f \in Written \cup {Dump[i].field : i \in DOMAIN Dump} : e = Code(f)
  BY DEF Encodings
<1>2. f \in DOMAIN VmcsField
  <2>1. CASE f \in Written
    <3>1. PICK i \in DOMAIN Program : f = Program[i].field /\ f # NoField
      BY <2>1 DEF Written
    <3>2. i \in 1 .. EndOfProgram
      BY ProgramShape, LenProperties DEF EndOfProgram
    <3>3. Program[i].op # "read"
      BY <3>1, <3>2, ProgramStep
    <3> QED
      BY <3>1, <3>2, <3>3, ProgramWrite
  <2>2. CASE f \in {Dump[i].field : i \in DOMAIN Dump}
    BY <2>2, DumpIsFair DEF Fair, FieldFits
  <2> QED
    BY <1>1, <2>1, <2>2
<1> QED
  BY <1>1, <1>2, EncodingsDistinct, FieldWidths

\* What a field of encoding e can hold.
FitsIn(v, e) ==
    /\ v = [field |-> v.field, call |-> v.call, cpus |-> v.cpus, width |-> v.width]
    /\ v.width \in {"16", "32", "64", "natural"}
    /\ Bits[v.width] <= Bits[HwWidth(e)]

\* No field holds more bits than it has, and what the step before this one
\* showed is there.
DumpInv ==
    /\ TypeInv
    /\ \A e \in Encodings : FitsIn(vmcs[e], e)
    /\ DumpShowsWhole

LEMMA ZeroFits ==
    ASSUME NEW e \in Encodings
    PROVE  FitsIn(Zero, e)
BY EncodingsAreRead, WidthsAre DEF FitsIn, Zero

LEMMA DumpInit == Init => DumpInv
<1> SUFFICES ASSUME Init PROVE DumpInv
  OBVIOUS
<1>1. \A e \in Encodings : vmcs[e] = Zero
  BY DEF Init
<1>2. stage = "idle"
  BY DEF Init
<1> QED
  BY <1>1, <1>2, TypeInit, ZeroFits DEF DumpInv, DumpShowsWhole

LEMMA DumpStep == DumpInv /\ [Next]_vars => DumpInv'
<1> SUFFICES ASSUME DumpInv, [Next]_vars PROVE DumpInv'
  OBVIOUS
<1>0. TypeInv'
  BY TypeStep DEF DumpInv
<1>t. step \in Nat \ {0} /\ DOMAIN vmcs = Encodings /\ DOMAIN shown = {"16", "32", "64"}
  BY DEF DumpInv, TypeInv, TypeOK
<1>1. CASE ReadLocal
  BY <1>0, <1>1 DEF ReadLocal, Running, DumpInv, DumpShowsWhole, FitsIn
<1>2. CASE WriteField
  <2> DEFINE now == Program[step]
             code == Code(now.field)
             v == [field |-> now.field, call |-> calls, cpus |-> Sources(now.from),
                   width |-> Cut(now.width, HwWidth(code))]
  <2>1. /\ stage' = "populate" /\ step \in 1 .. EndOfProgram /\ now.op # "read"
        /\ vmcs' = [vmcs EXCEPT ![code] = v] \/ vmcs' = vmcs
    BY <1>2, <1>t, ProgramShape DEF WriteField, Running
  <2>2. FitsIn(v, code)
    <3>1. code \in Encodings
      BY <2>1, ProgramWrite
    <3>2. /\ now.width \in {"16", "32", "64", "natural"}
          /\ HwWidth(code) \in {"16", "32", "64", "natural"}
      BY <2>1, <3>1, ProgramWrite, EncodingsAreRead
    <3>3. /\ v.width \in {"16", "32", "64", "natural"}
          /\ Bits[v.width] <= Bits[HwWidth(code)]
      BY <3>2, WidthsAre DEF Cut
    <3>4. v = [field |-> v.field, call |-> v.call, cpus |-> v.cpus, width |-> v.width]
      OBVIOUS
    <3> QED
      BY <3>3, <3>4 DEF FitsIn
  <2> HIDE DEF v, code
  <2>3. \A e \in Encodings : FitsIn(vmcs'[e], e)
    BY <1>t, <2>1, <2>2 DEF DumpInv
  <2> QED
    BY <1>0, <2>1, <2>3 DEF DumpInv, DumpShowsWhole, FitsIn
<1>3. CASE EndPopulate
  BY <1>0, <1>3 DEF EndPopulate, DumpInv, DumpShowsWhole, FitsIn
<1>4. CASE ShowField
  <2> DEFINE now == Dump[step]
             code == Code(now.field)
             held == vmcs[code]
             u == IF Refuses(code) THEN Zero ELSE [held EXCEPT !.width = Cut(@, now.width)]
  <2>1. /\ step \in DOMAIN Dump /\ step' = step + 1 /\ stage' = "dump"
        /\ UNCHANGED <<vmcs, unsupported>>
        /\ shown' = [shown EXCEPT ![now.width] = u]
    BY <1>4 DEF ShowField
  <2>2. Fair(now)
    BY <2>1, DumpIsFair
  <2>3. code \in Encodings
    BY <2>1 DEF Encodings
  <2>4. FitsIn(held, code)
    BY <2>3 DEF DumpInv
  <2>5. /\ now.field \in DOMAIN VmcsField
        /\ HwWidth(code) = VmcsField[now.field].width
        /\ Bits[HwWidth(code)] <= Bits[now.width]
    BY <2>2, EncodingsDistinct DEF Fair, FieldFits
  <2>6. Cut(held.width, now.width) = held.width
    <3>1. /\ Bits[held.width] \in Nat /\ Bits[now.width] \in Nat
          /\ Bits[HwWidth(code)] \in Nat
      BY <2>2, <2>3, <2>4, EncodingsAreRead, WidthsAre DEF FitsIn, Fair
    <3> QED
      BY <2>4, <2>5, <3>1 DEF FitsIn, Cut
  <2>7. [held EXCEPT !.width = held.width] = held
    BY <2>4 DEF FitsIn
  <2>8. Refuses(code) \/ u = held
    BY <2>6, <2>7
  <2>9. shown'[now.width] = u
    <3> HIDE DEF u, code
    <3> QED
      BY <1>t, <2>1, <2>2 DEF Fair
  <2>10. step' - 1 = step
    BY <1>t, <2>1
  <2>11. DumpShowsWhole'
    <3>1. \/ Refuses(code)
          \/ /\ shown'[now.width] = vmcs'[code]
             /\ IF now.label \in Crossed THEN now.field \in Crossed \ {now.label}
                ELSE now.field = now.label
      BY <2>1, <2>2, <2>8, <2>9 DEF Fair
    <3> QED
      BY <2>1, <2>10, <3>1 DEF DumpShowsWhole, Crossed, Refuses
  <2> QED
    BY <1>0, <2>1, <2>11 DEF DumpInv, FitsIn
<1>5. CASE Return
  BY <1>0, <1>5 DEF Return, DumpInv, DumpShowsWhole, FitsIn
<1>6. CASE Fault
  <2>1. UNCHANGED <<stage, step, vmcs, unsupported, shown>>
    BY <1>6 DEF Fault
  <2> QED
    BY <1>0, <2>1 DEF DumpInv, DumpShowsWhole, FitsIn, Refuses
<1>7. ASSUME NEW c \in Cpus, Begin(c) PROVE DumpInv'
  BY <1>0, <1>7 DEF Begin, DumpInv, DumpShowsWhole, FitsIn
<1>8. ASSUME NEW c \in Cpus, Migrate(c) PROVE DumpInv'
  BY <1>0, <1>8 DEF Migrate, DumpInv, DumpShowsWhole, FitsIn, Refuses
<1>9. CASE UNCHANGED vars
  BY <1>0, <1>9 DEF vars, DumpInv, DumpShowsWhole, FitsIn, Refuses
<1> QED
  BY <1>1, <1>2, <1>3, <1>4, <1>5, <1>6, <1>7, <1>8, <1>9 DEF Next

\* Each line of the dump shows, whole, what the field it names holds, or the
\* other SYSENTER address's field, on any machine and after any calls.
THEOREM DumpIsWhole == Spec => []DumpShowsWhole
<1>1. Spec => []DumpInv
  BY DumpInit, DumpStep, PTL DEF Spec
<1>2. DumpInv => DumpShowsWhole
  BY DEF DumpInv
<1> QED
  BY <1>1, <1>2, PTL

-----------------------------------------------------------------------------
(* Moves *)

\* What this call wrote comes from the processor it began on.
OwnPure == \A e \in Encodings : vmcs[e].call = calls => vmcs[e].cpus \subseteq {home}

\* A field was written by a call that has begun; until the first move the
\* thread is at home and so is all it knows; after one move it is away, where
\* it cannot write.
MovesInv ==
    /\ TypeInv
    /\ \A e \in Encodings : vmcs[e].call <= calls
    /\ stage = "idle" => \A e \in Encodings : vmcs[e].cpus = {}
    /\ (moves = 0 /\ stage # "idle") => cpu = home /\ \A l \in Locals : known[l] \subseteq {home}
    /\ moves = 1 => cpu # home
    /\ moves < 2 => OwnPure

LEMMA MovesInit == Init => MovesInv
<1> SUFFICES ASSUME Init PROVE MovesInv
  OBVIOUS
<1>1. \A e \in Encodings : vmcs[e].call = 0 /\ vmcs[e].cpus = {}
  BY DEF Init, Zero
<1>2. calls = 0 /\ moves = 0 /\ stage = "idle"
  BY DEF Init
<1> QED
  BY <1>1, <1>2, TypeInit DEF MovesInv, OwnPure

LEMMA MovesStep == MovesInv /\ [Next]_vars => MovesInv'
<1> SUFFICES ASSUME MovesInv, [Next]_vars PROVE MovesInv'
  OBVIOUS
<1>0. TypeInv'
  BY TypeStep DEF MovesInv
<1>t. calls \in Nat /\ moves \in Nat /\ known \in [Locals -> SUBSET Cpus] /\ DOMAIN vmcs = Encodings
      /\ \A e \in Encodings : vmcs[e].call \in Nat
  BY BoundsAssumption DEF MovesInv, TypeInv, TypeOK, ProvenanceOK
<1>1. CASE ReadLocal
  <2>1. UNCHANGED <<stage, cpu, home, calls, moves, vmcs>> /\ stage = "populate"
    BY <1>1 DEF ReadLocal, Running
  <2>2. ASSUME moves = 0 PROVE \A l \in Locals : known'[l] \subseteq {home}
    <3>1. step \in 1 .. EndOfProgram
      BY <1>1, ProgramShape DEF ReadLocal, Running, MovesInv, TypeInv, TypeOK
    <3>2. Program[step].from \subseteq Locals
      BY <3>1, ProgramStep
    <3>3. cpu = home /\ \A l \in Locals : known[l] \subseteq {home}
      BY <2>1, <2>2 DEF MovesInv
    <3>4. {Seen(Program[step].local, cpu)} \cup Sources(Program[step].from) \subseteq {home}
      BY <3>2, <3>3 DEF Sources, Seen
    <3> QED
      BY <1>1, <1>t, <3>3, <3>4 DEF ReadLocal
  <2> QED
    BY <1>0, <2>1, <2>2 DEF MovesInv, OwnPure
<1>2. CASE WriteField
  <2> DEFINE now == Program[step]
             code == Code(now.field)
             v == [field |-> now.field, call |-> calls, cpus |-> Sources(now.from),
                   width |-> Cut(now.width, HwWidth(code))]
  <2>1. UNCHANGED <<stage, cpu, home, calls, moves, known>> /\ stage = "populate" /\ cpu = home
    BY <1>2 DEF WriteField, Running
  <2>2. \A e \in Encodings : vmcs'[e] = v \/ vmcs'[e] = vmcs[e]
    <3>1. vmcs' = [vmcs EXCEPT ![code] = v] \/ vmcs' = vmcs
      BY <1>2 DEF WriteField
    <3> HIDE DEF v, code
    <3> QED
      BY <1>t, <3>1
  <2>3. v.call = calls /\ v.cpus = Sources(now.from)
    OBVIOUS
  <2>4. moves < 2 => v.cpus \subseteq {home}
    <3> SUFFICES ASSUME moves < 2 PROVE Sources(now.from) \subseteq {home}
      BY <2>3
    <3>1. moves = 0
      BY <1>t, <2>1 DEF MovesInv
    <3>2. \A l \in Locals : known[l] \subseteq {home}
      BY <2>1, <3>1 DEF MovesInv
    <3>3. step \in 1 .. EndOfProgram
      BY <1>2, ProgramShape DEF WriteField, Running, MovesInv, TypeInv, TypeOK
    <3>4. now.from \subseteq Locals
      BY <3>3, ProgramStep
    <3> QED
      BY <3>2, <3>4 DEF Sources
  <2> HIDE DEF v
  <2>5. (moves < 2 => OwnPure)'
    <3> SUFFICES ASSUME moves < 2, NEW e \in Encodings, vmcs'[e].call = calls
                 PROVE  vmcs'[e].cpus \subseteq {home}
      BY <2>1 DEF OwnPure
    <3> QED
      BY <2>2, <2>4 DEF MovesInv, OwnPure
  <2>6. \A e \in Encodings : vmcs'[e].call <= calls
    BY <1>t, <2>2, <2>3 DEF MovesInv
  <2> QED
    BY <1>0, <2>1, <2>5, <2>6 DEF MovesInv
<1>3. CASE EndPopulate
  BY <1>0, <1>3 DEF EndPopulate, MovesInv, OwnPure
<1>4. CASE ShowField
  BY <1>0, <1>4 DEF ShowField, MovesInv, OwnPure
<1>5. CASE Return
  BY <1>0, <1>5 DEF Return, MovesInv, OwnPure
<1>6. CASE Fault
  <2>1. UNCHANGED <<stage, cpu, home, calls, moves, known, vmcs>>
    BY <1>6 DEF Fault
  <2> QED
    BY <1>0, <2>1 DEF MovesInv, OwnPure
<1>7. ASSUME NEW c \in Cpus, Begin(c) PROVE MovesInv'
  <2>1. /\ stage' = "populate" /\ cpu' = c /\ home' = c /\ calls' = calls + 1 /\ moves' = 0
        /\ known' = [l \in Locals |-> {}] /\ vmcs' = vmcs
    BY <1>7 DEF Begin
  <2>2. \A e \in Encodings : vmcs[e].call < calls + 1
    BY <1>t DEF MovesInv
  <2>3. OwnPure' /\ \A e \in Encodings : vmcs'[e].call <= calls'
    BY <1>t, <2>1, <2>2 DEF OwnPure
  <2> QED
    BY <1>0, <2>1, <2>3 DEF MovesInv
<1>8. ASSUME NEW c \in Cpus, Migrate(c) PROVE MovesInv'
  <2>1. /\ UNCHANGED <<stage, home, calls, known, vmcs>> /\ moves' = moves + 1 /\ cpu' = c
        /\ c # cpu /\ stage # "idle"
    BY <1>8 DEF Migrate
  <2>2. moves = 0 => cpu' # home
    BY <2>1 DEF MovesInv
  <2>3. (moves < 2 => OwnPure)'
    BY <1>t, <2>1 DEF MovesInv, OwnPure
  <2> QED
    BY <1>0, <1>t, <2>1, <2>2, <2>3 DEF MovesInv
<1>9. CASE UNCHANGED vars
  BY <1>0, <1>9 DEF vars, MovesInv, OwnPure
<1> QED
  BY <1>1, <1>2, <1>3, <1>4, <1>5, <1>6, <1>7, <1>8, <1>9 DEF Next

\* However many processors there are and whatever they lack, the state of two
\* of them is mixed in the VMCS only by a thread that was moved away and back.
THEOREM TwoMovesToMix == Spec => []MixingNeedsMoves
<1>1. Spec => []MovesInv
  BY MovesInit, MovesStep, PTL DEF Spec
<1>2. MovesInv => MixingNeedsMoves
  BY DEF MovesInv, OwnPure, MixingNeedsMoves, TypeInv, TypeOK
<1> QED
  BY <1>1, <1>2, PTL

-----------------------------------------------------------------------------
(* The status *)

\* A VMWRITE failed and none of the steps after it, up to n, assigns status.
Remembered(n) ==
    \E i \in failed : \A j \in i + 1 .. n : Program[j].op # "assign"

\* status remembers what failed since the last assignment.
StatusInv ==
    /\ TypeInv
    /\ stage = "populate" => /\ \A i \in failed : i < step
                             /\ status # STATUS_SUCCESS <=> Remembered(step - 1)
    /\ stage \in {"dump", "done"} => (status # STATUS_SUCCESS <=> Remembered(EndOfProgram))

LEMMA StatusInit == Init => StatusInv
BY TypeInit DEF Init, StatusInv

LEMMA StatusStep == StatusInv /\ [Next]_vars => StatusInv'
<1> SUFFICES ASSUME StatusInv, [Next]_vars PROVE StatusInv'
  OBVIOUS
<1>0. TypeInv'
  BY TypeStep DEF StatusInv
<1>t. /\ step \in Nat \ {0} /\ EndOfProgram \in Nat /\ failed \subseteq 1 .. EndOfProgram
      /\ status \in {0, 1} /\ STATUS_SUCCESS = 0 /\ STATUS_FAILED_VMWRITE = 1
      /\ stage = "populate" => step <= EndOfProgram + 1
  BY ProgramShape, Codes DEF StatusInv, TypeInv, TypeOK
<1>1. CASE ReadLocal
  <2>1. /\ stage = "populate" /\ step \in 1 .. EndOfProgram /\ Program[step].op = "read"
        /\ step' = step + 1 /\ UNCHANGED <<stage, failed, status>>
    BY <1>1, <1>t DEF ReadLocal, Running
  <2>2. Remembered(step) <=> Remembered(step - 1)
    BY <1>t, <2>1 DEF Remembered, StatusInv
  <2>3. Remembered(step - 1)' <=> Remembered(step)
    BY <1>t, <2>1 DEF Remembered
  <2> QED
    BY <1>0, <1>t, <2>1, <2>2, <2>3 DEF StatusInv
<1>2. CASE WriteField
  <2> DEFINE now == Program[step]
             ok == ~Refuses(Code(now.field)) /\ HwArea(Code(now.field)) # "exit"
  <2>1. /\ stage = "populate" /\ step \in 1 .. EndOfProgram
        /\ step' = step + 1 /\ UNCHANGED stage
        /\ failed' = IF ok THEN failed ELSE failed \cup {step}
        /\ status' = StatusAfter(now.op, status,
                                 IF ok THEN STATUS_SUCCESS ELSE STATUS_FAILED_VMWRITE)
    BY <1>2, <1>t DEF WriteField, Running
  <2> HIDE DEF ok
  <2>2. \A i \in failed : i < step
    BY <2>1 DEF StatusInv
  <2>3. CASE ~ok
    <3>1. status' = 1
      BY <1>t, <2>1, <2>3, Codes DEF StatusAfter
    <3>2. failed' = failed \cup {step}
      BY <2>1, <2>3
    <3>3. Remembered(step - 1)'
      BY <1>t, <2>1, <3>2 DEF Remembered
    <3> QED
      BY <1>0, <1>t, <2>1, <2>2, <3>1, <3>2, <3>3 DEF StatusInv
  <2>4. CASE ok /\ now.op = "assign"
    <3>1. status' = 0 /\ failed' = failed
      BY <1>t, <2>1, <2>4, Codes DEF StatusAfter
    <3>2. \A i \in failed : step \in i + 1 .. step
      BY <1>t, <2>1, <2>2
    <3>3. ~Remembered(step - 1)'
      BY <1>t, <2>1, <2>4, <3>1, <3>2 DEF Remembered
    <3> QED
      BY <1>0, <1>t, <2>1, <2>2, <3>1, <3>3 DEF StatusInv
  <2>5. CASE ok /\ now.op # "assign"
    <3>1. status' = status /\ failed' = failed
      BY <1>t, <2>1, <2>5, Codes DEF StatusAfter
    <3>2. Remembered(step) <=> Remembered(step - 1)
      BY <1>t, <2>1, <2>2, <2>5 DEF Remembered
    <3>3. Remembered(step - 1)' <=> Remembered(step)
      BY <1>t, <2>1, <3>1 DEF Remembered
    <3> QED
      BY <1>0, <1>t, <2>1, <2>2, <3>1, <3>2, <3>3 DEF StatusInv
  <2> QED
    BY <2>3, <2>4, <2>5
<1>3. CASE EndPopulate
  <2>1. /\ stage = "populate" /\ step > EndOfProgram /\ stage' = "dump"
        /\ UNCHANGED <<failed, status>>
    BY <1>3 DEF EndPopulate
  <2>2. step - 1 = EndOfProgram
    BY <1>t, <2>1
  <2> QED
    BY <1>0, <2>1, <2>2 DEF StatusInv, Remembered
<1>4. CASE ShowField
  BY <1>0, <1>4 DEF ShowField, StatusInv, Remembered
<1>5. CASE Return
  BY <1>0, <1>5 DEF Return, StatusInv, Remembered
<1>6. CASE Fault
  <2>1. UNCHANGED <<stage, step, failed, status>>
    BY <1>6 DEF Fault
  <2> QED
    BY <1>0, <2>1 DEF StatusInv, Remembered
<1>7. ASSUME NEW c \in Cpus, Begin(c) PROVE StatusInv'
  <2>1. stage' = "populate" /\ failed' = {} /\ status' = STATUS_SUCCESS
    BY <1>7 DEF Begin
  <2> QED
    BY <1>0, <2>1 DEF StatusInv, Remembered
<1>8. ASSUME NEW c \in Cpus, Migrate(c) PROVE StatusInv'
  BY <1>0, <1>8 DEF Migrate, StatusInv, Remembered
<1>9. CASE UNCHANGED vars
  BY <1>0, <1>9 DEF vars, StatusInv, Remembered
<1> QED
  BY <1>1, <1>2, <1>3, <1>4, <1>5, <1>6, <1>7, <1>8, <1>9 DEF Next

\* The status with which populating comes back tells of exactly the VMWRITEs
\* that failed from the one whose result is assigned on.
THEOREM StatusIsLate == Spec => []StatusTellsLate
<1>1. Spec => []StatusInv
  BY StatusInit, StatusStep, PTL DEF Spec
<1>2. StatusInv => StatusTellsLate
  BY DEF StatusInv, StatusTellsLate, Remembered
<1> QED
  BY <1>1, <1>2, PTL

-----------------------------------------------------------------------------
(* The refinement *)

\* Outside the last call's dump the status of the blocks is that of the parts
\* that are behind; when populating is over it is status itself.
LEMMA BlocksStatusIs ==
    StatusInv => BlocksStatus =
                     IF \E i \in failed : i >= EndOfControls /\ BlockOf(i) \in Behind
                     THEN STATUS_FAILED_VMWRITE ELSE STATUS_SUCCESS
<1> SUFFICES ASSUME StatusInv
             PROVE  BlocksStatus =
                        IF \E i \in failed : i >= EndOfControls /\ BlockOf(i) \in Behind
                        THEN STATUS_FAILED_VMWRITE ELSE STATUS_SUCCESS
  OBVIOUS
<1>1. CASE stage \notin Over
  BY <1>1 DEF BlocksStatus
<1>2. CASE stage \in Over
  <2>1. EndOfControls \in Nat \ {0} /\ EndOfProgram \in Nat /\ EndOfControls < EndOfProgram
        /\ failed \subseteq 1 .. EndOfProgram
        /\ \A i \in 1 .. EndOfProgram : Program[i].op = "assign" <=> i = EndOfControls
    BY ProgramShape DEF StatusInv, TypeInv
  <2>2. Behind = {"controls", "segments", "registers"}
    BY <1>2 DEF Behind
  <2>3. \A i \in failed : BlockOf(i) \in Behind
    BY <2>2 DEF BlockOf
  <2>4. Remembered(EndOfProgram) <=> \E i \in failed : i >= EndOfControls
    <3>1. ASSUME NEW i \in failed, i >= EndOfControls
          PROVE  \A j \in i + 1 .. EndOfProgram : Program[j].op # "assign"
      BY <2>1, <3>1
    <3>2. ASSUME NEW i \in failed, ~(i >= EndOfControls)
          PROVE  EndOfControls \in i + 1 .. EndOfProgram /\ Program[EndOfControls].op = "assign"
      BY <2>1, <3>2
    <3> QED
      BY <3>1, <3>2 DEF Remembered
  <2>5. status # STATUS_SUCCESS <=> \E i \in failed : i >= EndOfControls
    BY <1>2, <2>4 DEF StatusInv, Over
  <2>6. status \in {STATUS_SUCCESS, STATUS_FAILED_VMWRITE}
    BY DEF StatusInv, TypeInv, TypeOK
  <2> QED
    BY <1>2, <2>3, <2>5, <2>6 DEF BlocksStatus
<1> QED
  BY <1>1, <1>2

LEMMA BlocksCodes ==
    /\ Blocks!STATUS_SUCCESS = STATUS_SUCCESS
    /\ Blocks!STATUS_FAILED_VMWRITE = STATUS_FAILED_VMWRITE
    /\ \A s, result : Blocks!OrStatus(s, result) = OrStatus(s, result)
BY DEF Blocks!STATUS_SUCCESS, Blocks!STATUS_FAILED_VMWRITE, Blocks!CustomStatus, Blocks!NT_ERROR,
       Blocks!BASE_ERROR, Blocks!OrStatus, STATUS_SUCCESS, STATUS_FAILED_VMWRITE, CustomStatus,
       NT_ERROR, BASE_ERROR, OrStatus

LEMMA BlocksInit == Init => Blocks!Init
<1> SUFFICES ASSUME Init PROVE Blocks!Init
  OBVIOUS
<1>1. stage = "idle" /\ failed = {} /\ crash = "none" /\ status = STATUS_SUCCESS
  BY DEF Init
<1>2. Behind = {}
  BY <1>1 DEF Behind, Over
<1> QED
  BY <1>1, <1>2, BlocksCodes DEF Blocks!Init, BlocksStage, BlocksWritten, BlocksStatus, Over

\* One step of populating, be it a read or a write, that leaves step behind.
LEMMA PopulateStep ==
    ASSUME StatusInv, StatusInv', crash = "none", crash' = "none",
           stage = "populate", stage' = "populate", step <= EndOfProgram, step' = step + 1,
           failed' = failed \/ failed' = failed \cup {step}
    PROVE  Blocks!Next \/ UNCHANGED Blocks!vars
<1> DEFINE Late(f, b) == \E i \in f : i >= EndOfControls /\ BlockOf(i) \in b
<1>1. /\ step \in Nat \ {0} /\ EndOfControls \in Nat \ {0} /\ EndOfSegments \in Nat
      /\ EndOfProgram \in Nat /\ EndOfControls < EndOfSegments /\ EndOfSegments < EndOfProgram
      /\ failed \subseteq 1 .. EndOfProgram /\ \A i \in failed : i < step
  BY ProgramShape DEF StatusInv, TypeInv, TypeOK
<1>2. /\ BlocksStatus = IF Late(failed, Behind) THEN STATUS_FAILED_VMWRITE ELSE STATUS_SUCCESS
      /\ BlocksStatus' = IF Late(failed', Behind') THEN STATUS_FAILED_VMWRITE ELSE STATUS_SUCCESS
  <2>1. BlocksStatus = IF Late(failed, Behind) THEN STATUS_FAILED_VMWRITE ELSE STATUS_SUCCESS
    BY BlocksStatusIs
  <2>2. BlocksStatus' = IF Late(failed', Behind') THEN STATUS_FAILED_VMWRITE ELSE STATUS_SUCCESS
    BY DEF BlocksStatus, Over, BlockOf
  <2> QED
    BY <2>1, <2>2
<1>3. /\ BlocksWritten = {b \in Behind : \A i \in failed : BlockOf(i) # b}
      /\ BlocksWritten' = {b \in Behind' : \A i \in failed' : BlockOf(i) # b}
  BY DEF BlocksWritten, BlockOf
<1>4. /\ BlocksStage = IF step <= EndOfControls THEN "controls"
                       ELSE IF step <= EndOfSegments THEN "segments" ELSE "registers"
      /\ BlocksStage' = IF step < EndOfControls THEN "controls"
                        ELSE IF step < EndOfSegments THEN "segments"
                        ELSE IF step < EndOfProgram THEN "registers" ELSE "dump"
  BY <1>1 DEF BlocksStage
<1>5. /\ Behind = (IF step > EndOfControls THEN {"controls"} ELSE {})
                  \cup (IF step > EndOfSegments THEN {"segments"} ELSE {})
      /\ Behind' = (IF step >= EndOfControls THEN {"controls"} ELSE {})
                   \cup (IF step >= EndOfSegments THEN {"segments"} ELSE {})
                   \cup (IF step >= EndOfProgram THEN {"registers"} ELSE {})
  BY <1>1 DEF Behind, Over
<1>6. CASE step \notin {EndOfControls, EndOfSegments, EndOfProgram}
  <2>1. BlocksStage' = BlocksStage /\ Behind' = Behind /\ BlockOf(step) \notin Behind
    BY <1>1, <1>4, <1>5, <1>6 DEF BlockOf
  <2>2. BlocksWritten' = BlocksWritten
    BY <1>3, <2>1
  <2>3. Late(failed', Behind') <=> Late(failed, Behind)
    BY <2>1
  <2> QED
    BY <1>2, <2>1, <2>2, <2>3 DEF Blocks!vars
<1> DEFINE complete(b) == \A i \in failed' : BlockOf(i) # b
<1>c. \A b : complete(b) \in BOOLEAN
  OBVIOUS
<1>7. CASE step = EndOfControls
  <2>1. Behind = {} /\ Behind' = {"controls"}
    BY <1>1, <1>5, <1>7
  <2>2. BlocksStage = "controls" /\ BlocksStage' = "segments"
    BY <1>1, <1>4, <1>7
  <2>3. BlocksWritten' = IF complete("controls") THEN BlocksWritten \cup {"controls"}
                         ELSE BlocksWritten
    BY <1>3, <2>1
  <2>4. complete("controls") => BlocksStatus' = STATUS_SUCCESS
    BY <1>2, <2>1
  <2>5. BlocksStatus' \in {STATUS_SUCCESS, STATUS_FAILED_VMWRITE}
    BY <1>2
  <2> HIDE DEF complete
  <2>6. Blocks!Write("controls", complete("controls"), BlocksStatus', "segments")
    BY <2>2, <2>3 DEF Blocks!Write
  <2> QED
    BY <1>c, <2>4, <2>5, <2>6, BlocksCodes DEF Blocks!Next, Blocks!WriteControls
<1>8. CASE step = EndOfSegments
  <2>1. Behind = {"controls"} /\ Behind' = {"controls", "segments"}
    BY <1>1, <1>5, <1>8
  <2>2. BlocksStage = "segments" /\ BlocksStage' = "registers" /\ BlockOf(step) = "segments"
    BY <1>1, <1>4, <1>8 DEF BlockOf
  <2>3. BlocksWritten' = IF complete("segments") THEN BlocksWritten \cup {"segments"}
                         ELSE BlocksWritten
    BY <1>3, <2>1, <2>2
  <2>4. \A i \in failed' : BlockOf(i) = "segments" => i >= EndOfControls
    <3>1. CASE failed' = failed
      BY <1>1, <3>1 DEF BlockOf
    <3>2. CASE failed' = failed \cup {step}
      BY <1>1, <3>2 DEF BlockOf
    <3> QED
      BY <3>1, <3>2
  <2>5. Late(failed', Behind') <=> (Late(failed, Behind) \/ ~complete("segments"))
    BY <2>1, <2>2, <2>4
  <2>6. BlocksStatus' = OrStatus(BlocksStatus, IF complete("segments") THEN STATUS_SUCCESS
                                               ELSE STATUS_FAILED_VMWRITE)
    BY <1>2, <2>5, Codes
  <2> HIDE DEF complete
  <2>7. Blocks!Write("segments", complete("segments"),
                     Blocks!OrStatus(BlocksStatus, IF complete("segments")
                                                   THEN Blocks!STATUS_SUCCESS
                                                   ELSE Blocks!STATUS_FAILED_VMWRITE), "registers")
    BY <2>2, <2>3, <2>6, BlocksCodes DEF Blocks!Write
  <2> QED
    BY <1>c, <2>7 DEF Blocks!Next, Blocks!WriteLater
<1>9. CASE step = EndOfProgram
  <2>1. Behind = {"controls", "segments"} /\ Behind' = {"controls", "segments", "registers"}
    BY <1>1, <1>5, <1>9
  <2>2. BlocksStage = "registers" /\ BlocksStage' = "dump" /\ BlockOf(step) = "registers"
    BY <1>1, <1>4, <1>9 DEF BlockOf
  <2>3. BlocksWritten' = IF complete("registers") THEN BlocksWritten \cup {"registers"}
                         ELSE BlocksWritten
    BY <1>3, <2>1, <2>2
  <2>4. \A i \in failed' : BlockOf(i) = "registers" => i >= EndOfControls
    <3>1. CASE failed' = failed
      BY <1>1, <3>1 DEF BlockOf
    <3>2. CASE failed' = failed \cup {step}
      BY <1>1, <3>2 DEF BlockOf
    <3> QED
      BY <3>1, <3>2
  <2>5. Late(failed', Behind') <=> (Late(failed, Behind) \/ ~complete("registers"))
    BY <2>1, <2>2, <2>4
  <2>6. BlocksStatus' = OrStatus(BlocksStatus, IF complete("registers") THEN STATUS_SUCCESS
                                               ELSE STATUS_FAILED_VMWRITE)
    BY <1>2, <2>5, Codes
  <2> HIDE DEF complete
  <2>7. Blocks!Write("registers", complete("registers"),
                     Blocks!OrStatus(BlocksStatus, IF complete("registers")
                                                   THEN Blocks!STATUS_SUCCESS
                                                   ELSE Blocks!STATUS_FAILED_VMWRITE), "dump")
    BY <2>2, <2>3, <2>6, BlocksCodes DEF Blocks!Write
  <2> QED
    BY <1>c, <2>7 DEF Blocks!Next, Blocks!WriteLater
<1> QED
  BY <1>6, <1>7, <1>8, <1>9

LEMMA BlocksStep == StatusInv /\ StatusInv' /\ [Next]_vars => [Blocks!Next]_Blocks!vars
<1> SUFFICES ASSUME StatusInv, StatusInv', [Next]_vars
             PROVE  Blocks!Next \/ UNCHANGED Blocks!vars
  OBVIOUS
<1>t. /\ step \in Nat \ {0} /\ EndOfControls \in Nat \ {0} /\ EndOfSegments \in Nat
      /\ EndOfProgram \in Nat /\ EndOfControls < EndOfSegments /\ EndOfSegments < EndOfProgram
  BY ProgramShape DEF StatusInv, TypeInv, TypeOK
<1>1. CASE ReadLocal
  BY <1>1, PopulateStep DEF ReadLocal, Running
<1>2. CASE WriteField
  BY <1>2, PopulateStep DEF WriteField, Running
<1>3. CASE EndPopulate
  <2>1. /\ stage = "populate" /\ step > EndOfProgram /\ stage' = "dump" /\ crash = "none"
        /\ UNCHANGED <<failed, crash>>
    BY <1>3 DEF EndPopulate
  <2>2. Behind' = Behind
    BY <1>t, <2>1 DEF Behind, Over
  <2>3. UNCHANGED <<BlocksStage, BlocksWritten>>
    BY <1>t, <2>1, <2>2 DEF BlocksStage, BlocksWritten, BlockOf
  <2>4. BlocksStatus' = IF \E i \in failed' : i >= EndOfControls /\ BlockOf(i) \in Behind'
                        THEN STATUS_FAILED_VMWRITE ELSE STATUS_SUCCESS
    <3>1. (StatusInv => BlocksStatus =
              IF \E i \in failed : i >= EndOfControls /\ BlockOf(i) \in Behind
              THEN STATUS_FAILED_VMWRITE ELSE STATUS_SUCCESS)'
      BY BlocksStatusIs, PTL
    <3> QED
      BY <3>1 DEF BlockOf
  <2>5. UNCHANGED BlocksStatus
    BY <2>1, <2>2, <2>4, BlocksStatusIs
  <2> QED
    BY <2>3, <2>5 DEF Blocks!vars
<1>4. CASE ShowField
  <2>1. stage = "dump" /\ UNCHANGED <<stage, failed, status, crash>>
    BY <1>4 DEF ShowField
  <2> QED
    BY <2>1 DEF BlocksStage, BlocksWritten, BlocksStatus, Behind, Over, BlockOf, Blocks!vars
<1>5. CASE Return
  <2>1. stage = "dump" /\ stage' = "done" /\ UNCHANGED <<failed, status, crash>> /\ crash = "none"
    BY <1>5 DEF Return
  <2>2. BlocksStage = "dump" /\ BlocksStage' = "done"
    BY <2>1 DEF BlocksStage
  <2>3. UNCHANGED <<BlocksWritten, BlocksStatus>>
    BY <2>1 DEF BlocksWritten, BlocksStatus, Behind, Over, BlockOf
  <2> QED
    BY <2>2, <2>3 DEF Blocks!Next, Blocks!Dump
<1>6. CASE Fault
  <2>1. /\ crash = "none" /\ crash' # "none" /\ UNCHANGED <<stage, step, failed, status>>
        /\ stage \in {"populate", "dump"}
    BY <1>6 DEF Fault, Running
  <2>2. BlocksStage \in {"controls", "segments", "registers", "dump"} /\ BlocksStage' = "stopped"
    BY <2>1 DEF BlocksStage
  <2>3. UNCHANGED <<BlocksWritten, BlocksStatus>>
    BY <2>1 DEF BlocksWritten, BlocksStatus, Behind, Over, BlockOf
  <2> QED
    BY <2>2, <2>3 DEF Blocks!Next, Blocks!Stop
<1>7. ASSUME NEW c \in Cpus, Begin(c) PROVE Blocks!Next
  <2>1. /\ crash = "none" /\ crash' = "none" /\ stage \in {"idle", "done"} /\ stage' = "populate"
        /\ step' = 1 /\ failed' = {}
    BY <1>7 DEF Begin
  <2>2. BlocksStage \in {"idle", "done"} /\ BlocksStage' = "controls"
    BY <1>t, <2>1 DEF BlocksStage
  <2>3. Behind' = {}
    BY <1>t, <2>1 DEF Behind, Over
  <2>4. BlocksWritten' = {} /\ BlocksStatus' = STATUS_SUCCESS
    BY <2>1, <2>3 DEF BlocksWritten, BlocksStatus, Over
  <2> QED
    BY <2>2, <2>4, BlocksCodes DEF Blocks!Next, Blocks!Begin
<1>8. ASSUME NEW c \in Cpus, Migrate(c) PROVE UNCHANGED Blocks!vars
  <2>1. UNCHANGED <<stage, step, failed, status, crash>>
    BY <1>8 DEF Migrate
  <2> QED
    BY <2>1 DEF BlocksStage, BlocksWritten, BlocksStatus, Behind, Over, BlockOf, Blocks!vars
<1>9. CASE UNCHANGED vars
  <2>1. UNCHANGED <<stage, step, failed, status, crash>>
    BY <1>9 DEF vars
  <2> QED
    BY <2>1 DEF BlocksStage, BlocksWritten, BlocksStatus, Behind, Over, BlockOf, Blocks!vars
<1> QED
  BY <1>1, <1>2, <1>3, <1>4, <1>5, <1>6, <1>7, <1>8, <1>9 DEF Next

\* PopulateActiveVMCS, one VMWRITE at a time, implements the three parts as
\* which EnterVmx models it, with the status that is kept and the one that is lost.
THEOREM BlocksRefined == Spec => BlocksImplemented
<1>1. Spec => []StatusInv
  BY StatusInit, StatusStep, PTL DEF Spec
<1>2. Spec => Blocks!Spec
  BY <1>1, BlocksInit, BlocksStep, PTL DEF Spec, Blocks!Spec
<1> QED
  BY <1>2 DEF BlocksImplemented

=============================================================================
