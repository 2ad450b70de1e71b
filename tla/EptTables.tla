----------------------------- MODULE EptTables ------------------------------
(***************************************************************************)
(* The tables that InitializeProcessorContext and InitializeEPT build, and *)
(* how a guest-physical address would be translated by them.               *)
(*                                                                         *)
(* An entry either has all three access rights or none, and names the page *)
(* that it leads to.  Memory from the pool holds what it held before.  The *)
(* driver does not turn EPT on, so no translation takes place.             *)
(***************************************************************************)
EXTENDS Integers, FiniteSets

CONSTANTS
    N,          \* entries of a table (512)
    EntrySize   \* bytes of an entry (8)

ASSUME SizesAssumption == N \in Nat /\ EntrySize \in Nat \ {0} /\ N % EntrySize = 0 /\ N > 0

Slots == 0 .. N - 1

VARIABLES
    statement,      \* the statement that comes next
    round,          \* the loop variable
    pml4, pdpt, pd  \* the tables; pd[r]: the page directory number r

eptVars == <<statement, round, pml4, pdpt, pd>>

\* The pages that entries name: r is the page of pd[r].
NoPage   == -1
Elsewhere == -2
PdptPage  == -3
Pages == {NoPage, Elsewhere, PdptPage} \cup Slots

Zero     == [rights |-> FALSE, page |-> NoPage]
Leftover == [rights |-> TRUE, page |-> Elsewhere]
To(page) == [rights |-> TRUE, page |-> page]
Entries  == [rights : BOOLEAN, page : Pages]

\* The pool's memory: in the first two tables any entry may look present, the
\* directories look all alike.
EptInit ==
    /\ statement = "zero pml4"
    /\ round = 0
    /\ \E s \in SUBSET Slots : pml4 = [k \in Slots |-> IF k \in s THEN Leftover ELSE Zero]
    /\ \E s \in SUBSET Slots : pdpt = [k \in Slots |-> IF k \in s THEN Leftover ELSE Zero]
    /\ \E e \in {Zero, Leftover} : pd = [k \in Slots |-> [l \in Slots |-> e]]

\* RtlZeroMemory(table, bytes) of a table.
Zeroed(table, bytes) ==
    [k \in DOMAIN table |-> IF (k + 1) * EntrySize <= bytes THEN Zero ELSE table[k]]

Follows(from, to) == statement = from /\ statement' = to /\ UNCHANGED round

\* The count of entries instead of the bytes.
BadBytesOfPml4 == N
BytesOfPml4    == N * EntrySize

ZeroPml4 ==
    /\ Follows("zero pml4", "zero pdpt")
    /\ pml4' = Zeroed(pml4, BytesOfPml4)
    /\ UNCHANGED <<pdpt, pd>>

\* A count that leaves all of the table as it was.
BadBytesOfPdpt == EntrySize - 1

\* RtlZeroMemory(pdpte_entries, kPdptEntryCount)
BytesOfPdpt == N

ZeroPdpt ==
    /\ Follows("zero pdpt", "zero pd")
    /\ pdpt' = Zeroed(pdpt, BytesOfPdpt)
    /\ UNCHANGED <<pml4, pd>>

\* RtlZeroMemory(pde_entries, kPageDirectoryEntryCount * kPdptEntryCount), the
\* directories one after another.
ZeroPd ==
    /\ Follows("zero pd", "pml4")
    /\ pd' = [k \in Slots |-> Zeroed(pd[k], N * N - k * N * EntrySize)]
    /\ UNCHANGED <<pml4, pdpt>>

WritePml4 ==
    /\ Follows("pml4", "pdpt loop")
    /\ pml4' = [pml4 EXCEPT ![0] = To(PdptPage)]
    /\ UNCHANGED <<pdpt, pd>>

\* auto temp = table[k]; temp = e;  The entry that is set is a copy.
Stored(table, k, e) == table

\* One round of a loop that sets the entries of level, and the end of the loop.
Loop(from, to) ==
    /\ statement = from
    /\ IF round + 1 < N
       THEN round' = round + 1 /\ UNCHANGED statement
       ELSE round' = 0 /\ statement' = to

PdptLoop ==
    /\ Loop("pdpt loop", "pd loop")
    /\ pdpt' = Stored(pdpt, round, To(round))
    /\ UNCHANGED <<pml4, pd>>

\* The inner loop over the entries of directory round, each of which gets the
\* address of the directory itself.
PdLoop ==
    /\ Loop("pd loop", "done")
    /\ pd' = [pd EXCEPT ![round] = [k \in Slots |-> Stored(pd[round], k, To(round))[k]]]
    /\ UNCHANGED <<pml4, pdpt>>

EptNext == ZeroPml4 \/ ZeroPdpt \/ ZeroPd \/ WritePml4 \/ PdptLoop \/ PdLoop

EptSpec == EptInit /\ [][EptNext]_eptVars

-----------------------------------------------------------------------------
(* The processor's walk of the tables with a walk length of 4.  A directory  *)
(* that an entry of a directory names is used as the last table.             *)

Addresses == [l4 : Slots, l3 : Slots, l2 : Slots, l1 : Slots]

Fault     == <<"fault">>
ByChance  == <<"leftover">>
Page(p)   == <<"page", p>>

\* The walk at the entry e, and from the page that it names on.
Through(e, onwards) ==
    IF ~e.rights THEN Fault ELSE IF e.page = Elsewhere THEN ByChance ELSE onwards

Translate(a) ==
    LET ptr   == pdpt[a.l3]
        dir   == pd[ptr.page][a.l2]
        last  == pd[dir.page][a.l1]
    IN  Through(pml4[a.l4], Through(ptr, Through(dir, Through(last, Page(last.page)))))

-----------------------------------------------------------------------------
(* Properties *)

EptTypeOK ==
    /\ pml4 \in [Slots -> Entries] /\ pdpt \in [Slots -> Entries]
    /\ pd \in [Slots -> [Slots -> Entries]]
    /\ round \in Slots

\* The top table is clean: no address beyond the first of its entries leads
\* anywhere, whatever the pool's memory held.
OnlyLowReached ==
    statement = "done" =>
        \A a \in Addresses : a.l4 # 0 => Translate(a) = Fault

\* What the pool left in the tables takes part in a translation beyond the first
\* eighth of the pointer table, which the short RtlZeroMemory clears, only; and
\* that eighth, whose entries were set in copies, translates nothing.
LeftoversBehindFirstEighth ==
    statement = "done" =>
        \A a \in Addresses : a.l3 < N \div EntrySize => Translate(a) = Fault

\* The two counts of entries given to RtlZeroMemory as bytes leave the pool's
\* memory in the tables, but none of it where a translation begins: nothing is
\* translated beyond the first entry of the top table, nor in the first eighth of
\* the next.
LeftoversContained == OnlyLowReached /\ LeftoversBehindFirstEighth

\* What the tables were meant for: each guest-physical page is mapped to itself.
Identity == \A a \in Addresses : Translate(a) = <<"page", a.l4, a.l3, a.l2, a.l1>>
=============================================================================
