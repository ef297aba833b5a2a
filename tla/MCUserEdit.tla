----------------------------- MODULE MCUserEdit -----------------------------
(***************************************************************************)
(* An instance of UserEdit for TLC: two pages of different page tables, of *)
(* which the second is missing at first, and may come to lie above 1 TB,   *)
(* where the library mistakes it for the first.                            *)
(***************************************************************************)
EXTENDS UserEdit, TLC

CONSTANTS t1, t2, a1, a2, pgdTable, pudTable, pmdTable, pteTable, spare, high, page1, page2

MCFrame == {pgdTable, pudTable, pmdTable, pteTable, spare, high, page1, page2}

MCindex == [a \in Addr |-> [l \in Level |-> IF l = PMD /\ a = a2 THEN 1 ELSE 0]]

MCcast == [f \in MCFrame \cup {NoFrame} |-> IF f = high THEN pteTable ELSE f]

MCpage == (a1 :> page1) @@ (a2 :> page2)

MCMem ==
  [f \in MCFrame |-> [i \in {0, 1} |->
     CASE f = pgdTable /\ i = 0 -> Table(pudTable)
       [] f = pudTable /\ i = 0  -> Table(pmdTable)
       [] f = pmdTable /\ i = 0  -> Table(pteTable)
       [] f = pteTable /\ i = 0   -> Leaf(page1)
       [] OTHER             -> None]]

\* The first page is made part of a large page and put back into its page table;
\* the second is unmapped, and faulted in again.
MCRequests ==
  (a1 :> {PMD :> Table(pteTable), (PMD :> Leaf(page2)) @@ (PTE :> Absent(page2))})
  @@ (a2 :> {PTE :> None})

\* The instance is one that the theorems about private page tables speak of.
MClevel == [f \in MCFrame |-> CASE f = pgdTable -> PGD
                                [] f = pudTable -> PUD
                                [] f = pmdTable -> PMD
                                [] OTHER -> PTE]

ASSUME MCPrivate == Private(MClevel, [f \in MCFrame |-> <<pmdTable, 0>>])
=============================================================================
