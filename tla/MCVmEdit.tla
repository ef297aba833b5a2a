------------------------------ MODULE MCVmEdit ------------------------------
(***************************************************************************)
(* Instances of VmEdit for TLC.  Every mm has one table per level; the two *)
(* pages are neighbours in the same page table, and share every upper-level *)
(* entry, or the second one has no page table at first.                    *)
(***************************************************************************)
EXTENDS VmEdit, TLC

CONSTANTS t1, t2, p1, p2, m1, m2, m3, a1, a2, page1, page2, spare, c1, c2

Frames(m) == {<<m, l>> : l \in Level}

\* Frames: the tables of every mm, two pages, one spare page table.
MCFrame(ms) == UNION {Frames(m) : m \in ms} \cup {page1, page2, spare}

MCindex == [a \in Addr |-> [l \in Level |-> IF l = PTE /\ a = a2 THEN 1 ELSE 0]]

\* The two pages belong to different page tables, and the second is missing.
FarIndex == [a \in Addr |-> [l \in Level |-> IF l = PMD /\ a = a2 THEN 1 ELSE 0]]

MCpage == [a \in Addr |-> IF a = a1 THEN page1 ELSE page2]

MCpgd(ms) == [m \in ms |-> <<m, PGD>>]

\* The table of each level points to the one of the next, past a folded P4D.
MCMem(ms, folded) ==
  [f \in MCFrame(ms) |-> [i \in {0, 1} |->
     IF f \notin UNION {Frames(m) : m \in ms} THEN None
     ELSE IF f[2] = PTE THEN Leaf(IF i = 0 THEN page1 ELSE page2)
     ELSE IF i = 1 THEN None
     ELSE Table(<<f[1], IF folded /\ f[2] = PGD THEN PUD ELSE f[2] + 1>>)]]

\* Two threads of one process.
OneMm == {m1}
OneFrame == MCFrame(OneMm)
OneCurrent == (t1 :> p1) @@ (t2 :> p1)
OnePgd == MCpgd(OneMm)
OneMem == MCMem(OneMm, P4dFolded)
OneMmOf == p1 :> m1

\* Two processes: the second is only looked at.
TwoMm == {m1, m2, m3}
TwoFrame == MCFrame(TwoMm)
TwoCurrent == t1 :> p1
TwoPgd == MCpgd(TwoMm)
TwoMem == MCMem(TwoMm, P4dFolded)
TwoMmOf == (p1 :> m1) @@ (p2 :> m2)

\* The second process was made by vfork: it has the mm of the first until it
\* execs or exits.
SharedMmOf == (p1 :> m1) @@ (p2 :> m1)

PteRequests == {PTE :> Leaf(page2)}

PmdRequests == {(PMD :> Leaf(page2)) @@ (PTE :> Absent(page2))}

EditRequests == PteRequests \cup PmdRequests

\* The two threads do not differ in anything, nor do the two CPUs.
Symmetric == Permutations({t1, t2}) \cup Permutations({c1, c2})

\* What the theorems about VM_UPDATE assume.
MClevel == [f \in Frame |-> IF f \in UNION {Frames(m) : m \in Mm} THEN f[2] ELSE PTE]

ASSUME MCOrderly == Orderly(MClevel) /\ RootsFilled(InitMem)
=============================================================================
