---------------------------- MODULE AtomicEntry -----------------------------
(***************************************************************************)
(* What the functions ptedit_pte_* promise: every call edits the entry     *)
(* "directly", that is, at once and without disturbing the rest of it.     *)
(***************************************************************************)
CONSTANTS Calls,       \* the calls that are made
          Edited(_, _), \* Edited(c, w): the word w after call c
          Mappings,    \* the entries that the kernel writes
          HwBits,      \* the bits that a CPU sets by itself
          Zero         \* no entry

VARIABLES mapped, pte

Init == mapped \in BOOLEAN /\ pte \in Mappings \cup {Zero}

Edit(c) ==
  /\ mapped
  /\ pte' = Edited(c, pte)
  /\ UNCHANGED mapped

Access(b) ==
  /\ mapped
  /\ pte' = pte \cup {b}
  /\ UNCHANGED mapped

Map(m) ==
  /\ pte = Zero
  /\ mapped' = TRUE
  /\ pte' = m

\* The entry is taken away, or the page table as well.
Unmap ==
  /\ mapped
  /\ mapped' \in BOOLEAN
  /\ pte' = Zero

Next ==
  \/ \E c \in Calls : Edit(c)
  \/ \E b \in HwBits : Access(b)
  \/ \E m \in Mappings : Map(m)
  \/ Unmap

Spec == Init /\ [][Next]_<<mapped, pte>>
=============================================================================
