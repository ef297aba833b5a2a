----------------------------- MODULE PageTables -----------------------------
(***************************************************************************)
(* Page tables as memory: frames of entries that point to frames, and two  *)
(* walks over them: resolve_vm of the kernel module, and the walk of the   *)
(* hardware.                                                               *)
(*                                                                         *)
(* An entry is abstracted to what the walks tell apart: zero, not present  *)
(* but not zero, a pointer to a table, or a leaf (the size bit of the      *)
(* upper levels, any present entry of the lowest).                         *)
(***************************************************************************)
EXTENDS Naturals

CONSTANTS Frame,      \* page frames
          NoFrame,    \* the frame of an entry that is zero
          Addr,       \* virtual pages
          Index,      \* indices into a table
          index,      \* index[a][l]: the index of address a at level l
          P4dFolded   \* paging with four levels: the P4D is the PGD

\* The levels, in the order of the bits PTEDIT_VALID_MASK_*.
PGD == 1
P4D == 2
PUD == 3
PMD == 4
PTE == 5

Level == PGD..PTE

None == [kind |-> "none", to |-> NoFrame]

Entry == {None} \cup [kind : {"absent", "table", "leaf"}, to : Frame]

Table(f) == [kind |-> "table", to |-> f]

Leaf(f) == [kind |-> "leaf", to |-> f]

Absent(f) == [kind |-> "absent", to |-> f]

ASSUME PagingAssumption ==
  /\ index \in [Addr -> [Level -> Index]]
  /\ P4dFolded \in BOOLEAN
  /\ NoFrame \notin Frame
  /\ Addr # {}

Memory == [Frame -> [Index -> Entry]]

\* f gives some of the levels an element of S.
IsPartial(f, S) == DOMAIN f \subseteq Level /\ f \in [DOMAIN f -> S]

\* A slot is the place of one entry: what the pointers of vm_t point to.
Slot == Frame \X Index

\* NoFrame has no contents: an entry read from there is zero.
Read(mem, s) == IF s[1] = NoFrame THEN None ELSE mem[s[1]][s[2]]

Write(mem, s, e) == [mem EXCEPT ![s[1]][s[2]] = e]

-----------------------------------------------------------------------------
(* The slots of an address, each found through the entry above it.         *)

Slots(mem, root, a) ==
  LET pgd == <<root, index[a][PGD]>>
      p4d == IF P4dFolded THEN pgd ELSE <<Read(mem, pgd).to, index[a][P4D]>>
      pud == <<Read(mem, p4d).to, index[a][PUD]>>
      pmd == <<Read(mem, pud).to, index[a][PMD]>>
      pte == <<Read(mem, pmd).to, index[a][PTE]>>
  IN <<pgd, p4d, pud, pmd, pte>>

\* Mutant of resolve_vm: pmd_none is not asked.
resolve_vmNoPmdCheck(mem, root, a) ==
  LET slot == Slots(mem, root, a)
      kind(l) == Read(mem, slot[l]).kind
      valid(l) == /\ P4dFolded \/ kind(PGD) = "table"
                  /\ l >= P4D => kind(P4D) = "table"
                  /\ l >= PUD => kind(PUD) # "none"
                  /\ l >= PMD => kind(PUD) # "leaf"
                  /\ l >= PTE => kind(PMD) # "leaf"
  IN [l \in {k \in Level : valid(k)} |-> slot[l]]

(***************************************************************************)
(* resolve_vm: the walk of the kernel module, as the function from the     *)
(* levels it reports as valid to their slots (a level is valid iff its     *)
(* pointer in vm_t is set).  pgd_none and pgd_bad are constantly false when *)
(* the P4D is folded.  The PUD and the PMD are only tested for zero, and   *)
(* the PTE not at all; the PMD is read before pud_leaf is asked.           *)
(***************************************************************************)
resolve_vm(mem, root, a) ==
  LET slot == Slots(mem, root, a)
      kind(l) == Read(mem, slot[l]).kind
      valid(l) == /\ P4dFolded \/ kind(PGD) = "table"
                  /\ l >= P4D => kind(P4D) = "table"
                  /\ l >= PUD => kind(PUD) # "none"
                  /\ l >= PMD => kind(PMD) # "none" /\ kind(PUD) # "leaf"
                  /\ l >= PTE => kind(PMD) # "leaf"
  IN [l \in {k \in Level : valid(k)} |-> slot[l]]

(***************************************************************************)
(* The hardware (external): where it ends up, or a page fault.  A leaf     *)
(* above the lowest level maps a large page; the part of it that an        *)
(* address falls into is told by the level.                                *)
(***************************************************************************)
Fault == <<NoFrame, PTE>>

Target(e, l) == IF e.kind = "leaf" THEN <<e.to, l>> ELSE Fault

Translate(mem, root, a) ==
  LET slot == Slots(mem, root, a)
      e(l) == Read(mem, slot[l])
  IN IF e(PGD).kind # "table" \/ e(P4D).kind # "table" THEN Fault
     ELSE IF e(PUD).kind # "table" THEN Target(e(PUD), PUD)
     ELSE IF e(PMD).kind # "table" THEN Target(e(PMD), PMD)
     ELSE Target(e(PTE), PTE)

-----------------------------------------------------------------------------
(* Orderly page tables: level[f] is the level of the table in the frame f. *)

LevelBelow(l) == IF P4dFolded /\ l = PGD THEN PUD ELSE l + 1

\* The level of the table that holds the entry of level l.
TableLevel(l) == IF P4dFolded /\ l = P4D THEN PGD ELSE l

\* A walk goes on at what the entry e leads to.
LeadsOn(e) == e.kind \in {"table", "absent"}

\* Entries above the lowest level lead one level down.
Leveled(memory, level) ==
  \A f \in Frame, i \in Index :
    level[f] # PTE /\ LeadsOn(memory[f][i]) =>
      level[memory[f][i].to] = LevelBelow(level[f])

=============================================================================
