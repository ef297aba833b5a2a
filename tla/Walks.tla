------------------------------- MODULE Walks -------------------------------
(***************************************************************************)
(* What the demos that only look at page tables make of them:              *)
(* performance.c compares the library's resolvers, virt2phys.c computes a  *)
(* physical address, memmap.c lists everything that is mapped (x86, four   *)
(* levels).                                                                *)
(***************************************************************************)
EXTENDS PageTables, Sequences

\* ptedit_cast(entry, ...).pfn: the frame of an entry, of whose number the
\* structures of ptedit.h hold 28 bits.  A frame above 1 TB is mistaken for
\* another one.
CONSTANT cast

ASSUME CastAssumption ==
  /\ cast \in [Frame \cup {NoFrame} -> Frame \cup {NoFrame}]
  /\ \A f \in Frame : cast[f] \in Frame
  /\ cast[NoFrame] = NoFrame

IsPresent(e) == e.kind \in {"table", "leaf"}

\* The entries of the valid levels, as VM_RESOLVE gives them to the program.
EntriesKernel(mem, root, a) ==
  LET slot == resolve_vm(mem, root, a)
  IN [l \in DOMAIN slot |-> Read(mem, slot[l])]

\* Where ptedit_resolve_user_ext looks for the entries: as Slots, but each table
\* is the one that the cast of the entry above names.
UserSlots(mem, root, a) ==
  LET below(s, l) == <<cast[Read(mem, s).to], index[a][l]>>
      pgd == <<root, index[a][PGD]>>
      pud == below(pgd, PUD)
      pmd == below(pud, PMD)
  IN <<pgd, pgd, pud, pmd, below(pmd, PTE)>>

\* The same from ptedit_resolve_user_ext, undisturbed (UserEdit has its steps).
EntriesUser(mem, root, a) ==
  LET slot == UserSlots(mem, root, a)
      e(l) == Read(mem, slot[l])
      pud == IsPresent(e(PGD))
      pmd == pud /\ IsPresent(e(PUD))
      pte == pmd /\ IsPresent(e(PMD)) /\ e(PMD).kind # "leaf"
      valid == <<pud, FALSE, pud, pmd, pte>>
  IN [l \in {k \in Level : valid[k]} |-> e(l)]

\* All tables of the address are in frames that the cast keeps.
InReach(mem, root, a) ==
  \A l \in {PGD, PUD, PMD} :
    LET e == Read(mem, Slots(mem, root, a)[l])
    IN e.kind = "table" => cast[e.to] = e.to

\* is_same of performance.c, for all bits: its int keeps half of a difference.
is_same(e1, e2) == \A l \in DOMAIN e1 \cap DOMAIN e2 : e1[l] = e2[l]

\* virt2phys.c; a level that is not valid is zero, which is a normal page.
virt2phys(e) ==
  IF PMD \in DOMAIN e /\ e[PMD].kind = "leaf"
  THEN <<e[PMD].to, PMD>>
  ELSE <<IF PTE \in DOMAIN e THEN e[PTE].to ELSE NoFrame, PTE>>

\* The loops of memmap.c over the page directories: the entries present.
Directories(mem, root) ==
  {x \in Index \X Index \X Index :
     LET pml4 == mem[root][x[1]]
         pdpt == mem[pml4.to][x[2]]
     IN IsPresent(pml4) /\ IsPresent(pdpt) /\ IsPresent(mem[pdpt.to][x[3]])}

DirectoryEntry(mem, root, x) == mem[mem[mem[root][x[1]].to][x[2]].to][x[3]]

\* Mutant of memmap: is_normal_page is not asked.
memmapSmall(mem, root) ==
  {Append(y[1], y[2]) : y \in
     {z \in Directories(mem, root) \X Index :
        IsPresent(mem[DirectoryEntry(mem, root, z[1]).to][z[2]])}}

\* The addresses that memmap.c prints, as their indices: four for a page of 4 KB,
\* three for one of 2 MB.
memmap(mem, root) ==
  LET pd(x) == DirectoryEntry(mem, root, x)
      large == {x \in Directories(mem, root) : pd(x).kind = "leaf"}
  IN large \cup
     {Append(y[1], y[2]) : y \in
        {z \in (Directories(mem, root) \ large) \X Index :
           IsPresent(mem[pd(z[1]).to][z[2]])}}
=============================================================================
