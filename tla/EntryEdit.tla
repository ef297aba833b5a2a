----------------------------- MODULE EntryEdit ------------------------------
(***************************************************************************)
(* The functions of ptedit.c that edit the page-table entry of an address: *)
(* ptedit_pte_set_bit, ptedit_pte_clear_bit, ptedit_pte_set_pfn, and a     *)
(* program that does the same with ptedit_apply_mt.  Each of them resolves *)
(* the address, changes its copy of the entry and updates the entry; what  *)
(* other threads, the CPUs and the kernel do to the entry in between is    *)
(* overwritten.                                                            *)
(*                                                                         *)
(* VM_RESOLVE finds the entry under the read lock and copies it after it   *)
(* has released the lock; neither it nor VM_UPDATE asks whether the entry  *)
(* is empty.  So a call may copy, and write, what is no mapping at all:    *)
(* the variables given, mark and marks keep track of that, and no action   *)
(* of a thread reads given or mark but to hand mark on.                    *)
(***************************************************************************)
EXTENDS PteWord

CONSTANTS Task,      \* threads that edit the entry
          Calls,     \* the calls they make: records [op, arg]
          Mappings,  \* the entries the kernel may write for the page
          HwBits,    \* the bits a CPU may set: accessed, dirty
          Kernel,    \* what the kernel does: "map", "clear", "free"
          Stray      \* words that a page may hold which was a page table

Op == {"set_bit", "clear_bit", "set_pfn", "apply_mt", "apply_mt_huge"}

\* The callers give page-frame numbers and memory types that fit.
ASSUME EntryEditAssumption ==
  /\ Calls \subseteq [op : Op, arg : Word]
  /\ Mappings \subseteq Word
  /\ HwBits \subseteq Bit
  /\ Stray \subseteq Word
  /\ \A c \in Calls : c.op = "set_pfn" => c.arg \in Pfn
  /\ \A c \in Calls : c.op \in {"apply_mt", "apply_mt_huge"} => c.arg \in Mt

VARIABLES table,   \* there is a page table: VM_RESOLVE finds a PTE
          pte,     \* the entry
          pc,
          call,    \* call[t]: the call in progress
          vm,      \* vm[t]: the copy of the entry
          given,   \* what the kernel wrote last
          mark,    \* where the entry comes from
          marks    \* marks[t]: where the copy of t comes from

vars == <<table, pte, pc, call, vm, given, mark, marks>>

NoCall == [op |-> "none", arg |-> {}]

\* What has become of the kernel's last write: "fresh", the word descends from
\* it; "late", from an earlier one; "stray", from a page that was freed.
Mark == {"fresh", "late", "stray"}

\* Between the walk and the copy there is a page table, or it has been freed.
TypeOK ==
  /\ table \in BOOLEAN
  /\ pte \in Word /\ given \in Word /\ mark \in Mark
  /\ pc \in [Task -> {"user", "copy", "update"}]
  /\ call \in [Task -> Calls \cup {NoCall}]
  /\ vm \in [Task -> Word]
  /\ marks \in [Task -> Mark]
  /\ \A t \in Task : pc[t] # "user" => call[t] \in Calls
  /\ \A t \in Task : pc[t] = "copy" => table \/ marks[t] = "stray"

Init ==
  /\ table = TRUE
  /\ pte \in Mappings
  /\ given = pte
  /\ mark = "fresh"
  /\ pc = [t \in Task |-> "user"]
  /\ call = [t \in Task |-> NoCall]
  /\ vm = [t \in Task |-> {}]
  /\ marks = [t \in Task |-> "fresh"]

\* Mutant of Edited: a bit is assigned, the others are gone.
EditedAssigned(c, w) ==
  CASE c.op = "set_bit"       -> c.arg
    [] c.op = "clear_bit"     -> w \ c.arg
    [] c.op = "set_pfn"       -> ptedit_set_pfn(w, c.arg)
    [] c.op = "apply_mt"      -> ptedit_apply_mt(w, c.arg)
    [] c.op = "apply_mt_huge" -> ptedit_apply_mt_huge(w, c.arg)

\* What a call does to its copy of the entry.
Edited(c, w) ==
  CASE c.op = "set_bit"       -> w \cup c.arg
    [] c.op = "clear_bit"     -> w \ c.arg
    [] c.op = "set_pfn"       -> ptedit_set_pfn(w, c.arg)
    [] c.op = "apply_mt"      -> ptedit_apply_mt(w, c.arg)
    [] c.op = "apply_mt_huge" -> ptedit_apply_mt_huge(w, c.arg)

\* Mutant of Resolve: the valid bit is not looked at.
ResolveUnchecked(t, c) ==
  /\ pc[t] = "user"
  /\ pc' = [pc EXCEPT ![t] = "copy"]
  /\ call' = [call EXCEPT ![t] = c]
  /\ UNCHANGED <<table, pte, vm, given, mark, marks>>

\* ptedit_entry_t vm = ptedit_resolve(address, pid);
\* if (!(vm.valid & PTEDIT_VALID_MASK_PTE)) return;
\* The walk of resolve_vm, up to the unlock: there is an entry if there is a
\* page table, empty or not.
Resolve(t, c) ==
  /\ pc[t] = "user"
  /\ table
  /\ pc' = [pc EXCEPT ![t] = "copy"]
  /\ call' = [call EXCEPT ![t] = c]
  /\ UNCHANGED <<table, pte, vm, given, mark, marks>>

\* vm_to_user, after the unlock: the entry as it is now, or whatever is in the
\* page that was its table.
Copy(t) ==
  /\ pc[t] = "copy"
  /\ pc' = [pc EXCEPT ![t] = "update"]
  /\ \/ /\ marks[t] # "stray"
        /\ vm' = [vm EXCEPT ![t] = pte]
        /\ marks' = [marks EXCEPT ![t] = mark]
     \/ /\ marks[t] = "stray"
        /\ \E w \in Stray : vm' = [vm EXCEPT ![t] = w]
        /\ UNCHANGED marks
  /\ UNCHANGED <<table, pte, call, given, mark>>

\* vm.pte = ...; vm.valid = PTEDIT_VALID_MASK_PTE; ptedit_update(address, pid,
\* &vm): update_vm writes the entry if its own walk finds one.
Update(t) ==
  /\ pc[t] = "update"
  /\ pte' = IF table THEN Edited(call[t], vm[t]) ELSE pte
  /\ mark' = IF table THEN marks[t] ELSE mark
  /\ pc' = [pc EXCEPT ![t] = "user"]
  /\ call' = [call EXCEPT ![t] = NoCall]
  /\ vm' = [vm EXCEPT ![t] = {}]
  /\ marks' = [marks EXCEPT ![t] = "fresh"]
  /\ UNCHANGED <<table, given>>

\* A CPU uses the page and sets the accessed or the dirty bit (external).
Access(b) ==
  /\ table
  /\ 0 \in pte
  /\ pte' = pte \cup {b}
  /\ UNCHANGED <<table, pc, call, vm, given, mark, marks>>

\* The kernel writes the entry (external): what was copied before comes late.
Write(m) ==
  /\ pte' = m
  /\ given' = m
  /\ mark' = "fresh"
  /\ UNCHANGED <<pc, call, vm>>

OutOfDate(t) == IF pc[t] = "update" /\ marks[t] = "fresh" THEN "late" ELSE marks[t]

\* A fault fills an empty entry, with a new page table if there is none
\* (external).
Map(m) ==
  /\ "map" \in Kernel
  /\ pte = {}
  /\ table' = TRUE
  /\ Write(m)
  /\ marks' = [t \in Task |-> OutOfDate(t)]

\* munmap, or the page is taken away: the entry is cleared, its table stays
\* (external).
Clear ==
  /\ "clear" \in Kernel
  /\ table
  /\ pte # {}
  /\ Write({})
  /\ marks' = [t \in Task |-> OutOfDate(t)]
  /\ UNCHANGED table

\* munmap of all that the page table maps: the table is freed (external).
FreeTable ==
  /\ "free" \in Kernel
  /\ table
  /\ table' = FALSE
  /\ Write({})
  /\ marks' = [t \in Task |-> IF pc[t] = "copy" THEN "stray" ELSE OutOfDate(t)]

Next ==
  \/ \E t \in Task : (\E c \in Calls : Resolve(t, c)) \/ Copy(t) \/ Update(t)
  \/ \E b \in HwBits : Access(b)
  \/ \E m \in Mappings : Map(m)
  \/ Clear
  \/ FreeTable

Spec == Init /\ [][Next]_vars

-----------------------------------------------------------------------------
(* Properties.                                                             *)

\* ptedit_pte_get_pfn: 0 without a PTE.
ptedit_pte_get_pfn == IF table THEN ptedit_get_pfn(pte) ELSE {}

Args(op) == {c.arg : c \in {d \in Calls : d.op = op}}

\* What the kernel writes: a mapping, or zero to take it away.
KernelWords == Mappings \cup {{}}

\* However the calls of the threads overlap with each other and with the
\* kernel, the fields of the entry are never a mixture: the page-frame number
\* is one that a caller or the kernel has given, or the 0 of an entry that was
\* empty when it was resolved, and so is the memory type.  Only a copy that was
\* taken from a freed page table brings in anything else.
FieldsWhole ==
  table /\ mark # "stray" =>
    /\ ptedit_pte_get_pfn \in
         Args("set_pfn") \cup {ptedit_get_pfn(m) : m \in KernelWords}
    /\ ptedit_extract_mt(pte) \in
         Args("apply_mt") \cup {ptedit_extract_mt(m) : m \in KernelWords}

\* The calls that set and clear bits, and the CPUs, leave the page-frame number
\* and the memory type alone, and the page is a small one.
FieldsSeparate ==
  /\ HwBits \cap (PfnField \cup MtField) = {}
  /\ \A c \in Calls :
       /\ c.op # "apply_mt_huge"
       /\ c.op \in {"set_bit", "clear_bit"} =>
            c.arg \cap (PfnField \cup MtField) = {}

\* The bits that a call may change.
Edits(c) ==
  CASE c.op = "set_pfn"       -> PfnField
    [] c.op = "apply_mt"      -> MtField
    [] c.op = "apply_mt_huge" -> {MtBitHuge[1], MtBitHuge[2], MtBitHuge[3]}
    [] OTHER                  -> c.arg

Foreign == {b \in Bit : b \notin HwBits /\ \A c \in Calls : b \notin Edits(c)}

\* Bits that no call and no CPU changes are as the kernel wrote them last,
\* however many calls of other threads came before and between.  The exception
\* is an update whose copy is older than that write: it brings back all the
\* bits of what the kernel had written before, an unmapped page included, but
\* never bits of two mappings.
ForeignBitsKept ==
  /\ mark = "fresh" => pte \cap Foreign = given \cap Foreign
  /\ mark = "late" => \E m \in KernelWords : pte \cap Foreign = m \cap Foreign
  /\ ~table => pte = {}

\* A single thread whose entry nobody else touches but to free its table sees
\* the functions as the atomic edits they are described as ("Sets a bit
\* directly in the PTE of an address").
Atomic == INSTANCE AtomicEntry WITH mapped <- table, Zero <- {}

ImplementsAtomicEntry == Atomic!Spec
=============================================================================
