---------------------------- MODULE MCEntryEdit -----------------------------
(***************************************************************************)
(* Instances of EntryEdit for TLC.  Of the 64 bits of a word, the calls    *)
(* and the mappings use the ends of every field.                           *)
(***************************************************************************)
EXTENDS EntryEdit, TLC

CONSTANTS t1, t2

SetPfn(p) == [op |-> "set_pfn", arg |-> p]
SetBit(b) == [op |-> "set_bit", arg |-> {b}]
ClearBit(b) == [op |-> "clear_bit", arg |-> {b}]
ApplyMt(m) == [op |-> "apply_mt", arg |-> m]

NX == IF Machine = "x86" THEN 63 ELSE 54
ACCESSED == IF Machine = "x86" THEN 5 ELSE 10

\* Present, not executable, the second page frame, write back.
Kernel1 == {0, NX, 13}
\* Present, executable, the last page frame of the field, another type.
Kernel2 == {0, 1, 11 + PfnWidth, MtBit[1], MtBit[2]}

MCMappings == {Kernel1, Kernel2}

LastPfn == PfnWidth - 1

\* Nothing edits the bit that forbids execution.
MCCalls == {SetPfn({0}), SetPfn({1, LastPfn}), SetBit(ACCESSED),
            ClearBit(ACCESSED), ApplyMt({0, 1, 2})}

\* What a page that was freed may hold where the entry was.
MCStray == {{1, 20, NX}}

MCHwBits == {ACCESSED}

Symmetric == Permutations({t1, t2})
=============================================================================
