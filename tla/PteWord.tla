------------------------------ MODULE PteWord -------------------------------
(***************************************************************************)
(* Page-table entries as 64-bit words, and the functions of ptedit.c that  *)
(* take them apart: the page-frame number and the memory type.             *)
(*                                                                         *)
(* A word is the set of its bits, so that | is union, & ~mask is set       *)
(* difference and a shift moves the bits, dropping those that leave the    *)
(* word.  Page-frame numbers and memory types are words as well.           *)
(***************************************************************************)
EXTENDS Integers

CONSTANT Machine      \* "x86" or "aarch64"

ASSUME MachineAssumption == Machine \in {"x86", "aarch64"}

Bit == 0..63

Word == SUBSET Bit

Shl(w, n) == {b \in Bit : b - n \in w}

Shr(w, n) == {b \in Bit : b + n \in w}

-----------------------------------------------------------------------------
(* The page-frame number.                                                  *)

\* The widths of the masks: (1ull << 40) - 1 and (1ull << 36) - 1.
PfnWidth == IF Machine = "x86" THEN 40 ELSE 36

PfnField == 12..(11 + PfnWidth)

\* The page-frame numbers that fit into an entry.
Pfn == SUBSET (0..(PfnWidth - 1))

\* Mutant of ptedit_set_pfn: the old number is not cleared.
ptedit_set_pfnUnmasked(pte, pfn) == pte \cup Shl(pfn, 12)

\* Nothing keeps a pfn that does not fit from reaching the bits above.
ptedit_set_pfn(pte, pfn) == (pte \ PfnField) \cup Shl(pfn, 12)

ptedit_get_pfn(pte) == Shr(pte \cap PfnField, 12)

\* ptedit_cast(pte, ptedit_pte_t).pfn: a bit field of 28 or 36 bits.
CastPfn(pte) == Shr(pte \cap (12..(IF Machine = "x86" THEN 39 ELSE 47)), 12)

-----------------------------------------------------------------------------
(* The memory type: an index of three bits into the PAT or the MAIR, at    *)
(* these places of the entry; the third is another one in large pages.     *)

MtBit == IF Machine = "x86" THEN <<3, 4, 7>> ELSE <<2, 3, 4>>

MtBitHuge == IF Machine = "x86" THEN <<3, 4, 12>> ELSE <<2, 3, 4>>

MtField == {MtBit[1], MtBit[2], MtBit[3]}

Mt == SUBSET (0..2)

Place(entry, mt, at) ==
  (entry \ {at[1], at[2], at[3]}) \cup {at[i + 1] : i \in mt \cap (0..2)}

Extract(entry, at) == {i \in 0..2 : at[i + 1] \in entry}

ptedit_apply_mt(entry, mt) == Place(entry, mt, MtBit)

ptedit_apply_mt_huge(entry, mt) == Place(entry, mt, MtBitHuge)

ptedit_extract_mt(entry) == Extract(entry, MtBit)

ptedit_extract_mt_huge(entry) == Extract(entry, MtBitHuge)
=============================================================================
