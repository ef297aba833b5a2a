-------------------------- MODULE EntryEditProofs ---------------------------
(***************************************************************************)
(* Proofs about the functions of PteWord and about EntryEdit.  For every   *)
(* word, on both machines, the page-frame number and the memory type are   *)
(* read back as they were stored and do not disturb each other; so         *)
(* overlapping calls of any number of threads never mix the fields of an   *)
(* entry, and those of a single thread are atomic.                         *)
(***************************************************************************)
EXTENDS EntryEdit, TLAPS

-----------------------------------------------------------------------------
(* The functions on words.                                                 *)

\* Both machines: where the fields are.
LEMMA Layout ==
  /\ PfnWidth \in {36, 40}
  /\ \/ Machine = "x86" /\ MtBit = <<3, 4, 7>> /\ MtBitHuge = <<3, 4, 12>>
     \/ Machine = "aarch64" /\ MtBit = <<2, 3, 4>> /\ MtBitHuge = <<2, 3, 4>>
BY MachineAssumption DEF PfnWidth, MtBit, MtBitHuge

\* Shifting a number that fits by 12 puts it exactly into the field.
LEMMA ShlInField ==
  ASSUME NEW p \in Pfn
  PROVE  /\ Shl(p, 12) \subseteq PfnField
         /\ Shl(p, 12) \subseteq Bit
BY Layout DEF Pfn, Shl, PfnField, Bit

\* ptedit_get_pfn returns what ptedit_set_pfn has stored.
THEOREM PfnRoundTrip ==
  ASSUME NEW w \in Word, NEW p \in Pfn
  PROVE  ptedit_get_pfn(ptedit_set_pfn(w, p)) = p
<1>1. \A b \in Bit : b \in ptedit_get_pfn(ptedit_set_pfn(w, p)) <=> b \in p
  BY Layout DEF ptedit_get_pfn, ptedit_set_pfn, Shl, Shr, PfnField, Bit, Pfn
<1>2. p \subseteq Bit
  BY Layout DEF Pfn, Bit
<1>3. ptedit_get_pfn(ptedit_set_pfn(w, p)) \subseteq Bit
  BY DEF ptedit_get_pfn, Shr
<1> QED BY <1>1, <1>2, <1>3

\* Place changes the three bits of the memory type and no other.
LEMMA PlaceChanges ==
  ASSUME NEW w \in Word, NEW m \in Mt, NEW b \in Bit,
         b \notin MtField
  PROVE  b \in ptedit_apply_mt(w, m) <=> b \in w
<1>1. m \cap (0..2) \subseteq {0, 1, 2}
  OBVIOUS
<1>2. \A i \in m \cap (0..2) : MtBit[i + 1] \in MtField
  BY <1>1, Layout DEF MtField
<1> QED BY <1>2 DEF ptedit_apply_mt, Place, MtField

\* The memory type that ptedit_apply_mt stores does not reach the page-frame
\* number.
THEOREM PfnKeptByMt ==
  ASSUME NEW w \in Word, NEW m \in Mt
  PROVE  ptedit_get_pfn(ptedit_apply_mt(w, m)) = ptedit_get_pfn(w)
<1>1. \A b \in PfnField : b \in Bit /\ b \notin MtField
  BY Layout DEF PfnField, MtField, Bit
<1>2. \A b \in PfnField : b \in ptedit_apply_mt(w, m) <=> b \in w
  BY <1>1, PlaceChanges
<1>3. ptedit_apply_mt(w, m) \cap PfnField = w \cap PfnField
  BY <1>2
<1> QED BY <1>3 DEF ptedit_get_pfn

\* ptedit_extract_mt returns what ptedit_apply_mt has stored.
THEOREM MtRoundTrip ==
  ASSUME NEW w \in Word, NEW m \in Mt
  PROVE  ptedit_extract_mt(ptedit_apply_mt(w, m)) = m
<1>1. m \subseteq {0, 1, 2} /\ 0..2 = {0, 1, 2}
  BY DEF Mt
<1>2. \A i, j \in {0, 1, 2} : MtBit[i + 1] = MtBit[j + 1] => i = j
  BY Layout
<1>3. \A i \in {0, 1, 2} : MtBit[i + 1] \in {MtBit[1], MtBit[2], MtBit[3]}
  OBVIOUS
<1>4. \A i \in {0, 1, 2} : MtBit[i + 1] \in ptedit_apply_mt(w, m) <=> i \in m
  BY <1>1, <1>2, <1>3 DEF ptedit_apply_mt, Place
<1> QED BY <1>1, <1>4 DEF ptedit_extract_mt, Extract

\* The page-frame number that ptedit_set_pfn stores does not reach the memory
\* type.
THEOREM MtKeptByPfn ==
  ASSUME NEW w \in Word, NEW p \in Pfn
  PROVE  ptedit_extract_mt(ptedit_set_pfn(w, p)) = ptedit_extract_mt(w)
<1>1. \A i \in 0..2 : MtBit[i + 1] \notin PfnField
  BY Layout DEF PfnField
<1>2. \A i \in 0..2 : MtBit[i + 1] \notin Shl(p, 12)
  BY <1>1, ShlInField
<1>3. \A i \in 0..2 : MtBit[i + 1] \in ptedit_set_pfn(w, p) <=> MtBit[i + 1] \in w
  BY <1>1, <1>2 DEF ptedit_set_pfn
<1> QED BY <1>3 DEF ptedit_extract_mt, Extract

\* ptedit_extract_mt_huge returns what ptedit_apply_mt_huge has stored.
THEOREM MtHugeRoundTrip ==
  ASSUME NEW w \in Word, NEW m \in Mt
  PROVE  ptedit_extract_mt_huge(ptedit_apply_mt_huge(w, m)) = m
<1>1. m \subseteq {0, 1, 2} /\ 0..2 = {0, 1, 2}
  BY DEF Mt
<1>2. \A i, j \in {0, 1, 2} : MtBitHuge[i + 1] = MtBitHuge[j + 1] => i = j
  BY Layout
<1>3. \A i \in {0, 1, 2} :
        MtBitHuge[i + 1] \in {MtBitHuge[1], MtBitHuge[2], MtBitHuge[3]}
  OBVIOUS
<1>4. \A i \in {0, 1, 2} :
        MtBitHuge[i + 1] \in ptedit_apply_mt_huge(w, m) <=> i \in m
  BY <1>1, <1>2, <1>3 DEF ptedit_apply_mt_huge, Place
<1> QED BY <1>1, <1>4 DEF ptedit_extract_mt_huge, Extract

\* The bit field of ptedit_pte_t holds the number that ptedit_get_pfn returns,
\* on x86 for page frames below 2^28 only.
THEOREM CastWithinField ==
  ASSUME NEW w \in Word,
         Machine = "x86" => ptedit_get_pfn(w) \subseteq 0..27
  PROVE  CastPfn(w) = ptedit_get_pfn(w)
<1>1. CASE Machine = "aarch64"
  BY <1>1 DEF CastPfn, ptedit_get_pfn, PfnField, PfnWidth
<1>2. CASE Machine = "x86"
  <2>1. \A b \in ptedit_get_pfn(w) : b \in 0..27
    BY <1>2
  <2>2. \A b \in Bit : b \in ptedit_get_pfn(w) <=> b + 12 \in w /\ b \in 0..39
    BY <1>2 DEF ptedit_get_pfn, PfnField, PfnWidth, Shr, Bit
  <2>3. \A b \in Bit : b \in CastPfn(w) <=> b + 12 \in w /\ b \in 0..27
    BY <1>2 DEF CastPfn, Shr, Bit
  <2>4. \A b \in Bit : b \in CastPfn(w) <=> b \in ptedit_get_pfn(w)
    BY <2>1, <2>2, <2>3
  <2>5. CastPfn(w) \subseteq Bit /\ ptedit_get_pfn(w) \subseteq Bit
    BY DEF CastPfn, ptedit_get_pfn, Shr
  <2> QED BY <2>4, <2>5
<1> QED BY <1>1, <1>2, MachineAssumption

-----------------------------------------------------------------------------
(* The specification: types.                                               *)

LEMMA EditedType ==
  ASSUME NEW c \in Calls, NEW w \in Word
  PROVE  Edited(c, w) \in Word
<1>1. c.op \in Op /\ c.arg \in Word
  BY EntryEditAssumption
<1>2. CASE c.op = "set_pfn"
  <2>1. Shl(c.arg, 12) \subseteq Bit
    BY DEF Shl
  <2> QED BY <1>2, <2>1 DEF Edited, ptedit_set_pfn, Word
<1>3. CASE c.op \in {"apply_mt", "apply_mt_huge"}
  <2>1. \A i \in 0..2 : MtBit[i + 1] \in Bit /\ MtBitHuge[i + 1] \in Bit
    BY Layout DEF Bit
  <2>2. {MtBit[i + 1] : i \in c.arg \cap (0..2)} \subseteq Bit
    BY <2>1
  <2>3. {MtBitHuge[i + 1] : i \in c.arg \cap (0..2)} \subseteq Bit
    BY <2>1
  <2> QED BY <1>3, <2>2, <2>3
          DEF Edited, ptedit_apply_mt, ptedit_apply_mt_huge, Place, Word
<1>4. CASE c.op \in {"set_bit", "clear_bit"}
  BY <1>1, <1>4 DEF Edited, Word
<1> QED BY <1>1, <1>2, <1>3, <1>4 DEF Op

LEMMA ZeroWord == {} \in Word
BY DEF Word

LEMMA TypeStep == TypeOK /\ [Next]_vars => TypeOK'
<1> SUFFICES ASSUME TypeOK, [Next]_vars
             PROVE  TypeOK'
  OBVIOUS
<1> USE DEF Mark
<1>1. ASSUME NEW t \in Task, NEW c \in Calls, Resolve(t, c)
      PROVE  TypeOK'
  BY <1>1 DEF TypeOK, Resolve
<1>2. ASSUME NEW t \in Task, Copy(t)
      PROVE  TypeOK'
  <2>1. vm' \in [Task -> Word] /\ marks' \in [Task -> Mark]
    BY <1>2, EntryEditAssumption DEF TypeOK, Copy
  <2>2. \A u \in Task : u # t => pc'[u] = pc[u] /\ marks'[u] = marks[u]
    BY <1>2 DEF TypeOK, Copy
  <2>3. pc' \in [Task -> {"user", "copy", "update"}] /\ pc'[t] = "update"
    BY <1>2 DEF TypeOK, Copy
  <2>4. UNCHANGED <<table, pte, call, given, mark>> /\ call[t] \in Calls
    BY <1>2 DEF TypeOK, Copy
  <2> QED BY <2>1, <2>2, <2>3, <2>4 DEF TypeOK
<1>3. ASSUME NEW t \in Task, Update(t)
      PROVE  TypeOK'
  <2>1. call[t] \in Calls /\ vm[t] \in Word
    BY <1>3 DEF TypeOK, Update
  <2>2. pte' \in Word
    BY <1>3, <2>1, EditedType DEF TypeOK, Update
  <2> QED BY <1>3, <2>2, ZeroWord DEF TypeOK, Update
<1>4. ASSUME NEW b \in HwBits, Access(b)
      PROVE  TypeOK'
  <2>1. pte \cup {b} \in Word
    BY EntryEditAssumption DEF TypeOK, Word
  <2> QED BY <1>4, <2>1 DEF TypeOK, Access
<1>5. ASSUME NEW m \in Mappings, Map(m)
      PROVE  TypeOK'
  BY <1>5, EntryEditAssumption DEF TypeOK, Map, Write, OutOfDate
<1>6. CASE Clear
  BY <1>6, ZeroWord DEF TypeOK, Clear, Write, OutOfDate
<1>7. CASE FreeTable
  BY <1>7, ZeroWord DEF TypeOK, FreeTable, Write, OutOfDate
<1>8. CASE UNCHANGED vars
  BY <1>8 DEF TypeOK, vars
<1> QED BY <1>1, <1>2, <1>3, <1>4, <1>5, <1>6, <1>7, <1>8 DEF Next

\* Every entry and every copy of it is a 64-bit word, a thread that is about to
\* update has a call to make, and one that is about to copy has found a page
\* table, which may have been freed since.
THEOREM EntryTypeCorrect == Spec => []TypeOK
<1>1. Init => TypeOK
  BY ZeroWord, EntryEditAssumption DEF Init, TypeOK, Mark
<1> QED BY <1>1, TypeStep, PTL DEF Spec

-----------------------------------------------------------------------------
(* The specification: what overlapping calls cannot do.  The invariant     *)
(* says of every copy that may still be written what is claimed of the     *)
(* entry itself.                                                           *)

WholeWord(w) ==
  /\ ptedit_get_pfn(w) \in
       Args("set_pfn") \cup {ptedit_get_pfn(m) : m \in KernelWords}
  /\ ptedit_extract_mt(w) \in
       Args("apply_mt") \cup {ptedit_extract_mt(m) : m \in KernelWords}

WholeInv ==
  /\ mark # "stray" => WholeWord(pte)
  /\ \A t \in Task :
       pc[t] = "update" /\ marks[t] # "stray" => WholeWord(vm[t])

LEMMA KernelWordWhole ==
  ASSUME NEW m \in KernelWords
  PROVE  WholeWord(m)
BY DEF WholeWord

\* A write of the kernel leaves the copies alone and makes none of them better.
LEMMA WriteKeepsCopies ==
  ASSUME TypeOK, NEW m, Write(m),
         \/ marks' = [t \in Task |-> OutOfDate(t)]
         \/ marks' = [t \in Task |-> IF pc[t] = "copy" THEN "stray"
                                     ELSE OutOfDate(t)]
  PROVE  \A t \in Task :
           /\ pc'[t] = pc[t] /\ vm'[t] = vm[t]
           /\ pc[t] = "update" =>
                /\ marks'[t] # "fresh"
                /\ marks'[t] = "stray" <=> marks[t] = "stray"
BY DEF TypeOK, Write, OutOfDate, Mark

\* Bits outside both fields do not matter to them.
LEMMA SameFields ==
  ASSUME NEW v \in Word, NEW w \in Word,
         v \cap (PfnField \cup MtField) = w \cap (PfnField \cup MtField)
  PROVE  /\ ptedit_get_pfn(v) = ptedit_get_pfn(w)
         /\ ptedit_extract_mt(v) = ptedit_extract_mt(w)
<1>1. v \cap PfnField = w \cap PfnField
  OBVIOUS
<1>2. \A i \in 0..2 : MtBit[i + 1] \in MtField
  BY DEF MtField
<1>3. \A i \in 0..2 : MtBit[i + 1] \in v <=> MtBit[i + 1] \in w
  BY <1>2
<1> QED BY <1>1, <1>3 DEF ptedit_get_pfn, ptedit_extract_mt, Extract

LEMMA EditedWhole ==
  ASSUME FieldsSeparate, NEW c \in Calls, NEW w \in Word, WholeWord(w)
  PROVE  WholeWord(Edited(c, w))
<1>1. c.op \in Op /\ c.arg \in Word /\ c.op # "apply_mt_huge"
  BY EntryEditAssumption DEF FieldsSeparate
<1>2. CASE c.op = "set_pfn"
  <2>1. c.arg \in Pfn /\ c.arg \in Args("set_pfn")
    BY <1>2, EntryEditAssumption DEF Args
  <2>2. Edited(c, w) = ptedit_set_pfn(w, c.arg)
    BY <1>2 DEF Edited
  <2> QED BY <2>1, <2>2, PfnRoundTrip, MtKeptByPfn DEF WholeWord
<1>3. CASE c.op = "apply_mt"
  <2>1. c.arg \in Mt /\ c.arg \in Args("apply_mt")
    BY <1>3, EntryEditAssumption DEF Args
  <2>2. Edited(c, w) = ptedit_apply_mt(w, c.arg)
    BY <1>3 DEF Edited
  <2> QED BY <2>1, <2>2, MtRoundTrip, PfnKeptByMt DEF WholeWord
<1>4. CASE c.op \in {"set_bit", "clear_bit"}
  <2>1. c.arg \cap (PfnField \cup MtField) = {}
    BY <1>4 DEF FieldsSeparate
  <2>2. Edited(c, w) \in {w \cup c.arg, w \ c.arg}
    BY <1>4 DEF Edited
  <2>3. Edited(c, w) \cap (PfnField \cup MtField) = w \cap (PfnField \cup MtField)
    BY <2>1, <2>2
  <2> QED BY <2>3, SameFields, EditedType DEF WholeWord
<1> QED BY <1>1, <1>2, <1>3, <1>4 DEF Op

LEMMA WholeStep ==
  ASSUME FieldsSeparate
  PROVE  TypeOK /\ WholeInv /\ [Next]_vars => WholeInv'
<1> SUFFICES ASSUME TypeOK, WholeInv, [Next]_vars
             PROVE  WholeInv'
  OBVIOUS
<1>0. ASSUME NEW m \in KernelWords, Write(m),
             \/ marks' = [t \in Task |-> OutOfDate(t)]
             \/ marks' = [t \in Task |-> IF pc[t] = "copy" THEN "stray"
                                         ELSE OutOfDate(t)]
      PROVE  WholeInv'
  <2>1. WholeWord(pte')
    BY <1>0, KernelWordWhole DEF Write
  <2> QED BY <1>0, <2>1, WriteKeepsCopies DEF WholeInv
<1>1. ASSUME NEW t \in Task, NEW c \in Calls, Resolve(t, c)
      PROVE  WholeInv'
  BY <1>1 DEF TypeOK, WholeInv, Resolve
<1>2. ASSUME NEW t \in Task, Copy(t)
      PROVE  WholeInv'
  <2>1. \A u \in Task : u # t =>
          pc'[u] = pc[u] /\ marks'[u] = marks[u] /\ vm'[u] = vm[u]
    BY <1>2 DEF TypeOK, Copy
  <2>2. marks'[t] # "stray" => vm'[t] = pte /\ marks'[t] = mark
    BY <1>2 DEF TypeOK, Copy
  <2>3. pte' = pte /\ mark' = mark
    BY <1>2 DEF Copy
  <2> QED BY <2>1, <2>2, <2>3 DEF WholeInv
<1>3. ASSUME NEW t \in Task, Update(t)
      PROVE  WholeInv'
  <2>1. call[t] \in Calls /\ vm[t] \in Word
    BY <1>3 DEF TypeOK, Update
  <2>2. marks[t] # "stray" => WholeWord(Edited(call[t], vm[t]))
    BY <1>3, <2>1, EditedWhole DEF WholeInv, Update
  <2>3. mark' # "stray" => WholeWord(pte')
    BY <1>3, <2>2 DEF WholeInv, Update
  <2>4. \A u \in Task :
          pc'[u] = "update" /\ marks'[u] # "stray" => WholeWord(vm'[u])
    BY <1>3 DEF TypeOK, WholeInv, Update
  <2> QED BY <2>3, <2>4 DEF WholeInv
<1>4. ASSUME NEW b \in HwBits, Access(b)
      PROVE  WholeInv'
  <2>1. pte \cup {b} \in Word
    BY EntryEditAssumption DEF TypeOK, Word
  <2>2. (pte \cup {b}) \cap (PfnField \cup MtField) = pte \cap (PfnField \cup MtField)
    BY DEF FieldsSeparate
  <2>3. mark # "stray" => WholeWord(pte \cup {b})
    BY <1>4, <2>1, <2>2, SameFields DEF TypeOK, WholeInv, WholeWord, Access
  <2> QED BY <1>4, <2>3 DEF WholeInv, Access
<1>5. ASSUME NEW m \in Mappings, Map(m)
      PROVE  WholeInv'
  BY <1>0, <1>5 DEF KernelWords, Map
<1>6. CASE Clear
  BY <1>0, <1>6 DEF KernelWords, Clear
<1>7. CASE FreeTable
  BY <1>0, <1>7 DEF KernelWords, FreeTable
<1>8. CASE UNCHANGED vars
  BY <1>8 DEF WholeInv, vars
<1> QED BY <1>1, <1>2, <1>3, <1>4, <1>5, <1>6, <1>7, <1>8 DEF Next

\* The page-frame number and the memory type of the entry are never mixed, for
\* any number of threads of which each overwrites what the others do, although
\* the entry is copied after the unlock: short of a copy from a freed page
\* table, every field was given by a caller or by the kernel.
THEOREM FieldsAreWhole ==
  ASSUME FieldsSeparate
  PROVE  Spec => []FieldsWhole
<1>1. Init => WholeInv
  BY KernelWordWhole DEF Init, WholeInv, KernelWords
<1>2. WholeInv => FieldsWhole
  BY DEF WholeInv, WholeWord, FieldsWhole, ptedit_pte_get_pfn
<1>3. TypeOK /\ WholeInv /\ [Next]_vars => WholeInv'
  BY WholeStep
<1> QED BY <1>1, <1>2, <1>3, EntryTypeCorrect, PTL DEF Spec

-----------------------------------------------------------------------------
(* The bits that nobody edits.                                             *)

Kept(w) == \E m \in KernelWords : w \cap Foreign = m \cap Foreign

ForeignInv ==
  /\ ForeignBitsKept
  /\ given \in KernelWords
  /\ \A t \in Task : pc[t] = "update" =>
       /\ marks[t] = "fresh" => vm[t] \cap Foreign = given \cap Foreign
       /\ marks[t] = "late" => Kept(vm[t])

\* A call changes nothing but what it is said to edit.
LEMMA EditedForeign ==
  ASSUME NEW c \in Calls, NEW w \in Word
  PROVE  Edited(c, w) \cap Foreign = w \cap Foreign
<1>1. c.op \in Op /\ c.arg \in Word
  BY EntryEditAssumption
<1>2. Edits(c) \cap Foreign = {}
  BY DEF Foreign
<1>3. CASE c.op = "set_pfn"
  <2>1. Shl(c.arg, 12) \subseteq PfnField
    BY <1>3, EntryEditAssumption, ShlInField
  <2>2. Edits(c) = PfnField
    BY <1>3 DEF Edits
  <2>3. Edited(c, w) = (w \ PfnField) \cup Shl(c.arg, 12)
    BY <1>3 DEF Edited, ptedit_set_pfn
  <2> QED BY <1>2, <2>1, <2>2, <2>3
<1>4. CASE c.op = "apply_mt"
  <2>1. Edits(c) = MtField
    BY <1>4 DEF Edits
  <2>2. {MtBit[i + 1] : i \in c.arg \cap (0..2)} \subseteq MtField
    BY DEF MtField
  <2>3. Edited(c, w) = (w \ MtField) \cup {MtBit[i + 1] : i \in c.arg \cap (0..2)}
    BY <1>4 DEF Edited, ptedit_apply_mt, Place, MtField
  <2> QED BY <1>2, <2>1, <2>2, <2>3
<1>5. CASE c.op = "apply_mt_huge"
  <2> DEFINE Huge == {MtBitHuge[1], MtBitHuge[2], MtBitHuge[3]}
  <2>1. Edits(c) = Huge
    BY <1>5 DEF Edits
  <2>2. {MtBitHuge[i + 1] : i \in c.arg \cap (0..2)} \subseteq Huge
    OBVIOUS
  <2>3. Edited(c, w) = (w \ Huge) \cup {MtBitHuge[i + 1] : i \in c.arg \cap (0..2)}
    BY <1>5 DEF Edited, ptedit_apply_mt_huge, Place
  <2> HIDE DEF Huge
  <2> QED BY <1>2, <2>1, <2>2, <2>3
<1>6. CASE c.op \in {"set_bit", "clear_bit"}
  <2>1. Edits(c) = c.arg
    BY <1>6 DEF Edits
  <2>2. Edited(c, w) \in {w \cup c.arg, w \ c.arg}
    BY <1>6 DEF Edited
  <2> QED BY <1>2, <2>1, <2>2
<1> QED BY <1>1, <1>3, <1>4, <1>5, <1>6 DEF Op

LEMMA ForeignStep == TypeOK /\ ForeignInv /\ [Next]_vars => ForeignInv'
<1> SUFFICES ASSUME TypeOK, ForeignInv, [Next]_vars
             PROVE  ForeignInv'
  OBVIOUS
<1>0. ASSUME NEW m \in KernelWords, Write(m), ~table' => m = {},
             \/ marks' = [t \in Task |-> OutOfDate(t)]
             \/ marks' = [t \in Task |-> IF pc[t] = "copy" THEN "stray"
                                         ELSE OutOfDate(t)]
      PROVE  ForeignInv'
  <2>1. pte' = m /\ given' = m /\ mark' = "fresh"
    BY <1>0 DEF Write
  <2>2. ForeignBitsKept'
    BY <1>0, <2>1 DEF ForeignBitsKept
  <2>3. ASSUME NEW t \in Task, pc'[t] = "update"
        PROVE  /\ marks'[t] # "fresh"
               /\ marks'[t] = "late" => Kept(vm'[t])
    <3>1. pc[t] = "update" /\ vm'[t] = vm[t] /\ marks'[t] # "fresh"
      BY <1>0, <2>3, WriteKeepsCopies
    <3>2. marks'[t] = "late" => marks[t] \in {"fresh", "late"}
      BY <1>0, <2>3, WriteKeepsCopies DEF TypeOK, Mark
    <3> QED BY <3>1, <3>2 DEF ForeignInv, Kept
  <2> QED BY <1>0, <2>1, <2>2, <2>3 DEF ForeignInv
<1>1. ASSUME NEW t \in Task, NEW c \in Calls, Resolve(t, c)
      PROVE  ForeignInv'
  <2>1. UNCHANGED <<table, pte, vm, given, mark, marks>>
    BY <1>1 DEF Resolve
  <2>2. \A u \in Task : pc'[u] = "update" => pc[u] = "update"
    BY <1>1 DEF TypeOK, Resolve
  <2> QED BY <2>1, <2>2 DEF ForeignInv, ForeignBitsKept, Kept
<1>2. ASSUME NEW t \in Task, Copy(t)
      PROVE  ForeignInv'
  <2>1. \A u \in Task : u # t =>
          pc'[u] = pc[u] /\ marks'[u] = marks[u] /\ vm'[u] = vm[u]
    BY <1>2 DEF TypeOK, Copy
  <2>2. marks'[t] # "stray" => vm'[t] = pte /\ marks'[t] = mark
    BY <1>2 DEF TypeOK, Copy
  <2>3. UNCHANGED <<table, pte, given, mark>>
    BY <1>2 DEF Copy
  <2>4. /\ marks'[t] = "fresh" => vm'[t] \cap Foreign = given \cap Foreign
        /\ marks'[t] = "late" => Kept(vm'[t])
    BY <2>2 DEF ForeignInv, ForeignBitsKept, Kept
  <2> QED BY <2>1, <2>3, <2>4 DEF ForeignInv, ForeignBitsKept, Kept
<1>3. ASSUME NEW t \in Task, Update(t)
      PROVE  ForeignInv'
  <2>1. call[t] \in Calls /\ vm[t] \in Word
    BY <1>3 DEF TypeOK, Update
  <2>2. Edited(call[t], vm[t]) \cap Foreign = vm[t] \cap Foreign
    BY <2>1, EditedForeign
  <2>3. ForeignBitsKept'
    BY <1>3, <2>2 DEF ForeignInv, ForeignBitsKept, Kept, Update
  <2>4. \A u \in Task : pc'[u] = "update" =>
          pc[u] = "update" /\ vm'[u] = vm[u] /\ marks'[u] = marks[u]
    BY <1>3 DEF TypeOK, Update
  <2>5. given' = given
    BY <1>3 DEF Update
  <2> QED BY <2>3, <2>4, <2>5 DEF ForeignInv, Kept
<1>4. ASSUME NEW b \in HwBits, Access(b)
      PROVE  ForeignInv'
  <2>1. b \notin Foreign
    BY DEF Foreign
  <2>2. (pte \cup {b}) \cap Foreign = pte \cap Foreign
    BY <2>1
  <2> QED BY <1>4, <2>2 DEF ForeignInv, ForeignBitsKept, Kept, Access
<1>5. ASSUME NEW m \in Mappings, Map(m)
      PROVE  ForeignInv'
  BY <1>0, <1>5 DEF KernelWords, Map
<1>6. CASE Clear
  BY <1>0, <1>6 DEF KernelWords, Clear
<1>7. CASE FreeTable
  BY <1>0, <1>7 DEF KernelWords, FreeTable
<1>8. CASE UNCHANGED vars
  BY <1>8 DEF ForeignInv, ForeignBitsKept, Kept, vars
<1> QED BY <1>1, <1>2, <1>3, <1>4, <1>5, <1>6, <1>7, <1>8 DEF Next

\* Whatever calls overlap, bits that none of them edits keep the value the
\* kernel gave them last; an update that comes later than another write of the
\* kernel brings back the bits of one earlier write, all of them.
THEOREM ForeignBitsAreKept == Spec => []ForeignBitsKept
<1>1. Init => ForeignInv
  BY DEF Init, ForeignInv, ForeignBitsKept, KernelWords
<1>2. ForeignInv => ForeignBitsKept
  BY DEF ForeignInv
<1> QED BY <1>1, <1>2, ForeignStep, EntryTypeCorrect, PTL DEF Spec

-----------------------------------------------------------------------------
(* A single thread: the copy is the entry, as long as the table is there.  *)

CopyInv ==
  \A t \in Task : table =>
    /\ pc[t] = "copy" => marks[t] # "stray"
    /\ pc[t] = "update" => vm[t] = pte
    /\ pc[t] = "user" => marks[t] = "fresh"

\* The calls of a single thread are atomic edits, if neither a CPU nor the
\* kernel writes the entry in between.  The kernel may free the page table: the
\* call then has no effect.
THEOREM SingleThreadAtomic ==
  ASSUME NEW u, Task = {u}, HwBits = {}, Kernel \subseteq {"free"}
  PROVE  Spec => ImplementsAtomicEntry
<1>1. Init => Atomic!Init /\ CopyInv
  BY DEF Init, Atomic!Init, CopyInv
<1>2. TypeOK /\ CopyInv /\ [Next]_vars => CopyInv' /\ [Atomic!Next]_<<table, pte>>
  <2> SUFFICES ASSUME TypeOK, CopyInv, [Next]_vars
               PROVE  CopyInv' /\ [Atomic!Next]_<<table, pte>>
    OBVIOUS
  <2>1. ASSUME NEW t \in Task, NEW c \in Calls, Resolve(t, c)
        PROVE  CopyInv' /\ [Atomic!Next]_<<table, pte>>
    BY <2>1 DEF TypeOK, CopyInv, Resolve
  <2>2. ASSUME NEW t \in Task, Copy(t)
        PROVE  CopyInv' /\ [Atomic!Next]_<<table, pte>>
    <3>1. pc'[t] = "update" /\ UNCHANGED <<table, pte>>
      BY <2>2 DEF TypeOK, Copy
    <3>2. table => vm'[t] = pte
      BY <2>2 DEF TypeOK, CopyInv, Copy
    <3> QED BY <3>1, <3>2 DEF CopyInv
  <2>3. ASSUME NEW t \in Task, Update(t)
        PROVE  CopyInv' /\ [Atomic!Next]_<<table, pte>>
    <3>1. call[t] \in Calls
      BY <2>3 DEF TypeOK, Update
    <3>2. CopyInv'
      BY <2>3 DEF TypeOK, CopyInv, Update
    <3>3. table => Atomic!Edit(call[t])
      BY <2>3 DEF CopyInv, Update, Atomic!Edit
    <3> QED BY <2>3, <3>1, <3>2, <3>3 DEF Update, Atomic!Next
  <2>4. ASSUME NEW b \in HwBits, Access(b)
        PROVE  FALSE
    OBVIOUS
  <2>5. ASSUME NEW m \in Mappings, Map(m)
        PROVE  FALSE
    BY <2>5 DEF Map
  <2>6. CASE Clear
    BY <2>6 DEF Clear
  <2>7. CASE FreeTable
    <3>1. Atomic!Unmap
      BY <2>7 DEF FreeTable, Write, Atomic!Unmap
    <3> QED BY <2>7, <3>1 DEF CopyInv, FreeTable, Atomic!Next
  <2>8. CASE UNCHANGED vars
    BY <2>8 DEF CopyInv, vars
  <2> QED BY <2>1, <2>2, <2>3, <2>4, <2>5, <2>6, <2>7, <2>8 DEF Next
<1> QED BY <1>1, <1>2, EntryTypeCorrect, PTL
        DEF Spec, ImplementsAtomicEntry, Atomic!Spec
=============================================================================
