------------------------- MODULE MemoryTypesProofs --------------------------
(***************************************************************************)
(* Proofs about MemoryTypes, for a single thread and any number of CPUs.   *)
(* The invariant says which CPUs already have the new table while it is    *)
(* being written.                                                          *)
(***************************************************************************)
EXTENDS MemoryTypes, TLAPS

MtsInv ==
  /\ want \in [Mt -> SUBSET TypeMask]
  /\ \A t \in Task :
       IF pc[t] = "set"
       THEN mts[t] = want /\ \A c \in Cpu \ todo[t] : pat[c] = want
       ELSE \A c \in Cpu : pat[c] = want

PageInv ==
  \A t \in Task :
    Matches(want[IF pc[t] = "apply" THEN found[t] ELSE ptedit_extract_mt(entry)],
            asked)

LEMMA MaskType == SUBSET TypeMask \subseteq SUBSET (0..7)
BY DEF TypeMask

LEMMA ExtractType == \A w : ptedit_extract_mt(w) \in Mt
BY DEF ptedit_extract_mt, Extract, Mt

LEMMA ApplyType ==
  ASSUME NEW w \in Word, NEW m \in Mt
  PROVE  ptedit_apply_mt(w, m) \in Word
<1>1. \A i \in 0..2 : MtBit[i + 1] \in Bit
  BY MachineAssumption DEF MtBit, Bit
<1>2. {MtBit[i + 1] : i \in m \cap (0..2)} \subseteq Bit
  BY <1>1
<1> QED BY <1>2 DEF ptedit_apply_mt, Place, Word

\* ptedit_extract_mt returns what ptedit_apply_mt has stored.
LEMMA ExtractApplied ==
  ASSUME NEW w \in Word, NEW m \in Mt
  PROVE  ptedit_extract_mt(ptedit_apply_mt(w, m)) = m
<1>1. m \subseteq {0, 1, 2} /\ 0..2 = {0, 1, 2}
  BY DEF Mt
<1>2. \A i, j \in {0, 1, 2} : MtBit[i + 1] = MtBit[j + 1] => i = j
  BY MachineAssumption DEF MtBit
<1>3. \A i \in {0, 1, 2} : MtBit[i + 1] \in {MtBit[1], MtBit[2], MtBit[3]}
  OBVIOUS
<1>4. \A i \in {0, 1, 2} : MtBit[i + 1] \in ptedit_apply_mt(w, m) <=> i \in m
  BY <1>1, <1>2, <1>3 DEF ptedit_apply_mt, Place
<1> QED BY <1>1, <1>4 DEF ptedit_extract_mt, Extract

\* For a place whose shift is defined, the statement clears that place.
LEMMA ClearedPlace ==
  ASSUME DefinedPlaces, NEW mt \in Places, NEW value \in Type,
         NEW table \in [Mt -> SUBSET TypeMask]
  PROVE  /\ mt \in Mt
         /\ \A new \in Cleared(table, mt) :
              [new EXCEPT ![mt] = @ \cup value] = [table EXCEPT ![mt] = value]
<1> SUFFICES ASSUME NEW new \in Cleared(table, mt)
             PROVE  /\ mt \in Mt
                    /\ [new EXCEPT ![mt] = @ \cup value] = [table EXCEPT ![mt] = value]
  BY MemoryTypesAssumption
<1>1. mt \in Mt /\ 2 \notin mt /\ (Machine = "aarch64" => mt # {0, 1})
  BY MemoryTypesAssumption DEF DefinedPlaces
<1>2. mt \ {2} = mt
  BY <1>1
<1>3. new = [m \in Mt |-> IF m = mt THEN table[m] \ TypeMask ELSE table[m]]
  BY <1>1, <1>2 DEF Cleared
<1>4. table[mt] \ TypeMask = {}
  BY <1>1
<1>5. new[mt] = {} /\ DOMAIN new = Mt /\ \A m \in Mt : m # mt => new[m] = table[m]
  BY <1>1, <1>3, <1>4
<1> QED BY <1>1, <1>3, <1>5

LEMMA FoundType ==
  ASSUME NEW mask \in SUBSET Mt, mask # {}
  PROVE  FirstMt(mask) \in mask
<1>1. \A m \in mask : Number(m) \in 0..7
  BY DEF Number
<1>2. \E m \in mask : \A n \in mask : Number(m) <= Number(n)
  <2>1. ASSUME NEW k \in 0..7, \A m \in mask : Number(m) >= k,
               \E m \in mask : Number(m) = k
        PROVE  \E m \in mask : \A n \in mask : Number(m) <= Number(n)
    BY <1>1, <2>1
  <2> DEFINE Has(k) == \E m \in mask : Number(m) = k
  <2>2. Has(0) \/ Has(1) \/ Has(2) \/ Has(3) \/ Has(4) \/ Has(5) \/ Has(6) \/ Has(7)
    BY <1>1
  <2>3. \E k \in 0..7 : Has(k) /\ \A j \in 0..7 : j < k => ~Has(j)
    <3> HIDE DEF Has
    <3> QED BY <2>2
  <2>4. PICK k \in 0..7 : Has(k) /\ \A j \in 0..7 : j < k => ~Has(j)
    BY <2>3
  <2>5. \A m \in mask : Number(m) >= k
    BY <1>1, <2>4
  <2> QED BY <2>1, <2>4, <2>5
<1> QED BY <1>2 DEF FirstMt

-----------------------------------------------------------------------------

LEMMA MtTypeStep == TypeOK /\ [Next]_vars => TypeOK'
<1> SUFFICES ASSUME TypeOK, [Next]_vars
             PROVE  TypeOK'
  OBVIOUS
<1> USE MemoryTypesAssumption
<1>1. ASSUME NEW t \in Task, NEW c \in Cpu, NEW mt \in Places, NEW value \in Type,
             SetMt(t, c, mt, value)
      PROVE  TypeOK'
  <2>0. pat[c] \in [Mt -> SUBSET (0..7)]
    BY DEF TypeOK, Mts
  <2>1. \A table \in Cleared(pat[c], mt) : table \in Mts
    <3> SUFFICES ASSUME NEW table \in Cleared(pat[c], mt)
                 PROVE  table \in [Mt -> SUBSET (0..7)]
      BY DEF Mts
    <3>1. \A m \in Mt : pat[c][m] \in SUBSET (0..7) /\ pat[c][m] \ TypeMask \in SUBSET (0..7)
      BY <2>0
    <3> DEFINE lost == IF Machine = "aarch64" /\ mt \ {2} = {0, 1}
                       THEN {m \in Mt : {0, 1} \subseteq m \/ 2 \in m} ELSE {mt \ {2}}
               runtime == [m \in Mt |-> IF m \in lost THEN pat[c][m] \ TypeMask ELSE pat[c][m]]
    <3>2. table \in {runtime, pat[c]}
      BY DEF Cleared
    <3> HIDE DEF lost
    <3>3. runtime \in [Mt -> SUBSET (0..7)]
      BY <3>1
    <3> QED BY <2>0, <3>2, <3>3
  <2>2. mt \in Mt /\ value \in SUBSET (0..7)
    OBVIOUS
  <2>3. PICK table \in Cleared(pat[c], mt) :
          mts' = [mts EXCEPT ![t] = [table EXCEPT ![mt] = @ \cup value]]
    BY <1>1 DEF SetMt
  <2>4. [table EXCEPT ![mt] = @ \cup value] \in Mts
    <3>1. table \in [Mt -> SUBSET (0..7)]
      BY <2>1 DEF Mts
    <3>2. table[mt] \cup value \in SUBSET (0..7)
      BY <2>2, <3>1
    <3> HIDE DEF Mt
    <3> QED BY <2>2, <3>1, <3>2 DEF Mts
  <2>5. want' \in Mts
    BY <1>1, <2>2 DEF SetMt, TypeOK, Mts
  <2> QED BY <1>1, <2>2, <2>3, <2>4, <2>5 DEF SetMt, TypeOK
<1>2. ASSUME NEW t \in Task, NEW c \in Cpu, SetPat(t, c)
      PROVE  TypeOK'
  BY <1>2 DEF SetPat, TypeOK
<1>3. ASSUME NEW t \in Task, NEW c \in Cpu, NEW type \in Type, Find(t, c, type)
      PROVE  TypeOK'
  <2>1. ptedit_find_mt(pat[c], type) \in SUBSET Mt
    BY DEF ptedit_find_mt
  <2>2. FirstMt(ptedit_find_mt(pat[c], type)) \in Mt
    BY <1>3, <2>1, FoundType DEF Find
  <2> QED BY <1>3, <2>2 DEF Find, TypeOK
<1>4. ASSUME NEW t \in Task, SetMts(t)
      PROVE  TypeOK'
  <2>1. InitMts[ptedit_extract_mt(entry)] \in SUBSET (0..7)
    BY ExtractType DEF Mts
  <2> QED BY <1>4, <2>1 DEF SetMts, TypeOK
<1>5. ASSUME NEW t \in Task, SetPatDone(t)
      PROVE  TypeOK'
  BY <1>5 DEF SetPatDone, TypeOK
<1>6. ASSUME NEW t \in Task, Apply(t)
      PROVE  TypeOK'
  <2>1. entry' \in Word
    BY <1>6, ApplyType DEF Apply, TypeOK
  <2> QED BY <1>6, <2>1 DEF Apply, TypeOK
<1>7. CASE UNCHANGED vars
  BY <1>7 DEF vars, TypeOK
<1> QED BY <1>1, <1>2, <1>3, <1>4, <1>5, <1>6, <1>7 DEF Next

\* Every CPU has a table of eight types at all times, whatever the shifts of
\* ptedit_set_mt do, and what ptedit_find_first_mt returns is a place.
THEOREM MemoryTypesTypeCorrect == Spec => []TypeOK
<1>1. Init => TypeOK
  <2>1. InitMts[ptedit_extract_mt(InitEntry)] \in SUBSET (0..7)
    BY ExtractType, MemoryTypesAssumption DEF Mts
  <2>2. {} \in Mt
    BY DEF Mt
  <2> QED BY <2>1, <2>2, MemoryTypesAssumption DEF Init, TypeOK
<1> QED BY <1>1, MtTypeStep, PTL DEF Spec

LEMMA MtsStep ==
  ASSUME NEW u, Task = {u}, DefinedPlaces
  PROVE  TypeOK /\ MtsInv /\ PageInv /\ [Next]_vars => MtsInv' /\ PageInv'
<1> SUFFICES ASSUME TypeOK, MtsInv, PageInv, [Next]_vars
             PROVE  MtsInv' /\ PageInv'
  OBVIOUS
<1> USE MemoryTypesAssumption
<1>0. Type \subseteq SUBSET TypeMask
  BY DEF DefinedPlaces
<1>a. \A v \in SUBSET TypeMask : Matches(v, v)
  BY DEF Matches, TypeMask
<1>1. ASSUME NEW c \in Cpu, NEW mt \in Places, NEW value \in Type,
             SetMt(u, c, mt, value)
      PROVE  MtsInv' /\ PageInv'
  <2>1. pat[c] = want /\ want \in [Mt -> SUBSET TypeMask] /\ pc[u] = "user"
    BY <1>1 DEF MtsInv, SetMt
  <2>2. PICK table \in Cleared(want, mt) :
          mts' = [mts EXCEPT ![u] = [table EXCEPT ![mt] = @ \cup value]]
    BY <1>1, <2>1 DEF SetMt
  <2>3. mt \in Mt /\ mts'[u] = [want EXCEPT ![mt] = value]
    <3>1. mt \in Mt /\ [table EXCEPT ![mt] = @ \cup value] = [want EXCEPT ![mt] = value]
      <4>1. want \in [Mt -> SUBSET TypeMask] /\ table \in Cleared(want, mt)
        BY <2>1, <2>2
      <4>2. \A new \in Cleared(want, mt) :
              [new EXCEPT ![mt] = @ \cup value] = [want EXCEPT ![mt] = value]
        BY <4>1, ClearedPlace
      <4> QED BY <4>1, <4>2
    <3>2. mts'[u] = [table EXCEPT ![mt] = @ \cup value]
      BY <2>2 DEF TypeOK
    <3> QED BY <3>1, <3>2
  <2>4. want' = [want EXCEPT ![mt] = value] /\ want' \in [Mt -> SUBSET TypeMask]
    BY <1>0, <1>1, <2>1, <2>3 DEF SetMt
  <2>5. MtsInv'
    BY <1>1, <2>3, <2>4 DEF MtsInv, SetMt, TypeOK
  <2>6. Matches(want[ptedit_extract_mt(entry)], asked)
    BY <2>1 DEF PageInv
  <2>7. Matches(want'[ptedit_extract_mt(entry)], asked')
    BY <1>0, <1>1, <1>a, <2>1, <2>3, <2>4, <2>6, ExtractType DEF SetMt
  <2>8. PageInv'
    BY <1>1, <2>7 DEF PageInv, SetMt, TypeOK
  <2> QED BY <2>5, <2>8
<1>2. ASSUME NEW c \in Cpu, SetPat(u, c)
      PROVE  MtsInv' /\ PageInv'
  <2>1. MtsInv'
    BY <1>2 DEF MtsInv, SetPat, TypeOK
  <2>2. PageInv'
    BY <1>2 DEF PageInv, SetPat
  <2> QED BY <2>1, <2>2
<1>3. ASSUME NEW c \in Cpu, NEW type \in Type, Find(u, c, type)
      PROVE  MtsInv' /\ PageInv'
  <2>1. MtsInv'
    BY <1>3 DEF MtsInv, Find, TypeOK
  <2>2. pat[c] = want
    BY <1>3 DEF MtsInv, Find
  <2>3. FirstMt(ptedit_find_mt(want, type)) \in ptedit_find_mt(want, type)
    BY <1>3, <2>2, FoundType DEF Find, ptedit_find_mt
  <2>4. Matches(want[found'[u]], asked')
    BY <1>3, <2>2, <2>3 DEF Find, TypeOK, ptedit_find_mt
  <2>5. PageInv'
    BY <1>3, <2>4 DEF PageInv, Find, TypeOK
  <2> QED BY <2>1, <2>5
<1>4. CASE SetMts(u)
  <2>1. InitMts \in [Mt -> SUBSET TypeMask]
    BY DEF DefinedPlaces
  <2>2. MtsInv'
    BY <1>4, <2>1 DEF MtsInv, SetMts, TypeOK
  <2>3. Matches(want'[ptedit_extract_mt(entry)], asked')
    BY <1>4, <1>a, <2>1, ExtractType DEF SetMts
  <2>4. PageInv'
    BY <1>4, <2>3 DEF PageInv, SetMts, TypeOK
  <2> QED BY <2>2, <2>4
<1>5. CASE SetPatDone(u)
  <2>1. MtsInv'
    BY <1>5 DEF MtsInv, SetPatDone, TypeOK
  <2>2. PageInv'
    BY <1>5 DEF PageInv, SetPatDone, TypeOK
  <2> QED BY <2>1, <2>2
<1>6. CASE Apply(u)
  <2>1. MtsInv'
    BY <1>6 DEF MtsInv, Apply, TypeOK
  <2>2. ptedit_extract_mt(entry') = found[u]
    BY <1>6, ExtractApplied DEF Apply, TypeOK
  <2>3. Matches(want[found[u]], asked)
    BY <1>6 DEF PageInv, Apply
  <2>4. PageInv'
    BY <1>6, <2>2, <2>3 DEF PageInv, Apply, TypeOK
  <2> QED BY <2>1, <2>4
<1>7. CASE UNCHANGED vars
  BY <1>7 DEF vars, MtsInv, PageInv
<1> QED BY <1>1, <1>2, <1>3, <1>4, <1>5, <1>6, <1>7 DEF Next

LEMMA MtsInitially ==
  ASSUME DefinedPlaces, Init
  PROVE  MtsInv /\ PageInv
<1>1. InitMts[ptedit_extract_mt(InitEntry)] \in SUBSET TypeMask
  BY ExtractType DEF DefinedPlaces
<1>2. Matches(InitMts[ptedit_extract_mt(InitEntry)], InitMts[ptedit_extract_mt(InitEntry)])
  BY <1>1 DEF Matches, TypeMask
<1> QED BY <1>2 DEF Init, MtsInv, PageInv, DefinedPlaces

\* With a single thread, and for the places whose shift is defined, every
\* ptedit_set_mt programs its place and no other, on every CPU, wherever the
\* thread runs.
THEOREM MtsAreProgrammed ==
  ASSUME NEW u, Task = {u}, DefinedPlaces
  PROVE  Spec => []MtsProgrammed
<1>1. Init => MtsInv /\ PageInv
  BY MtsInitially
<1>2. TypeOK /\ MtsInv /\ PageInv /\ [Next]_vars => MtsInv' /\ PageInv'
  BY MtsStep
<1>3. MtsInv => MtsProgrammed
  BY DEF MtsInv, MtsProgrammed, Quiet
<1> QED BY <1>1, <1>2, <1>3, MemoryTypesTypeCorrect, PTL DEF Spec

\* Under the same conditions a page has the memory type it was last given, on
\* every CPU.
THEOREM PagesHaveTheirType ==
  ASSUME NEW u, Task = {u}, DefinedPlaces
  PROVE  Spec => []PageHasType
<1>1. Init => MtsInv /\ PageInv
  BY MtsInitially
<1>2. TypeOK /\ MtsInv /\ PageInv /\ [Next]_vars => MtsInv' /\ PageInv'
  BY MtsStep
<1>3. MtsInv /\ PageInv => PageHasType
  BY DEF MtsInv, PageInv, PageHasType, Quiet
<1> QED BY <1>1, <1>2, <1>3, MemoryTypesTypeCorrect, PTL DEF Spec
=============================================================================
