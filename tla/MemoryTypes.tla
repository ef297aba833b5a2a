---------------------------- MODULE MemoryTypes -----------------------------
(***************************************************************************)
(* The memory types: every CPU has a table of eight types (the PAT on x86, *)
(* the MAIR on aarch64), and an entry names one of them.  The tables are   *)
(* read on the CPU the caller happens to run on and are written on all of  *)
(* them, one after the other (GET_PAT and SET_PAT of module/pteditor.c);   *)
(* ptedit_set_mt, ptedit_find_first_mt and ptedit_apply_mt of ptedit.c are *)
(* built on that.                                                          *)
(*                                                                         *)
(* A place in the table and a type are words, as in PteWord: place 5 is    *)
(* {0, 2}, write back on x86 is {1, 2}.                                    *)
(***************************************************************************)
EXTENDS PteWord

CONSTANTS Task,      \* threads that use the device
          Cpu,       \* the CPUs
          Type,      \* the types that are used
          InitMts,   \* the table at the start
          InitEntry, \* the entry of a page at the start
          Places     \* the places that ptedit_set_mt is called with

Mts == [Mt -> SUBSET (0..7)]

\* The bits of a type: the masks 7 and 0xff.
TypeMask == IF Machine = "x86" THEN 0..2 ELSE 0..7

ASSUME MemoryTypesAssumption ==
  /\ Cpu # {}
  /\ Type \subseteq SUBSET (0..7)
  /\ InitMts \in Mts
  /\ InitEntry \in Word
  /\ Places \subseteq Mt

VARIABLES pat,    \* pat[c]: the table of CPU c
          pc,
          mts,    \* the table that a call is about to write
          todo,   \* CPUs that have not written it yet
          found,  \* what ptedit_find_first_mt has returned
          entry,  \* the entry of a page
          want,   \* the table as the finished calls define it
          asked   \* the type the page was given

vars == <<pat, pc, mts, todo, found, entry, want, asked>>

TypeOK ==
  /\ pat \in [Cpu -> Mts]
  /\ pc \in [Task -> {"user", "set", "apply"}]
  /\ mts \in [Task -> Mts]
  /\ todo \in [Task -> SUBSET Cpu]
  /\ found \in [Task -> Mt]
  /\ entry \in Word
  /\ want \in Mts
  /\ asked \in SUBSET (0..7)

Init ==
  /\ pat = [c \in Cpu |-> InitMts]
  /\ pc = [t \in Task |-> "user"]
  /\ mts = [t \in Task |-> InitMts]
  /\ todo = [t \in Task |-> {}]
  /\ found = [t \in Task |-> {}]
  /\ entry = InitEntry
  /\ want = InitMts
  /\ asked = InitMts[ptedit_extract_mt(InitEntry)]

-----------------------------------------------------------------------------
(* ptedit_set_mt.                                                          *)

(***************************************************************************)
(* mts &= ~(7 << (mt * 8)), on aarch64 ~(0xff << (mt * 8)): the shift is   *)
(* one of an int.  For the places from 4 on it is undefined: the           *)
(* instruction takes the shift modulo 32, the compiler may have computed   *)
(* 0.  0xff << 24 does not fit: its complement is positive and clears      *)
(* everything above, too.                                                  *)
(***************************************************************************)
Cleared(table, mt) ==
  LET low == mt \ {2}
      lost == IF Machine = "aarch64" /\ low = {0, 1}
              THEN {m \in Mt : {0, 1} \subseteq m \/ 2 \in m} ELSE {low}
      runtime == [m \in Mt |-> IF m \in lost THEN table[m] \ TypeMask ELSE table[m]]
  IN IF 2 \in mt THEN {runtime, table} ELSE {runtime}

\* size_t mts = ptedit_get_mts(), on CPU c; ...; ptedit_set_mts(mts)
SetMt(t, c, mt, value) ==
  /\ pc[t] = "user"
  /\ \E table \in Cleared(pat[c], mt) :
       mts' = [mts EXCEPT ![t] = [table EXCEPT ![mt] = @ \cup value]]
  /\ todo' = [todo EXCEPT ![t] = Cpu]
  /\ pc' = [pc EXCEPT ![t] = "set"]
  /\ want' = [want EXCEPT ![mt] = value]
  /\ asked' = IF mt = ptedit_extract_mt(entry) THEN value ELSE asked
  /\ UNCHANGED <<pat, found, entry>>

\* ptedit_set_mts, with the table the program started with
SetMts(t) ==
  /\ pc[t] = "user"
  /\ mts' = [mts EXCEPT ![t] = InitMts]
  /\ todo' = [todo EXCEPT ![t] = Cpu]
  /\ pc' = [pc EXCEPT ![t] = "set"]
  /\ want' = InitMts
  /\ asked' = InitMts[ptedit_extract_mt(entry)]
  /\ UNCHANGED <<pat, found, entry>>

\* Mutant of SetPat: the table is written on one CPU only.
SetPatHere(t, c) ==
  /\ pc[t] = "set"
  /\ c \in todo[t]
  /\ pat' = [pat EXCEPT ![c] = mts[t]]
  /\ todo' = [todo EXCEPT ![t] = {}]
  /\ UNCHANGED <<pc, mts, found, entry, want, asked>>

\* on_each_cpu(_set_pat, pat, 1): _set_pat on one CPU after the other.
SetPat(t, c) ==
  /\ pc[t] = "set"
  /\ c \in todo[t]
  /\ pat' = [pat EXCEPT ![c] = mts[t]]
  /\ todo' = [todo EXCEPT ![t] = @ \ {c}]
  /\ UNCHANGED <<pc, mts, found, entry, want, asked>>

SetPatDone(t) ==
  /\ pc[t] = "set"
  /\ todo[t] = {}
  /\ pc' = [pc EXCEPT ![t] = "user"]
  /\ UNCHANGED <<pat, mts, todo, found, entry, want, asked>>

-----------------------------------------------------------------------------
(* A program gives a page a memory type, as the tests and the demo do:     *)
(* ptedit_find_first_mt, then ptedit_apply_mt on the entry of the page.    *)

\* ptedit_find_mt compares the low bits on x86, the byte on aarch64, where a
\* type may also be given as one half of a byte with equal halves.
Matches(v, type) ==
  IF Machine = "x86" THEN v \cap TypeMask = type
  ELSE \/ v = type
       \/ v \cap (0..3) = Shr(v, 4) /\ v \cap (0..3) = type

ptedit_find_mt(table, type) == {m \in Mt : Matches(table[m], type)}

Number(m) == (IF 0 \in m THEN 1 ELSE 0) + (IF 1 \in m THEN 2 ELSE 0)
             + (IF 2 \in m THEN 4 ELSE 0)

\* Mutant of FirstMt: __builtin_ffs counts from 1, and 1 is not subtracted.
FirstMtPlusOne(mask) ==
  CHOOSE m \in Mt : \E n \in mask : /\ \A k \in mask : Number(n) <= Number(k)
                                    /\ Number(m) = (Number(n) + 1) % 8

FirstMt(mask) == CHOOSE m \in mask : \A n \in mask : Number(m) <= Number(n)

\* Mutant of Find: -1 is not looked for and becomes 255.
FindUnchecked(t, c, type) ==
  /\ pc[t] = "user"
  /\ LET mask == ptedit_find_mt(pat[c], type)
     IN found' = [found EXCEPT ![t] = IF mask = {} THEN 0..7 ELSE FirstMt(mask)]
  /\ pc' = [pc EXCEPT ![t] = "apply"]
  /\ asked' = type
  /\ UNCHANGED <<pat, mts, todo, entry, want>>

\* ptedit_find_first_mt on CPU c; on -1 the program gives up.
Find(t, c, type) ==
  /\ pc[t] = "user"
  /\ ptedit_find_mt(pat[c], type) # {}
  /\ found' = [found EXCEPT ![t] = FirstMt(ptedit_find_mt(pat[c], type))]
  /\ pc' = [pc EXCEPT ![t] = "apply"]
  /\ asked' = type
  /\ UNCHANGED <<pat, mts, todo, entry, want>>

\* entry.pte = ptedit_apply_mt(entry.pte, mt); ptedit_update(...)
Apply(t) ==
  /\ pc[t] = "apply"
  /\ entry' = ptedit_apply_mt(entry, found[t])
  /\ pc' = [pc EXCEPT ![t] = "user"]
  /\ UNCHANGED <<pat, mts, todo, found, want, asked>>

Next ==
  \E t \in Task :
    \/ \E c \in Cpu :
         \/ \E mt \in Places, value \in Type : SetMt(t, c, mt, value)
         \/ SetPat(t, c)
         \/ \E type \in Type : Find(t, c, type)
    \/ SetMts(t) \/ SetPatDone(t) \/ Apply(t)

Spec == Init /\ [][Next]_vars

-----------------------------------------------------------------------------
(* Properties.                                                             *)

\* The places for which the shift is defined, and types of the right width.
DefinedPlaces ==
  /\ \A mt \in Places : 2 \notin mt /\ (Machine = "aarch64" => mt # {0, 1})
  /\ Type \subseteq SUBSET TypeMask
  /\ InitMts \in [Mt -> SUBSET TypeMask]

Quiet == \A t \in Task : pc[t] = "user"

\* When no call is in progress, every CPU has the table that the calls define:
\* ptedit_set_mt has programmed its place, left the others alone, and it has
\* done so "on all CPUs".
MtsProgrammed == Quiet => \A c \in Cpu : pat[c] = want

\* The page has the memory type it was given, on every CPU: the entry names a
\* place that holds the type that was looked for, and goes on doing so while
\* other places are programmed.
PageHasType ==
  Quiet => \A c \in Cpu : Matches(pat[c][ptedit_extract_mt(entry)], asked)
=============================================================================
