---------------------------- MODULE VmEditProofs ----------------------------
(***************************************************************************)
(* Proofs about VmEdit, for any memory, any number of tasks, CPUs,         *)
(* processes, addresses and requests.                                      *)
(***************************************************************************)
EXTENDS VmEdit, TLAPS

\* What a handler has in its locals, by where it is.
HandlerOK(t) ==
  /\ pc[t] = "user" => edited[t] = NoMm
  /\ pc[t] \in {"m_clear", "m_free"} => PTE \in DOMAIN vm[t]
  /\ pc[t] = "u_write" => todo[t] \subseteq DOMAIN vm[t] \cap DOMAIN args[t].new
  /\ pc[t] = "r_copy" => todo[t] \subseteq DOMAIN vm[t]
  /\ pc[t] # "r_copy" => DOMAIN entry[t] = {}

HandlerInv == \A t \in Task : HandlerOK(t)

VmInv == TypeOK /\ HandlerInv

\* The update or the munmap of t holds the mmap lock.
Locked(t) ==
  \/ pc[t] \in {"u_walk", "u_write", "u_unlock", "m_clear", "m_free"}
  \/ pc[t] = "ipi" /\ mm[t] # NoMm

LockOK(t) ==
  /\ pc[t] = "user" => mm[t] = NoMm
  /\ pc[t] = "u_lock" => mm[t] # NoMm
  /\ Locked(t) => mm[t] \in Mm /\ writer[mm[t]] = t

LockInv == \A t \in Task : LockOK(t)

\* The tables stay orderly.
TableInv(level) ==
  /\ Leveled(mem, level)
  /\ PageTablesOwned(mem, level, free)
  /\ \A f \in free : level[f] = PTE

\* What an update has found is in place, in use, and written as far as it has come.
UpdateOK(t, level) ==
  pc[t] \in {"u_write", "ipi", "u_unlock"} /\ mm[t] # NoMm =>
    /\ \A l \in DOMAIN vm[t] : level[vm[t][l][1]] = TableLevel(l) /\ vm[t][l][1] \notin free
    /\ \A l \in DOMAIN vm[t] \cap DOMAIN args[t].new :
         pc[t] # "u_write" \/ l \notin todo[t] => Read(mem, vm[t][l]) = args[t].new[l]

\* What munmap is about to free belongs to the PMD that it clears.
MunmapOK(t, level) ==
  pc[t] \in {"m_clear", "m_free"} =>
    LET s == vm[t][PMD]
        f == vm[t][PTE][1]
    IN /\ PMD \in DOMAIN vm[t] /\ level[s[1]] = PMD /\ level[f] = PTE
       /\ pc[t] = "m_clear" => Read(mem, s) = Table(f)
       /\ pc[t] = "m_free" => \A r \in Slot : level[r[1]] = PMD /\ LeadsOn(Read(mem, r)) =>
                                Read(mem, r).to # f

OrderInv(level) ==
  /\ TableInv(level)
  /\ \A t \in Task : UpdateOK(t, level) /\ MunmapOK(t, level)

\* What a walk has found is in a table of its level, and not zero above the PTE.
Found(slots, level) ==
  \A l \in DOMAIN slots : /\ level[slots[l][1]] = TableLevel(l)
                          /\ l # PTE => Read(mem, slots[l]).kind # "none"

\* Without munmap, what is there above the PTE stays there.
StandInv(level) ==
  /\ TableInv(level) /\ RootsFilled(mem)
  /\ \A t \in Task : pc[t] \notin {"m_clear", "m_free"} /\ Found(vm[t], level)
  /\ ValidIsNonzero

-----------------------------------------------------------------------------
(* Page tables                                                             *)

LEMMA EntryType ==
  ASSUME NEW e \in Entry
  PROVE  /\ e.kind \in {"none", "absent", "table", "leaf"}
         /\ e.kind = "none" => e = None /\ e.to = NoFrame
         /\ e.kind # "none" => e.to \in Frame
BY DEF Entry, None

LEMMA ReadType ==
  ASSUME NEW memory \in Memory, NEW s \in (Frame \cup {NoFrame}) \X Index
  PROVE  Read(memory, s) \in Entry
<1>1. CASE s[1] = NoFrame
  BY <1>1 DEF Read, Entry
<1>2. CASE s[1] # NoFrame
  BY <1>2 DEF Read, Memory
<1> QED  BY <1>1, <1>2

\* The place an entry leads to at the index i.
LEMMA NextSlotType ==
  ASSUME NEW e \in Entry, NEW i \in Index
  PROVE  /\ <<e.to, i>> \in (Frame \cup {NoFrame}) \X Index
         /\ e.kind # "none" => <<e.to, i>> \in Slot
BY EntryType DEF Slot

\* Every slot that a walk looks at is one of a frame, or of none; it is one of a
\* frame if the entry above it is not zero.
LEMMA SlotsType ==
  ASSUME NEW memory \in Memory, NEW root \in Frame, NEW a \in Addr
  PROVE  LET s == Slots(memory, root, a)
             e(l) == Read(memory, s[l])
         IN /\ s = <<s[1], s[2], s[3], s[4], s[5]>>
            /\ \A l \in Level : s[l] \in (Frame \cup {NoFrame}) \X Index
            /\ \A l \in Level : e(l) \in Entry
            /\ s[PGD] = <<root, index[a][PGD]>> /\ s[PGD] \in Slot
            /\ s[P4D] = IF P4dFolded THEN s[PGD] ELSE <<e(PGD).to, index[a][P4D]>>
            /\ s[PUD] = <<e(P4D).to, index[a][PUD]>>
            /\ s[PMD] = <<e(PUD).to, index[a][PMD]>>
            /\ s[PTE] = <<e(PMD).to, index[a][PTE]>>
            /\ P4dFolded \/ e(PGD).kind # "none" => s[P4D] \in Slot
            /\ e(P4D).kind # "none" => s[PUD] \in Slot
            /\ e(PUD).kind # "none" => s[PMD] \in Slot
            /\ e(PMD).kind # "none" => s[PTE] \in Slot
<1> DEFINE s == Slots(memory, root, a)
           e(l) == Read(memory, s[l])
           S == (Frame \cup {NoFrame}) \X Index
<1> USE DEF PGD, P4D, PUD, PMD, PTE
<1>0. \A l \in Level : index[a][l] \in Index
  BY PagingAssumption
<1>1. /\ s = <<s[1], s[2], s[3], s[4], s[5]>>
      /\ s[1] = <<root, index[a][1]>>
      /\ s[2] = IF P4dFolded THEN s[1] ELSE <<e(1).to, index[a][2]>>
      /\ s[3] = <<e(2).to, index[a][3]>>
      /\ s[4] = <<e(3).to, index[a][4]>>
      /\ s[5] = <<e(4).to, index[a][5]>>
  BY DEF Slots
<1> HIDE DEF s
<1>i. /\ index[a][1] \in Index /\ index[a][2] \in Index /\ index[a][3] \in Index
      /\ index[a][4] \in Index /\ index[a][5] \in Index
  BY <1>0 DEF Level
<1>2. s[1] \in S /\ s[1] \in Slot
  BY <1>1, <1>i DEF Slot
<1>3. e(1) \in Entry
  BY <1>2, ReadType
<1>4. s[2] \in S /\ (P4dFolded \/ e(1).kind # "none" => s[2] \in Slot)
  BY <1>1, <1>i, <1>2, <1>3, NextSlotType
<1>5. e(2) \in Entry
  BY <1>4, ReadType
<1>6. s[3] \in S /\ (e(2).kind # "none" => s[3] \in Slot)
  BY <1>1, <1>i, <1>5, NextSlotType
<1>7. e(3) \in Entry
  BY <1>6, ReadType
<1>8. s[4] \in S /\ (e(3).kind # "none" => s[4] \in Slot)
  BY <1>1, <1>i, <1>7, NextSlotType
<1>9. e(4) \in Entry
  BY <1>8, ReadType
<1>10. s[5] \in S /\ (e(4).kind # "none" => s[5] \in Slot)
  BY <1>1, <1>i, <1>9, NextSlotType
<1>11. e(5) \in Entry
  BY <1>10, ReadType
<1>12. \A l \in Level : l = 1 \/ l = 2 \/ l = 3 \/ l = 4 \/ l = 5
  BY DEF Level
<1>13. \A l \in Level : s[l] \in S
  BY <1>2, <1>4, <1>6, <1>8, <1>10, <1>12
<1>14. \A l \in Level : e(l) \in Entry
  BY <1>3, <1>5, <1>7, <1>9, <1>11, <1>12
<1> QED  BY <1>1, <1>2, <1>4, <1>6, <1>8, <1>10, <1>13, <1>14 DEF s

\* The levels that resolve_vm reports, and what it reports for them.
LEMMA ResolveLevels ==
  ASSUME NEW memory \in Memory, NEW root \in Frame, NEW a \in Addr
  PROVE  LET s == Slots(memory, root, a)
             v == resolve_vm(memory, root, a)
             kind(l) == Read(memory, s[l]).kind
         IN /\ DOMAIN v \subseteq Level
            /\ v = [l \in DOMAIN v |-> s[l]]
            /\ PGD \in DOMAIN v <=> P4dFolded \/ kind(PGD) = "table"
            /\ P4D \in DOMAIN v <=> PGD \in DOMAIN v /\ kind(P4D) = "table"
            /\ PUD \in DOMAIN v <=> P4D \in DOMAIN v /\ kind(PUD) # "none"
            /\ PMD \in DOMAIN v <=> /\ PUD \in DOMAIN v
                                    /\ kind(PMD) # "none" /\ kind(PUD) # "leaf"
            /\ PTE \in DOMAIN v <=> PMD \in DOMAIN v /\ kind(PMD) # "leaf"
BY DEF resolve_vm, Level, PGD, P4D, PUD, PMD, PTE

\* What resolve_vm reports as valid are slots of frames.
LEMMA ResolveType ==
  ASSUME NEW memory \in Memory, NEW root \in Frame, NEW a \in Addr
  PROVE  IsPartial(resolve_vm(memory, root, a), Slot)
<1> DEFINE s == Slots(memory, root, a)
           v == resolve_vm(memory, root, a)
           kind(l) == Read(memory, s[l]).kind
<1>1. /\ DOMAIN v \subseteq Level
      /\ v = [l \in DOMAIN v |-> s[l]]
      /\ PGD \in DOMAIN v <=> P4dFolded \/ kind(PGD) = "table"
      /\ P4D \in DOMAIN v <=> PGD \in DOMAIN v /\ kind(P4D) = "table"
      /\ PUD \in DOMAIN v <=> P4D \in DOMAIN v /\ kind(PUD) # "none"
      /\ PMD \in DOMAIN v <=> /\ PUD \in DOMAIN v
                              /\ kind(PMD) # "none" /\ kind(PUD) # "leaf"
      /\ PTE \in DOMAIN v <=> PMD \in DOMAIN v /\ kind(PMD) # "leaf"
  BY ResolveLevels
<1>2. /\ s[PGD] \in Slot
      /\ P4dFolded \/ kind(PGD) # "none" => s[P4D] \in Slot
      /\ kind(P4D) # "none" => s[PUD] \in Slot
      /\ kind(PUD) # "none" => s[PMD] \in Slot
      /\ kind(PMD) # "none" => s[PTE] \in Slot
  BY SlotsType
<1> HIDE DEF s, v
<1>3. \A l \in Level : l = PGD \/ l = P4D \/ l = PUD \/ l = PMD \/ l = PTE
  BY DEF Level, PGD, P4D, PUD, PMD, PTE
<1>4. \A l \in DOMAIN v : s[l] \in Slot
  BY <1>1, <1>2, <1>3
<1>5. v \in [DOMAIN v -> Slot]
  BY <1>1, <1>4
<1> QED  BY <1>1, <1>5 DEF IsPartial, v

\* The hardware ends up in a frame, or faults.
LEMMA TranslateType ==
  ASSUME NEW memory \in Memory, NEW root \in Frame, NEW a \in Addr
  PROVE  Translate(memory, root, a) \in Translation
<1> DEFINE s == Slots(memory, root, a)
           e(l) == Read(memory, s[l])
<1>0. \A l \in Level : e(l) \in Entry
  BY SlotsType
<1> HIDE DEF s
<1>1. e(PUD) \in Entry /\ e(PMD) \in Entry /\ e(PTE) \in Entry
  BY <1>0 DEF Level, PGD, PUD, PMD, PTE
<1>2. ASSUME NEW f \in Entry, NEW l \in {PUD, PMD, PTE}
      PROVE  Target(f, l) \in Translation
  BY EntryType DEF Target, Translation
<1>3. /\ Target(e(PUD), PUD) \in Translation /\ Target(e(PMD), PMD) \in Translation
      /\ Target(e(PTE), PTE) \in Translation /\ Fault \in Translation
  BY <1>1, <1>2 DEF Translation
<1> QED  BY <1>3 DEF Translate, s

-----------------------------------------------------------------------------
(* The parts of TypeOK that take several steps to see                      *)

LEMMA ExceptForm ==
  ASSUME NEW T, NEW f, f \in [T -> {f[t] : t \in T}], NEW t \in T, NEW v,
         NEW g, g = [f EXCEPT ![t] = v]
  PROVE  /\ g \in [T -> {g[u] : u \in T}]
         /\ g[t] = v /\ \A u \in T \ {t} : g[u] = f[u]
OBVIOUS

LEMMA EmptyPartial == ASSUME NEW S PROVE IsPartial(<<>>, S) /\ DOMAIN <<>> = {}
BY DEF IsPartial

LEMMA NewPartial ==
  ASSUME TypeOK, NEW t \in Task
  PROVE  IsPartial(args[t].new, Entry)
BY VmEditAssumption, EmptyPartial DEF TypeOK, Args

LEMMA WalkPartial ==
  ASSUME TypeOK, NEW m \in Mm \cup {NoMm}, NEW a \in Addr
  PROVE  IsPartial(walk(m, a), Slot)
BY VmEditAssumption, EmptyPartial, ResolveType DEF TypeOK, walk

LEMMA TranslateMm ==
  ASSUME TypeOK, NEW m \in Mm, NEW a \in Addr
  PROVE  translate(m, a) \in Translation
BY VmEditAssumption, TranslateType DEF TypeOK, translate

LEMMA NoArgsType == ASSUME NEW t \in Task PROVE NoArgs \in Args
<1>1. Pid # {} /\ Addr # {}
  BY VmEditAssumption, PagingAssumption
<1> QED  BY <1>1 DEF NoArgs, Args

LEMMA WriteType ==
  ASSUME NEW memory \in Memory, NEW s, NEW e \in Entry
  PROVE  Write(memory, s, e) \in Memory
BY DEF Memory, Write

\* The locals of a handler.
LocalOK(t) ==
  /\ pc[t] \in PC
  /\ args[t] \in Args
  /\ mm[t] \in Mm \cup {NoMm}
  /\ IsPartial(vm[t], Slot)
  /\ edited[t] \in Mm \cup {NoMm}
  /\ todo[t] \subseteq Level \cup Cpu
  /\ flush[t] \in Mm \cup {NoMm, AllMm}
  /\ IsPartial(entry[t], Entry) /\ DOMAIN entry[t] \subseteq DOMAIN vm[t]

\* f is a function of the tasks.
PerTask(f) == f \in [Task -> {f[t] : t \in Task}]

LocalType ==
  /\ PerTask(pc) /\ PerTask(args) /\ PerTask(mm) /\ PerTask(vm)
  /\ PerTask(edited) /\ PerTask(todo) /\ PerTask(flush) /\ PerTask(entry)
  /\ \A t \in Task : LocalOK(t)

\* The rest of the state.
SharedType ==
  /\ mem \in Memory
  /\ free \subseteq Frame
  /\ mmOf \in [Pid -> Mm \cup {NoMm}]
  /\ activeMm \in [Pid -> Mm \cup {NoMm}]
  /\ writer \in [Mm -> Task \cup {NoTask}]
  /\ readers \in [Mm -> SUBSET Task]
  /\ tlb \in [Cpu -> [Mm \X Addr -> Translation]]
  /\ exposed \subseteq Cpu \X Mm \X Addr
  /\ invalidate_tlb \in {"kernel", "custom"}

LEMMA TypeParts == TypeOK <=> LocalType /\ SharedType
<1>1. ASSUME NEW f, NEW S PROVE f \in [Task -> S] <=> PerTask(f) /\ \A t \in Task : f[t] \in S
  BY DEF PerTask
<1>2. /\ pc \in [Task -> PC] <=> PerTask(pc) /\ \A t \in Task : pc[t] \in PC
      /\ args \in [Task -> Args] <=> PerTask(args) /\ \A t \in Task : args[t] \in Args
      /\ mm \in [Task -> Mm \cup {NoMm}] <=>
           PerTask(mm) /\ \A t \in Task : mm[t] \in Mm \cup {NoMm}
      /\ edited \in [Task -> Mm \cup {NoMm}] <=>
           PerTask(edited) /\ \A t \in Task : edited[t] \in Mm \cup {NoMm}
      /\ todo \in [Task -> SUBSET (Level \cup Cpu)] <=>
           PerTask(todo) /\ \A t \in Task : todo[t] \in SUBSET (Level \cup Cpu)
      /\ flush \in [Task -> Mm \cup {NoMm, AllMm}] <=>
           PerTask(flush) /\ \A t \in Task : flush[t] \in Mm \cup {NoMm, AllMm}
  BY <1>1
<1>3. PerTask(vm) <=> vm \in [Task -> {vm[t] : t \in Task}]
  BY DEF PerTask
<1>4. PerTask(entry) <=> entry \in [Task -> {entry[t] : t \in Task}]
  BY DEF PerTask
<1> QED  BY <1>2, <1>3, <1>4 DEF TypeOK, LocalType, LocalOK, SharedType

\* A step that changes no local of a task other than t.
StepOf(t) ==
  /\ pc' = [pc EXCEPT ![t] = pc'[t]] /\ args' = [args EXCEPT ![t] = args'[t]]
  /\ mm' = [mm EXCEPT ![t] = mm'[t]] /\ vm' = [vm EXCEPT ![t] = vm'[t]]
  /\ edited' = [edited EXCEPT ![t] = edited'[t]]
  /\ todo' = [todo EXCEPT ![t] = todo'[t]]
  /\ flush' = [flush EXCEPT ![t] = flush'[t]]
  /\ entry' = [entry EXCEPT ![t] = entry'[t]]

LEMMA LocalStep ==
  ASSUME VmInv, NEW t \in Task, StepOf(t), LocalOK(t)', HandlerOK(t)'
  PROVE  LocalType' /\ HandlerInv'
<1>0. LocalType /\ HandlerInv
  BY TypeParts DEF VmInv
<1>1. ASSUME NEW f, NEW g, PerTask(f), NEW v, g = [f EXCEPT ![t] = v]
      PROVE  PerTask(g) /\ \A u \in Task \ {t} : g[u] = f[u]
  BY <1>1 DEF PerTask
<1>2. PerTask(pc') /\ \A u \in Task \ {t} : pc'[u] = pc[u]
  BY <1>0, <1>1 DEF LocalType, StepOf
<1>3. PerTask(args') /\ \A u \in Task \ {t} : args'[u] = args[u]
  BY <1>0, <1>1 DEF LocalType, StepOf
<1>4. PerTask(mm') /\ \A u \in Task \ {t} : mm'[u] = mm[u]
  BY <1>0, <1>1 DEF LocalType, StepOf
<1>5. PerTask(vm') /\ \A u \in Task \ {t} : vm'[u] = vm[u]
  BY <1>0, <1>1 DEF LocalType, StepOf
<1>6. PerTask(edited') /\ \A u \in Task \ {t} : edited'[u] = edited[u]
  BY <1>0, <1>1 DEF LocalType, StepOf
<1>7. PerTask(todo') /\ \A u \in Task \ {t} : todo'[u] = todo[u]
  BY <1>0, <1>1 DEF LocalType, StepOf
<1>8. PerTask(flush') /\ \A u \in Task \ {t} : flush'[u] = flush[u]
  BY <1>0, <1>1 DEF LocalType, StepOf
<1>9. PerTask(entry') /\ \A u \in Task \ {t} : entry'[u] = entry[u]
  BY <1>0, <1>1 DEF LocalType, StepOf
<1>10. \A u \in Task \ {t} : LocalOK(u)' /\ HandlerOK(u)'
  BY <1>0, <1>2, <1>3, <1>4, <1>5, <1>6, <1>7, <1>8, <1>9
     DEF LocalType, LocalOK, HandlerInv, HandlerOK
<1>11. PerTask(pc)' /\ PerTask(args)' /\ PerTask(mm)' /\ PerTask(vm)' /\ PerTask(edited)'
       /\ PerTask(todo)' /\ PerTask(flush)' /\ PerTask(entry)'
  BY <1>2, <1>3, <1>4, <1>5, <1>6, <1>7, <1>8, <1>9 DEF PerTask
<1> QED  BY <1>10, <1>11 DEF LocalType, HandlerInv

\* Going back to user space.
LEMMA ReturnStep ==
  ASSUME VmInv, NEW t \in Task, Return(t)
  PROVE  LocalType' /\ HandlerInv'
<1>0. LocalType
  BY TypeParts DEF VmInv
<1>1. /\ StepOf(t) /\ pc'[t] = "user" /\ args'[t] = NoArgs /\ mm'[t] = NoMm
      /\ vm'[t] = <<>> /\ edited'[t] = NoMm /\ todo'[t] = {} /\ flush'[t] = NoMm
      /\ entry'[t] = <<>>
  BY <1>0 DEF Return, Goto, StepOf, LocalType, PerTask
<1>2. LocalOK(t)' /\ HandlerOK(t)'
  BY <1>1, NoArgsType, EmptyPartial DEF LocalOK, HandlerOK, PC
<1> QED  BY <1>1, <1>2, LocalStep

LEMMA GetMmType ==
  ASSUME TypeOK, NEW p \in Pid
  PROVE  get_mm(p) \in Mm \cup {NoMm}
BY DEF TypeOK, get_mm

\* VM_RESOLVE
LEMMA ResolveLocal ==
  ASSUME VmInv, NEW t \in Task,
         \/ \E p \in Pid, a \in Addr : ResolveEnter(t, p, a)
         \/ ResolveLock(t) \/ ResolveWalk(t) \/ ResolveUnlock(t)
         \/ ResolveCopy(t) \/ ResolveReturn(t)
  PROVE  LocalType' /\ HandlerInv'
<1>0. LocalType /\ HandlerInv /\ LocalOK(t) /\ HandlerOK(t)
  BY TypeParts DEF VmInv, HandlerInv, LocalType
<1> USE DEF LocalType, PerTask
<1>1. ASSUME NEW p \in Pid, NEW a \in Addr, ResolveEnter(t, p, a)
      PROVE  LocalType' /\ HandlerInv'
  <2>1. StepOf(t) /\ UNCHANGED <<vm, edited, todo, flush, entry>>
    BY <1>0, <1>1 DEF ResolveEnter, Goto, StepOf
  <2>2. /\ pc'[t] = "r_lock" /\ mm'[t] = get_mm(p)
        /\ args'[t] = [pid |-> p, addr |-> a, new |-> <<>>]
    BY <1>0, <1>1 DEF ResolveEnter, Goto
  <2>3. LocalOK(t)' /\ HandlerOK(t)'
    BY <1>0, <1>1, <2>1, <2>2, GetMmType
       DEF LocalOK, HandlerOK, ResolveEnter, PC, Args, VmInv
  <2> HIDE DEF LocalType
  <2> QED  BY <2>1, <2>3, LocalStep
<1>2. CASE ResolveLock(t)
  <2>1. /\ StepOf(t) /\ UNCHANGED <<args, mm, vm, edited, todo, flush, entry>>
        /\ pc[t] = "r_lock" /\ pc'[t] = "r_walk"
    BY <1>0, <1>2 DEF ResolveLock, Goto, StepOf, localVars
  <2>2. LocalOK(t)' /\ HandlerOK(t)'
    BY <1>0, <2>1 DEF LocalOK, HandlerOK, PC
  <2> HIDE DEF LocalType
  <2> QED  BY <2>1, <2>2, LocalStep
<1>3. CASE ResolveWalk(t)
  <2>1. /\ StepOf(t) /\ UNCHANGED <<args, mm, todo, flush, entry>>
        /\ pc[t] = "r_walk" /\ pc'[t] = "r_unlock" /\ edited'[t] = mm[t]
        /\ vm'[t] = walk(mm[t], args[t].addr)
    BY <1>0, <1>3 DEF ResolveWalk, Goto, StepOf
  <2>2. IsPartial(vm'[t], Slot)
    BY <1>0, <2>1, WalkPartial DEF VmInv, LocalOK, Args
  <2>3. LocalOK(t)' /\ HandlerOK(t)'
    BY <1>0, <2>1, <2>2 DEF LocalOK, HandlerOK, PC
  <2> HIDE DEF LocalType
  <2> QED  BY <2>1, <2>3, LocalStep
<1>4. CASE ResolveUnlock(t)
  <2>1. /\ StepOf(t) /\ UNCHANGED <<args, mm, vm, edited, flush, entry>>
        /\ pc[t] = "r_unlock" /\ pc'[t] = "r_copy" /\ todo'[t] = DOMAIN vm[t]
    BY <1>0, <1>4 DEF ResolveUnlock, Goto, StepOf
  <2>2. LocalOK(t)' /\ HandlerOK(t)'
    BY <1>0, <2>1 DEF LocalOK, HandlerOK, PC, IsPartial
  <2> HIDE DEF LocalType
  <2> QED  BY <2>1, <2>2, LocalStep
<1>5. CASE ResolveCopy(t)
  <2> DEFINE l == CopyNext(t)
             e == Read(mem, vm[t][l])
  <2>1. /\ StepOf(t) /\ UNCHANGED <<pc, args, mm, vm, edited, flush>>
        /\ pc[t] = "r_copy" /\ todo'[t] = todo[t] \ {l} /\ todo[t] # {}
        /\ entry'[t] = [k \in DOMAIN entry[t] \cup {l} |->
                          IF k = l THEN e ELSE entry[t][k]]
    BY <1>0, <1>5 DEF ResolveCopy, StepOf
  <2>2. l \in todo[t]
    <3>1. todo[t] \subseteq Level /\ todo[t] # {}
      BY <1>0, <2>1 DEF HandlerOK, LocalOK, IsPartial
    <3>2. \E i \in 1..5 : /\ CopyOrder[i] \in todo[t]
                          /\ \A j \in 1..(i - 1) : CopyOrder[j] \notin todo[t]
      BY <3>1 DEF CopyOrder, Level, PGD, P4D, PUD, PMD, PTE
    <3> QED  BY <3>2 DEF CopyNext
  <2>3. l \in DOMAIN vm[t] /\ l \in Level /\ e \in Entry
    <3>1. l \in DOMAIN vm[t] /\ l \in Level /\ vm[t][l] \in Slot
      BY <1>0, <2>1, <2>2 DEF HandlerOK, LocalOK, IsPartial
    <3>2. vm[t][l] \in (Frame \cup {NoFrame}) \X Index
      BY <3>1 DEF Slot
    <3> QED  BY <3>1, <3>2, ReadType DEF VmInv, TypeOK
  <2> HIDE DEF l, e
  <2>4. IsPartial(entry'[t], Entry)
    BY <1>0, <2>1, <2>3 DEF LocalOK, IsPartial
  <2>5. LocalOK(t)' /\ HandlerOK(t)'
    BY <1>0, <2>1, <2>3, <2>4 DEF LocalOK, HandlerOK, PC
  <2> HIDE DEF LocalType
  <2> QED  BY <2>1, <2>5, LocalStep
<1>6. CASE ResolveReturn(t)
  BY <1>6, ReturnStep DEF ResolveReturn
<1> QED  BY <1>1, <1>2, <1>3, <1>4, <1>5, <1>6

\* The smallest of some levels: the one that update_vm writes next.
LEMMA LeastLevel ==
  ASSUME NEW S, S \subseteq Level, S # {}
  PROVE  LET l == CHOOSE k \in S : \A j \in S : k <= j
         IN l \in S /\ \A j \in S : l <= j
<1>1. \A k \in S : k = 1 \/ k = 2 \/ k = 3 \/ k = 4 \/ k = 5
  BY DEF Level, PGD, PTE
<1>2. \E k \in S : \A j \in S : k <= j
  <2>1. CASE 1 \in S
    BY <1>1, <2>1
  <2>2. CASE 1 \notin S /\ 2 \in S
    BY <1>1, <2>2
  <2>3. CASE 1 \notin S /\ 2 \notin S /\ 3 \in S
    BY <1>1, <2>3
  <2>4. CASE 1 \notin S /\ 2 \notin S /\ 3 \notin S /\ 4 \in S
    BY <1>1, <2>4
  <2>5. CASE 1 \notin S /\ 2 \notin S /\ 3 \notin S /\ 4 \notin S
    BY <1>1, <2>5
  <2> QED  BY <2>1, <2>2, <2>3, <2>4, <2>5
<1> QED  BY <1>2

\* VM_UPDATE
LEMMA UpdateLocal ==
  ASSUME VmInv, NEW t \in Task,
         \/ \E p \in Pid, a \in Addr, r \in Requests : UpdateEnter(t, p, a, r)
         \/ UpdateLock(t) \/ UpdateWalk(t) \/ UpdateWrite(t) \/ UpdateUnlock(t)
  PROVE  LocalType' /\ HandlerInv'
<1>0. LocalType /\ HandlerInv /\ LocalOK(t) /\ HandlerOK(t)
  BY TypeParts DEF VmInv, HandlerInv, LocalType
<1> USE DEF LocalType, PerTask
<1>1. ASSUME NEW p \in Pid, NEW a \in Addr, NEW r \in Requests, UpdateEnter(t, p, a, r)
      PROVE  LocalType' /\ HandlerInv'
  <2>1. StepOf(t) /\ UNCHANGED <<vm, edited, todo, flush, entry>>
    BY <1>0, <1>1 DEF UpdateEnter, Goto, StepOf
  <2>2. /\ pc'[t] = "u_lock" /\ mm'[t] = get_mm(p)
        /\ args'[t] = [pid |-> p, addr |-> a, new |-> r]
    BY <1>0, <1>1 DEF UpdateEnter, Goto
  <2>3. LocalOK(t)' /\ HandlerOK(t)'
    BY <1>0, <1>1, <2>1, <2>2, GetMmType
       DEF LocalOK, HandlerOK, UpdateEnter, PC, Args, VmInv
  <2> HIDE DEF LocalType
  <2> QED  BY <2>1, <2>3, LocalStep
<1>2. CASE UpdateLock(t)
  <2>1. /\ StepOf(t) /\ UNCHANGED <<args, mm, vm, edited, todo, flush, entry>>
        /\ pc[t] = "u_lock" /\ pc'[t] = "u_walk"
    BY <1>0, <1>2 DEF UpdateLock, Goto, StepOf, localVars
  <2>2. LocalOK(t)' /\ HandlerOK(t)'
    BY <1>0, <2>1 DEF LocalOK, HandlerOK, PC
  <2> HIDE DEF LocalType
  <2> QED  BY <2>1, <2>2, LocalStep
<1>3. CASE UpdateWalk(t)
  <2> DEFINE m == get_mm(args[t].pid)
             old == walk(m, args[t].addr)
  <2>1. /\ StepOf(t) /\ UNCHANGED <<args, mm, flush, entry>>
        /\ pc[t] = "u_walk" /\ pc'[t] = "u_write" /\ edited'[t] = m
        /\ vm'[t] = old /\ todo'[t] = DOMAIN old \cap DOMAIN args[t].new
    BY <1>0, <1>3 DEF UpdateWalk, Goto, StepOf
  <2>2. m \in Mm \cup {NoMm} /\ args[t].addr \in Addr
    BY <1>0, GetMmType DEF VmInv, LocalOK, Args
  <2>3. IsPartial(old, Slot)
    BY <2>2, WalkPartial DEF VmInv
  <2> HIDE DEF m, old
  <2>4. todo'[t] \subseteq Level
    BY <2>1, <2>3 DEF IsPartial
  <2>5. LocalOK(t)' /\ HandlerOK(t)'
    BY <1>0, <2>1, <2>2, <2>3, <2>4 DEF LocalOK, HandlerOK, PC
  <2> HIDE DEF LocalType
  <2> QED  BY <2>1, <2>5, LocalStep
<1>4. CASE UpdateWrite(t)
  <2>1. /\ StepOf(t) /\ UNCHANGED <<pc, args, mm, vm, edited, flush, entry>>
        /\ pc[t] = "u_write" /\ todo'[t] \subseteq todo[t]
    BY <1>0, <1>4 DEF UpdateWrite, StepOf
  <2>2. LocalOK(t)' /\ HandlerOK(t)'
    BY <1>0, <2>1 DEF LocalOK, HandlerOK, PC
  <2> HIDE DEF LocalType
  <2> QED  BY <2>1, <2>2, LocalStep
<1>5. CASE UpdateUnlock(t)
  BY <1>5, ReturnStep DEF UpdateUnlock
<1> QED  BY <1>1, <1>2, <1>3, <1>4, <1>5

LEMMA FlushMmType ==
  ASSUME TypeOK, NEW t \in Task, NEW p \in Pid
  PROVE  FlushMm(t, p) \in Mm \cup {NoMm, AllMm}
BY VmEditAssumption DEF TypeOK, FlushMm, get_mm

\* The flush of VM_UPDATE, and INVALIDATE_TLB.
LEMMA FlushLocal ==
  ASSUME VmInv, NEW t \in Task,
         \/ \E p \in Pid, a \in Addr : InvalidateTlb(t, p, a)
         \/ UpdateFlush(t) \/ FlushDone(t) \/ \E c \in Cpu : FlushCpu(t, c)
  PROVE  LocalType' /\ HandlerInv'
<1>0. LocalType /\ HandlerInv /\ LocalOK(t) /\ HandlerOK(t)
  BY TypeParts DEF VmInv, HandlerInv, LocalType
<1> USE DEF LocalType, PerTask
<1>1. ASSUME NEW p \in Pid, NEW a \in Addr, InvalidateTlb(t, p, a)
      PROVE  LocalType' /\ HandlerInv'
  <2>1. StepOf(t) /\ UNCHANGED <<mm, vm, edited, entry>>
    BY <1>0, <1>1 DEF InvalidateTlb, Goto, StepOf
  <2>2. /\ pc[t] = "user" /\ pc'[t] = "ipi" /\ flush'[t] = FlushMm(t, p) /\ todo'[t] = Cpu
        /\ args'[t] = [pid |-> p, addr |-> a, new |-> <<>>]
    BY <1>0, <1>1 DEF InvalidateTlb, Goto
  <2>3. flush'[t] \in Mm \cup {NoMm, AllMm}
    BY <2>2, FlushMmType DEF VmInv
  <2>a. args'[t] \in Args
    BY <2>2 DEF Args
  <2>4. LocalOK(t)' /\ HandlerOK(t)'
    BY <1>0, <2>1, <2>2, <2>3, <2>a DEF LocalOK, HandlerOK, PC
  <2> HIDE DEF LocalType
  <2> QED  BY <2>1, <2>4, LocalStep
<1>2. CASE UpdateFlush(t)
  <2> DEFINE cpus == IF flush'[t] = NoMm THEN {} ELSE Cpu
  <2>0. /\ todo' = [todo EXCEPT ![t] = cpus] /\ cpus \subseteq Cpu
        /\ flush' = [flush EXCEPT ![t] = FlushMm(t, args[t].pid)]
    BY <1>2 DEF UpdateFlush
  <2> HIDE DEF cpus
  <2>1. /\ StepOf(t) /\ UNCHANGED <<args, mm, vm, edited, entry>>
        /\ pc[t] = "u_write" /\ pc'[t] = "ipi" /\ todo'[t] \subseteq Cpu
        /\ flush'[t] = FlushMm(t, args[t].pid)
    BY <1>0, <1>2, <2>0 DEF UpdateFlush, Goto, StepOf
  <2>2. flush'[t] \in Mm \cup {NoMm, AllMm}
    BY <1>0, <2>1, FlushMmType DEF VmInv, LocalOK, Args
  <2>3. LocalOK(t)' /\ HandlerOK(t)'
    BY <1>0, <2>1, <2>2 DEF LocalOK, HandlerOK, PC
  <2> HIDE DEF LocalType
  <2> QED  BY <2>1, <2>3, LocalStep
<1>3. CASE FlushDone(t)
  <2>1. CASE Return(t)
    BY <2>1, ReturnStep
  <2>2. CASE Goto(t, "u_unlock") /\ UNCHANGED localVars
    <3>1. /\ StepOf(t) /\ UNCHANGED <<args, mm, vm, edited, todo, flush, entry>>
          /\ pc[t] = "ipi" /\ pc'[t] = "u_unlock"
      BY <1>0, <1>3, <2>2 DEF FlushDone, Goto, StepOf, localVars
    <3>2. LocalOK(t)' /\ HandlerOK(t)'
      BY <1>0, <3>1 DEF LocalOK, HandlerOK, PC
    <3> HIDE DEF LocalType
    <3> QED  BY <3>1, <3>2, LocalStep
  <2> QED  BY <1>3, <2>1, <2>2 DEF FlushDone
<1>4. ASSUME NEW c \in Cpu, FlushCpu(t, c)
      PROVE  LocalType' /\ HandlerInv'
  <2>1. /\ StepOf(t) /\ UNCHANGED <<pc, args, mm, vm, edited, flush, entry>>
        /\ pc[t] = "ipi" /\ todo'[t] = todo[t] \ {c}
    BY <1>0, <1>4 DEF FlushCpu, StepOf
  <2>2. LocalOK(t)' /\ HandlerOK(t)'
    BY <1>0, <2>1 DEF LocalOK, HandlerOK, PC
  <2> HIDE DEF LocalType
  <2> QED  BY <2>1, <2>2, LocalStep
<1> QED  BY <1>1, <1>2, <1>3, <1>4

\* munmap
LEMMA MunmapLocal ==
  ASSUME VmInv, NEW t \in Task,
         (\E a \in Addr : MunmapBegin(t, a)) \/ MunmapClear(t) \/ MunmapFree(t)
  PROVE  LocalType' /\ HandlerInv'
<1>0. LocalType /\ HandlerInv /\ LocalOK(t) /\ HandlerOK(t)
  BY TypeParts DEF VmInv, HandlerInv, LocalType
<1> USE DEF LocalType, PerTask
<1>1. ASSUME NEW a \in Addr, MunmapBegin(t, a)
      PROVE  LocalType' /\ HandlerInv'
  <2> DEFINE m == mmOf[current[t]]
  <2>1. /\ StepOf(t) /\ UNCHANGED <<args, edited, todo, flush, entry>>
        /\ pc[t] = "user" /\ pc'[t] = "m_clear" /\ mm'[t] = m
        /\ vm'[t] = walk(m, a) /\ PTE \in DOMAIN walk(m, a)
    BY <1>0, <1>1 DEF MunmapBegin, Goto, StepOf
  <2>2. m \in Mm \cup {NoMm}
    BY VmEditAssumption DEF VmInv, TypeOK
  <2>3. IsPartial(vm'[t], Slot)
    BY <2>1, <2>2, WalkPartial DEF VmInv
  <2> HIDE DEF m
  <2>4. LocalOK(t)' /\ HandlerOK(t)'
    BY <1>0, <2>1, <2>2, <2>3 DEF LocalOK, HandlerOK, PC
  <2> HIDE DEF LocalType
  <2> QED  BY <2>1, <2>4, LocalStep
<1>2. CASE MunmapClear(t)
  <2>1. /\ StepOf(t) /\ UNCHANGED <<args, mm, vm, edited, todo, flush, entry>>
        /\ pc[t] = "m_clear" /\ pc'[t] = "m_free"
    BY <1>0, <1>2 DEF MunmapClear, Goto, StepOf, localVars
  <2>2. LocalOK(t)' /\ HandlerOK(t)'
    BY <1>0, <2>1 DEF LocalOK, HandlerOK, PC
  <2> HIDE DEF LocalType
  <2> QED  BY <2>1, <2>2, LocalStep
<1>3. CASE MunmapFree(t)
  BY <1>3, ReturnStep DEF MunmapFree
<1> QED  BY <1>1, <1>2, <1>3

LEMMA EntriesOfKernel ==
  /\ None \in Entry
  /\ \A f \in Frame : Table(f) \in Entry /\ Leaf(f) \in Entry
BY DEF None, Table, Leaf, Entry

\* What update_vm writes is an entry.
LEMMA WrittenType ==
  ASSUME VmInv, NEW t \in Task, pc[t] = "u_write", todo[t] # {}
  PROVE  LET l == CHOOSE k \in todo[t] : \A j \in todo[t] : k <= j
         IN /\ l \in todo[t] /\ l \in DOMAIN vm[t] /\ vm[t][l] \in Slot
            /\ l \in DOMAIN args[t].new /\ args[t].new[l] \in Entry
<1> DEFINE l == CHOOSE k \in todo[t] : \A j \in todo[t] : k <= j
<1>1. todo[t] \subseteq DOMAIN vm[t] \cap DOMAIN args[t].new
  BY DEF VmInv, HandlerInv, HandlerOK
<1>2. IsPartial(vm[t], Slot) /\ IsPartial(args[t].new, Entry)
  BY NewPartial DEF VmInv, TypeOK
<1>3. todo[t] \subseteq Level
  BY <1>1, <1>2 DEF IsPartial
<1>4. l \in todo[t]
  BY <1>3, LeastLevel
<1> HIDE DEF l
<1>5. l \in DOMAIN vm[t] /\ l \in DOMAIN args[t].new
  BY <1>1, <1>4
<1>6. vm[t][l] \in Slot /\ args[t].new[l] \in Entry
  BY <1>2, <1>5 DEF IsPartial
<1> QED  BY <1>4, <1>5, <1>6 DEF l

LEMMA SharedInductive ==
  ASSUME VmInv, [Next]_vars
  PROVE  SharedType'
<1>0. SharedType
  BY TypeParts DEF VmInv
<1>1. ASSUME NEW t \in Task, NEW p \in Pid, NEW a \in Addr,
             \/ ResolveEnter(t, p, a) \/ InvalidateTlb(t, p, a)
             \/ \E r \in Requests : UpdateEnter(t, p, a, r)
      PROVE  SharedType'
  BY <1>0, <1>1 DEF SharedType, ResolveEnter, InvalidateTlb, UpdateEnter,
                    memVars, lockVars, tlbVars
<1>2. ASSUME NEW t \in Task,
             \/ ResolveWalk(t) \/ ResolveCopy(t) \/ ResolveReturn(t) \/ UpdateWalk(t)
             \/ UpdateFlush(t) \/ FlushDone(t)
      PROVE  SharedType'
  <2>1. UNCHANGED <<memVars, lockVars, tlbVars>>
    BY <1>2 DEF ResolveWalk, ResolveCopy, ResolveReturn, UpdateWalk, UpdateFlush, FlushDone
  <2> QED  BY <1>0, <2>1 DEF SharedType, memVars, lockVars, tlbVars
<1>3. ASSUME NEW t \in Task,
             ResolveLock(t) \/ ResolveUnlock(t) \/ UpdateLock(t) \/ UpdateUnlock(t)
      PROVE  SharedType'
  <2>1. UNCHANGED <<memVars, tlbVars>>
    BY <1>3 DEF ResolveLock, ResolveUnlock, UpdateLock, UpdateUnlock
  <2>2. writer' \in [Mm -> Task \cup {NoTask}]
    BY <1>0, <1>3 DEF SharedType, ResolveLock, ResolveUnlock, UpdateLock, UpdateUnlock,
                      ReadLock, ReadUnlock, WriteLock, WriteUnlock
  <2>3. readers' \in [Mm -> SUBSET Task]
    BY <1>0, <1>3 DEF SharedType, ResolveLock, ResolveUnlock, UpdateLock, UpdateUnlock,
                      ReadLock, ReadUnlock, WriteLock, WriteUnlock
  <2> QED  BY <1>0, <2>1, <2>2, <2>3 DEF SharedType, memVars, tlbVars
<1>4. ASSUME NEW t \in Task, UpdateWrite(t) PROVE SharedType'
  <2> DEFINE l == CHOOSE k \in todo[t] : \A j \in todo[t] : k <= j
  <2>1. args[t].new[l] \in Entry
    BY <1>4, WrittenType DEF UpdateWrite
  <2>2. mem' = Write(mem, vm[t][l], args[t].new[l])
    BY <1>4 DEF UpdateWrite
  <2>3. exposed' \subseteq Cpu \X Mm \X Addr
    BY <1>0, <1>4 DEF UpdateWrite, Outdated, SharedType
  <2> HIDE DEF l
  <2>4. mem' \in Memory
    BY <1>0, <2>1, <2>2, WriteType DEF SharedType
  <2> QED  BY <1>0, <1>4, <2>3, <2>4 DEF SharedType, UpdateWrite, lockVars
<1>5. ASSUME NEW t \in Task, NEW c \in Cpu, FlushCpu(t, c) PROVE SharedType'
  <2>1. tlb' \in [Cpu -> [Mm \X Addr -> Translation]]
    BY <1>0, <1>5 DEF FlushCpu, SharedType, Translation
  <2> QED  BY <1>0, <1>5, <2>1 DEF SharedType, FlushCpu, memVars, lockVars
<1>6. ASSUME NEW t \in Task, NEW impl \in {"kernel", "custom"},
             SwitchTlbInvalidation(t, impl)
      PROVE  SharedType'
  BY <1>0, <1>6 DEF SharedType, SwitchTlbInvalidation, memVars, lockVars
<1>7. ASSUME NEW t \in Task, NEW a \in Addr, MunmapBegin(t, a) PROVE SharedType'
  BY <1>0, <1>7 DEF SharedType, MunmapBegin, WriteLock, memVars, tlbVars
<1>8. ASSUME NEW t \in Task, MunmapClear(t) PROVE SharedType'
  <2>1. mem' \in Memory
    BY <1>0, <1>8, WriteType, EntriesOfKernel DEF MunmapClear, SharedType
  <2>2. exposed' \subseteq Cpu \X Mm \X Addr
    BY <1>0, <1>8 DEF MunmapClear, Outdated, SharedType
  <2> QED  BY <1>0, <1>8, <2>1, <2>2 DEF SharedType, MunmapClear, lockVars
<1>9. ASSUME NEW t \in Task, MunmapFree(t) PROVE SharedType'
  <2>1. IsPartial(vm[t], Slot) /\ PTE \in DOMAIN vm[t]
    BY <1>9 DEF MunmapFree, VmInv, TypeOK, HandlerInv, HandlerOK
  <2>2. vm[t][PTE] \in Slot
    BY <2>1 DEF IsPartial
  <2>3. free' \subseteq Frame
    BY <1>0, <1>9, <2>2 DEF MunmapFree, SharedType, Slot
  <2>4. tlb' \in [Cpu -> [Mm \X Addr -> Translation]]
    BY <1>0, <1>9 DEF MunmapFree, SharedType, Translation
  <2> QED  BY <1>0, <1>9, <2>3, <2>4 DEF SharedType, MunmapFree, WriteUnlock
<1>10. ASSUME NEW c \in Cpu, NEW m \in Mm, NEW a \in Addr, TlbFill(c, m, a)
       PROVE  SharedType'
  <2>1. translate(m, a) \in Translation
    BY TranslateMm DEF VmInv
  <2>2. tlb' \in [Cpu -> [Mm \X Addr -> Translation]]
    BY <1>0, <1>10, <2>1 DEF TlbFill, SharedType
  <2> QED  BY <1>0, <1>10, <2>2 DEF SharedType, TlbFill, memVars, lockVars
<1>11. ASSUME NEW m \in Mm, NEW a \in Addr, PageFault(m, a) PROVE SharedType'
  <2>1. page[a] \in Frame
    BY VmEditAssumption
  <2>2. mem' \in Memory /\ free' \subseteq Frame
    <3> DEFINE slots == walk(m, a)
    <3>1. CASE mem' = Write(mem, slots[PTE], Leaf(page[a])) /\ UNCHANGED free
      BY <1>0, <2>1, <3>1, WriteType, EntriesOfKernel DEF SharedType
    <3>2. ASSUME NEW f \in free, free' = free \ {f},
                 mem' = [Write(mem, Slots(mem, mm_pgd[m], a)[PMD], Table(f))
                           EXCEPT ![f] = [i \in Index |->
                             IF i = index[a][PTE] THEN Leaf(page[a]) ELSE None]]
          PROVE  mem' \in Memory /\ free' \subseteq Frame
      <4>1. Write(mem, Slots(mem, mm_pgd[m], a)[PMD], Table(f)) \in Memory
        BY <1>0, WriteType, EntriesOfKernel DEF SharedType
      <4>2. [i \in Index |-> IF i = index[a][PTE] THEN Leaf(page[a]) ELSE None]
              \in [Index -> Entry]
        BY <2>1, EntriesOfKernel
      <4> QED  BY <1>0, <3>2, <4>1, <4>2 DEF Memory, SharedType
    <3> QED  BY <1>11, <3>1, <3>2 DEF PageFault
  <2>3. exposed' \subseteq Cpu \X Mm \X Addr
    BY <1>0, <1>11 DEF PageFault, Outdated, SharedType
  <2> QED  BY <1>0, <1>11, <2>2, <2>3 DEF SharedType, PageFault, lockVars
<1>12. ASSUME NEW p \in Pid, NEW m \in Mm, Exec(p, m) PROVE SharedType'
  <2>1. tlb' \in [Cpu -> [Mm \X Addr -> Translation]]
    BY <1>0, <1>12 DEF Exec, SharedType, Translation
  <2>2. exposed' \subseteq Cpu \X Mm \X Addr
    BY <1>0, <1>12 DEF Exec, LostFlushes, SharedType
  <2> QED  BY <1>0, <1>12, <2>1, <2>2 DEF SharedType, Exec
<1>14. ASSUME NEW p \in Pid, Exit(p) PROVE SharedType'
  <2>1. exposed' \subseteq Cpu \X Mm \X Addr
    BY <1>0, <1>14 DEF Exit, LostFlushes, SharedType
  <2>2. mmOf' \in [Pid -> Mm \cup {NoMm}] /\ activeMm' \in [Pid -> Mm \cup {NoMm}]
    BY <1>0, <1>14 DEF Exit, SharedType
  <2> QED  BY <1>0, <1>14, <2>1, <2>2 DEF SharedType, Exit, lockVars
<1>15. ASSUME NEW p \in Pid, NEW m \in Mm \cup {NoMm}, Borrow(p, m) PROVE SharedType'
  BY <1>0, <1>15 DEF SharedType, Borrow, lockVars, tlbVars
<1>13. CASE UNCHANGED vars
  BY <1>0, <1>13 DEF SharedType, vars
<1> QED  BY <1>1, <1>2, <1>3, <1>4, <1>5, <1>6, <1>7, <1>8, <1>9, <1>10, <1>11, <1>12,
            <1>13, <1>14, <1>15 DEF Next

-----------------------------------------------------------------------------
(* TypeOK                                                                  *)

LEMMA VmInvInductive ==
  ASSUME VmInv, [Next]_vars
  PROVE  VmInv'
<1>0. LocalType /\ HandlerInv
  BY TypeParts DEF VmInv
<1>1. CASE UNCHANGED <<pc, localVars>>
  <2>1. LocalType'
    BY <1>0, <1>1 DEF LocalType, LocalOK, PerTask, localVars
  <2>2. HandlerInv'
    BY <1>0, <1>1 DEF HandlerInv, HandlerOK, localVars
  <2>3. TypeOK'
    BY <2>1, SharedInductive, TypeParts, PTL
  <2> QED  BY <2>2, <2>3 DEF VmInv
<1>2. CASE LocalType' /\ HandlerInv'
  <2>1. SharedType'
    BY SharedInductive
  <2>2. TypeOK'
    BY <1>2, <2>1, TypeParts, PTL
  <2> QED  BY <1>2, <2>2 DEF VmInv
<1>3. ASSUME NEW t \in Task, NEW impl \in {"kernel", "custom"},
             SwitchTlbInvalidation(t, impl)
      PROVE  UNCHANGED <<pc, localVars>>
  BY <1>3 DEF SwitchTlbInvalidation
<1>4. ASSUME \/ \E c \in Cpu, m \in Mm, a \in Addr : TlbFill(c, m, a)
             \/ \E m \in Mm, a \in Addr : PageFault(m, a)
             \/ \E p \in Pid : (\E m \in Mm : Exec(p, m)) \/ Exit(p)
             \/ \E p \in Pid, m \in Mm \cup {NoMm} : Borrow(p, m)
      PROVE  UNCHANGED <<pc, localVars>>
  BY <1>4 DEF TlbFill, PageFault, Exec, Exit, Borrow
<1>5. CASE UNCHANGED vars
  BY <1>1, <1>5 DEF vars, localVars
<1> QED  BY <1>1, <1>2, <1>3, <1>4, <1>5, ResolveLocal, UpdateLocal, FlushLocal,
            MunmapLocal DEF Next

LEMMA VmInvariant == Spec => []VmInv
<1>1. Init => VmInv
  <2> SUFFICES ASSUME Init PROVE VmInv
    OBVIOUS
  <2> USE VmEditAssumption
  <2>1. \A t \in Task : LocalOK(t) /\ HandlerOK(t)
    BY NoArgsType, EmptyPartial DEF Init, LocalOK, HandlerOK, PC
  <2>2. LocalType
    BY <2>1 DEF Init, LocalType, PerTask
  <2>3. tlb \in [Cpu -> [Mm \X Addr -> Translation]]
    BY DEF Init, Translation
  <2>4. SharedType
    BY <2>3 DEF Init, SharedType
  <2> QED  BY <2>1, <2>2, <2>4, TypeParts DEF VmInv, HandlerInv
<1>2. VmInv /\ [Next]_vars => VmInv'
  BY VmInvInductive
<1> QED  BY <1>1, <1>2, PTL DEF Spec

\* The handlers, the kernel and the CPUs keep to their types; in particular a
\* pointer of vm_t that resolve_vm reports as valid points into a frame.
THEOREM VmTypeCorrect == Spec => []TypeOK
BY VmInvariant, PTL DEF VmInv

-----------------------------------------------------------------------------
(* On x86 nobody switches to the custom invalidation                       *)

LEMMA KernelInductive ==
  ASSUME Arch = "x86", invalidate_tlb = "kernel", [Next]_vars
  PROVE  invalidate_tlb' = "kernel"
<1>1. ASSUME NEW t \in Task, NEW impl \in {"kernel", "custom"},
             SwitchTlbInvalidation(t, impl)
      PROVE  invalidate_tlb' = "kernel"
  BY <1>1 DEF SwitchTlbInvalidation
<1>2. ASSUME NEW t \in Task, NEW p \in Pid, NEW a \in Addr,
             \/ ResolveEnter(t, p, a) \/ InvalidateTlb(t, p, a)
             \/ \E r \in Requests : UpdateEnter(t, p, a, r)
      PROVE  UNCHANGED invalidate_tlb
  BY <1>2 DEF ResolveEnter, InvalidateTlb, UpdateEnter, tlbVars
<1>3. ASSUME NEW t \in Task,
             \/ ResolveLock(t) \/ ResolveWalk(t) \/ ResolveUnlock(t)
             \/ ResolveCopy(t) \/ ResolveReturn(t)
             \/ UpdateLock(t) \/ UpdateWalk(t) \/ UpdateWrite(t)
             \/ UpdateFlush(t) \/ FlushDone(t) \/ UpdateUnlock(t)
             \/ (\E c \in Cpu : FlushCpu(t, c)) \/ (\E a \in Addr : MunmapBegin(t, a))
             \/ MunmapClear(t) \/ MunmapFree(t)
      PROVE  UNCHANGED invalidate_tlb
  BY <1>3 DEF ResolveLock, ResolveWalk, ResolveUnlock, ResolveCopy, ResolveReturn,
              UpdateLock, UpdateWalk, UpdateWrite, UpdateFlush, FlushDone, UpdateUnlock,
              FlushCpu, MunmapBegin, MunmapClear, MunmapFree, tlbVars
<1>4. ASSUME \/ \E c \in Cpu, m \in Mm, a \in Addr : TlbFill(c, m, a)
             \/ \E m \in Mm, a \in Addr : PageFault(m, a)
             \/ \E p \in Pid : (\E m \in Mm : Exec(p, m)) \/ Exit(p)
             \/ \E p \in Pid, m \in Mm \cup {NoMm} : Borrow(p, m)
             \/ UNCHANGED vars
      PROVE  UNCHANGED invalidate_tlb
  BY <1>4 DEF TlbFill, PageFault, Exec, Exit, Borrow, tlbVars, vars
<1> QED  BY <1>1, <1>2, <1>3, <1>4 DEF Next

-----------------------------------------------------------------------------
(* TlbCoherent                                                             *)

Pending(c, m, a) == \E t \in Task : FlushPending(t, c, m, a)

\* A step of a task that is not about to flush, and that touches neither memory
\* nor the TLBs.
LEMMA CoherentStep ==
  ASSUME VmInv, TlbCoherent, NEW t \in Task, StepOf(t),
         UNCHANGED <<mem, mmOf, tlb, exposed>>,
         \A c \in Cpu, m \in LiveMm, a \in Addr :
           FlushPending(t, c, m, a) => FlushPending(t, c, m, a)'
  PROVE  TlbCoherent'
<1>0. LocalType
  BY TypeParts DEF VmInv
<1>1. \A u \in Task \ {t} : /\ pc'[u] = pc[u] /\ args'[u] = args[u] /\ mm'[u] = mm[u]
                            /\ edited'[u] = edited[u] /\ todo'[u] = todo[u]
                            /\ flush'[u] = flush[u]
  BY <1>0 DEF StepOf, LocalType, PerTask
<1>2. ASSUME NEW u \in Task, NEW c \in Cpu, NEW m \in LiveMm, NEW a \in Addr,
             FlushPending(u, c, m, a)
      PROVE  FlushPending(u, c, m, a)'
  <2>1. CASE u = t
    BY <1>2, <2>1
  <2>2. CASE u # t
    BY <1>1, <1>2, <2>2 DEF FlushPending, Flushed
  <2> QED  BY <2>1, <2>2
<1>3. LiveMm' = LiveMm /\ \A m, a : translate(m, a)' = translate(m, a)
  BY DEF LiveMm, translate
<1> QED  BY <1>2, <1>3 DEF TlbCoherent

\* A step that writes to memory: what it makes stale is exposed or about to be
\* flushed.
LEMMA CoherentWrite ==
  ASSUME VmInv, TlbCoherent, UNCHANGED <<tlb, mmOf>>, NEW pages,
         exposed \cup Outdated(mem', pages) \subseteq exposed',
         \A c \in Cpu, m \in LiveMm, a \in Addr :
           Pending(c, m, a) \/ <<m, a>> \in pages => Pending(c, m, a)'
  PROVE  TlbCoherent'
<1>1. LiveMm' = LiveMm /\ LiveMm \subseteq Mm
  BY DEF LiveMm, VmInv, TypeOK
<1>2. ASSUME NEW c \in Cpu, NEW m \in LiveMm, NEW a \in Addr
      PROVE  \/ tlb[c][<<m, a>>] \in {Fault, Translate(mem', mm_pgd[m], a)}
             \/ <<c, m, a>> \in exposed'
             \/ Pending(c, m, a)'
  <2>1. CASE Pending(c, m, a) \/ <<m, a>> \in pages
    BY <2>1
  <2>2. CASE <<c, m, a>> \in exposed
    BY <2>2
  <2>3. CASE tlb[c][<<m, a>>] \in {Fault, translate(m, a)} /\ <<m, a>> \notin pages
    <3>1. <<c, m, a>> \in Cpu \X Mm \X Addr
      BY <1>1
    <3> QED  BY <2>3, <3>1 DEF Outdated
  <2> QED  BY <2>1, <2>2, <2>3 DEF TlbCoherent, Pending
<1> QED  BY <1>1, <1>2 DEF TlbCoherent, Pending, translate

\* A step that only makes CPUs forget, and then forgets what was exposed there.
LEMMA CoherentForget ==
  ASSUME VmInv, TlbCoherent, UNCHANGED mem, LiveMm' \subseteq Mm,
         \A c \in Cpu, m \in LiveMm', a \in Addr :
           \/ tlb'[c][<<m, a>>] = Fault
           \/ /\ m \in LiveMm /\ tlb'[c][<<m, a>>] = tlb[c][<<m, a>>]
              /\ <<c, m, a>> \in exposed => <<c, m, a>> \in exposed'
              /\ Pending(c, m, a) => Pending(c, m, a)'
  PROVE  TlbCoherent'
<1>1. \A m, a : translate(m, a)' = translate(m, a)
  BY DEF translate
<1> QED  BY <1>1 DEF TlbCoherent, Pending

LEMMA CoherentInductive ==
  ASSUME Arch = "x86", VmInv, invalidate_tlb = "kernel", TlbCoherent, [Next]_vars
  PROVE  TlbCoherent'
<1>0. LocalType /\ \A t \in Task : LocalOK(t) /\ HandlerOK(t)
  BY TypeParts DEF VmInv, HandlerInv, LocalType
<1>1. ASSUME NEW t \in Task, NEW p \in Pid, NEW a \in Addr,
             \/ ResolveEnter(t, p, a) \/ \E r \in Requests : UpdateEnter(t, p, a, r)
             \/ InvalidateTlb(t, p, a) \/ MunmapBegin(t, a)
      PROVE  TlbCoherent'
  <2>1. StepOf(t) /\ pc[t] = "user"
    BY <1>0, <1>1 DEF ResolveEnter, UpdateEnter, InvalidateTlb, MunmapBegin, Goto, StepOf,
                      LocalType, PerTask
  <2>2. UNCHANGED <<mem, mmOf, tlb, exposed>>
    BY <1>1 DEF ResolveEnter, UpdateEnter, InvalidateTlb, MunmapBegin, memVars, tlbVars
  <2> QED  BY <2>1, <2>2, CoherentStep DEF FlushPending
<1>2. ASSUME NEW t \in Task,
             \/ ResolveLock(t) \/ ResolveWalk(t) \/ ResolveUnlock(t) \/ ResolveCopy(t)
             \/ UpdateLock(t) \/ UpdateWalk(t)
      PROVE  TlbCoherent'
  <2>1. StepOf(t) /\ pc[t] \notin {"u_write", "ipi", "m_free"}
    BY <1>0, <1>2 DEF ResolveLock, ResolveWalk, ResolveUnlock, ResolveCopy, UpdateLock,
                      UpdateWalk, Goto, StepOf, LocalType, PerTask, localVars
  <2>2. UNCHANGED <<mem, mmOf, tlb, exposed>>
    BY <1>2 DEF ResolveLock, ResolveWalk, ResolveUnlock, ResolveCopy, UpdateLock,
                UpdateWalk, memVars, tlbVars
  <2> QED  BY <2>1, <2>2, CoherentStep DEF FlushPending
<1>3. ASSUME NEW t \in Task, Return(t) PROVE StepOf(t)
  BY <1>0, <1>3 DEF Return, Goto, StepOf, LocalType, PerTask
<1>4. ASSUME NEW t \in Task, ResolveReturn(t) \/ UpdateUnlock(t) PROVE TlbCoherent'
  <2>1. StepOf(t) /\ pc[t] \notin {"u_write", "ipi", "m_free"}
    BY <1>3, <1>4 DEF ResolveReturn, UpdateUnlock
  <2>2. UNCHANGED <<mem, mmOf, tlb, exposed>>
    BY <1>4 DEF ResolveReturn, UpdateUnlock, memVars, tlbVars
  <2> QED  BY <2>1, <2>2, CoherentStep DEF FlushPending
<1>5. ASSUME NEW t \in Task, FlushDone(t) PROVE TlbCoherent'
  <2>1. pc[t] = "ipi" /\ todo[t] = {} /\ UNCHANGED <<mem, mmOf, tlb, exposed>>
    BY <1>5 DEF FlushDone, memVars, tlbVars
  <2>2. ASSUME Goto(t, "u_unlock"), UNCHANGED localVars PROVE StepOf(t)
    BY <1>0, <2>2 DEF Goto, StepOf, LocalType, PerTask, localVars
  <2>3. StepOf(t)
    BY <1>3, <1>5, <2>2 DEF FlushDone
  <2> QED  BY <2>1, <2>3, CoherentStep DEF FlushPending
<1>6. ASSUME NEW t \in Task, UpdateFlush(t) PROVE TlbCoherent'
  <2> DEFINE cpus == IF flush'[t] = NoMm THEN {} ELSE Cpu
  <2>0. /\ pc[t] = "u_write"
        /\ flush' = [flush EXCEPT ![t] = FlushMm(t, args[t].pid)]
        /\ todo' = [todo EXCEPT ![t] = cpus] /\ (flush'[t] # NoMm => cpus = Cpu)
        /\ UNCHANGED <<mem, mmOf, tlb, exposed, args, mm, vm, edited, entry>>
    BY <1>6 DEF UpdateFlush, memVars, tlbVars
  <2> HIDE DEF cpus
  <2>1. StepOf(t) /\ pc'[t] = "ipi" /\ todo'[t] = cpus
    BY <1>0, <1>6, <2>0 DEF UpdateFlush, Goto, StepOf, LocalType, PerTask
  <2>2. flush'[t] = get_mm(args[t].pid)
    BY <1>0, <2>0 DEF LocalType, PerTask, FlushMm
  <2>3. ASSUME NEW c \in Cpu, NEW m \in LiveMm, NEW a \in Addr, FlushPending(t, c, m, a)
        PROVE  FlushPending(t, c, m, a)'
    <3>1. mmOf[args[t].pid] = m /\ args[t].addr = a
      BY <2>0, <2>3 DEF FlushPending, Flushed
    <3>2. m # NoMm
      BY DEF LiveMm
    <3>3. flush'[t] = m /\ todo'[t] = Cpu
      BY <2>0, <2>1, <2>2, <3>1, <3>2 DEF get_mm
    <3> QED  BY <2>0, <2>1, <3>1, <3>3 DEF FlushPending
  <2> QED  BY <2>0, <2>1, <2>3, CoherentStep
<1>7. ASSUME NEW t \in Task, UpdateWrite(t) PROVE TlbCoherent'
  <2>1. PICK pages : pages = Flushed(t)
    OBVIOUS
  <2>2. /\ pc[t] = "u_write" /\ UNCHANGED <<pc, args, mm, edited, flush, tlb, mmOf>>
        /\ exposed' = exposed \cup Outdated(mem', pages)
        /\ \A u \in Task \ {t} : todo'[u] = todo[u]
    BY <1>0, <1>7, <2>1 DEF UpdateWrite, LocalType, PerTask
  <2>3. ASSUME NEW c \in Cpu, NEW m \in LiveMm, NEW a \in Addr, Pending(c, m, a)
        PROVE  Pending(c, m, a)'
    BY <2>2, <2>3 DEF Pending, FlushPending, Flushed
  <2>5. ASSUME NEW c \in Cpu, NEW m \in LiveMm, NEW a \in Addr, <<m, a>> \in pages
        PROVE  Pending(c, m, a)'
    BY <2>1, <2>2, <2>5 DEF Pending, FlushPending, Flushed
  <2> QED  BY <2>2, <2>3, <2>5, CoherentWrite
<1>8. ASSUME NEW t \in Task, NEW c \in Cpu, FlushCpu(t, c) PROVE TlbCoherent'
  <2>1. /\ pc[t] = "ipi" /\ UNCHANGED <<pc, args, mm, edited, flush, mem, mmOf>>
        /\ todo'[t] = todo[t] \ {c} /\ \A u \in Task \ {t} : todo'[u] = todo[u]
    BY <1>0, <1>8 DEF FlushCpu, LocalType, PerTask, memVars
  <2>2. LiveMm' = LiveMm /\ LiveMm \subseteq Mm
    BY <2>1 DEF LiveMm, VmInv, TypeOK
  <2>3. ASSUME NEW d \in Cpu, NEW m \in LiveMm, NEW a \in Addr
        PROVE  tlb'[d][<<m, a>>] =
                 IF d = c /\ (flush[t] = AllMm \/ <<m, a>> = <<flush[t], args[t].addr>>)
                 THEN Fault ELSE tlb[d][<<m, a>>]
    BY <1>8, <2>2 DEF FlushCpu, VmInv, TypeOK
  <2>4. ASSUME NEW d \in Cpu, NEW m \in LiveMm, NEW a \in Addr,
               d # c \/ (flush[t] # AllMm /\ <<m, a>> # <<flush[t], args[t].addr>>)
        PROVE  /\ <<d, m, a>> \in exposed => <<d, m, a>> \in exposed'
               /\ Pending(d, m, a) => Pending(d, m, a)'
    <3>1. <<d, m, a>> \in exposed => <<d, m, a>> \in exposed'
      BY <1>8, <2>4 DEF FlushCpu
    <3>2. ASSUME NEW u \in Task, FlushPending(u, d, m, a)
          PROVE  FlushPending(u, d, m, a)'
      <4>1. CASE u # t
        BY <2>1, <3>2, <4>1 DEF FlushPending, Flushed
      <4>2. CASE u = t
        <5>1. d \in todo[t] /\ (flush[t] = AllMm \/ <<flush[t], args[t].addr>> = <<m, a>>)
          BY <2>1, <3>2, <4>2 DEF FlushPending
        <5>2. d # c
          BY <2>4, <5>1
        <5> QED  BY <2>1, <4>2, <5>1, <5>2 DEF FlushPending
      <4> QED  BY <4>1, <4>2
    <3> QED  BY <3>1, <3>2 DEF Pending
  <2>5. ASSUME NEW d \in Cpu, NEW m \in LiveMm, NEW a \in Addr
        PROVE  \/ tlb'[d][<<m, a>>] = Fault
               \/ /\ tlb'[d][<<m, a>>] = tlb[d][<<m, a>>]
                  /\ <<d, m, a>> \in exposed => <<d, m, a>> \in exposed'
                  /\ Pending(d, m, a) => Pending(d, m, a)'
    BY <2>3, <2>4
  <2> QED  BY <2>1, <2>2, <2>5, CoherentForget
<1>9. ASSUME NEW t \in Task, MunmapClear(t) PROVE TlbCoherent'
  <2>1. PICK m0 : m0 = mm[t]
    OBVIOUS
  <2>2. /\ pc[t] = "m_clear" /\ pc'[t] = "m_free"
        /\ UNCHANGED <<args, mm, edited, todo, flush, tlb, mmOf>>
        /\ exposed' = exposed \cup Outdated(mem', {m0} \X Addr)
        /\ \A u \in Task \ {t} : pc'[u] = pc[u]
    BY <1>0, <1>9, <2>1 DEF MunmapClear, Goto, LocalType, PerTask, localVars
  <2>3. ASSUME NEW c \in Cpu, NEW m \in LiveMm, NEW a \in Addr, Pending(c, m, a)
        PROVE  Pending(c, m, a)'
    BY <2>2, <2>3 DEF Pending, FlushPending, Flushed
  <2>4. \A c \in Cpu, a \in Addr : Pending(c, m0, a)'
    BY <2>1, <2>2 DEF Pending, FlushPending
  <2>5. ASSUME NEW c \in Cpu, NEW m \in LiveMm, NEW a \in Addr, <<m, a>> \in {m0} \X Addr
        PROVE  Pending(c, m, a)'
    BY <2>4, <2>5
  <2> QED  BY <2>2, <2>3, <2>5, CoherentWrite
<1>10. ASSUME NEW t \in Task, MunmapFree(t) PROVE TlbCoherent'
  <2>1. /\ pc[t] = "m_free" /\ UNCHANGED <<mem, mmOf>>
        /\ \A x \in exposed : x[2] # mm[t] => x \in exposed'
    BY <1>10 DEF MunmapFree
  <2>2. \A u \in Task \ {t} : /\ pc'[u] = pc[u] /\ args'[u] = args[u] /\ mm'[u] = mm[u]
                              /\ edited'[u] = edited[u] /\ todo'[u] = todo[u]
                              /\ flush'[u] = flush[u]
    BY <1>0, <1>10 DEF MunmapFree, Return, Goto, LocalType, PerTask
  <2>3. LiveMm' = LiveMm /\ LiveMm \subseteq Mm
    BY <2>1 DEF LiveMm, VmInv, TypeOK
  <2>4. ASSUME NEW c \in Cpu, NEW m \in LiveMm, NEW a \in Addr
        PROVE  tlb'[c][<<m, a>>] = IF m = mm[t] THEN Fault ELSE tlb[c][<<m, a>>]
    BY <1>10, <2>3 DEF MunmapFree
  <2>5. ASSUME NEW c \in Cpu, NEW m \in LiveMm, NEW a \in Addr, m # mm[t]
        PROVE  /\ <<c, m, a>> \in exposed => <<c, m, a>> \in exposed'
               /\ Pending(c, m, a) => Pending(c, m, a)'
    <3>1. ~FlushPending(t, c, m, a)
      BY <2>1, <2>5 DEF FlushPending
    <3>2. Pending(c, m, a) => Pending(c, m, a)'
      BY <2>1, <2>2, <3>1 DEF Pending, FlushPending, Flushed
    <3> QED  BY <2>1, <2>5, <3>2
  <2> QED  BY <2>1, <2>3, <2>4, <2>5, CoherentForget
<1>11. ASSUME NEW c \in Cpu, NEW m \in Mm, NEW a \in Addr, TlbFill(c, m, a)
       PROVE  TlbCoherent'
  <2>1. UNCHANGED <<mem, mmOf, pc, args, mm, edited, todo, flush>>
    BY <1>11 DEF TlbFill, memVars, localVars
  <2>2. LiveMm' = LiveMm /\ \A n, b : translate(n, b)' = translate(n, b)
    BY <2>1 DEF LiveMm, translate
  <2>3. /\ tlb'[c][<<m, a>>] = translate(m, a)
        /\ \A d \in Cpu, n \in Mm, b \in Addr :
             <<d, n, b>> # <<c, m, a>> => tlb'[d][<<n, b>>] = tlb[d][<<n, b>>]
    BY <1>11 DEF TlbFill, VmInv, TypeOK
  <2>4. \A d, n, b : /\ <<d, n, b>> # <<c, m, a>> /\ <<d, n, b>> \in exposed =>
                          <<d, n, b>> \in exposed'
                     /\ Pending(d, n, b)' <=> Pending(d, n, b)
    BY <1>11, <2>1 DEF TlbFill, Pending, FlushPending, Flushed
  <2>5. LiveMm \subseteq Mm
    BY DEF LiveMm, VmInv, TypeOK
  <2>6. ASSUME NEW d \in Cpu, NEW n \in LiveMm, NEW b \in Addr
        PROVE  \/ tlb'[d][<<n, b>>] \in {Fault, translate(n, b)}
               \/ <<d, n, b>> \in exposed'
               \/ Pending(d, n, b)'
    <3>1. CASE <<d, n, b>> = <<c, m, a>>
      BY <2>3, <3>1
    <3>2. CASE <<d, n, b>> # <<c, m, a>>
      BY <2>3, <2>4, <2>5, <3>2 DEF TlbCoherent, Pending
    <3> QED  BY <3>1, <3>2
  <2> QED  BY <2>2, <2>6 DEF TlbCoherent, Pending
<1>12. ASSUME NEW m \in Mm, NEW a \in Addr, PageFault(m, a) PROVE TlbCoherent'
  <2>1. /\ UNCHANGED <<mmOf, tlb, pc, args, mm, edited, todo, flush>>
        /\ exposed' = exposed \cup Outdated(mem', {})
    BY <1>12 DEF PageFault, localVars
  <2>2. ASSUME NEW c \in Cpu, NEW n \in LiveMm, NEW b \in Addr, Pending(c, n, b)
        PROVE  Pending(c, n, b)'
    BY <2>1, <2>2 DEF Pending, FlushPending, Flushed
  <2> QED  BY <2>1, <2>2, CoherentWrite
\* The flushes that p no longer leads to are exposed, as far as something is stale.
<1>13. ASSUME NEW p \in Pid, NEW M, mmOf[p] # NoMm,
              \A q \in Pid \ {p} : mmOf'[q] = mmOf[q],
              LiveMm' \subseteq LiveMm \cup M, LiveMm' \subseteq Mm,
              UNCHANGED <<mem, pc, args, mm, edited, todo, flush>>,
              \A x \in exposed \cup LostFlushes(p) : x[2] \notin M => x \in exposed',
              \A c \in Cpu, n \in Mm, b \in Addr :
                tlb'[c][<<n, b>>] = IF n \in M THEN Fault ELSE tlb[c][<<n, b>>]
       PROVE  TlbCoherent'
  <2>1. \A n, b : translate(n, b)' = translate(n, b)
    BY <1>13 DEF translate
  <2>2. ASSUME NEW c \in Cpu, NEW n \in LiveMm', NEW b \in Addr, n \notin M,
               NEW t \in Task, FlushPending(t, c, n, b)
        PROVE  FlushPending(t, c, n, b)' \/ <<c, n, b>> \in exposed'
               \/ tlb[c][<<n, b>>] = translate(n, b)
    <3>1. CASE pc[t] # "u_write" \/ <<n, b>> \notin Flushed(t)
      BY <1>13, <2>2, <3>1 DEF FlushPending
    <3>2. CASE pc[t] = "u_write" /\ <<n, b>> \in Flushed(t) /\ args[t].pid # p
      <4>1. args[t].pid \in Pid \ {p}
        BY <1>0, <3>2 DEF LocalOK, Args
      <4>2. mmOf'[args[t].pid] = mmOf[args[t].pid]
        BY <1>13, <4>1
      <4> QED  BY <1>13, <3>2, <4>2 DEF FlushPending, Flushed
    <3>3. CASE pc[t] = "u_write" /\ <<n, b>> \in Flushed(t) /\ args[t].pid = p
      <4>1. n = mmOf[p] /\ edited[t] = n /\ args[t].addr = b
        BY <3>3 DEF Flushed
      <4>2. n \in Mm
        BY <1>13
      <4>3. tlb[c][<<n, b>>] # translate(n, b) => <<c, n, b>> \in LostFlushes(p)
        BY <3>3, <4>1, <4>2 DEF LostFlushes
      <4> QED  BY <1>13, <2>2, <4>3
    <3> QED  BY <3>1, <3>2, <3>3
  <2>3. ASSUME NEW c \in Cpu, NEW n \in LiveMm', NEW b \in Addr
        PROVE  \/ tlb'[c][<<n, b>>] \in {Fault, translate(n, b)}
               \/ <<c, n, b>> \in exposed'
               \/ Pending(c, n, b)'
    <3>1. CASE n \in M
      BY <1>13, <3>1
    <3>2. CASE n \notin M
      <4>1. n \in LiveMm /\ tlb'[c][<<n, b>>] = tlb[c][<<n, b>>]
        BY <1>13, <3>2
      <4>2. CASE <<c, n, b>> \in exposed
        BY <1>13, <3>2, <4>2
      <4>3. CASE Pending(c, n, b)
        BY <2>2, <3>2, <4>1, <4>3 DEF Pending
      <4> QED  BY <4>1, <4>2, <4>3 DEF TlbCoherent, Pending
    <3> QED  BY <3>1, <3>2
  <2> QED  BY <2>1, <2>3 DEF TlbCoherent, Pending
<1>18. ASSUME NEW p \in Pid, NEW m \in Mm, Exec(p, m) PROVE TlbCoherent'
  <2>1. /\ mmOf[p] # NoMm /\ mmOf' = [mmOf EXCEPT ![p] = m]
        /\ UNCHANGED <<mem, pc, args, mm, edited, todo, flush>>
        /\ \A x \in exposed \cup LostFlushes(p) : x[2] \notin {m} => x \in exposed'
    BY <1>18 DEF Exec, localVars
  <2>2. /\ \A q \in Pid \ {p} : mmOf'[q] = mmOf[q]
        /\ LiveMm' \subseteq LiveMm \cup {m} /\ LiveMm' \subseteq Mm
    BY <2>1 DEF LiveMm, VmInv, TypeOK
  <2>3. \A c \in Cpu, n \in Mm, b \in Addr :
          tlb'[c][<<n, b>>] = IF n \in {m} THEN Fault ELSE tlb[c][<<n, b>>]
    BY <1>18 DEF Exec
  <2> QED  BY <1>13, <2>1, <2>2, <2>3
<1>19. ASSUME NEW p \in Pid, Exit(p) PROVE TlbCoherent'
  <2>0. PICK M : M = {}
    OBVIOUS
  <2>1. /\ mmOf[p] # NoMm /\ mmOf' = [mmOf EXCEPT ![p] = NoMm]
        /\ UNCHANGED <<mem, tlb, pc, args, mm, edited, todo, flush>>
        /\ \A x \in exposed \cup LostFlushes(p) : x[2] \notin M => x \in exposed'
    BY <1>19 DEF Exit, localVars
  <2>2. /\ \A q \in Pid \ {p} : mmOf'[q] = mmOf[q]
        /\ LiveMm' \subseteq LiveMm \cup M /\ LiveMm' \subseteq Mm
    BY <2>1 DEF LiveMm, VmInv, TypeOK
  <2>3. \A c \in Cpu, n \in Mm, b \in Addr :
          tlb'[c][<<n, b>>] = IF n \in M THEN Fault ELSE tlb[c][<<n, b>>]
    BY <2>0, <2>1
  <2> QED  BY <1>13, <2>1, <2>2, <2>3
<1>14. ASSUME UNCHANGED <<mem, mmOf, tlb, exposed, pc, args, mm, edited, todo, flush>>
       PROVE  TlbCoherent'
  <2>1. LiveMm' = LiveMm /\ \A m, a : translate(m, a)' = translate(m, a)
    BY <1>14 DEF LiveMm, translate
  <2>2. \A t, c, m, a : FlushPending(t, c, m, a)' <=> FlushPending(t, c, m, a)
    BY <1>14 DEF FlushPending, Flushed
  <2> QED  BY <1>14, <2>1, <2>2 DEF TlbCoherent
<1>15. ASSUME NEW t \in Task, NEW impl \in {"kernel", "custom"},
              SwitchTlbInvalidation(t, impl)
       PROVE  TlbCoherent'
  BY <1>14, <1>15 DEF SwitchTlbInvalidation, memVars, localVars
<1>20. ASSUME NEW p \in Pid, NEW m \in Mm \cup {NoMm}, Borrow(p, m) PROVE TlbCoherent'
  BY <1>14, <1>20 DEF Borrow, tlbVars, localVars
<1>16. CASE UNCHANGED vars
  BY <1>14, <1>16 DEF vars
<1>17. ASSUME NEW t \in Task, NEW a \in Addr, MunmapBegin(t, a) PROVE TlbCoherent'
  <2>1. \E p \in Pid : TRUE
    BY VmEditAssumption
  <2> QED  BY <1>1, <1>17, <2>1
<1> QED  BY <1>1, <1>2, <1>4, <1>5, <1>6, <1>7, <1>8, <1>9, <1>10, <1>11, <1>12, <1>15,
            <1>16, <1>17, <1>18, <1>19, <1>20 DEF Next

\* On x86: whatever VM_UPDATE replaces, no CPU goes on with it once its turn to be
\* flushed is over, unless exposed says why; although the mm of the pid is looked up
\* three times without a reference being held, processes share mms, exec, exit and
\* borrow each other's mms in between, and freed mms are used again; for any memory,
\* requests, number of callers, of processes and of CPUs.
THEOREM VmTlbCoherent ==
  ASSUME Arch = "x86"
  PROVE  Spec => []TlbCoherent
<1> DEFINE KInv == invalidate_tlb = "kernel"
<1>1. Init => KInv /\ TlbCoherent
  <2> SUFFICES ASSUME Init PROVE KInv /\ TlbCoherent
    OBVIOUS
  <2>2. LiveMm \subseteq Mm
    BY VmEditAssumption DEF Init, LiveMm
  <2>3. TlbCoherent
    BY <2>2 DEF Init, TlbCoherent
  <2> QED  BY <2>3 DEF Init
<1>2. VmInv /\ KInv /\ TlbCoherent /\ [Next]_vars => KInv' /\ TlbCoherent'
  BY KernelInductive, CoherentInductive
<1> HIDE DEF KInv
<1> QED  BY <1>1, <1>2, VmInvariant, PTL DEF Spec

-----------------------------------------------------------------------------
(* The mmap lock                                                           *)

\* A step of t that does not touch a lock, or gives back the one of t.
LEMMA LockStep ==
  ASSUME VmInv, LockInv, NEW t \in Task, StepOf(t), LockOK(t)',
         \/ UNCHANGED writer
         \/ WriteUnlock(t, mm[t]) /\ Locked(t)
  PROVE  LockInv'
<1>0. LocalType
  BY TypeParts DEF VmInv
<1>1. \A u \in Task \ {t} : pc'[u] = pc[u] /\ mm'[u] = mm[u]
  BY <1>0 DEF StepOf, LocalType, PerTask
<1>2. ASSUME NEW u \in Task \ {t} PROVE LockOK(u)'
  <2>1. Locked(u) => writer'[mm[u]] = u
    BY <1>2 DEF LockInv, LockOK, WriteUnlock, VmInv, TypeOK
  <2> QED  BY <1>1, <1>2, <2>1 DEF LockInv, LockOK, Locked
<1> QED  BY <1>2 DEF LockInv

\* A step in which t takes the lock: nobody else has it.
LEMMA LockTake ==
  ASSUME VmInv, LockInv, NEW t \in Task, StepOf(t), NEW m \in Mm, WriteLock(t, m),
         mm'[t] = m, pc'[t] \notin {"user", "u_lock"}
  PROVE  LockInv'
<1>0. LocalType
  BY TypeParts DEF VmInv
<1>1. \A u \in Task \ {t} : pc'[u] = pc[u] /\ mm'[u] = mm[u]
  BY <1>0 DEF StepOf, LocalType, PerTask
<1>2. writer[m] = NoTask /\ writer' = [writer EXCEPT ![m] = t]
  BY DEF WriteLock
<1>3. ASSUME NEW u \in Task \ {t} PROVE LockOK(u)'
  <2>1. Locked(u) => mm[u] # m /\ writer'[mm[u]] = u
    BY <1>2, <1>3, VmEditAssumption DEF LockInv, LockOK, VmInv, TypeOK
  <2> QED  BY <1>1, <1>3, <2>1 DEF LockInv, LockOK, Locked
<1>4. LockOK(t)'
  BY <1>2 DEF LockOK, VmInv, TypeOK
<1> QED  BY <1>3, <1>4 DEF LockInv

\* Where there is one mm only, it is in use, and no exec takes it up again.
LEMMA OnlyMm ==
  ASSUME TypeOK, \A m, n \in Mm : m = n, NEW p \in Pid, NEW m \in Mm
  PROVE  ~Exec(p, m)
<1>1. SUFFICES ASSUME Exec(p, m) PROVE FALSE
  OBVIOUS
<1>2. mmOf[p] # NoMm /\ m \notin LiveMm
  BY <1>1 DEF Exec
<1>3. mmOf[p] \in Mm
  BY <1>2 DEF TypeOK
<1>4. mmOf[p] = m
  BY <1>3
<1> QED  BY <1>2, <1>4 DEF LiveMm

LEMMA LockInvInductive ==
  ASSUME VmInv, LockInv, \A m, n \in Mm : m = n, [Next]_vars
  PROVE  LockInv'
<1>0. LocalType /\ \A t \in Task : LocalOK(t) /\ LockOK(t)
  BY TypeParts DEF VmInv, LockInv, LocalType
<1> USE VmEditAssumption DEF PerTask
<1>1. ASSUME NEW t \in Task, NEW p \in Pid, NEW a \in Addr,
             \/ ResolveEnter(t, p, a) \/ \E r \in Requests : UpdateEnter(t, p, a, r)
             \/ InvalidateTlb(t, p, a)
      PROVE  LockInv'
  <2>1. StepOf(t) /\ pc[t] = "user" /\ pc'[t] \in {"r_lock", "u_lock", "ipi"} /\ UNCHANGED writer
    BY <1>0, <1>1 DEF ResolveEnter, UpdateEnter, InvalidateTlb, Goto, StepOf, LocalType,
                      lockVars
  <2>2. pc'[t] = "u_lock" => mm'[t] # NoMm
    BY <1>0, <1>1 DEF ResolveEnter, UpdateEnter, InvalidateTlb, Goto, LocalType
  <2>3. pc'[t] = "ipi" => mm'[t] = mm[t]
    BY <1>0, <1>1 DEF ResolveEnter, UpdateEnter, InvalidateTlb, Goto, LocalType
  <2>4. LockOK(t)'
    BY <1>0, <2>1, <2>2, <2>3 DEF LockOK, Locked
  <2> QED  BY <2>1, <2>4, LockStep
<1>2. ASSUME NEW t \in Task,
             ResolveLock(t) \/ ResolveWalk(t) \/ ResolveUnlock(t) \/ ResolveCopy(t)
      PROVE  LockInv'
  <2>1. StepOf(t) /\ pc'[t] \in {"r_walk", "r_unlock", "r_copy"} /\ UNCHANGED writer
    BY <1>0, <1>2 DEF ResolveLock, ResolveWalk, ResolveUnlock, ResolveCopy, Goto, StepOf,
                      LocalType, localVars, lockVars, ReadLock, ReadUnlock
  <2>2. LockOK(t)'
    BY <2>1 DEF LockOK, Locked
  <2> QED  BY <2>1, <2>2, LockStep
<1>3. ASSUME NEW t \in Task, Return(t),
             writer' = writer \/ (WriteUnlock(t, mm[t]) /\ Locked(t))
      PROVE  LockInv'
  <2>1. StepOf(t) /\ pc'[t] = "user" /\ mm'[t] = NoMm
    BY <1>0, <1>3 DEF Return, Goto, StepOf, LocalType
  <2>2. LockOK(t)'
    BY <2>1 DEF LockOK, Locked
  <2> QED  BY <1>3, <2>1, <2>2, LockStep
<1>4. ASSUME NEW t \in Task, ResolveReturn(t) \/ UpdateUnlock(t) \/ MunmapFree(t)
      PROVE  LockInv'
  <2>1. CASE ResolveReturn(t)
    <3>1. Return(t) /\ writer' = writer
      BY <2>1 DEF ResolveReturn, lockVars
    <3> QED  BY <1>3, <3>1
  <2>2. CASE UpdateUnlock(t) \/ MunmapFree(t)
    <3>1. Return(t) /\ WriteUnlock(t, mm[t]) /\ Locked(t)
      BY <2>2 DEF UpdateUnlock, MunmapFree, Locked
    <3> QED  BY <1>3, <3>1
  <2> QED  BY <1>4, <2>1, <2>2
<1>5. ASSUME NEW t \in Task, UpdateLock(t) PROVE LockInv'
  <2>1. StepOf(t) /\ pc'[t] = "u_walk" /\ mm'[t] = mm[t] /\ WriteLock(t, mm[t])
    BY <1>0, <1>5 DEF UpdateLock, Goto, StepOf, LocalType, localVars
  <2>2. mm[t] \in Mm
    BY <1>0, <1>5 DEF UpdateLock, LockOK, LocalOK
  <2> QED  BY <2>1, <2>2, LockTake
<1>6. ASSUME NEW t \in Task, NEW a \in Addr, MunmapBegin(t, a) PROVE LockInv'
  <2>1. PICK m : m = mmOf[current[t]]
    OBVIOUS
  <2>2. StepOf(t) /\ pc'[t] = "m_clear" /\ mm'[t] = m /\ WriteLock(t, m) /\ m # NoMm
    BY <1>0, <1>6, <2>1 DEF MunmapBegin, Goto, StepOf, LocalType
  <2>3. m \in Mm
    BY <2>1, <2>2 DEF VmInv, TypeOK
  <2> QED  BY <2>2, <2>3, LockTake
<1>7. ASSUME NEW t \in Task,
             \/ UpdateWalk(t) \/ UpdateWrite(t) \/ UpdateFlush(t) \/ MunmapClear(t)
             \/ \E c \in Cpu : FlushCpu(t, c)
      PROVE  LockInv'
  <2>1. UNCHANGED <<writer, mm>>
    BY <1>7 DEF UpdateWalk, UpdateWrite, UpdateFlush, MunmapClear, FlushCpu, lockVars,
                localVars
  <2>2. pc' = [pc EXCEPT ![t] = pc'[t]] /\ pc'[t] \notin {"user", "u_lock"}
    BY <1>0, <1>7 DEF UpdateWalk, UpdateWrite, UpdateFlush, MunmapClear, FlushCpu, Goto,
                      LocalType
  <2>3. Locked(t)' => Locked(t)
    BY <1>0, <1>7, <2>1 DEF UpdateWalk, UpdateWrite, UpdateFlush, MunmapClear, FlushCpu,
                            Goto, LocalType, Locked
  <2>4. LockOK(t)'
    BY <1>0, <2>1, <2>2, <2>3 DEF LockOK
  <2>a. \A u \in Task \ {t} : pc'[u] = pc[u]
    BY <1>0, <2>2 DEF LocalType
  <2>5. \A u \in Task \ {t} : LockOK(u)'
    BY <1>0, <2>1, <2>a DEF LockOK, Locked
  <2> QED  BY <2>4, <2>5 DEF LockInv
<1>8. ASSUME NEW t \in Task, FlushDone(t) PROVE LockInv'
  <2>0. UNCHANGED writer /\ pc[t] = "ipi"
    BY <1>8 DEF FlushDone, lockVars
  <2>1. CASE Return(t)
    <3>1. writer' = writer
      BY <2>0
    <3> QED  BY <1>3, <2>1, <3>1
  <2>2. CASE mm[t] # NoMm /\ Goto(t, "u_unlock") /\ UNCHANGED localVars
    <3>1. StepOf(t) /\ pc'[t] = "u_unlock" /\ mm'[t] = mm[t]
      BY <1>0, <2>2 DEF Goto, StepOf, LocalType, localVars
    <3>2. LockOK(t)'
      BY <1>0, <2>0, <2>2, <3>1 DEF LockOK, Locked
    <3> QED  BY <2>0, <3>1, <3>2, LockStep
  <2> QED  BY <1>8, <2>1, <2>2 DEF FlushDone
<1>9. ASSUME UNCHANGED <<writer, pc, mm>> PROVE LockInv'
  BY <1>9 DEF LockInv, LockOK, Locked
<1>10. ASSUME \/ \E t \in Task, impl \in {"kernel", "custom"} : SwitchTlbInvalidation(t, impl)
              \/ \E c \in Cpu, m \in Mm, a \in Addr : TlbFill(c, m, a)
              \/ \E m \in Mm, a \in Addr : PageFault(m, a)
              \/ \E p \in Pid : Exit(p)
              \/ \E p \in Pid, m \in Mm \cup {NoMm} : Borrow(p, m)
              \/ UNCHANGED vars
       PROVE  UNCHANGED <<writer, pc, mm>>
  BY <1>10 DEF SwitchTlbInvalidation, TlbFill, PageFault, Exit, Borrow, vars, lockVars, localVars
<1>11. ASSUME NEW p \in Pid, NEW m \in Mm PROVE ~Exec(p, m)
  BY OnlyMm DEF VmInv
<1> QED  BY <1>1, <1>2, <1>4, <1>5, <1>6, <1>7, <1>8, <1>9, <1>10, <1>11 DEF Next

\* The lock excludes: of the tasks that hold the lock of one mm there is only one.
LEMMA LockExcludes ==
  ASSUME LockInv, NEW t \in Task, NEW u \in Task, Locked(t), Locked(u), mm[t] = mm[u]
  PROVE  t = u
BY DEF LockInv, LockOK

-----------------------------------------------------------------------------
(* Orderly tables                                                          *)

LEMMA ReadWrite ==
  ASSUME NEW memory \in Memory, NEW s \in Slot, NEW e \in Entry, NEW r \in Slot
  PROVE  Read(Write(memory, s, e), r) = IF r = s THEN e ELSE Read(memory, r)
<1>1. PICK f \in Frame, i \in Index : s = <<f, i>>
  BY DEF Slot
<1>2. PICK g \in Frame, j \in Index : r = <<g, j>>
  BY DEF Slot
<1>3. f # NoFrame /\ g # NoFrame
  BY PagingAssumption
<1>4. Write(memory, s, e)[g][j] = IF g = f /\ j = i THEN e ELSE memory[g][j]
  BY <1>1 DEF Write, Memory
<1> QED  BY <1>1, <1>2, <1>3, <1>4 DEF Read

\* An entry of a slot, and of the frame and the index that make the slot up.
LEMMA ReadSlot ==
  ASSUME NEW memory, NEW s \in Slot
  PROVE  s[1] \in Frame /\ s[2] \in Index /\ Read(memory, s) = memory[s[1]][s[2]]
BY PagingAssumption DEF Slot, Read

\* In levelled memory, the slots that resolve_vm reports are in tables of their level.
LEMMA WalkLevels ==
  ASSUME NEW memory \in Memory, NEW level \in [Frame -> Level], Leveled(memory, level),
         NEW root \in Frame, level[root] = PGD, NEW a \in Addr
  PROVE  LET s == Slots(memory, root, a)
             v == resolve_vm(memory, root, a)
             e(l) == Read(memory, s[l])
         IN /\ \A l \in DOMAIN v : v[l] = s[l] /\ level[v[l][1]] = TableLevel(l)
            /\ PUD \in DOMAIN v /\ e(PUD).kind # "leaf" =>
                 s[PMD] \in Slot /\ level[s[PMD][1]] = PMD
            /\ PTE \in DOMAIN v => /\ PMD \in DOMAIN v /\ s[PMD] \in Slot
                                   /\ LeadsOn(e(PMD)) /\ v[PTE][1] = e(PMD).to
            /\ PUD \in DOMAIN v /\ PMD \notin DOMAIN v /\ e(PUD).kind = "table" =>
                 e(PMD) = None
<1> DEFINE s == Slots(memory, root, a)
           v == resolve_vm(memory, root, a)
           e(l) == Read(memory, s[l])
<1>1. /\ DOMAIN v \subseteq Level
      /\ v = [l \in DOMAIN v |-> s[l]]
      /\ PGD \in DOMAIN v <=> P4dFolded \/ e(PGD).kind = "table"
      /\ P4D \in DOMAIN v <=> PGD \in DOMAIN v /\ e(P4D).kind = "table"
      /\ PUD \in DOMAIN v <=> P4D \in DOMAIN v /\ e(PUD).kind # "none"
      /\ PMD \in DOMAIN v <=> /\ PUD \in DOMAIN v
                              /\ e(PMD).kind # "none" /\ e(PUD).kind # "leaf"
      /\ PTE \in DOMAIN v <=> PMD \in DOMAIN v /\ e(PMD).kind # "leaf"
  BY ResolveLevels
<1>2. /\ \A l \in Level : e(l) \in Entry
      /\ s[PGD] = <<root, index[a][PGD]>> /\ s[PGD] \in Slot
      /\ s[P4D] = IF P4dFolded THEN s[PGD] ELSE <<e(PGD).to, index[a][P4D]>>
      /\ s[PUD] = <<e(P4D).to, index[a][PUD]>>
      /\ s[PMD] = <<e(PUD).to, index[a][PMD]>>
      /\ s[PTE] = <<e(PMD).to, index[a][PTE]>>
      /\ P4dFolded \/ e(PGD).kind # "none" => s[P4D] \in Slot
      /\ e(P4D).kind # "none" => s[PUD] \in Slot
      /\ e(PUD).kind # "none" => s[PMD] \in Slot
      /\ e(PMD).kind # "none" => s[PTE] \in Slot
  BY SlotsType
<1> HIDE DEF s, v
<1>3. /\ e(PUD).kind \in {"none", "absent", "table", "leaf"}
      /\ e(PMD).kind \in {"none", "absent", "table", "leaf"}
      /\ e(PMD).kind = "none" => e(PMD) = None
  BY <1>2, EntryType DEF Level, PGD, PUD, PMD, PTE
<1>4. ASSUME NEW r \in Slot, level[r[1]] # PTE, LeadsOn(Read(memory, r))
      PROVE  level[Read(memory, r).to] = LevelBelow(level[r[1]])
  BY <1>4, ReadSlot DEF Leveled
<1>5. level[s[PGD][1]] = PGD
  BY <1>2
<1>6. PGD \in DOMAIN v => level[s[P4D][1]] = TableLevel(P4D)
  <2>1. CASE P4dFolded
    BY <1>2, <1>5, <2>1 DEF TableLevel
  <2>2. CASE ~P4dFolded /\ PGD \in DOMAIN v
    <3>1. level[e(PGD).to] = P4D
      BY <1>1, <1>2, <1>4, <1>5, <2>2 DEF LeadsOn, LevelBelow, PGD, P4D, PTE
    <3>2. s[P4D][1] = e(PGD).to
      BY <1>2, <2>2
    <3> QED  BY <2>2, <3>1, <3>2 DEF TableLevel
  <2> QED  BY <2>1, <2>2
<1>7. P4D \in DOMAIN v => level[s[PUD][1]] = PUD
  <2>1. CASE P4D \in DOMAIN v
    <3>1. level[s[P4D][1]] # PTE /\ LevelBelow(level[s[P4D][1]]) = PUD
      BY <1>1, <1>6, <2>1, PagingAssumption DEF TableLevel, LevelBelow, PGD, P4D, PUD, PTE
    <3>2. s[P4D] \in Slot
      BY <1>1, <1>2, <2>1
    <3>3. level[e(P4D).to] = PUD
      BY <1>1, <1>4, <2>1, <3>1, <3>2 DEF LeadsOn
    <3>4. s[PUD][1] = e(P4D).to
      BY <1>2
    <3> QED  BY <3>3, <3>4
  <2> QED  BY <2>1
<1>8. PUD \in DOMAIN v /\ e(PUD).kind # "leaf" => s[PMD] \in Slot /\ level[s[PMD][1]] = PMD
  <2>1. CASE PUD \in DOMAIN v /\ e(PUD).kind # "leaf"
    <3>1. s[PUD] \in Slot /\ LeadsOn(e(PUD)) /\ s[PMD] \in Slot
      BY <1>1, <1>2, <1>3, <2>1 DEF LeadsOn
    <3>2. level[s[PUD][1]] # PTE /\ LevelBelow(level[s[PUD][1]]) = PMD
      BY <1>1, <1>7, <2>1 DEF LevelBelow, PGD, PUD, PMD, PTE
    <3>3. level[e(PUD).to] = PMD
      BY <1>4, <3>1, <3>2
    <3>4. s[PMD][1] = e(PUD).to
      BY <1>2
    <3> QED  BY <3>1, <3>3, <3>4
  <2> QED  BY <2>1
<1>9. PTE \in DOMAIN v => /\ PMD \in DOMAIN v /\ s[PMD] \in Slot /\ LeadsOn(e(PMD))
                          /\ level[s[PTE][1]] = PTE /\ s[PTE][1] = e(PMD).to
  <2>1. CASE PTE \in DOMAIN v
    <3>1. PMD \in DOMAIN v /\ s[PMD] \in Slot /\ level[s[PMD][1]] = PMD /\ LeadsOn(e(PMD))
      BY <1>1, <1>3, <1>8, <2>1 DEF LeadsOn
    <3>2. level[s[PMD][1]] # PTE /\ LevelBelow(level[s[PMD][1]]) = PTE
      BY <3>1 DEF LevelBelow, PGD, PMD, PTE
    <3>3. level[e(PMD).to] = PTE
      BY <1>4, <3>1, <3>2
    <3>4. s[PTE][1] = e(PMD).to
      BY <1>2
    <3> QED  BY <3>1, <3>3, <3>4
  <2> QED  BY <2>1
<1>10. \A l \in DOMAIN v : v[l] = s[l]
  BY <1>1
<1>11. \A l \in DOMAIN v : l = PGD \/ l = P4D \/ l = PUD \/ l = PMD \/ l = PTE
  BY <1>1 DEF Level, PGD, P4D, PUD, PMD, PTE
<1>12. /\ TableLevel(PGD) = PGD /\ TableLevel(PUD) = PUD
       /\ TableLevel(PMD) = PMD /\ TableLevel(PTE) = PTE
  BY DEF TableLevel, PGD, P4D, PUD, PMD, PTE
<1>13. \A l \in DOMAIN v : level[s[l][1]] = TableLevel(l)
  BY <1>1, <1>5, <1>6, <1>7, <1>8, <1>9, <1>11, <1>12
<1>14. PUD \in DOMAIN v /\ PMD \notin DOMAIN v /\ e(PUD).kind = "table" => e(PMD) = None
  BY <1>1, <1>3
<1> QED  BY <1>8, <1>9, <1>10, <1>13, <1>14 DEF s, v

\* A write into a page table, or of an entry that leads nowhere, keeps the order.
LEMMA PlainWrite ==
  ASSUME NEW memory \in Memory, NEW level \in [Frame -> Level], NEW unused,
         NEW s \in Slot, NEW e \in Entry, level[s[1]] = PTE \/ ~LeadsOn(e),
         Leveled(memory, level), PageTablesOwned(memory, level, unused)
  PROVE  LET W == Write(memory, s, e)
         IN /\ Leveled(W, level) /\ PageTablesOwned(W, level, unused)
            /\ \A r \in Slot : level[r[1]] = PMD /\ LeadsOn(Read(W, r)) =>
                 r # s /\ Read(W, r) = Read(memory, r)
<1> DEFINE W == Write(memory, s, e)
<1>1. \A r \in Slot : Read(W, r) = IF r = s THEN e ELSE Read(memory, r)
  BY ReadWrite
<1> HIDE DEF W
<1>2. \A r \in Slot : level[r[1]] # PTE /\ LeadsOn(Read(W, r)) =>
        r # s /\ Read(W, r) = Read(memory, r)
  BY <1>1
<1>3. ASSUME NEW f \in Frame, NEW i \in Index, level[f] # PTE, LeadsOn(W[f][i])
      PROVE  level[W[f][i].to] = LevelBelow(level[f])
  <2>1. <<f, i>> \in Slot /\ Read(W, <<f, i>>) = W[f][i] /\ Read(memory, <<f, i>>) = memory[f][i]
    BY PagingAssumption DEF Slot, Read
  <2>2. W[f][i] = memory[f][i]
    BY <1>2, <1>3, <2>1
  <2> QED  BY <1>3, <2>2 DEF Leveled
<1>4. Leveled(W, level)
  BY <1>3 DEF Leveled
<1>5. PMD # PTE
  BY DEF PMD, PTE
<1>6. PageTablesOwned(W, level, unused)
  BY <1>2, <1>5 DEF PageTablesOwned
<1> QED  BY <1>2, <1>4, <1>5, <1>6 DEF W

\* A step of t that leaves the tables alone.
LEMMA OrderStep ==
  ASSUME VmInv, NEW level, OrderInv(level), NEW t \in Task, StepOf(t), UNCHANGED <<mem, free>>,
         UpdateOK(t, level)', MunmapOK(t, level)'
  PROVE  OrderInv(level)'
<1>0. LocalType
  BY TypeParts DEF VmInv
<1>1. ASSUME NEW u \in Task \ {t} PROVE UpdateOK(u, level)' /\ MunmapOK(u, level)'
  <2>1. /\ pc'[u] = pc[u] /\ mm'[u] = mm[u] /\ vm'[u] = vm[u]
        /\ args'[u] = args[u] /\ todo'[u] = todo[u]
    BY <1>0 DEF StepOf, LocalType, PerTask
  <2>2. UpdateOK(u, level) /\ MunmapOK(u, level)
    BY DEF OrderInv
  <2>3. UpdateOK(u, level)'
    BY <2>1, <2>2 DEF UpdateOK
  <2>4. MunmapOK(u, level)'
    BY <2>1, <2>2 DEF MunmapOK
  <2> QED  BY <2>3, <2>4
<1>2. TableInv(level)'
  BY DEF OrderInv, TableInv
<1> QED  BY <1>1, <1>2 DEF OrderInv

\* A step of t under the one lock that there is: nobody else is at work on the tables.
LEMMA OrderAlone ==
  ASSUME VmInv, LockInv, \A m, n \in Mm : m = n, NEW level, NEW t \in Task, Locked(t), StepOf(t),
         TableInv(level)', UpdateOK(t, level)', MunmapOK(t, level)'
  PROVE  OrderInv(level)'
<1>0. LocalType
  BY TypeParts DEF VmInv
<1>1. ASSUME NEW u \in Task \ {t} PROVE UpdateOK(u, level)' /\ MunmapOK(u, level)'
  <2>1. pc'[u] = pc[u] /\ mm'[u] = mm[u]
    BY <1>0 DEF StepOf, LocalType, PerTask
  <2>2. ~Locked(u)
    <3>1. SUFFICES ASSUME Locked(u) PROVE FALSE
      OBVIOUS
    <3>2. mm[t] \in Mm /\ mm[u] \in Mm
      BY <3>1 DEF LockInv, LockOK
    <3> QED  BY <3>1, <3>2, LockExcludes
  <2>3. pc'[u] \notin {"m_clear", "m_free"}
        /\ ~(pc'[u] \in {"u_write", "ipi", "u_unlock"} /\ mm'[u] # NoMm)
    BY <2>1, <2>2 DEF Locked
  <2>4. UpdateOK(u, level)'
    BY <2>3 DEF UpdateOK
  <2>5. MunmapOK(u, level)'
    BY <2>3 DEF MunmapOK
  <2> QED  BY <2>4, <2>5
<1> QED  BY <1>1 DEF OrderInv

\* What a walk finds is in use and of its level.
LEMMA WalkInUse ==
  ASSUME VmInv, NEW level, Orderly(level), TableInv(level), NEW m \in Mm, NEW a \in Addr
  PROVE  /\ \A l \in DOMAIN walk(m, a) : /\ level[walk(m, a)[l][1]] = TableLevel(l)
                                         /\ walk(m, a)[l][1] \notin free
         /\ PTE \in DOMAIN walk(m, a) =>
              /\ PMD \in DOMAIN walk(m, a) /\ walk(m, a)[PMD] \in Slot
              /\ LeadsOn(Read(mem, walk(m, a)[PMD]))
              /\ walk(m, a)[PTE][1] = Read(mem, walk(m, a)[PMD]).to
<1>0. /\ mem \in Memory /\ level \in [Frame -> Level] /\ mm_pgd[m] \in Frame
      /\ level[mm_pgd[m]] = PGD /\ Leveled(mem, level)
  BY VmEditAssumption DEF VmInv, TypeOK, Orderly, TableInv
<1> DEFINE v == walk(m, a)
<1>1. v = resolve_vm(mem, mm_pgd[m], a)
  BY VmEditAssumption DEF walk
<1>2. /\ \A l \in DOMAIN v : level[v[l][1]] = TableLevel(l)
      /\ PTE \in DOMAIN v => /\ PMD \in DOMAIN v /\ v[PMD] \in Slot
                             /\ LeadsOn(Read(mem, v[PMD])) /\ v[PTE][1] = Read(mem, v[PMD]).to
  <2> DEFINE s == Slots(mem, mm_pgd[m], a)
  <2>1. /\ \A l \in DOMAIN v : v[l] = s[l] /\ level[v[l][1]] = TableLevel(l)
        /\ PTE \in DOMAIN v => /\ PMD \in DOMAIN v /\ s[PMD] \in Slot
                               /\ LeadsOn(Read(mem, s[PMD])) /\ v[PTE][1] = Read(mem, s[PMD]).to
    BY <1>0, <1>1, WalkLevels
  <2> HIDE DEF s, v
  <2> QED  BY <2>1
<1>3. DOMAIN v \subseteq Level
  BY VmEditAssumption, WalkPartial DEF VmInv, IsPartial
<1> HIDE DEF v
<1>4. ASSUME NEW l \in DOMAIN v PROVE v[l][1] \notin free
  <2>1. CASE l = PTE
    <3>1. PTE \in DOMAIN v
      BY <2>1
    <3>2. v[PMD] \in Slot /\ LeadsOn(Read(mem, v[PMD])) /\ level[v[PMD][1]] = PMD
      BY <1>2, <3>1 DEF TableLevel, PMD, P4D
    <3> QED  BY <1>2, <2>1, <3>1, <3>2 DEF TableInv, PageTablesOwned
  <2>2. CASE l # PTE
    <3>1. TableLevel(l) # PTE
      BY <2>2 DEF TableLevel, PGD, PTE
    <3> QED  BY <1>2, <3>1 DEF TableInv
  <2> QED  BY <2>1, <2>2
<1> QED  BY <1>2, <1>4 DEF v

\* A request names entries that are not zero; above the PTE they are large pages.
LEMMA RequestEntry ==
  ASSUME VmInv, NEW level, Orderly(level), NEW t \in Task, NEW l \in DOMAIN args[t].new
  PROVE  /\ args[t].new[l] \in Entry /\ args[t].new[l].kind # "none"
         /\ l # PTE => ~LeadsOn(args[t].new[l])
         /\ P4dFolded => ~({PGD, P4D} \subseteq DOMAIN args[t].new)
         /\ l \in Level
<1>1. args[t].new \in Requests
  BY EmptyPartial DEF VmInv, TypeOK, Args
<1>2. IsPartial(args[t].new, Entry)
  BY NewPartial DEF VmInv
<1> QED  BY <1>1, <1>2 DEF Orderly, LeadsOn, IsPartial

LEMMA OrderUpdateWrite ==
  ASSUME VmInv, LockInv, \A m, n \in Mm : m = n, NEW level, Orderly(level), OrderInv(level),
         NEW t \in Task, UpdateWrite(t)
  PROVE  OrderInv(level)'
<1>0. LocalType /\ LocalOK(t) /\ HandlerOK(t) /\ LockOK(t) /\ mem \in Memory
  BY TypeParts DEF VmInv, LockInv, LocalType, HandlerInv, SharedType
<1>1. PICK l : l = CHOOSE k \in todo[t] : \A j \in todo[t] : k <= j
  OBVIOUS
<1> DEFINE s == vm[t][l]
           e == args[t].new[l]
<1>2. l \in todo[t]
  <2>1. todo[t] \subseteq Level /\ todo[t] # {}
    BY <1>0 DEF UpdateWrite, HandlerOK, LocalOK, IsPartial
  <2>2. \E k \in todo[t] : \A j \in todo[t] : k <= j
    <3>1. \A k \in todo[t] : k = 1 \/ k = 2 \/ k = 3 \/ k = 4 \/ k = 5
      BY <2>1 DEF Level, PGD, PTE
    <3> QED  BY <2>1, <3>1
  <2> QED  BY <1>1, <2>2
<1>3. /\ pc[t] = "u_write" /\ mem' = Write(mem, s, e)
      /\ todo' = [todo EXCEPT ![t] = todo[t] \ {l}]
      /\ UNCHANGED <<free, pc, mm, vm, args, edited, flush, entry>>
  BY <1>1 DEF UpdateWrite
<1>4. l \in DOMAIN vm[t] /\ l \in DOMAIN args[t].new
  BY <1>0, <1>2, <1>3 DEF HandlerOK
<1>5. s \in Slot /\ e \in Entry /\ e.kind # "none" /\ (l # PTE => ~LeadsOn(e))
  BY <1>0, <1>4, RequestEntry DEF LocalOK, IsPartial
<1>6. Locked(t) /\ mm[t] # NoMm
  BY <1>0, <1>3, VmEditAssumption DEF Locked, LockOK
<1>7. /\ \A k \in DOMAIN vm[t] : level[vm[t][k][1]] = TableLevel(k) /\ vm[t][k][1] \notin free
      /\ \A k \in DOMAIN vm[t] \cap DOMAIN args[t].new :
           k \notin todo[t] => Read(mem, vm[t][k]) = args[t].new[k]
  <2>1. UpdateOK(t, level)
    BY DEF OrderInv
  <2> QED  BY <1>3, <1>6, <2>1 DEF UpdateOK
<1>8. level[s[1]] = PTE \/ ~LeadsOn(e)
  BY <1>4, <1>5, <1>7 DEF TableLevel, PTE, P4D
<1>9. TableInv(level)'
  <2>1. Leveled(mem', level) /\ PageTablesOwned(mem', level, free)
    BY <1>0, <1>3, <1>5, <1>8, PlainWrite DEF OrderInv, TableInv, Orderly
  <2> QED  BY <1>3, <2>1 DEF OrderInv, TableInv, Leveled, PageTablesOwned
<1>10. ASSUME NEW k \in DOMAIN vm[t] \cap DOMAIN args[t].new, k \notin todo'[t]
       PROVE  Read(mem', vm[t][k]) = args[t].new[k]
  <2>0. vm[t][k] \in Slot /\ k \in Level
    BY <1>0 DEF LocalOK, IsPartial
  <2>1. CASE k = l
    BY <1>0, <1>3, <1>5, <2>0, <2>1, ReadWrite
  <2>2. CASE k # l
    <3>1. k \notin todo[t]
      BY <1>0, <1>3, <1>10, <2>2 DEF LocalType, PerTask
    <3>2. TableLevel(k) # TableLevel(l)
      <4>1. P4dFolded => ~({PGD, P4D} \subseteq DOMAIN args[t].new)
        BY <1>4, RequestEntry
      <4>2. P4dFolded => ~(k = PGD /\ l = P4D) /\ ~(k = P4D /\ l = PGD)
        BY <1>4, <4>1
      <4> QED  BY <2>2, <4>2 DEF TableLevel
    <3>3. vm[t][k] # s
      BY <1>4, <1>7, <3>2
    <3>4. Read(mem', vm[t][k]) = Read(mem, vm[t][k])
      BY <1>0, <1>3, <1>5, <2>0, <3>3, ReadWrite
    <3> QED  BY <1>7, <3>1, <3>4
  <2> QED  BY <2>1, <2>2
<1>11. UpdateOK(t, level)'
  BY <1>3, <1>7, <1>10 DEF UpdateOK
<1>12. MunmapOK(t, level)'
  BY <1>3 DEF MunmapOK
<1>13. StepOf(t)
  BY <1>0, <1>3 DEF StepOf, LocalType, PerTask
<1> QED  BY <1>6, <1>9, <1>11, <1>12, <1>13, OrderAlone

LEMMA OrderMunmapBegin ==
  ASSUME VmInv, LockInv, NEW level, Orderly(level), OrderInv(level),
         NEW t \in Task, NEW a \in Addr, MunmapBegin(t, a)
  PROVE  OrderInv(level)'
<1>0. LocalType /\ mem \in Memory
  BY TypeParts DEF VmInv, SharedType
<1>1. PICK m : m = mmOf[current[t]]
  OBVIOUS
<1>2. PICK v : v = walk(m, a)
  OBVIOUS
<1>3. /\ m # NoMm /\ PTE \in DOMAIN v /\ Read(mem, v[PMD]).kind = "table"
      /\ vm' = [vm EXCEPT ![t] = v] /\ mm' = [mm EXCEPT ![t] = m]
      /\ pc' = [pc EXCEPT ![t] = "m_clear"]
      /\ UNCHANGED <<mem, free, args, edited, todo, flush, entry>>
  BY <1>1, <1>2 DEF MunmapBegin, Goto, memVars
<1>4. m \in Mm
  BY <1>1, <1>3, VmEditAssumption DEF VmInv, TypeOK
<1>5. /\ \A l \in DOMAIN v : level[v[l][1]] = TableLevel(l)
      /\ PMD \in DOMAIN v /\ v[PMD] \in Slot /\ v[PTE][1] = Read(mem, v[PMD]).to
  BY <1>2, <1>3, <1>4, WalkInUse DEF OrderInv
<1>6. level[v[PMD][1]] = PMD /\ level[v[PTE][1]] = PTE
  BY <1>3, <1>5 DEF TableLevel, P4D, PMD, PTE
<1>7. Read(mem, v[PMD]) = Table(v[PTE][1])
  <2>1. Read(mem, v[PMD]) \in Entry
    BY <1>0, <1>5, ReadType DEF Slot
  <2> QED  BY <1>3, <1>5, <2>1 DEF Entry, None, Table
<1>8. vm'[t] = v /\ pc'[t] = "m_clear"
  BY <1>0, <1>3 DEF LocalType, PerTask
<1>9. MunmapOK(t, level)'
  BY <1>3, <1>5, <1>6, <1>7, <1>8 DEF MunmapOK
<1>10. UpdateOK(t, level)'
  BY <1>8 DEF UpdateOK
<1>11. StepOf(t)
  BY <1>0, <1>3 DEF StepOf, LocalType, PerTask
<1> QED  BY <1>3, <1>9, <1>10, <1>11, OrderStep

LEMMA OrderMunmapClear ==
  ASSUME VmInv, LockInv, \A m, n \in Mm : m = n, NEW level, Orderly(level), OrderInv(level),
         NEW t \in Task, MunmapClear(t)
  PROVE  OrderInv(level)'
<1>0. LocalType /\ LocalOK(t) /\ mem \in Memory
  BY TypeParts DEF VmInv, LocalType, SharedType
<1>1. PICK s : s = vm[t][PMD]
  OBVIOUS
<1>2. PICK f : f = vm[t][PTE][1]
  OBVIOUS
<1>3. /\ pc[t] = "m_clear" /\ mem' = Write(mem, s, None)
      /\ pc' = [pc EXCEPT ![t] = "m_free"]
      /\ UNCHANGED <<free, args, mm, vm, edited, todo, flush, entry>>
  BY <1>1 DEF MunmapClear, Goto, localVars
<1>4. /\ PMD \in DOMAIN vm[t] /\ level[s[1]] = PMD /\ level[f] = PTE
      /\ Read(mem, s) = Table(f)
  <2>1. MunmapOK(t, level)
    BY DEF OrderInv
  <2> QED  BY <1>1, <1>2, <1>3, <2>1 DEF MunmapOK
<1>5. s \in Slot /\ None \in Entry /\ ~LeadsOn(None)
  BY <1>0, <1>1, <1>4 DEF LocalOK, IsPartial, Entry, LeadsOn, None
<1>6. /\ Leveled(mem', level) /\ PageTablesOwned(mem', level, free)
      /\ \A r \in Slot : level[r[1]] = PMD /\ LeadsOn(Read(mem', r)) =>
           r # s /\ Read(mem', r) = Read(mem, r)
  BY <1>0, <1>3, <1>5, PlainWrite DEF OrderInv, TableInv, Orderly
<1>7. TableInv(level)'
  BY <1>3, <1>6 DEF OrderInv, TableInv, Leveled, PageTablesOwned
<1>8. \A r \in Slot : level[r[1]] = PMD /\ LeadsOn(Read(mem', r)) => Read(mem', r).to # f
  <2>1. LeadsOn(Read(mem, s)) /\ Read(mem, s).to = f
    BY <1>4 DEF Table, LeadsOn
  <2>2. \A r \in Slot : /\ level[r[1]] = PMD /\ LeadsOn(Read(mem, r)) /\ Read(mem, r).to = f
                        => r = s
    BY <1>4, <1>5, <2>1 DEF OrderInv, TableInv, PageTablesOwned
  <2> QED  BY <1>6, <2>2
<1>9. pc'[t] = "m_free"
  BY <1>0, <1>3 DEF LocalType, PerTask
<1>10. MunmapOK(t, level)'
  BY <1>1, <1>2, <1>3, <1>4, <1>8, <1>9 DEF MunmapOK
<1>11. UpdateOK(t, level)'
  BY <1>9 DEF UpdateOK
<1>12. StepOf(t) /\ Locked(t)
  BY <1>0, <1>3 DEF StepOf, LocalType, PerTask, Locked
<1> QED  BY <1>7, <1>10, <1>11, <1>12, OrderAlone

LEMMA OrderMunmapFree ==
  ASSUME VmInv, LockInv, \A m, n \in Mm : m = n, NEW level, OrderInv(level),
         NEW t \in Task, MunmapFree(t)
  PROVE  OrderInv(level)'
<1>0. LocalType
  BY TypeParts DEF VmInv
<1>1. PICK f : f = vm[t][PTE][1]
  OBVIOUS
<1>2. pc[t] = "m_free" /\ free' = free \cup {f} /\ mem' = mem /\ Return(t)
  BY <1>1 DEF MunmapFree
<1>3. /\ level[f] = PTE
      /\ \A r \in Slot : level[r[1]] = PMD /\ LeadsOn(Read(mem, r)) => Read(mem, r).to # f
  <2>1. MunmapOK(t, level)
    BY DEF OrderInv
  <2> QED  BY <1>1, <1>2, <2>1 DEF MunmapOK
<1>4. Leveled(mem', level) /\ PageTablesOwned(mem', level, free')
  BY <1>2, <1>3 DEF OrderInv, TableInv, PageTablesOwned
<1>5. TableInv(level)'
  BY <1>2, <1>3, <1>4 DEF OrderInv, TableInv, Leveled, PageTablesOwned
<1>6. pc'[t] = "user" /\ StepOf(t) /\ Locked(t)
  BY <1>0, <1>2 DEF Return, Goto, StepOf, LocalType, PerTask, Locked
<1>7. UpdateOK(t, level)'
  BY <1>6 DEF UpdateOK
<1>8. MunmapOK(t, level)'
  BY <1>6 DEF MunmapOK
<1> QED  BY <1>5, <1>6, <1>7, <1>8, OrderAlone

\* A page fault fills slots that were empty, and a table that was unused.
LEMMA OrderFault ==
  ASSUME VmInv, LockInv, NEW level, Orderly(level), OrderInv(level),
         NEW t \in Task, pc[t] \notin {"m_clear", "m_free"},
         UNCHANGED <<pc, args, mm, vm, todo>>, free' \subseteq free,
         \A r \in Slot : Read(mem, r) # None /\ r[1] \notin free => Read(mem', r) = Read(mem, r)
  PROVE  UpdateOK(t, level)' /\ MunmapOK(t, level)'
<1>0. LocalOK(t)
  BY TypeParts DEF VmInv, LocalType
<1>1. ASSUME pc[t] \in {"u_write", "ipi", "u_unlock"}, mm[t] # NoMm,
             NEW l \in DOMAIN vm[t]
      PROVE  /\ level[vm[t][l][1]] = TableLevel(l) /\ vm[t][l][1] \notin free
             /\ l \in DOMAIN args[t].new /\ (pc[t] # "u_write" \/ l \notin todo[t]) =>
                  Read(mem', vm[t][l]) = args[t].new[l]
  <2>1. UpdateOK(t, level)
    BY DEF OrderInv
  <2>2. /\ level[vm[t][l][1]] = TableLevel(l) /\ vm[t][l][1] \notin free
        /\ l \in DOMAIN args[t].new /\ (pc[t] # "u_write" \/ l \notin todo[t]) =>
             Read(mem, vm[t][l]) = args[t].new[l]
    BY <1>1, <2>1 DEF UpdateOK
  <2>3. vm[t][l] \in Slot
    BY <1>0, <1>1 DEF LocalOK, IsPartial
  <2>4. l \in DOMAIN args[t].new => args[t].new[l] # None
    BY RequestEntry DEF None
  <2> QED  BY <2>2, <2>3, <2>4
<1>2. UpdateOK(t, level)'
  BY <1>1 DEF UpdateOK
<1>3. MunmapOK(t, level)'
  BY DEF MunmapOK
<1> QED  BY <1>2, <1>3

\* A page fault keeps the order, and what is not zero and in use stays as it is.
LEMMA FaultWrites ==
  ASSUME VmInv, NEW level, Orderly(level), TableInv(level),
         NEW m \in Mm, NEW a \in Addr, PageFault(m, a)
  PROVE  /\ TableInv(level)' /\ free' \subseteq free
         /\ \A r \in Slot : Read(mem, r) # None /\ r[1] \notin free => Read(mem', r) = Read(mem, r)
<1>0. /\ mem \in Memory /\ free \subseteq Frame /\ level \in [Frame -> Level]
      /\ mm_pgd[m] \in Frame /\ level[mm_pgd[m]] = PGD
      /\ Leveled(mem, level) /\ PageTablesOwned(mem, level, free)
      /\ (\A f \in free : level[f] = PTE)
      /\ page[a] \in Frame
  BY VmEditAssumption DEF VmInv, TypeOK, Orderly, TableInv
<1>3. SUFFICES /\ Leveled(mem', level) /\ PageTablesOwned(mem', level, free')
               /\ free' \subseteq free
               /\ \A r \in Slot : Read(mem, r) # None /\ r[1] \notin free =>
                    Read(mem', r) = Read(mem, r)
  BY <1>0 DEF TableInv, Leveled, PageTablesOwned
<1> DEFINE s == Slots(mem, mm_pgd[m], a)
           v == walk(m, a)
<1>4. /\ \A l \in DOMAIN v : v[l] = s[l] /\ level[v[l][1]] = TableLevel(l)
      /\ PUD \in DOMAIN v /\ Read(mem, s[PUD]).kind # "leaf" =>
           s[PMD] \in Slot /\ level[s[PMD][1]] = PMD
      /\ PUD \in DOMAIN v /\ PMD \notin DOMAIN v /\ Read(mem, s[PUD]).kind = "table" =>
           Read(mem, s[PMD]) = None
  <2>1. v = resolve_vm(mem, mm_pgd[m], a)
    BY VmEditAssumption DEF walk
  <2> QED  BY <1>0, <2>1, WalkLevels
<1>5. v \in [DOMAIN v -> Slot] /\ Leaf(page[a]) \in Entry /\ None \in Entry
  BY <1>0, WalkPartial DEF VmInv, IsPartial, Leaf, Entry
<1>6. \/ /\ PTE \in DOMAIN v /\ Read(mem, v[PTE]) = None
         /\ mem' = Write(mem, v[PTE], Leaf(page[a])) /\ free' = free
      \/ /\ PUD \in DOMAIN v /\ PMD \notin DOMAIN v /\ Read(mem, v[PUD]).kind = "table"
         /\ \E f \in free :
              /\ free' = free \ {f}
              /\ mem' = [Write(mem, s[PMD], Table(f))
                           EXCEPT ![f] = [i \in Index |->
                             IF i = index[a][PTE] THEN Leaf(page[a]) ELSE None]]
  BY DEF PageFault
<1> HIDE DEF s, v
<1>7. CASE /\ PTE \in DOMAIN v /\ Read(mem, v[PTE]) = None
           /\ mem' = Write(mem, v[PTE], Leaf(page[a])) /\ free' = free
  <2>1. v[PTE] \in Slot /\ level[v[PTE][1]] = PTE
    BY <1>4, <1>5, <1>7 DEF TableLevel, P4D, PTE
  <2>2. Leveled(mem', level) /\ PageTablesOwned(mem', level, free)
    BY <1>0, <1>5, <1>7, <2>1, PlainWrite
  <2>3. \A r \in Slot : Read(mem', r) = IF r = v[PTE] THEN Leaf(page[a]) ELSE Read(mem, r)
    BY <1>0, <1>5, <1>7, <2>1, ReadWrite
  <2> QED  BY <1>7, <2>2, <2>3
<1>8. ASSUME PUD \in DOMAIN v, PMD \notin DOMAIN v, Read(mem, v[PUD]).kind = "table",
             NEW f \in free, free' = free \ {f},
             mem' = [Write(mem, s[PMD], Table(f))
                       EXCEPT ![f] = [i \in Index |->
                         IF i = index[a][PTE] THEN Leaf(page[a]) ELSE None]]
      PROVE  /\ Leveled(mem', level) /\ PageTablesOwned(mem', level, free')
             /\ free' \subseteq free
             /\ \A r \in Slot : Read(mem, r) # None /\ r[1] \notin free =>
                  Read(mem', r) = Read(mem, r)
  <2>1. v[PUD] = s[PUD] /\ s[PMD] \in Slot /\ level[s[PMD][1]] = PMD /\ Read(mem, s[PMD]) = None
    BY <1>4, <1>8
  <2>2. level[f] = PTE /\ f \in Frame /\ PMD # PTE /\ LevelBelow(PMD) = PTE
    BY <1>0, <1>8 DEF PGD, PMD, PTE, LevelBelow
  <2>3. Table(f) \in Entry /\ Table(f).to = f
    BY <2>2 DEF Table, Entry
  <2>4. ASSUME NEW r \in Slot
        PROVE  /\ r[1] # f => Read(mem', r) = IF r = s[PMD] THEN Table(f) ELSE Read(mem, r)
    <3>1. Read(Write(mem, s[PMD], Table(f)), r) = IF r = s[PMD] THEN Table(f) ELSE Read(mem, r)
      BY <1>0, <2>1, <2>3, ReadWrite
    <3>2. r[1] # f => mem'[r[1]] = Write(mem, s[PMD], Table(f))[r[1]]
      BY <1>8, <2>3, ReadSlot, WriteType, <1>0 DEF Memory
    <3> QED  BY <3>1, <3>2, ReadSlot
  <2>5. \A r \in Slot : level[r[1]] # PTE =>
          Read(mem', r) = IF r = s[PMD] THEN Table(f) ELSE Read(mem, r)
    BY <2>2, <2>4
  <2>6. Leveled(mem', level)
    <3>1. ASSUME NEW g \in Frame, NEW i \in Index, level[g] # PTE, LeadsOn(mem'[g][i])
          PROVE  level[mem'[g][i].to] = LevelBelow(level[g])
      <4>1. /\ <<g, i>> \in Slot
            /\ Read(mem', <<g, i>>) = mem'[g][i] /\ Read(mem, <<g, i>>) = mem[g][i]
        BY PagingAssumption DEF Slot, Read
      <4>2. CASE <<g, i>> = s[PMD]
        BY <2>1, <2>2, <2>3, <2>5, <3>1, <4>1, <4>2
      <4>3. CASE <<g, i>> # s[PMD]
        <5>1. mem'[g][i] = mem[g][i]
          BY <2>5, <3>1, <4>1, <4>3
        <5> QED  BY <1>0, <3>1, <5>1 DEF Leveled
      <4> QED  BY <4>2, <4>3
    <3> QED  BY <3>1 DEF Leveled
  <2>7. PageTablesOwned(mem', level, free')
    <3>1. ASSUME NEW r \in Slot, level[r[1]] = PMD, LeadsOn(Read(mem', r))
          PROVE  \/ r = s[PMD] /\ Read(mem', r).to = f
                 \/ /\ r # s[PMD] /\ Read(mem', r) = Read(mem, r) /\ Read(mem, r).to \notin free
                    /\ Read(mem, r).to # f
      BY <1>0, <1>8, <2>2, <2>3, <2>5, <3>1 DEF PageTablesOwned
    <3>2. ASSUME NEW r \in Slot, level[r[1]] = PMD, LeadsOn(Read(mem', r))
          PROVE  /\ Read(mem', r).to \notin free'
                 /\ \A q \in Slot : /\ level[q[1]] = PMD /\ LeadsOn(Read(mem', q))
                                    /\ Read(mem', q).to = Read(mem', r).to
                                    => q = r
      <4>1. Read(mem', r).to \notin free'
        BY <1>8, <3>1, <3>2
      <4>2. ASSUME NEW q \in Slot, level[q[1]] = PMD, LeadsOn(Read(mem', q)),
                   Read(mem', q).to = Read(mem', r).to
            PROVE  q = r
        <5>1. CASE r = s[PMD] \/ q = s[PMD]
          BY <3>1, <3>2, <4>2, <5>1
        <5>2. CASE r # s[PMD] /\ q # s[PMD]
          <6>1. Read(mem', r) = Read(mem, r) /\ Read(mem', q) = Read(mem, q)
            BY <3>1, <3>2, <4>2, <5>2
          <6> QED  BY <1>0, <3>2, <4>2, <6>1 DEF PageTablesOwned
        <5> QED  BY <5>1, <5>2
      <4> QED  BY <4>1, <4>2
    <3> QED  BY <3>2 DEF PageTablesOwned
  <2>8. \A r \in Slot : Read(mem, r) # None /\ r[1] \notin free => Read(mem', r) = Read(mem, r)
    BY <1>8, <2>1, <2>4
  <2> QED  BY <1>8, <2>6, <2>7, <2>8
<1> QED  BY <1>6, <1>7, <1>8

LEMMA OrderPageFault ==
  ASSUME VmInv, LockInv, \A m, n \in Mm : m = n, NEW level, Orderly(level), OrderInv(level),
         NEW m \in Mm, NEW a \in Addr, PageFault(m, a)
  PROVE  OrderInv(level)'
<1>1. UNCHANGED <<pc, args, mm, vm, todo>>
  BY DEF PageFault, localVars
<1>2. \A t \in Task : pc[t] \notin {"m_clear", "m_free"}
  BY DEF PageFault, LockInv, LockOK, Locked
<1>3. /\ TableInv(level)' /\ free' \subseteq free
      /\ \A r \in Slot : Read(mem, r) # None /\ r[1] \notin free => Read(mem', r) = Read(mem, r)
  BY FaultWrites DEF OrderInv
<1>4. \A t \in Task : UpdateOK(t, level)' /\ MunmapOK(t, level)'
  BY <1>1, <1>2, <1>3, OrderFault
<1> QED  BY <1>3, <1>4 DEF OrderInv

LEMMA OrderInvInductive ==
  ASSUME VmInv, LockInv, \A m, n \in Mm : m = n, NEW level, Orderly(level), OrderInv(level),
         [Next]_vars
  PROVE  OrderInv(level)'
<1>0. LocalType /\ \A t \in Task : LocalOK(t) /\ HandlerOK(t) /\ LockOK(t)
  BY TypeParts DEF VmInv, LockInv, LocalType, HandlerInv
<1> USE DEF PerTask
\* Nothing is asked of a task that is elsewhere.
<1>1. ASSUME NEW t \in Task, StepOf(t), UNCHANGED <<mem, free>>,
             \/ pc'[t] \notin {"u_write", "ipi", "u_unlock", "m_clear", "m_free"}
             \/ pc'[t] = "ipi" /\ mm'[t] = NoMm
      PROVE  OrderInv(level)'
  <2>1. UpdateOK(t, level)'
    BY <1>1 DEF UpdateOK
  <2>2. MunmapOK(t, level)'
    BY <1>1 DEF MunmapOK
  <2> QED  BY <1>1, <2>1, <2>2, OrderStep
<1>2. ASSUME NEW t \in Task, NEW p \in Pid, NEW a \in Addr,
             \/ ResolveEnter(t, p, a) \/ \E r \in Requests : UpdateEnter(t, p, a, r)
             \/ InvalidateTlb(t, p, a)
      PROVE  OrderInv(level)'
  <2>1. StepOf(t) /\ pc[t] = "user" /\ UNCHANGED <<mem, free>>
    BY <1>0, <1>2 DEF ResolveEnter, UpdateEnter, InvalidateTlb, Goto, StepOf, LocalType, memVars
  <2>2. pc'[t] \in {"r_lock", "u_lock"} \/ (pc'[t] = "ipi" /\ mm'[t] = mm[t])
    BY <1>0, <1>2 DEF ResolveEnter, UpdateEnter, InvalidateTlb, Goto, LocalType
  <2>3. mm[t] = NoMm
    BY <1>0, <2>1 DEF LockOK
  <2> QED  BY <1>1, <2>1, <2>2, <2>3
<1>3. ASSUME NEW t \in Task,
             \/ ResolveLock(t) \/ ResolveWalk(t) \/ ResolveUnlock(t) \/ ResolveCopy(t)
             \/ UpdateLock(t)
      PROVE  OrderInv(level)'
  <2>1. StepOf(t) /\ UNCHANGED <<mem, free>> /\ pc'[t] \in {"r_walk", "r_unlock", "r_copy", "u_walk"}
    BY <1>0, <1>3 DEF ResolveLock, ResolveWalk, ResolveUnlock, ResolveCopy, UpdateLock, Goto,
                      StepOf, LocalType, localVars, memVars
  <2> QED  BY <1>1, <2>1
<1>4. ASSUME NEW t \in Task, Return(t), UNCHANGED <<mem, free>>
      PROVE  OrderInv(level)'
  <2>1. StepOf(t) /\ pc'[t] = "user"
    BY <1>0, <1>4 DEF Return, Goto, StepOf, LocalType
  <2> QED  BY <1>1, <1>4, <2>1
<1>5. ASSUME NEW t \in Task, ResolveReturn(t) \/ UpdateUnlock(t)
      PROVE  OrderInv(level)'
  <2>1. Return(t) /\ UNCHANGED <<mem, free>>
    BY <1>5 DEF ResolveReturn, UpdateUnlock, memVars
  <2> QED  BY <1>4, <2>1
<1>6. ASSUME NEW t \in Task, UpdateWalk(t) PROVE OrderInv(level)'
  <2>1. PICK m : m = get_mm(args[t].pid)
    OBVIOUS
  <2>2. PICK old : old = walk(m, args[t].addr)
    OBVIOUS
  <2>3. /\ vm' = [vm EXCEPT ![t] = old] /\ pc' = [pc EXCEPT ![t] = "u_write"]
        /\ todo' = [todo EXCEPT ![t] = DOMAIN old \cap DOMAIN args[t].new]
        /\ edited' = [edited EXCEPT ![t] = m]
        /\ UNCHANGED <<mem, free, args, mm, flush, entry>>
    BY <1>6, <2>1, <2>2 DEF UpdateWalk, Goto, memVars
  <2>4. args[t] \in Args /\ m \in Mm \cup {NoMm}
    BY <1>0, <2>1, GetMmType DEF LocalOK, VmInv, Args
  <2>5. \A l \in DOMAIN old : level[old[l][1]] = TableLevel(l) /\ old[l][1] \notin free
    <3>1. CASE m \in Mm
      BY <2>2, <2>4, <3>1, WalkInUse DEF OrderInv, Args
    <3>2. CASE m = NoMm
      BY <2>2, <3>2 DEF walk
    <3> QED  BY <2>4, <3>1, <3>2
  <2>6. /\ vm'[t] = old /\ pc'[t] = "u_write"
        /\ todo'[t] = DOMAIN old \cap DOMAIN args[t].new
    BY <1>0, <2>3 DEF LocalType
  <2>7. UpdateOK(t, level)'
    BY <2>3, <2>5, <2>6 DEF UpdateOK
  <2>8. MunmapOK(t, level)'
    BY <2>6 DEF MunmapOK
  <2>9. StepOf(t)
    BY <1>0, <2>3 DEF StepOf, LocalType
  <2> QED  BY <2>3, <2>7, <2>8, <2>9, OrderStep
<1>7. ASSUME NEW t \in Task, pc[t] \in {"u_write", "ipi"}, pc'[t] \in {"ipi", "u_unlock"},
             pc[t] = "u_write" => todo[t] = {}, StepOf(t), UNCHANGED <<mem, free, vm, args, mm>>
      PROVE  OrderInv(level)'
  <2>1. UpdateOK(t, level)
    BY DEF OrderInv
  <2>2. UpdateOK(t, level)'
    BY <1>7, <2>1 DEF UpdateOK
  <2>3. MunmapOK(t, level)'
    BY <1>7 DEF MunmapOK
  <2> QED  BY <1>7, <2>2, <2>3, OrderStep
<1>8. ASSUME NEW t \in Task, UpdateFlush(t) PROVE OrderInv(level)'
  <2>1. /\ pc[t] = "u_write" /\ pc'[t] = "ipi" /\ todo[t] = {} /\ StepOf(t)
        /\ UNCHANGED <<mem, free, vm, args, mm>>
    BY <1>0, <1>8 DEF UpdateFlush, Goto, StepOf, LocalType, memVars
  <2> QED  BY <1>7, <2>1
<1>9. ASSUME NEW t \in Task, NEW c \in Cpu, FlushCpu(t, c) PROVE OrderInv(level)'
  <2>1. /\ pc[t] = "ipi" /\ pc'[t] = "ipi" /\ StepOf(t) /\ UNCHANGED <<mem, free, vm, args, mm>>
    BY <1>0, <1>9 DEF FlushCpu, StepOf, LocalType, memVars
  <2> QED  BY <1>7, <2>1
<1>10. ASSUME NEW t \in Task, FlushDone(t) PROVE OrderInv(level)'
  <2>1. pc[t] = "ipi" /\ UNCHANGED <<mem, free>>
    BY <1>10 DEF FlushDone, memVars
  <2>2. CASE Return(t)
    BY <1>4, <2>1, <2>2
  <2>3. CASE Goto(t, "u_unlock") /\ UNCHANGED localVars
    <3>1. pc'[t] = "u_unlock" /\ StepOf(t) /\ UNCHANGED <<vm, args, mm>>
      BY <1>0, <2>3 DEF Goto, StepOf, LocalType, localVars
    <3> QED  BY <1>7, <2>1, <3>1
  <2> QED  BY <1>10, <2>2, <2>3 DEF FlushDone
<1>11. ASSUME UNCHANGED <<mem, free, pc, args, mm, vm, todo>> PROVE OrderInv(level)'
  <2>1. TableInv(level)'
    BY <1>11 DEF OrderInv, TableInv
  <2>2. \A t \in Task : UpdateOK(t, level)'
    BY <1>11 DEF OrderInv, UpdateOK
  <2>3. \A t \in Task : MunmapOK(t, level)'
    BY <1>11 DEF OrderInv, MunmapOK
  <2> QED  BY <2>1, <2>2, <2>3 DEF OrderInv
<1>12. ASSUME \/ \E t \in Task, impl \in {"kernel", "custom"} : SwitchTlbInvalidation(t, impl)
              \/ \E c \in Cpu, m \in Mm, a \in Addr : TlbFill(c, m, a)
              \/ \E p \in Pid : (\E m \in Mm : Exec(p, m)) \/ Exit(p)
              \/ \E p \in Pid, m \in Mm \cup {NoMm} : Borrow(p, m)
              \/ UNCHANGED vars
       PROVE  UNCHANGED <<mem, free, pc, args, mm, vm, todo>>
  BY <1>12 DEF SwitchTlbInvalidation, TlbFill, Exec, Exit, Borrow, vars, memVars, localVars
<1>13. ASSUME NEW t \in Task,
              UpdateWrite(t) \/ MunmapClear(t) \/ MunmapFree(t) \/ \E a \in Addr : MunmapBegin(t, a)
       PROVE  OrderInv(level)'
  BY <1>13, OrderUpdateWrite, OrderMunmapBegin, OrderMunmapClear, OrderMunmapFree
<1>14. ASSUME NEW m \in Mm, NEW a \in Addr, PageFault(m, a) PROVE OrderInv(level)'
  BY <1>14, OrderPageFault
<1> QED  BY <1>2, <1>3, <1>5, <1>6, <1>8, <1>9, <1>10, <1>11, <1>12, <1>13, <1>14 DEF Next

\* With one mm and orderly tables, in every reachable state.
LEMMA OrderInvariant ==
  ASSUME \A m, n \in Mm : m = n, NEW level, Orderly(level)
  PROVE  Spec => [](VmInv /\ LockInv /\ OrderInv(level))
<1>1. Init => LockInv
  BY DEF Init, LockInv, LockOK, Locked
<1>2. Init => OrderInv(level)
  <2>1. SUFFICES ASSUME Init PROVE OrderInv(level)
    OBVIOUS
  <2>2. TableInv(level)
    BY <2>1 DEF Init, TableInv, Orderly
  <2>3. \A t \in Task : pc[t] = "user"
    BY <2>1 DEF Init
  <2>4. \A t \in Task : UpdateOK(t, level)
    BY <2>3 DEF UpdateOK
  <2>5. \A t \in Task : MunmapOK(t, level)
    BY <2>3 DEF MunmapOK
  <2> QED  BY <2>2, <2>4, <2>5 DEF OrderInv
<1>3. VmInv /\ LockInv /\ [Next]_vars => LockInv'
  BY LockInvInductive
<1>4. VmInv /\ LockInv /\ OrderInv(level) /\ [Next]_vars => OrderInv(level)'
  BY OrderInvInductive
<1> QED  BY <1>1, <1>2, <1>3, <1>4, VmInvariant, PTL DEF Spec

\* For one mm whose tables are orderly, and any number of tasks, CPUs and addresses:
\* what VM_UPDATE has found in its walk is not freed before it writes there, although
\* munmap frees page tables and page faults take them up again (set_pgd to set_pte of
\* update_vm, under the lock that it takes).
THEOREM VmWritesHitTables ==
  ASSUME \A m, n \in Mm : m = n, NEW level, Orderly(level)
  PROVE  Spec => []WritesHitTables
<1>1. VmInv /\ LockInv /\ OrderInv(level) => WritesHitTables
  <2>1. SUFFICES ASSUME VmInv, LockInv, OrderInv(level), NEW t \in Task, pc[t] = "u_write",
                        NEW l \in todo[t]
                 PROVE  vm[t][l][1] \notin free
    BY DEF WritesHitTables
  <2>2. HandlerOK(t) /\ LockOK(t) /\ UpdateOK(t, level)
    BY <2>1 DEF VmInv, HandlerInv, LockInv, OrderInv
  <2>3. mm[t] # NoMm /\ l \in DOMAIN vm[t]
    BY <2>1, <2>2, VmEditAssumption DEF HandlerOK, LockOK, Locked
  <2> QED  BY <2>1, <2>2, <2>3 DEF UpdateOK
<1> QED  BY <1>1, OrderInvariant, PTL

\* Under the same hypotheses: when VM_UPDATE is about to give the lock back, every entry
\* that the caller asked for and that exists has the value that the caller gave; neither
\* a page fault, nor another update, nor munmap has undone one of its writes.
THEOREM VmUpdateApplied ==
  ASSUME \A m, n \in Mm : m = n, NEW level, Orderly(level)
  PROVE  Spec => []UpdateApplied
<1>1. VmInv /\ LockInv /\ OrderInv(level) => UpdateApplied
  <2>1. SUFFICES ASSUME VmInv, LockInv, OrderInv(level), NEW t \in Task, pc[t] = "u_unlock",
                        NEW l \in DOMAIN vm[t] \cap DOMAIN args[t].new
                 PROVE  Read(mem, vm[t][l]) = args[t].new[l]
    BY DEF UpdateApplied
  <2>2. LockOK(t) /\ UpdateOK(t, level)
    BY <2>1 DEF LockInv, OrderInv
  <2>3. mm[t] # NoMm
    BY <2>1, <2>2, VmEditAssumption DEF LockOK, Locked
  <2> QED  BY <2>1, <2>2, <2>3 DEF UpdateOK
<1> QED  BY <1>1, OrderInvariant, PTL

-----------------------------------------------------------------------------
(* What VM_RESOLVE reports                                                 *)

LEMMA WalkFound ==
  ASSUME VmInv, NEW level, Orderly(level), TableInv(level), RootsFilled(mem),
         NEW m \in Mm \cup {NoMm}, NEW a \in Addr
  PROVE  Found(walk(m, a), level)
<1>1. CASE m = NoMm
  BY <1>1 DEF walk, Found
<1>2. CASE m # NoMm
  <2> DEFINE s == Slots(mem, mm_pgd[m], a)
             v == walk(m, a)
             kind(l) == Read(mem, s[l]).kind
  <2>0. m \in Mm /\ mem \in Memory /\ mm_pgd[m] \in Frame
    BY <1>2, VmEditAssumption DEF VmInv, TypeOK
  <2>1. \A l \in DOMAIN v : level[v[l][1]] = TableLevel(l)
    BY <2>0, WalkInUse
  <2>2. /\ DOMAIN v \subseteq Level
        /\ v = [l \in DOMAIN v |-> s[l]]
        /\ PGD \in DOMAIN v <=> P4dFolded \/ kind(PGD) = "table"
        /\ P4D \in DOMAIN v <=> PGD \in DOMAIN v /\ kind(P4D) = "table"
        /\ PUD \in DOMAIN v <=> P4D \in DOMAIN v /\ kind(PUD) # "none"
        /\ PMD \in DOMAIN v <=> /\ PUD \in DOMAIN v
                                /\ kind(PMD) # "none" /\ kind(PUD) # "leaf"
    <3>1. v = resolve_vm(mem, mm_pgd[m], a)
      BY <1>2 DEF walk
    <3> QED  BY <2>0, <3>1, ResolveLevels
  <2>3. s[PGD] = <<mm_pgd[m], index[a][PGD]>> /\ s[PGD] \in Slot
    BY <2>0, SlotsType
  <2>4. P4dFolded => kind(PGD) # "none"
    BY <2>0, <2>3, ReadSlot DEF RootsFilled
  <2> HIDE DEF s, v
  <2>5. \A l \in DOMAIN v : l = PGD \/ l = P4D \/ l = PUD \/ l = PMD \/ l = PTE
    BY <2>2 DEF Level, PGD, P4D, PUD, PMD, PTE
  <2>6. \A l \in DOMAIN v : l # PTE => kind(l) # "none"
    BY <2>2, <2>4, <2>5
  <2>7. \A l \in DOMAIN v : v[l] = s[l]
    BY <2>2
  <2> QED  BY <2>1, <2>6, <2>7 DEF Found, v
<1> QED  BY <1>1, <1>2

\* A step of t that leaves the tables alone.
LEMMA StandStep ==
  ASSUME VmInv, NEW level, StandInv(level), NEW t \in Task, StepOf(t), UNCHANGED <<mem, free>>,
         pc'[t] \notin {"m_clear", "m_free"}, Found(vm'[t], level),
         \A l \in DOMAIN entry'[t] : l # PTE => entry'[t][l].kind # "none"
  PROVE  StandInv(level)'
<1>0. LocalType
  BY TypeParts DEF VmInv
<1>1. \A u \in Task \ {t} : pc'[u] = pc[u] /\ vm'[u] = vm[u] /\ entry'[u] = entry[u]
  BY <1>0 DEF StepOf, LocalType, PerTask
<1>2. \A slots : Found(slots, level) => Found(slots, level)'
  BY DEF Found
<1>3. \A u \in Task : pc'[u] \notin {"m_clear", "m_free"} /\ Found(vm'[u], level)
  BY <1>1 DEF StandInv
<1>4. \A u \in Task : Found(vm[u], level)'
  BY <1>3 DEF Found
<1>5. ValidIsNonzero'
  BY <1>1 DEF StandInv, ValidIsNonzero
<1>6. TableInv(level)' /\ RootsFilled(mem)'
  BY DEF StandInv, TableInv, RootsFilled
<1> QED  BY <1>3, <1>4, <1>5, <1>6 DEF StandInv

\* A step that writes to memory and clears nothing above the PTE.
LEMMA StandWrite ==
  ASSUME VmInv, NEW level, Orderly(level), StandInv(level), UNCHANGED <<pc, vm, entry>>,
         TableInv(level)',
         \A r \in Slot : level[r[1]] # PTE /\ Read(mem, r).kind # "none" =>
           Read(mem', r).kind # "none"
  PROVE  StandInv(level)'
<1>1. ASSUME NEW t \in Task, NEW l \in DOMAIN vm[t]
      PROVE  /\ level[vm[t][l][1]] = TableLevel(l)
             /\ l # PTE => Read(mem', vm[t][l]).kind # "none"
  <2>1. vm[t][l] \in Slot
    BY DEF VmInv, TypeOK, IsPartial
  <2>2. /\ level[vm[t][l][1]] = TableLevel(l)
        /\ l # PTE => Read(mem, vm[t][l]).kind # "none"
    BY DEF StandInv, Found
  <2>3. l # PTE => TableLevel(l) # PTE
    BY DEF TableLevel, PGD, PTE
  <2> QED  BY <2>1, <2>2, <2>3
<1>2. \A t \in Task : pc'[t] \notin {"m_clear", "m_free"} /\ Found(vm[t], level)'
  BY <1>1 DEF StandInv, Found
<1>3. ASSUME P4dFolded, NEW m \in Mm, NEW a \in Addr
      PROVE  mem'[mm_pgd[m]][index[a][PGD]].kind # "none"
  <2> DEFINE r == <<mm_pgd[m], index[a][PGD]>>
  <2>1. r \in Slot /\ r[1] = mm_pgd[m] /\ r[2] = index[a][PGD]
    BY VmEditAssumption, PagingAssumption DEF Slot, Level, PGD, PTE
  <2>2. level[r[1]] # PTE
    BY <2>1 DEF Orderly, PGD, PTE
  <2>3. Read(mem, r).kind # "none"
    BY <1>3, <2>1, ReadSlot DEF StandInv, RootsFilled
  <2> HIDE DEF r
  <2>4. Read(mem', r).kind # "none"
    BY <2>1, <2>2, <2>3
  <2> QED  BY <2>1, <2>4, ReadSlot
<1>4. RootsFilled(mem)'
  BY <1>3 DEF RootsFilled
<1>5. ValidIsNonzero'
  BY DEF StandInv, ValidIsNonzero
<1> QED  BY <1>2, <1>4, <1>5 DEF StandInv

LEMMA StandUpdateWrite ==
  ASSUME VmInv, NEW level, Orderly(level), StandInv(level), NEW t \in Task, UpdateWrite(t)
  PROVE  StandInv(level)'
<1>0. LocalOK(t) /\ HandlerOK(t) /\ mem \in Memory /\ level \in [Frame -> Level]
  BY TypeParts DEF VmInv, LocalType, HandlerInv, SharedType, Orderly
<1>1. PICK l : l = CHOOSE k \in todo[t] : \A j \in todo[t] : k <= j
  OBVIOUS
<1>2. /\ todo[t] # {} /\ pc[t] = "u_write" /\ UNCHANGED <<free, pc, vm, entry>>
      /\ mem' = Write(mem, vm[t][l], args[t].new[l])
  BY <1>1 DEF UpdateWrite
<1>3. l \in todo[t]
  <2>1. todo[t] \subseteq Level
    BY <1>0, <1>2 DEF HandlerOK, LocalOK, IsPartial
  <2> QED  BY <1>1, <1>2, <2>1, LeastLevel
<1>4. l \in DOMAIN vm[t] /\ l \in DOMAIN args[t].new
  BY <1>0, <1>2, <1>3 DEF HandlerOK
<1> DEFINE s == vm[t][l]
           e == args[t].new[l]
<1>5. s \in Slot /\ level[s[1]] = TableLevel(l)
  BY <1>0, <1>4 DEF LocalOK, IsPartial, StandInv, Found
<1>6. e \in Entry /\ e.kind # "none" /\ (l # PTE => ~LeadsOn(e))
  BY <1>4, RequestEntry
<1>7. level[s[1]] = PTE \/ ~LeadsOn(e)
  BY <1>5, <1>6 DEF TableLevel, P4D, PTE
<1> HIDE DEF s, e
<1>8. Leveled(mem', level) /\ PageTablesOwned(mem', level, free)
  BY <1>0, <1>2, <1>5, <1>6, <1>7, PlainWrite DEF StandInv, TableInv, s, e
<1>9. TableInv(level)'
  BY <1>2, <1>8 DEF StandInv, TableInv, Leveled, PageTablesOwned
<1>10. \A r \in Slot : Read(mem', r) = IF r = s THEN e ELSE Read(mem, r)
  BY <1>0, <1>2, <1>5, <1>6, ReadWrite DEF s, e
<1>11. \A r \in Slot : Read(mem, r).kind # "none" => Read(mem', r).kind # "none"
  BY <1>6, <1>10
<1> QED  BY <1>2, <1>9, <1>11, StandWrite

LEMMA StandPageFault ==
  ASSUME VmInv, NEW level, Orderly(level), StandInv(level),
         NEW m \in Mm, NEW a \in Addr, PageFault(m, a)
  PROVE  StandInv(level)'
<1>1. UNCHANGED <<pc, vm, entry>>
  BY DEF PageFault, localVars
<1>2. /\ TableInv(level)'
      /\ \A r \in Slot : Read(mem, r) # None /\ r[1] \notin free => Read(mem', r) = Read(mem, r)
  BY FaultWrites DEF StandInv
<1>3. ASSUME NEW r \in Slot, level[r[1]] # PTE, Read(mem, r).kind # "none"
      PROVE  Read(mem', r).kind # "none"
  <2>1. Read(mem, r) # None
    BY <1>3 DEF None
  <2>2. r[1] \notin free
    BY <1>3 DEF StandInv, TableInv
  <2> QED  BY <1>2, <1>3, <2>1, <2>2
<1> QED  BY <1>1, <1>2, <1>3, StandWrite

LEMMA StandInvInductive ==
  ASSUME "munmap" \notin Kernel, VmInv, NEW level, Orderly(level), StandInv(level), [Next]_vars
  PROVE  StandInv(level)'
<1>0. LocalType /\ \A t \in Task : LocalOK(t) /\ HandlerOK(t)
  BY TypeParts DEF VmInv, LocalType, HandlerInv
<1> USE DEF PerTask
<1>1. ASSUME NEW t \in Task PROVE /\ pc[t] \notin {"m_clear", "m_free"} /\ Found(vm[t], level)
                                  /\ \A l \in DOMAIN entry[t] : l # PTE => entry[t][l].kind # "none"
  BY DEF StandInv, ValidIsNonzero
\* A step of t that neither walks nor copies.
<1>2. ASSUME NEW t \in Task, StepOf(t), UNCHANGED <<mem, free, vm, entry>>,
             pc'[t] \notin {"m_clear", "m_free"}
      PROVE  StandInv(level)'
  BY <1>1, <1>2, StandStep
<1>3. ASSUME NEW t \in Task, NEW p \in Pid, NEW a \in Addr,
             \/ ResolveEnter(t, p, a) \/ \E r \in Requests : UpdateEnter(t, p, a, r)
             \/ InvalidateTlb(t, p, a)
      PROVE  StandInv(level)'
  <2>1. StepOf(t) /\ UNCHANGED <<mem, free, vm, entry>> /\ pc'[t] \in {"r_lock", "u_lock", "ipi"}
    BY <1>0, <1>3 DEF ResolveEnter, UpdateEnter, InvalidateTlb, Goto, StepOf, LocalType, memVars
  <2> QED  BY <1>2, <2>1
<1>4. ASSUME NEW t \in Task,
             ResolveLock(t) \/ ResolveUnlock(t) \/ UpdateLock(t) \/ UpdateFlush(t)
      PROVE  StandInv(level)'
  <2>1. /\ StepOf(t) /\ UNCHANGED <<mem, free, vm, entry>>
        /\ pc'[t] \in {"r_walk", "r_copy", "u_walk", "ipi"}
    BY <1>0, <1>4 DEF ResolveLock, ResolveUnlock, UpdateLock, UpdateFlush, Goto, StepOf,
                      LocalType, localVars, memVars
  <2> QED  BY <1>2, <2>1
<1>5. ASSUME NEW t \in Task, Return(t), UNCHANGED <<mem, free>>
      PROVE  StandInv(level)'
  <2>1. StepOf(t) /\ pc'[t] = "user" /\ vm'[t] = <<>> /\ entry'[t] = <<>>
    BY <1>0, <1>5 DEF Return, Goto, StepOf, LocalType
  <2>2. Found(vm'[t], level)
    BY <2>1 DEF Found
  <2>3. \A l \in DOMAIN entry'[t] : l # PTE => entry'[t][l].kind # "none"
    BY <2>1
  <2> QED  BY <1>5, <2>1, <2>2, <2>3, StandStep
<1>6. ASSUME NEW t \in Task, ResolveReturn(t) \/ UpdateUnlock(t)
      PROVE  StandInv(level)'
  <2>1. Return(t) /\ UNCHANGED <<mem, free>>
    BY <1>6 DEF ResolveReturn, UpdateUnlock, memVars
  <2> QED  BY <1>5, <2>1
<1>7. ASSUME NEW t \in Task, NEW m \in Mm \cup {NoMm}, NEW a \in Addr, StepOf(t),
             vm'[t] = walk(m, a), UNCHANGED <<mem, free, entry>>,
             pc'[t] \notin {"m_clear", "m_free"}
      PROVE  StandInv(level)'
  <2>1. Found(walk(m, a), level)
    BY <1>7, WalkFound DEF StandInv
  <2>2. Found(vm'[t], level)
    BY <1>7, <2>1
  <2> QED  BY <1>1, <1>7, <2>2, StandStep
<1>8. ASSUME NEW t \in Task, ResolveWalk(t) PROVE StandInv(level)'
  <2>1. /\ StepOf(t) /\ UNCHANGED <<mem, free, entry>> /\ pc'[t] = "r_unlock"
        /\ vm'[t] = walk(mm[t], args[t].addr)
    BY <1>0, <1>8 DEF ResolveWalk, Goto, StepOf, LocalType, memVars
  <2>2. mm[t] \in Mm \cup {NoMm} /\ args[t].addr \in Addr
    BY <1>0 DEF LocalOK, Args
  <2> QED  BY <1>7, <2>1, <2>2
<1>9. ASSUME NEW t \in Task, UpdateWalk(t) PROVE StandInv(level)'
  <2>1. /\ StepOf(t) /\ UNCHANGED <<mem, free, entry>> /\ pc'[t] = "u_write"
        /\ vm'[t] = walk(get_mm(args[t].pid), args[t].addr)
    BY <1>0, <1>9 DEF UpdateWalk, Goto, StepOf, LocalType, memVars
  <2>2. get_mm(args[t].pid) \in Mm \cup {NoMm} /\ args[t].addr \in Addr
    BY <1>0, GetMmType DEF LocalOK, Args, VmInv
  <2> QED  BY <1>7, <2>1, <2>2
<1>10. ASSUME NEW t \in Task, ResolveCopy(t) PROVE StandInv(level)'
  <2> DEFINE l == CopyNext(t)
             e == Read(mem, vm[t][l])
  <2>1. /\ StepOf(t) /\ UNCHANGED <<mem, free, pc, vm>> /\ pc[t] = "r_copy" /\ todo[t] # {}
        /\ entry'[t] = [k \in DOMAIN entry[t] \cup {l} |->
                          IF k = l THEN e ELSE entry[t][k]]
    BY <1>0, <1>10 DEF ResolveCopy, StepOf, LocalType, memVars
  <2>2. l \in DOMAIN vm[t]
    <3>1. todo[t] \subseteq DOMAIN vm[t] /\ todo[t] \subseteq Level
      BY <1>0, <2>1 DEF HandlerOK, LocalOK, IsPartial
    <3>2. \E i \in 1..5 : /\ CopyOrder[i] \in todo[t]
                          /\ \A j \in 1..(i - 1) : CopyOrder[j] \notin todo[t]
      BY <2>1, <3>1 DEF CopyOrder, Level, PGD, P4D, PUD, PMD, PTE
    <3>3. l \in todo[t]
      BY <3>2 DEF CopyNext
    <3> QED  BY <3>1, <3>3
  <2>3. l # PTE => e.kind # "none"
    BY <1>1, <2>2 DEF Found
  <2> HIDE DEF l, e
  <2>4. \A k \in DOMAIN entry'[t] : k # PTE => entry'[t][k].kind # "none"
    BY <1>1, <2>1, <2>3
  <2> QED  BY <1>1, <2>1, <2>4, StandStep
<1>11. ASSUME NEW t \in Task, NEW c \in Cpu, FlushCpu(t, c) PROVE StandInv(level)'
  <2>1. StepOf(t) /\ UNCHANGED <<mem, free, pc, vm, entry>>
    BY <1>0, <1>11 DEF FlushCpu, StepOf, LocalType, memVars
  <2> QED  BY <1>1, <1>2, <2>1
<1>12. ASSUME NEW t \in Task, FlushDone(t) PROVE StandInv(level)'
  <2>1. UNCHANGED <<mem, free>>
    BY <1>12 DEF FlushDone, memVars
  <2>2. CASE Return(t)
    BY <1>5, <2>1, <2>2
  <2>3. CASE Goto(t, "u_unlock") /\ UNCHANGED localVars
    <3>1. pc'[t] = "u_unlock" /\ StepOf(t) /\ UNCHANGED <<vm, entry>>
      BY <1>0, <2>3 DEF Goto, StepOf, LocalType, localVars
    <3> QED  BY <1>2, <2>1, <3>1
  <2> QED  BY <1>12, <2>2, <2>3 DEF FlushDone
<1>13. ASSUME UNCHANGED <<mem, free, pc, vm, entry>> PROVE StandInv(level)'
  BY <1>13 DEF StandInv, TableInv, RootsFilled, Found, ValidIsNonzero
<1>14. ASSUME \/ \E t \in Task, impl \in {"kernel", "custom"} : SwitchTlbInvalidation(t, impl)
              \/ \E c \in Cpu, m \in Mm, a \in Addr : TlbFill(c, m, a)
              \/ \E p \in Pid : (\E m \in Mm : Exec(p, m)) \/ Exit(p)
              \/ \E p \in Pid, m \in Mm \cup {NoMm} : Borrow(p, m)
              \/ UNCHANGED vars
       PROVE  UNCHANGED <<mem, free, pc, vm, entry>>
  BY <1>14 DEF SwitchTlbInvalidation, TlbFill, Exec, Exit, Borrow, vars, memVars, localVars
<1>15. ASSUME NEW t \in Task PROVE /\ ~MunmapClear(t) /\ ~MunmapFree(t)
                                   /\ \A a \in Addr : ~MunmapBegin(t, a)
  BY <1>1 DEF MunmapBegin, MunmapClear, MunmapFree
<1> QED  BY <1>3, <1>4, <1>6, <1>8, <1>9, <1>10, <1>11, <1>12, <1>13, <1>14, <1>15,
            StandUpdateWrite, StandPageFault DEF Next

\* As long as the process does not unmap anything, for orderly tables, any number of
\* tasks and mms, and any execs and exits: what VM_RESOLVE reports as valid above the
\* PTE is not zero, although vm_to_user reads the entries after resolve_vm has given
\* the lock back, and updates and page faults write there.
THEOREM VmValidIsNonzero ==
  ASSUME "munmap" \notin Kernel, NEW level, Orderly(level), RootsFilled(InitMem)
  PROVE  Spec => []ValidIsNonzero
<1>1. Init => StandInv(level)
  <2>1. SUFFICES ASSUME Init PROVE StandInv(level)
    OBVIOUS
  <2>2. TableInv(level) /\ RootsFilled(mem)
    BY <2>1 DEF Init, TableInv, Orderly
  <2>3. \A t \in Task : pc[t] = "user" /\ vm[t] = <<>> /\ entry[t] = <<>>
    BY <2>1 DEF Init
  <2>4. \A t \in Task : pc[t] \notin {"m_clear", "m_free"} /\ Found(vm[t], level)
    BY <2>3 DEF Found
  <2>5. ValidIsNonzero
    BY <2>3 DEF ValidIsNonzero
  <2> QED  BY <2>2, <2>4, <2>5 DEF StandInv
<1>2. VmInv /\ StandInv(level) /\ [Next]_vars => StandInv(level)'
  BY StandInvInductive
<1>3. StandInv(level) => ValidIsNonzero
  BY DEF StandInv
<1> QED  BY <1>1, <1>2, <1>3, VmInvariant, PTL DEF Spec
=============================================================================
