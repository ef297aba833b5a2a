--------------------------- MODULE UserEditProofs ---------------------------
(***************************************************************************)
(* Proofs about UserEdit, for any memory, any number of threads, addresses *)
(* and requests.                                                           *)
(***************************************************************************)
EXTENDS UserEdit, TLAPS

\* The levels that a walk has read are the upper ones.
IsChain(D) == D \in {{}, {PGD}, {PGD, PUD}, {PGD, PUD, PMD}, {PGD, PUD, PMD, PTE}}

\* The walk has gone on at the entry e of level l.
GoesOn(e, l) == IsPresent(e) /\ (l = PMD => e.kind # "leaf")

LocalOK(t) ==
  /\ pc[t] \in PC
  /\ args[t].addr \in Addr /\ args[t].new \in Requests[args[t].addr] \cup {<<>>}
  /\ IsChain(DOMAIN current[t])
  /\ \A l \in DOMAIN current[t] :
       /\ current[t][l] \in Entry
       /\ l # PTE /\ Below[l] \in DOMAIN current[t] => GoesOn(current[t][l], l)
  /\ todo[t] \subseteq DOMAIN current[t]
  /\ unread[t] \in BOOLEAN /\ unwritten[t] \subseteq DOMAIN current[t]

\* What a call has in its locals, by where it is.
HandlerOK(t) ==
  /\ pc[t] = "walk" => /\ PTE \notin DOMAIN current[t]
                       /\ \A l \in DOMAIN current[t] : GoesOn(current[t][l], l)
  /\ pc[t] # "write" => todo[t] = {}
  /\ pc[t] \in {"user", "walk"} => unwritten[t] = {}
  /\ todo[t] \subseteq DOMAIN args[t].new
  /\ args[t].new # <<>> => t \in Editor
  /\ pc[t] \in {"write", "flush", "flush_again"} => args[t].new # <<>>

\* f is a function of the threads.
PerTask(f) == f \in [Task -> {f[t] : t \in Task}]

LocalType ==
  /\ PerTask(pc) /\ PerTask(args) /\ PerTask(current) /\ PerTask(todo) /\ PerTask(seen)
  /\ PerTask(unread) /\ PerTask(unwritten)
  /\ \A t \in Task : LocalOK(t) /\ HandlerOK(t)

SharedType ==
  /\ mem \in Memory
  /\ free \subseteq Frame
  /\ tlb \in [Addr -> (Frame \X {PUD, PMD, PTE}) \cup {Fault}]
  /\ stray \in BOOLEAN

UserInv == LocalType /\ SharedType

LEMMA UserInvTypes == UserInv => TypeOK
<1>1. ASSUME UserInv PROVE pc \in [Task -> PC]
  BY <1>1 DEF UserInv, LocalType, PerTask, LocalOK
<1> QED  BY <1>1 DEF UserInv, LocalType, SharedType, LocalOK, TypeOK, IsChain, GoesOn

\* The entry e of the PMD s leads to a page table that is at home there and in use.
HomeOf(e, s, home, unused) == LeadsOn(e) => home[e.to] = s /\ e.to \notin unused

\* Page tables as Private has them: the upper levels never change.
Tree(memory, level, home, unused) ==
  /\ memory \in Memory
  /\ \A f \in Frame, i \in Index : Fits(memory[f][i], level[f], level)
  /\ \A s \in Slot : level[s[1]] \in {PGD, PUD} => Read(memory, s) = Read(InitMem, s)
  /\ \A s \in Slot : level[s[1]] = PMD => HomeOf(Read(memory, s), s, home, unused)

\* What the walk of t has read, as far as it was in the tables of the address: what is
\* there, or zero when the read has failed.
WalkedOK(t, level, home) ==
  LET s == Slots(InitMem, ptedit_paging_root, args[t].addr)
  IN /\ \A l \in {PGD, PUD} \cap DOMAIN current[t] :
          Reaches(t, l) => current[t][l] \in {Read(InitMem, s[l]), None}
     /\ PMD \in DOMAIN current[t] /\ Reaches(t, PMD) =>
          /\ HomeOf(current[t][PMD], s[PMD], home, free)
          /\ Fits(current[t][PMD], PMD, level)

TreeInv(level, home) ==
  /\ home \in [Frame -> Slot]
  /\ free \subseteq SpareTable
  /\ Tree(mem, level, home, free)
  /\ \A a \in Addr : \A r \in Requests[a] :
       PMD \in DOMAIN r => HomeOf(r[PMD], PmdSlot(a), home, free)
  /\ \A t \in Task : WalkedOK(t, level, home)

\* As long as the new page tables of page faults find a home, until an update has written
\* elsewhere.
PrivateInv(level) == stray \/ \E home : TreeInv(level, home)

-----------------------------------------------------------------------------
(* Page tables                                                             *)

LEMMA EntryType ==
  ASSUME NEW e \in Entry
  PROVE  /\ e.kind \in {"none", "absent", "table", "leaf"}
         /\ e.kind = "none" => e = None /\ e.to = NoFrame
         /\ e.kind # "none" => e.to \in Frame
BY DEF Entry, None

\* What is read at a frame, or at none, is an entry.
LEMMA ReadType ==
  ASSUME NEW memory \in Memory, NEW f \in Frame \cup {NoFrame}, NEW i \in Index
  PROVE  /\ Read(memory, <<f, i>>) \in Entry
         /\ f \in Frame => Read(memory, <<f, i>>) = memory[f][i] /\ <<f, i>> \in Slot
<1>1. CASE f = NoFrame
  BY <1>1, PagingAssumption DEF Read, Entry
<1>2. CASE f \in Frame
  BY <1>2, PagingAssumption DEF Read, Memory, Slot
<1> QED  BY <1>1, <1>2

LEMMA ReadNothing ==
  ASSUME NEW memory, NEW i
  PROVE  Read(memory, <<NoFrame, i>>) = None /\ None \in Entry /\ None.kind = "none"
BY DEF Read, None, Entry

LEMMA ReadSlot ==
  ASSUME NEW memory, NEW s \in Slot
  PROVE  s[1] \in Frame /\ s[2] \in Index /\ s = <<s[1], s[2]>> /\ Read(memory, s) = memory[s[1]][s[2]]
BY PagingAssumption DEF Slot, Read

LEMMA ReadWrite ==
  ASSUME NEW memory \in Memory, NEW s \in Slot, NEW e \in Entry, NEW r \in Slot
  PROVE  Read(Write(memory, s, e), r) = IF r = s THEN e ELSE Read(memory, r)
<1>1. PICK f \in Frame, i \in Index : s = <<f, i>>
  BY DEF Slot
<1>2. PICK g \in Frame, j \in Index : r = <<g, j>>
  BY DEF Slot
<1>3. f # NoFrame /\ g # NoFrame
  BY PagingAssumption
<1>4. Write(memory, s, e)[g][j] = IF g = f /\ j = i THEN e ELSE memory[g][j]
  BY <1>1 DEF Write, Memory
<1> QED  BY <1>1, <1>2, <1>3, <1>4 DEF Read

LEMMA WriteType ==
  ASSUME NEW memory \in Memory, NEW s, NEW e \in Entry
  PROVE  Write(memory, s, e) \in Memory
BY DEF Memory, Write

LEMMA IndexType == ASSUME NEW a \in Addr, NEW l \in Level PROVE index[a][l] \in Index
BY PagingAssumption

LEMMA Levels == /\ Level = {PGD, P4D, PUD, PMD, PTE}
                /\ PGD # P4D /\ PGD # PUD /\ PGD # PMD /\ PGD # PTE /\ P4D # PUD
                /\ P4D # PMD /\ P4D # PTE /\ PUD # PMD /\ PUD # PTE /\ PMD # PTE
                /\ LevelBelow(PGD) = PUD /\ LevelBelow(PUD) = PMD /\ LevelBelow(PMD) = PTE
                /\ DOMAIN Above = {PUD, PMD, PTE}
                /\ Above[PUD] = PGD /\ Above[PMD] = PUD /\ Above[PTE] = PMD
                /\ Below[PGD] = PUD /\ Below[PUD] = PMD /\ Below[PMD] = PTE
BY UserEditAssumption DEF Level, PGD, P4D, PUD, PMD, PTE, LevelBelow, Above, Below

\* The slots of an address, with a folded P4D.
LEMMA SlotsForm ==
  ASSUME NEW memory, NEW root, NEW a
  PROVE  LET s == Slots(memory, root, a)
         IN /\ s[PGD] = <<root, index[a][PGD]>> /\ s[P4D] = s[PGD]
            /\ s[PUD] = <<Read(memory, s[PGD]).to, index[a][PUD]>>
            /\ s[PMD] = <<Read(memory, s[PUD]).to, index[a][PMD]>>
            /\ s[PTE] = <<Read(memory, s[PMD]).to, index[a][PTE]>>
BY UserEditAssumption DEF Slots, PGD, P4D, PUD, PMD, PTE

\* The levels that resolve_vm reports below a folded P4D, and what it reports for them.
LEMMA ResolveLevels ==
  ASSUME NEW memory, NEW root, NEW a
  PROVE  LET s == Slots(memory, root, a)
             v == resolve_vm(memory, root, a)
             kind(l) == Read(memory, s[l]).kind
         IN /\ \A l \in DOMAIN v : v[l] = s[l] /\ l \in Level
            /\ PUD \in DOMAIN v <=> kind(P4D) = "table" /\ kind(PUD) # "none"
            /\ PMD \in DOMAIN v <=> /\ PUD \in DOMAIN v
                                    /\ kind(PMD) # "none" /\ kind(PUD) # "leaf"
            /\ PTE \in DOMAIN v <=> PMD \in DOMAIN v /\ kind(PMD) # "leaf"
BY UserEditAssumption DEF resolve_vm, Level, PGD, P4D, PUD, PMD, PTE

\* The hardware ends up in a frame, or faults.
LEMMA TranslateType ==
  ASSUME NEW memory \in Memory, NEW a \in Addr
  PROVE  translate(memory, a) \in (Frame \X {PUD, PMD, PTE}) \cup {Fault}
<1> DEFINE s == Slots(memory, ptedit_paging_root, a)
           e(l) == Read(memory, s[l])
           T == (Frame \X {PUD, PMD, PTE}) \cup {Fault}
<1>1. /\ s[PGD] = <<ptedit_paging_root, index[a][PGD]>> /\ s[P4D] = s[PGD]
      /\ s[PUD] = <<e(PGD).to, index[a][PUD]>>
      /\ s[PMD] = <<e(PUD).to, index[a][PMD]>> /\ s[PTE] = <<e(PMD).to, index[a][PTE]>>
  BY SlotsForm
<1> HIDE DEF s
<1>2. \A l \in {PGD, PUD, PMD, PTE} : index[a][l] \in Index
  BY IndexType, Levels
<1>3. ASSUME NEW x \in Entry PROVE x.to \in Frame \cup {NoFrame}
  BY EntryType
<1>4. e(PGD) \in Entry
  BY <1>1, <1>2, UserEditAssumption, ReadType
<1>5. e(PUD) \in Entry
  BY <1>1, <1>2, <1>3, <1>4, ReadType
<1>6. e(PMD) \in Entry
  BY <1>1, <1>2, <1>3, <1>5, ReadType
<1>7. e(PTE) \in Entry
  BY <1>1, <1>2, <1>3, <1>6, ReadType
<1>8. ASSUME NEW x \in Entry, NEW l \in {PUD, PMD, PTE} PROVE Target(x, l) \in T
  BY EntryType DEF Target
<1>9. Target(e(PUD), PUD) \in T /\ Target(e(PMD), PMD) \in T /\ Target(e(PTE), PTE) \in T
  BY <1>5, <1>6, <1>7, <1>8
<1> QED  BY <1>9 DEF translate, Translate, s

-----------------------------------------------------------------------------
(* Types                                                                   *)

\* A step that changes no local of a thread other than t, except the history.
StepOf(t) ==
  /\ pc' = [pc EXCEPT ![t] = pc'[t]] /\ args' = [args EXCEPT ![t] = args'[t]]
  /\ current' = [current EXCEPT ![t] = current'[t]] /\ todo' = [todo EXCEPT ![t] = todo'[t]]
  /\ unread' = [unread EXCEPT ![t] = unread'[t]]
  /\ unwritten' = [unwritten EXCEPT ![t] = unwritten'[t]]

LEMMA Others ==
  ASSUME LocalType, NEW t \in Task, StepOf(t)
  PROVE  /\ PerTask(pc') /\ PerTask(args') /\ PerTask(current') /\ PerTask(todo')
         /\ PerTask(unread') /\ PerTask(unwritten')
         /\ \A u \in Task \ {t} : /\ pc'[u] = pc[u] /\ args'[u] = args[u]
                                  /\ current'[u] = current[u] /\ todo'[u] = todo[u]
                                  /\ unread'[u] = unread[u] /\ unwritten'[u] = unwritten[u]
<1>1. ASSUME NEW f, NEW g, PerTask(f), NEW v, g = [f EXCEPT ![t] = v]
      PROVE  PerTask(g) /\ \A u \in Task \ {t} : g[u] = f[u]
  BY <1>1 DEF PerTask
<1>2. PerTask(pc') /\ \A u \in Task \ {t} : pc'[u] = pc[u]
  BY <1>1 DEF LocalType, StepOf
<1>3. PerTask(args') /\ \A u \in Task \ {t} : args'[u] = args[u]
  BY <1>1 DEF LocalType, StepOf
<1>4. PerTask(current') /\ \A u \in Task \ {t} : current'[u] = current[u]
  BY <1>1 DEF LocalType, StepOf
<1>5. PerTask(todo') /\ \A u \in Task \ {t} : todo'[u] = todo[u]
  BY <1>1 DEF LocalType, StepOf
<1>6. PerTask(unread') /\ \A u \in Task \ {t} : unread'[u] = unread[u]
  BY <1>1 DEF LocalType, StepOf
<1>7. PerTask(unwritten') /\ \A u \in Task \ {t} : unwritten'[u] = unwritten[u]
  BY <1>1 DEF LocalType, StepOf
<1> QED  BY <1>2, <1>3, <1>4, <1>5, <1>6, <1>7

LEMMA LocalStep ==
  ASSUME LocalType, NEW t \in Task, StepOf(t), PerTask(seen'), LocalOK(t)', HandlerOK(t)'
  PROVE  LocalType'
<1>1. ASSUME NEW u \in Task \ {t} PROVE LocalOK(u)' /\ HandlerOK(u)'
  <2>1. LocalOK(u) /\ HandlerOK(u)
    BY DEF LocalType
  <2>2. LocalOK(u)'
    BY <2>1, Others DEF LocalOK
  <2>3. HandlerOK(u)'
    BY <2>1, Others DEF HandlerOK
  <2> QED  BY <2>2, <2>3
<1> QED  BY <1>1, Others DEF LocalType

LEMMA StoreSeen ==
  ASSUME NEW after, Store(after)
  PROVE  PerTask(seen') /\ mem' = after
BY DEF Store, PerTask

LEMMA RequestPartial ==
  ASSUME LocalType, NEW t \in Task
  PROVE  IsPartial(args[t].new, Entry)
<1>1. IsPartial(<<>>, Entry)
  BY DEF IsPartial
<1> QED  BY <1>1, UserEditAssumption DEF LocalType, LocalOK

\* The chain grows by the next level.
LEMMA NextLevelIs ==
  ASSUME NEW t \in Task, IsChain(DOMAIN current[t]), PTE \notin DOMAIN current[t]
  PROVE  LET D == DOMAIN current[t]
             l == NextLevel(t)
         IN \/ D = {} /\ l = PGD
            \/ D = {PGD} /\ l = PUD
            \/ D = {PGD, PUD} /\ l = PMD
            \/ D = {PGD, PUD, PMD} /\ l = PTE
<1> DEFINE D == DOMAIN current[t]
           Candidate(l) == l \notin D /\ (l = PGD \/ Above[l] \in D)
<1>0. DOMAIN Above = {PUD, PMD, PTE}
  BY Levels
<1>1. NextLevel(t) = CHOOSE l \in {PGD, PUD, PMD, PTE} : Candidate(l)
  BY <1>0 DEF NextLevel
<1>2. CASE D = {}
  BY <1>1, <1>2, Levels
<1>3. CASE D = {PGD}
  BY <1>1, <1>3, Levels
<1>4. CASE D = {PGD, PUD}
  BY <1>1, <1>4, Levels
<1>5. CASE D = {PGD, PUD, PMD}
  BY <1>1, <1>5, Levels
<1> QED  BY <1>2, <1>3, <1>4, <1>5 DEF IsChain

\* Where a level is looked for: in a frame, and what is found is an entry.
LEMMA EntrySlotType ==
  ASSUME LocalType, NEW memory \in Memory, NEW t \in Task, NEW l \in {PGD, PUD, PMD, PTE},
         l # PGD => /\ Above[l] \in DOMAIN current[t]
                    /\ GoesOn(current[t][Above[l]], Above[l])
  PROVE  EntrySlot(t, l) \in Slot /\ Read(memory, EntrySlot(t, l)) \in Entry
<1>1. args[t].addr \in Addr /\ \A k \in DOMAIN current[t] : current[t][k] \in Entry
  BY DEF LocalType, LocalOK
<1>2. index[args[t].addr][l] \in Index
  BY <1>1, IndexType, Levels
<1>3. CASE l = PGD
  BY <1>2, <1>3, ReadType, UserEditAssumption DEF EntrySlot
<1>4. CASE l # PGD
  <2>1. current[t][Above[l]].to \in Frame
    BY <1>1, <1>4, EntryType DEF GoesOn, IsPresent
  <2>2. cast[current[t][Above[l]].to] \in Frame
    BY <2>1, CastAssumption
  <2> QED  BY <1>2, <1>4, <2>2, ReadType DEF EntrySlot
<1> QED  BY <1>3, <1>4

\* One step of the walk: it reads the entry e of level l.
DerefAt(t, l, e) ==
  /\ pc[t] = "walk"
  /\ EntrySlot(t, l) \in Slot
  /\ \/ ~unread'[t] /\ e = Read(mem, EntrySlot(t, l)) /\ seen' = seen
     \/ unread'[t] /\ e = None /\ seen' = [seen EXCEPT ![t] = {}]
  /\ \/ DOMAIN current[t] = {} /\ l = PGD
     \/ DOMAIN current[t] = {PGD} /\ l = PUD
     \/ DOMAIN current[t] = {PGD, PUD} /\ l = PMD
     \/ DOMAIN current[t] = {PGD, PUD, PMD} /\ l = PTE
  /\ \/ l = PGD /\ ~IsPresent(e) /\ current'[t] = current[t]
     \/ /\ l # PGD \/ IsPresent(e)
        /\ current'[t] = [k \in DOMAIN current[t] \cup {l} |->
                            IF k = l THEN e ELSE current[t][k]]
  /\ \/ ~LastLevel(l, e) /\ pc'[t] = "walk" /\ todo'[t] = {}
     \/ /\ LastLevel(l, e)
        /\ pc'[t] = IF args[t].new = <<>> THEN "resolved" ELSE "write"
        /\ todo'[t] = DOMAIN current'[t] \cap DOMAIN args[t].new
  /\ StepOf(t) /\ unread'[t] \in BOOLEAN
  /\ UNCHANGED <<mem, free, tlb, args, unwritten, stray>>

LEMMA DerefStep ==
  ASSUME UserInv, NEW t \in Task, NEW ok \in BOOLEAN, Deref(t, ok)
  PROVE  \E l \in {PGD, PUD, PMD, PTE}, e \in Entry : DerefAt(t, l, e)
<1>0. LocalType /\ LocalOK(t) /\ HandlerOK(t) /\ mem \in Memory
  BY DEF UserInv, LocalType, SharedType
<1>1. PICK l : l = NextLevel(t)
  OBVIOUS
<1>2. PICK e : e = IF ok THEN Read(mem, EntrySlot(t, l)) ELSE None
  OBVIOUS
<1>3. pc[t] = "walk" /\ todo[t] = {} /\ PTE \notin DOMAIN current[t]
  BY <1>0 DEF Deref, HandlerOK
<1>4. \/ DOMAIN current[t] = {} /\ l = PGD
      \/ DOMAIN current[t] = {PGD} /\ l = PUD
      \/ DOMAIN current[t] = {PGD, PUD} /\ l = PMD
      \/ DOMAIN current[t] = {PGD, PUD, PMD} /\ l = PTE
  BY <1>0, <1>1, <1>3, NextLevelIs DEF LocalOK
<1>5. /\ l \in {PGD, PUD, PMD, PTE} /\ l \notin DOMAIN current[t]
      /\ l # PGD => Above[l] \in DOMAIN current[t]
      /\ DOMAIN current[t] \cup {l} \in {{PGD}, {PGD, PUD}, {PGD, PUD, PMD},
                                         {PGD, PUD, PMD, PTE}}
  BY <1>4, Levels
<1>6. EntrySlot(t, l) \in Slot /\ e \in Entry
  BY <1>0, <1>2, <1>3, <1>5, EntrySlotType, ReadNothing DEF HandlerOK
<1> DEFINE found == [k \in DOMAIN current[t] \cup {l} |-> IF k = l THEN e ELSE current[t][k]]
<1>7. /\ current' = [current EXCEPT ![t] = IF l = PGD /\ ~IsPresent(e) THEN current[t] ELSE found]
      /\ \/ ~LastLevel(l, e) /\ UNCHANGED <<pc, todo>>
         \/ /\ LastLevel(l, e) /\ Goto(t, IF args[t].new = <<>> THEN "resolved" ELSE "write")
            /\ todo' = [todo EXCEPT ![t] = DOMAIN current'[t] \cap DOMAIN args[t].new]
      /\ unread' = [unread EXCEPT ![t] = ~ok]
      /\ seen' = IF ok THEN seen ELSE [seen EXCEPT ![t] = {}]
      /\ UNCHANGED <<mem, free, tlb, args, unwritten, stray>>
  BY <1>1, <1>2 DEF Deref
<1> HIDE DEF found
<1>8. current'[t] = IF l = PGD /\ ~IsPresent(e) THEN current[t] ELSE found
  BY <1>0, <1>7 DEF LocalType, PerTask
<1>9. /\ StepOf(t)
      /\ \/ ~LastLevel(l, e) /\ pc'[t] = pc[t] /\ todo'[t] = todo[t]
         \/ /\ LastLevel(l, e)
            /\ pc'[t] = IF args[t].new = <<>> THEN "resolved" ELSE "write"
            /\ todo'[t] = DOMAIN current'[t] \cap DOMAIN args[t].new
  BY <1>0, <1>7, <1>8 DEF LocalType, PerTask, StepOf, Goto
<1>10. \/ l = PGD /\ ~IsPresent(e) /\ current'[t] = current[t]
       \/ (l # PGD \/ IsPresent(e)) /\ current'[t] = found
  BY <1>8
<1>11. unread'[t] = ~ok
  BY <1>0, <1>7 DEF LocalType, PerTask
<1>12. \/ ~unread'[t] /\ e = Read(mem, EntrySlot(t, l)) /\ seen' = seen
       \/ unread'[t] /\ e = None /\ seen' = [seen EXCEPT ![t] = {}]
  BY <1>2, <1>7, <1>11
<1>13. DerefAt(t, l, e)
  BY <1>3, <1>4, <1>6, <1>7, <1>9, <1>10, <1>11, <1>12 DEF found, DerefAt
<1> QED  BY <1>5, <1>6, <1>13

LEMMA DerefType ==
  ASSUME UserInv, NEW t \in Task, NEW ok \in BOOLEAN, Deref(t, ok)
  PROVE  UserInv'
<1>0. LocalType /\ LocalOK(t) /\ HandlerOK(t) /\ SharedType
  BY DEF UserInv, LocalType
<1>1. PICK l \in {PGD, PUD, PMD, PTE}, e \in Entry : DerefAt(t, l, e)
  BY DerefStep
<1> USE <1>1 DEF DerefAt
<1>a. /\ DOMAIN current[t] \cup {l} \in {{PGD}, {PGD, PUD}, {PGD, PUD, PMD},
                                         {PGD, PUD, PMD, PTE}}
      /\ l \notin DOMAIN current[t]
      /\ l # PTE => Below[l] \notin DOMAIN current[t] \cup {l}
  BY Levels
<1>2. \A k \in DOMAIN current[t] : current[t][k] \in Entry /\ GoesOn(current[t][k], k)
  BY <1>0, <1>1 DEF LocalOK, HandlerOK
<1>3. /\ IsChain(DOMAIN current'[t])
      /\ \A k \in DOMAIN current'[t] :
           /\ current'[t][k] \in Entry
           /\ k # l => GoesOn(current'[t][k], k)
  <2>1. CASE current'[t] = current[t]
    BY <1>0, <1>2, <2>1 DEF LocalOK
  <2>2. CASE current'[t] = [k \in DOMAIN current[t] \cup {l} |->
                              IF k = l THEN e ELSE current[t][k]]
    <3>1. DOMAIN current'[t] = DOMAIN current[t] \cup {l}
      BY <2>2
    <3> QED  BY <1>a, <1>2, <2>2, <3>1 DEF IsChain
  <2> QED  BY <1>1, <2>1, <2>2
<1>4. \A k \in DOMAIN current'[t] : k # PTE /\ Below[k] \in DOMAIN current'[t] => k # l
  <2>1. DOMAIN current'[t] \subseteq DOMAIN current[t] \cup {l}
    BY <1>1
  <2>2. l # PTE => Below[l] \notin DOMAIN current[t] \cup {l}
    BY <1>a
  <2> QED  BY <2>1, <2>2
<1>5. todo'[t] \subseteq DOMAIN current'[t] /\ todo'[t] \subseteq DOMAIN args'[t].new
  BY <1>1
<1>6. pc'[t] \in PC /\ args'[t] = args[t] /\ unread'[t] \in BOOLEAN /\ unwritten'[t] = {}
  BY <1>0, <1>1 DEF PC, HandlerOK
<1>7. LocalOK(t)'
  BY <1>0, <1>3, <1>4, <1>5, <1>6 DEF LocalOK
<1>8. pc'[t] = "walk" => l # PTE /\ GoesOn(e, l)
  BY <1>1 DEF LastLevel, GoesOn
<1>9. pc'[t] = "walk" => /\ PTE \notin DOMAIN current'[t]
                         /\ \A k \in DOMAIN current'[t] : GoesOn(current'[t][k], k)
  <2>1. l \in DOMAIN current'[t] => current'[t][l] = e
    BY <1>a
  <2>2. PTE \in DOMAIN current'[t] => PTE \in DOMAIN current[t] \cup {l}
    BY <1>1
  <2>3. PTE \notin DOMAIN current[t]
    BY <1>0, <1>1 DEF HandlerOK
  <2> QED  BY <1>3, <1>8, <2>1, <2>2, <2>3
<1>10. pc'[t] # "write" => todo'[t] = {}
  BY <1>1
<1>11. HandlerOK(t)'
  BY <1>0, <1>1, <1>5, <1>6, <1>9, <1>10 DEF HandlerOK
<1>12. PerTask(seen')
  BY <1>0, <1>1 DEF LocalType, PerTask
<1>13. LocalType'
  BY <1>0, <1>1, <1>7, <1>11, <1>12, LocalStep
<1>14. SharedType'
  BY <1>0, <1>1 DEF SharedType
<1> QED  BY <1>13, <1>14 DEF UserInv

\* The order in which the levels are written.
LEMMA WriteStep ==
  ASSUME UserInv, NEW t \in Task, UpdateWrite(t)
  PROVE  \E l \in todo[t] :
           /\ \A j \in todo[t] : j <= l
           /\ pc[t] = "write" /\ l \in DOMAIN current[t] /\ l \in DOMAIN args[t].new
           /\ l \in {PGD, PUD, PMD, PTE}
           /\ EntrySlot(t, l) \in Slot /\ args[t].new[l] \in Entry
           /\ Store(Write(mem, EntrySlot(t, l), args[t].new[l]))
           /\ todo' = [todo EXCEPT ![t] = todo[t] \ {l}] /\ todo'[t] = todo[t] \ {l}
           /\ stray' = (stray \/ ~Reaches(t, l))
           /\ UNCHANGED <<free, tlb, pc, args, current, unread, unwritten>>
           /\ StepOf(t)
<1>0. LocalType /\ LocalOK(t) /\ HandlerOK(t) /\ mem \in Memory
  BY DEF UserInv, LocalType, SharedType
<1>1. PICK l : l = CHOOSE k \in todo[t] : \A j \in todo[t] : j <= k
  OBVIOUS
<1>2. todo[t] \subseteq Level /\ todo[t] # {}
  BY <1>0, Levels DEF UpdateWrite, LocalOK, IsChain
<1>3. l \in todo[t] /\ \A j \in todo[t] : j <= l
  <2>1. \A k \in todo[t] : k = 1 \/ k = 2 \/ k = 3 \/ k = 4 \/ k = 5
    BY <1>2 DEF Level, PGD, PTE
  <2>2. \E k \in todo[t] : \A j \in todo[t] : j <= k
    BY <1>2, <2>1
  <2> QED  BY <1>1, <2>2
<1>4. /\ pc[t] = "write" /\ l \in DOMAIN current[t] /\ l \in DOMAIN args[t].new
      /\ l \in {PGD, PUD, PMD, PTE}
  BY <1>0, <1>3 DEF UpdateWrite, LocalOK, HandlerOK, IsChain
<1>5. l # PGD => Above[l] \in DOMAIN current[t] /\ GoesOn(current[t][Above[l]], Above[l])
  <2>1. l # PGD => Above[l] \in DOMAIN current[t] /\ Above[l] # PTE /\ Below[Above[l]] = l
    BY <1>0, <1>4, Levels DEF LocalOK, IsChain
  <2> QED  BY <1>0, <1>4, <2>1 DEF LocalOK
<1>6. EntrySlot(t, l) \in Slot
  BY <1>0, <1>4, <1>5, EntrySlotType
<1>7. args[t].new[l] \in Entry
  BY <1>0, <1>4, RequestPartial DEF IsPartial
<1>8. /\ Store(Write(mem, EntrySlot(t, l), args[t].new[l]))
      /\ todo' = [todo EXCEPT ![t] = todo[t] \ {l}]
      /\ stray' = (stray \/ ~Reaches(t, l))
      /\ UNCHANGED <<free, tlb, pc, args, current, unread, unwritten>>
  BY <1>1 DEF UpdateWrite, WriteSlot
<1>9. todo'[t] = todo[t] \ {l} /\ StepOf(t)
  BY <1>0, <1>8 DEF LocalType, PerTask, StepOf
<1> QED  BY <1>3, <1>4, <1>6, <1>7, <1>8, <1>9

LEMMA WriteStepType ==
  ASSUME UserInv, NEW t \in Task, UpdateWrite(t)
  PROVE  UserInv'
<1>0. LocalType /\ LocalOK(t) /\ HandlerOK(t) /\ SharedType
  BY DEF UserInv, LocalType
<1>1. PICK l \in todo[t] :
           /\ pc[t] = "write" /\ EntrySlot(t, l) \in Slot /\ args[t].new[l] \in Entry
           /\ Store(Write(mem, EntrySlot(t, l), args[t].new[l]))
           /\ todo'[t] = todo[t] \ {l} /\ stray' = (stray \/ ~Reaches(t, l))
           /\ UNCHANGED <<free, tlb, pc, args, current, unread, unwritten>> /\ StepOf(t)
  BY WriteStep
<1>2. PerTask(seen') /\ mem' \in Memory /\ stray' \in BOOLEAN
  BY <1>0, <1>1, StoreSeen, WriteType DEF SharedType
<1>3. LocalOK(t)'
  BY <1>0, <1>1 DEF LocalOK
<1>4. HandlerOK(t)'
  BY <1>0, <1>1 DEF HandlerOK
<1>5. LocalType'
  BY <1>0, <1>1, <1>2, <1>3, <1>4, LocalStep
<1>6. SharedType'
  BY <1>0, <1>1, <1>2 DEF SharedType
<1> QED  BY <1>5, <1>6 DEF UserInv

\* A write that fails.
LEMMA LostStep ==
  ASSUME UserInv, NEW t \in Task, UpdateLost(t)
  PROVE  \E l \in todo[t] :
           /\ pc[t] = "write" /\ l \in DOMAIN current[t] /\ \A j \in todo[t] : j <= l
           /\ todo'[t] = todo[t] \ {l} /\ unwritten'[t] = unwritten[t] \cup {l}
           /\ UNCHANGED <<mem, free, tlb, pc, args, current, seen, unread, stray>>
           /\ StepOf(t)
<1>0. LocalType /\ LocalOK(t)
  BY DEF UserInv, LocalType
<1>1. PICK l : l = CHOOSE k \in todo[t] : \A j \in todo[t] : j <= k
  OBVIOUS
<1>2. todo[t] \subseteq Level /\ todo[t] # {} /\ pc[t] = "write"
  BY <1>0, Levels DEF UpdateLost, LocalOK, IsChain
<1>3. l \in todo[t] /\ \A j \in todo[t] : j <= l
  <2>1. \A k \in todo[t] : k = 1 \/ k = 2 \/ k = 3 \/ k = 4 \/ k = 5
    BY <1>2 DEF Level, PGD, PTE
  <2>2. \E k \in todo[t] : \A j \in todo[t] : j <= k
    BY <1>2, <2>1
  <2> QED  BY <1>1, <2>2
<1>4. /\ todo' = [todo EXCEPT ![t] = todo[t] \ {l}]
      /\ unwritten' = [unwritten EXCEPT ![t] = unwritten[t] \cup {l}]
      /\ UNCHANGED <<mem, free, tlb, pc, args, current, seen, unread, stray>>
  BY <1>1 DEF UpdateLost
<1>5. /\ todo'[t] = todo[t] \ {l} /\ unwritten'[t] = unwritten[t] \cup {l} /\ StepOf(t)
  BY <1>0, <1>4 DEF LocalType, PerTask, StepOf
<1> QED  BY <1>0, <1>2, <1>3, <1>4, <1>5 DEF LocalOK

LEMMA LostType ==
  ASSUME UserInv, NEW t \in Task, UpdateLost(t)
  PROVE  UserInv'
<1>0. LocalType /\ LocalOK(t) /\ HandlerOK(t) /\ SharedType
  BY DEF UserInv, LocalType
<1>1. PICK l \in todo[t] :
           /\ pc[t] = "write" /\ l \in DOMAIN current[t]
           /\ todo'[t] = todo[t] \ {l} /\ unwritten'[t] = unwritten[t] \cup {l}
           /\ UNCHANGED <<mem, free, tlb, pc, args, current, seen, unread, stray>>
           /\ StepOf(t)
  BY LostStep
<1>2. LocalOK(t)'
  BY <1>0, <1>1 DEF LocalOK
<1>3. HandlerOK(t)'
  BY <1>0, <1>1 DEF HandlerOK
<1>4. PerTask(seen')
  BY <1>0, <1>1 DEF LocalType, PerTask
<1>5. LocalType'
  BY <1>0, <1>1, <1>2, <1>3, <1>4, LocalStep
<1>6. SharedType'
  BY <1>0, <1>1 DEF SharedType
<1> QED  BY <1>5, <1>6 DEF UserInv

\* A page fault fills in a PTE, or a PMD with a new page table.
FaultAt(a, s, r, f) ==
  \/ /\ PTE \in DOMAIN r /\ Read(mem, r[PMD]).kind = "table" /\ Read(mem, r[PTE]) = None
     /\ Store(Write(mem, r[PTE], Leaf(page[a]))) /\ free' = free
  \/ /\ PUD \in DOMAIN r /\ PMD \notin DOMAIN r /\ Read(mem, r[PUD]).kind = "table"
     /\ f \in free /\ free' = free \ {f}
     /\ Store([Write(mem, s[PMD], Table(f))
                 EXCEPT ![f] = [i \in Index |->
                   IF i = index[a][PTE] THEN Leaf(page[a]) ELSE None]])

LEMMA FaultStep ==
  ASSUME NEW a \in Addr, PageFault(a)
  PROVE  /\ \E f \in Frame \cup {NoFrame} \cup free :
              FaultAt(a, Slots(mem, ptedit_paging_root, a), resolve_vm(mem, ptedit_paging_root, a), f)
         /\ UNCHANGED <<tlb, pc, args, current, todo, unread, unwritten, stray>>
BY DEF PageFault, FaultAt

LEMMA FaultType ==
  ASSUME UserInv, NEW a \in Addr, PageFault(a)
  PROVE  UserInv'
<1>0. LocalType /\ SharedType
  BY DEF UserInv
<1>1. UNCHANGED <<tlb, pc, args, current, todo, unread, unwritten, stray>>
  BY FaultStep
<1>2. PICK s, r, f : FaultAt(a, s, r, f)
  BY FaultStep
<1>3. /\ free' \subseteq Frame
      /\ mem' \in Memory /\ PerTask(seen')
  <2>0. Leaf(page[a]) \in Entry /\ None \in Entry
    BY UserEditAssumption DEF Leaf, Entry
  <2>1. CASE Store(Write(mem, r[PTE], Leaf(page[a]))) /\ free' = free
    BY <1>0, <2>0, <2>1, StoreSeen, WriteType DEF SharedType
  <2>2. CASE /\ f \in free /\ free' = free \ {f}
             /\ Store([Write(mem, s[PMD], Table(f))
                         EXCEPT ![f] = [i \in Index |->
                           IF i = index[a][PTE] THEN Leaf(page[a]) ELSE None]])
    <3>1. Write(mem, s[PMD], Table(f)) \in Memory
      BY <1>0, <2>2, WriteType DEF SharedType, Table, Entry
    <3>2. [Write(mem, s[PMD], Table(f))
             EXCEPT ![f] = [i \in Index |->
               IF i = index[a][PTE] THEN Leaf(page[a]) ELSE None]] \in Memory
      BY <2>0, <3>1 DEF Memory
    <3> QED  BY <1>0, <2>2, <3>2, StoreSeen DEF SharedType
  <2> QED  BY <1>2, <2>1, <2>2 DEF FaultAt
<1>4. LocalType'
  BY <1>0, <1>1, <1>3 DEF LocalType, LocalOK, HandlerOK, PerTask
<1>5. SharedType'
  BY <1>0, <1>1, <1>3 DEF SharedType
<1> QED  BY <1>4, <1>5 DEF UserInv

LEMMA NoArgsType == NoArgs.addr \in Addr /\ NoArgs.new = <<>>
BY PagingAssumption DEF NoArgs

LEMMA UserInvInductive ==
  ASSUME UserInv, [Next]_vars
  PROVE  UserInv'
<1>0. LocalType /\ SharedType
  BY DEF UserInv
<1> USE <1>0
<1>1. ASSUME NEW t \in Task, NEW a \in Addr, NEW new \in Requests[a] \cup {<<>>}, Call(t, a, new)
      PROVE  UserInv'
  <2>1. /\ pc'[t] = "walk" /\ args'[t] = [addr |-> a, new |-> new] /\ current'[t] = <<>>
        /\ todo'[t] = todo[t] /\ (new = <<>> \/ t \in Editor) /\ pc[t] = "user"
        /\ PerTask(seen') /\ StepOf(t) /\ UNCHANGED <<mem, free, tlb, unread, unwritten, stray>>
    BY <1>1 DEF Call, Goto, LocalType, PerTask, StepOf
  <2>2. todo[t] = {} /\ DOMAIN <<>> = {} /\ unwritten[t] = {} /\ unread[t] \in BOOLEAN
    BY <2>1 DEF LocalType, HandlerOK, LocalOK
  <2>3. LocalOK(t)'
    BY <2>1, <2>2 DEF LocalOK, IsChain, PC
  <2>4. HandlerOK(t)'
    BY <2>1, <2>2 DEF HandlerOK
  <2>5. LocalType'
    BY <2>1, <2>3, <2>4, LocalStep
  <2>6. SharedType'
    BY <2>1 DEF SharedType
  <2> QED  BY <2>5, <2>6 DEF UserInv
<1>2. ASSUME NEW t \in Task, Return(t) PROVE UserInv'
  <2>1. /\ pc'[t] = "user" /\ args'[t] = NoArgs /\ current'[t] = <<>>
        /\ todo'[t] = todo[t] /\ pc[t] # "write"
        /\ unread'[t] = FALSE /\ unwritten'[t] = {}
        /\ PerTask(seen') /\ StepOf(t) /\ UNCHANGED <<mem, free, stray>>
    BY <1>2 DEF Return, Goto, LocalType, PerTask, StepOf
  <2>2. todo[t] = {} /\ DOMAIN <<>> = {}
    BY <2>1 DEF LocalType, HandlerOK
  <2>3. LocalOK(t)'
    BY <2>1, <2>2, NoArgsType DEF LocalOK, IsChain, PC
  <2>4. HandlerOK(t)'
    BY <2>1, <2>2, NoArgsType DEF HandlerOK
  <2>5. LocalType'
    BY <2>1, <2>3, <2>4, LocalStep
  <2>6. tlb' \in [Addr -> (Frame \X {PUD, PMD, PTE}) \cup {Fault}]
    BY <1>2 DEF Return, SharedType
  <2>7. SharedType'
    BY <2>1, <2>6 DEF SharedType
  <2> QED  BY <2>5, <2>7 DEF UserInv
<1>3. ASSUME NEW t \in Task, UpdateWritten(t) \/ UpdateFlush(t) PROVE UserInv'
  <2>1. /\ \/ pc[t] = "write" /\ todo[t] = {} /\ pc'[t] = "flush"
           \/ pc[t] = "flush" /\ pc'[t] = "flush_again"
        /\ StepOf(t)
        /\ UNCHANGED <<mem, free, args, current, todo, seen, unread, unwritten, stray>>
    BY <1>3 DEF UpdateWritten, UpdateFlush, Goto, LocalType, PerTask, StepOf
  <2>2. LocalOK(t) /\ HandlerOK(t)
    BY DEF LocalType
  <2>3. LocalOK(t)'
    BY <2>1, <2>2 DEF LocalOK, PC
  <2>4. HandlerOK(t)'
    BY <2>1, <2>2 DEF HandlerOK
  <2>5. PerTask(seen')
    BY <2>1 DEF LocalType, PerTask
  <2>6. LocalType'
    BY <2>1, <2>3, <2>4, <2>5, LocalStep
  <2>7. tlb' \in [Addr -> (Frame \X {PUD, PMD, PTE}) \cup {Fault}]
    BY <1>3 DEF UpdateWritten, UpdateFlush, SharedType
  <2>8. SharedType'
    BY <2>1, <2>7 DEF SharedType
  <2> QED  BY <2>6, <2>8 DEF UserInv
<1>4. ASSUME UNCHANGED <<mem, free, pc, args, current, todo, seen, unread, unwritten, stray>>,
             tlb' \in [Addr -> (Frame \X {PUD, PMD, PTE}) \cup {Fault}]
      PROVE  UserInv'
  BY <1>4 DEF UserInv, LocalType, SharedType, LocalOK, HandlerOK, PerTask
<1>5. ASSUME NEW a \in Addr, TlbFill(a) PROVE UserInv'
  <2>1. translate(mem, a) \in (Frame \X {PUD, PMD, PTE}) \cup {Fault}
    BY TranslateType DEF SharedType
  <2>2. /\ UNCHANGED <<mem, free, pc, args, current, todo, seen, unread, unwritten, stray>>
        /\ tlb' \in [Addr -> (Frame \X {PUD, PMD, PTE}) \cup {Fault}]
    BY <1>5, <2>1 DEF TlbFill, SharedType
  <2> QED  BY <1>4, <2>2
<1>6. CASE UNCHANGED vars
  BY <1>4, <1>6 DEF vars, SharedType
<1> QED  BY <1>1, <1>2, <1>3, <1>5, <1>6, DerefType, WriteStepType,
         LostType, FaultType DEF Next

LEMMA UserInvariant == Spec => []UserInv
<1>1. Init => UserInv
  <2>1. SUFFICES ASSUME Init PROVE UserInv
    OBVIOUS
  <2>2. LocalType
    BY <2>1, NoArgsType DEF Init, LocalType, LocalOK, HandlerOK, PerTask, IsChain, PC
  <2>3. SharedType
    BY <2>1, UserEditAssumption DEF Init, SharedType
  <2> QED  BY <2>2, <2>3 DEF UserInv
<1>2. UserInv /\ [Next]_vars => UserInv'
  BY UserInvInductive
<1> QED  BY <1>1, <1>2, PTL DEF Spec

\* The user-space walk and update keep their types for any threads, requests and memory,
\* large pages included: each entry that the walk has read was looked for in a frame, at
\* a present entry of the level above (ptedit_resolve_user_ext).
THEOREM UserTypeCorrect == Spec => []TypeOK
BY UserInvariant, UserInvTypes, PTL

-----------------------------------------------------------------------------
(* Private page tables                                                     *)

\* The upper levels of the address are tables.
UpperOK(a) ==
  LET s == Slots(InitMem, ptedit_paging_root, a)
  IN Read(InitMem, s[PGD]).kind = "table" /\ Read(InitMem, s[PUD]).kind = "table"

\* What the PMD of the address, and below it the PTE, map.
LeafOf(memory, a) ==
  LET p == Read(memory, PmdSlot(a))
  IN IF p.kind # "table" THEN Target(p, PMD)
     ELSE Target(Read(memory, <<p.to, index[a][PTE]>>), PTE)

\* The slots of the upper levels are those of the start.
LEMMA UpperSlots ==
  ASSUME NEW level, NEW home, Private(level, home), NEW memory, NEW now, NEW unused,
         Tree(memory, level, now, unused), NEW a \in Addr
  PROVE  LET s == Slots(InitMem, ptedit_paging_root, a)
             r == Slots(memory, ptedit_paging_root, a)
             e(l) == Read(InitMem, s[l])
         IN /\ r[PGD] = s[PGD] /\ r[P4D] = s[PGD] /\ r[PUD] = s[PUD] /\ r[PMD] = s[PMD]
            /\ s[PGD] = <<ptedit_paging_root, index[a][PGD]>>
            /\ s[PUD] = <<e(PGD).to, index[a][PUD]>>
            /\ s[PMD] = <<e(PUD).to, index[a][PMD]>>
            /\ Read(memory, s[PGD]) = e(PGD) /\ Read(memory, s[PUD]) = e(PUD)
            /\ e(PGD) \in Entry /\ e(PUD) \in Entry
            /\ e(PGD).kind # "leaf" /\ e(PUD).kind # "leaf"
            /\ e(PUD).kind # "none" => e(PGD).kind # "none"
            /\ e(PUD).kind # "none" => s[PMD] \in Slot /\ level[s[PMD][1]] = PMD
            /\ Read(memory, s[PMD]) \in Entry
            /\ Read(memory, s[PMD]).kind # "none" => e(PUD).kind # "none"
<1> DEFINE s == Slots(InitMem, ptedit_paging_root, a)
           r == Slots(memory, ptedit_paging_root, a)
           e(l) == Read(InitMem, s[l])
<1>1. /\ s[PGD] = <<ptedit_paging_root, index[a][PGD]>>
      /\ s[PUD] = <<e(PGD).to, index[a][PUD]>>
      /\ s[PMD] = <<e(PUD).to, index[a][PMD]>>
  BY SlotsForm
<1>2. /\ r[PGD] = <<ptedit_paging_root, index[a][PGD]>> /\ r[P4D] = r[PGD]
      /\ r[PUD] = <<Read(memory, r[PGD]).to, index[a][PUD]>>
      /\ r[PMD] = <<Read(memory, r[PUD]).to, index[a][PMD]>>
  BY SlotsForm
<1> HIDE DEF s, r
<1>3. /\ level[ptedit_paging_root] = PGD /\ ptedit_paging_root \in Frame
      /\ InitMem \in Memory /\ memory \in Memory
      /\ \A f \in Frame, i \in Index : Fits(InitMem[f][i], level[f], level)
      /\ \A x \in Slot : level[x[1]] \in {PGD, PUD} => Read(memory, x) = Read(InitMem, x)
      /\ index[a][PGD] \in Index /\ index[a][PUD] \in Index /\ index[a][PMD] \in Index
  BY UserEditAssumption, IndexType, Levels DEF Private, Tree
<1>4. /\ s[PGD] \in Slot /\ e(PGD) \in Entry /\ e(PGD) = InitMem[ptedit_paging_root][index[a][PGD]]
      /\ s[PGD][1] = ptedit_paging_root
  BY <1>1, <1>3, ReadType
<1>5. Fits(e(PGD), PGD, level) /\ Read(memory, s[PGD]) = e(PGD)
  BY <1>3, <1>4
<1>6. r[PGD] = s[PGD] /\ r[P4D] = s[PGD] /\ r[PUD] = s[PUD]
  BY <1>1, <1>2, <1>5
<1>7. /\ e(PGD).kind # "leaf"
      /\ e(PGD).kind # "none" => e(PGD).to \in Frame /\ level[e(PGD).to] = PUD
      /\ e(PGD).kind = "none" => e(PGD).to = NoFrame
  BY <1>4, <1>5, EntryType, Levels DEF Fits, LeadsOn
<1>8. e(PUD) \in Entry /\ Read(memory, s[PUD]) = e(PUD) /\ e(PUD).kind # "leaf"
      /\ (e(PUD).kind # "none" => e(PGD).kind # "none" /\ Fits(e(PUD), PUD, level))
  <2>1. CASE e(PGD).kind = "none"
    BY <1>1, <1>7, <2>1, ReadNothing
  <2>2. CASE e(PGD).kind # "none"
    <3>1. /\ s[PUD] \in Slot /\ e(PUD) \in Entry /\ e(PUD) = InitMem[e(PGD).to][index[a][PUD]]
          /\ s[PUD][1] = e(PGD).to
      BY <1>1, <1>3, <1>7, <2>2, ReadType
    <3>2. Fits(e(PUD), PUD, level) /\ Read(memory, s[PUD]) = e(PUD)
      BY <1>3, <1>7, <2>2, <3>1
    <3> QED  BY <2>2, <3>1, <3>2, Levels DEF Fits
  <2> QED  BY <2>1, <2>2
<1>9. r[PMD] = s[PMD]
  BY <1>1, <1>2, <1>6, <1>8
<1>10. /\ e(PUD).kind # "none" => e(PUD).to \in Frame /\ level[e(PUD).to] = PMD
       /\ e(PUD).kind = "none" => e(PUD).to = NoFrame
  BY <1>8, EntryType, Levels DEF Fits, LeadsOn
<1>11. s[PMD][1] = e(PUD).to
  BY <1>1
<1>12. e(PUD).kind # "none" => s[PMD] \in Slot /\ level[s[PMD][1]] = PMD
  BY <1>1, <1>3, <1>10, <1>11, ReadType
<1>13. /\ Read(memory, s[PMD]) \in Entry
       /\ Read(memory, s[PMD]).kind # "none" => e(PUD).kind # "none"
  <2>1. CASE e(PUD).kind = "none"
    BY <1>1, <1>10, <2>1, ReadNothing
  <2>2. CASE e(PUD).kind # "none"
    BY <1>1, <1>3, <1>10, <2>2, ReadType
  <2> QED  BY <2>1, <2>2
<1> QED  BY <1>1, <1>4, <1>5, <1>6, <1>7, <1>8, <1>9, <1>12, <1>13 DEF s, r

\* The upper levels decide whether the PMD is looked at; only it and the PTE change.
LEMMA TranslateForm ==
  ASSUME NEW level, NEW home, Private(level, home), NEW memory, NEW now, NEW unused,
         Tree(memory, level, now, unused), NEW a \in Addr
  PROVE  /\ translate(memory, a) = IF UpperOK(a) THEN LeafOf(memory, a) ELSE Fault
         /\ UpperOK(a) => PmdSlot(a) \in Slot /\ level[PmdSlot(a)[1]] = PMD
         /\ Read(memory, PmdSlot(a)) \in Entry
         /\ PmdSlot(a) = Slots(memory, ptedit_paging_root, a)[PMD]
<1> DEFINE s == Slots(InitMem, ptedit_paging_root, a)
           r == Slots(memory, ptedit_paging_root, a)
           e(l) == Read(InitMem, s[l])
<1>1. /\ r[PGD] = s[PGD] /\ r[P4D] = s[PGD] /\ r[PUD] = s[PUD] /\ r[PMD] = s[PMD]
      /\ Read(memory, s[PGD]) = e(PGD) /\ Read(memory, s[PUD]) = e(PUD)
      /\ e(PUD).kind # "leaf"
      /\ e(PUD).kind # "none" => s[PMD] \in Slot /\ level[s[PMD][1]] = PMD
      /\ Read(memory, s[PMD]) \in Entry
  BY UpperSlots
<1>2. r[PTE] = <<Read(memory, r[PMD]).to, index[a][PTE]>>
  BY SlotsForm
<1>3. PmdSlot(a) = s[PMD] /\ (UpperOK(a) <=> e(PGD).kind = "table" /\ e(PUD).kind = "table")
  BY DEF PmdSlot, UpperOK
<1>4. translate(memory, a) =
        IF Read(memory, r[PGD]).kind # "table" \/ Read(memory, r[P4D]).kind # "table" THEN Fault
        ELSE IF Read(memory, r[PUD]).kind # "table" THEN Target(Read(memory, r[PUD]), PUD)
        ELSE IF Read(memory, r[PMD]).kind # "table" THEN Target(Read(memory, r[PMD]), PMD)
        ELSE Target(Read(memory, r[PTE]), PTE)
  BY DEF translate, Translate
<1> HIDE DEF s, r
<1>5. UpperOK(a) => translate(memory, a) = LeafOf(memory, a)
  BY <1>1, <1>2, <1>3, <1>4 DEF LeafOf
<1>6. ~UpperOK(a) => translate(memory, a) = Fault
  BY <1>1, <1>3, <1>4 DEF Target
<1>7. PmdSlot(a) = r[PMD]
  BY <1>1, <1>3
<1> QED  BY <1>1, <1>3, <1>5, <1>6, <1>7 DEF r

\* The page table that a PMD leads to.
LEMMA BelowPmd ==
  ASSUME NEW level, NEW memory, NEW now, NEW unused, Tree(memory, level, now, unused),
         NEW s \in Slot, level[s[1]] = PMD, LeadsOn(Read(memory, s)), NEW i \in Index
  PROVE  LET f == Read(memory, s).to
         IN f \in Frame /\ <<f, i>> \in Slot /\ level[f] = PTE /\ now[f] = s /\ f \notin unused
<1>1. Read(memory, s) = memory[s[1]][s[2]] /\ s[1] \in Frame /\ s[2] \in Index
  BY ReadSlot
<1>2. Read(memory, s) \in Entry
  BY <1>1 DEF Tree, Memory
<1>3. Read(memory, s).to \in Frame
  BY <1>2, EntryType DEF LeadsOn
<1>4. level[Read(memory, s).to] = PTE
  BY <1>1, Levels DEF Tree, Fits
<1> QED  BY <1>3, <1>4 DEF Tree, HomeOf, Slot

\* A fitting entry in a PMD or a PTE leaves the rest of the tree alone.
LEMMA TreeWrite ==
  ASSUME NEW level, NEW memory, NEW now, NEW unused, Tree(memory, level, now, unused),
         NEW s \in Slot, NEW l \in {PMD, PTE}, level[s[1]] = l, NEW e \in Entry,
         Fits(e, l, level), l = PMD => HomeOf(e, s, now, unused)
  PROVE  Tree(Write(memory, s, e), level, now, unused)
<1> DEFINE W == Write(memory, s, e)
<1>1. W \in Memory
  BY WriteType DEF Tree
<1>2. \A r \in Slot : Read(W, r) = IF r = s THEN e ELSE Read(memory, r)
  BY ReadWrite DEF Tree
<1> HIDE DEF W
<1>3. ASSUME NEW f \in Frame, NEW i \in Index PROVE Fits(W[f][i], level[f], level)
  <2>1. /\ <<f, i>> \in Slot /\ Read(W, <<f, i>>) = W[f][i]
        /\ Read(memory, <<f, i>>) = memory[f][i]
    BY PagingAssumption DEF Slot, Read
  <2>2. CASE <<f, i>> = s
    <3>1. W[f][i] = e /\ level[f] = l
      BY <1>2, <2>1, <2>2
    <3> QED  BY <3>1
  <2>3. CASE <<f, i>> # s
    <3>1. W[f][i] = memory[f][i]
      BY <1>2, <2>1, <2>3
    <3> QED  BY <3>1 DEF Tree
  <2> QED  BY <2>2, <2>3
<1>4. \A r \in Slot : level[r[1]] \in {PGD, PUD} => Read(W, r) = Read(InitMem, r)
  BY <1>2, Levels DEF Tree
<1>5. \A r \in Slot : level[r[1]] = PMD => HomeOf(Read(W, r), r, now, unused)
  BY <1>2, Levels DEF Tree
<1> QED  BY <1>1, <1>3, <1>4, <1>5 DEF Tree, W

\* The page table of a page fault.
NewTable(memory, s, f, a) ==
  [Write(memory, s, Table(f))
     EXCEPT ![f] = [i \in Index |-> IF i = index[a][PTE] THEN Leaf(page[a]) ELSE None]]

LEMMA NewTableRead ==
  ASSUME NEW memory \in Memory, NEW s \in Slot, NEW f \in Frame, NEW a \in Addr
  PROVE  /\ NewTable(memory, s, f, a) \in Memory
         /\ \A r \in Slot : Read(NewTable(memory, s, f, a), r) =
              IF r[1] = f THEN IF r[2] = index[a][PTE] THEN Leaf(page[a]) ELSE None
              ELSE IF r = s THEN Table(f) ELSE Read(memory, r)
<1> DEFINE T == [i \in Index |-> IF i = index[a][PTE] THEN Leaf(page[a]) ELSE None]
           W == Write(memory, s, Table(f))
           N == NewTable(memory, s, f, a)
<1>0. /\ Table(f) \in Entry /\ Leaf(page[a]) \in Entry /\ None \in Entry
  BY UserEditAssumption DEF Table, Leaf, Entry
<1>1. W \in Memory /\ \A r \in Slot : Read(W, r) = IF r = s THEN Table(f) ELSE Read(memory, r)
  BY <1>0, WriteType, ReadWrite
<1>2. N = [W EXCEPT ![f] = T]
  BY DEF NewTable
<1>3. T \in [Index -> Entry] /\ \A i \in Index : T[i] = IF i = index[a][PTE] THEN Leaf(page[a]) ELSE None
  BY <1>0
<1> HIDE DEF T, W, N
<1>4. N \in Memory /\ N[f] = T /\ \A g \in Frame \ {f} : N[g] = W[g]
  BY <1>1, <1>2, <1>3 DEF Memory
<1>5. ASSUME NEW r \in Slot
      PROVE  Read(N, r) = IF r[1] = f THEN IF r[2] = index[a][PTE] THEN Leaf(page[a]) ELSE None
                          ELSE IF r = s THEN Table(f) ELSE Read(memory, r)
  <2>1. r[1] \in Frame /\ r[2] \in Index /\ Read(N, r) = N[r[1]][r[2]] /\ Read(W, r) = W[r[1]][r[2]]
    BY ReadSlot
  <2>2. CASE r[1] = f
    <3>1. Read(N, r) = T[r[2]]
      BY <1>4, <2>1, <2>2
    <3> QED  BY <1>3, <2>1, <2>2, <3>1
  <2>3. CASE r[1] # f
    <3>1. Read(N, r) = Read(W, r)
      BY <1>4, <2>1, <2>3
    <3> QED  BY <1>1, <2>3, <3>1
  <2> QED  BY <2>2, <2>3
<1> QED  BY <1>4, <1>5 DEF N

LEMMA TreeTable ==
  ASSUME NEW level, NEW memory, NEW now, NEW unused, Tree(memory, level, now, unused),
         now \in [Frame -> Slot], NEW s \in Slot, level[s[1]] = PMD, NEW a \in Addr,
         NEW f \in Frame, f \in unused, level[f] = PTE
  PROVE  Tree(NewTable(memory, s, f, a), level, [now EXCEPT ![f] = s], unused \ {f})
<1> DEFINE N == NewTable(memory, s, f, a)
           next == [now EXCEPT ![f] = s]
<1>0. memory \in Memory /\ Table(f).to = f
  BY DEF Tree, Table
<1>1. /\ N \in Memory
      /\ \A r \in Slot : Read(N, r) =
           IF r[1] = f THEN IF r[2] = index[a][PTE] THEN Leaf(page[a]) ELSE None
           ELSE IF r = s THEN Table(f) ELSE Read(memory, r)
  BY <1>0, NewTableRead
<1> HIDE DEF N
<1>2. ASSUME NEW g \in Frame, NEW i \in Index PROVE Fits(N[g][i], level[g], level)
  <2>1. /\ <<g, i>> \in Slot /\ Read(N, <<g, i>>) = N[g][i]
        /\ Read(memory, <<g, i>>) = memory[g][i]
    BY PagingAssumption DEF Slot, Read
  <2>2. CASE g = f
    <3>1. N[g][i] = Leaf(page[a]) \/ N[g][i] = None
      BY <1>1, <2>1, <2>2
    <3> QED  BY <2>2, <3>1, Levels DEF Fits, Leaf, None
  <2>3. CASE g # f /\ <<g, i>> = s
    <3>1. N[g][i] = Table(f) /\ level[g] = PMD
      BY <1>1, <2>1, <2>3
    <3> QED  BY <1>0, <3>1, Levels DEF Fits
  <2>4. CASE g # f /\ <<g, i>> # s
    <3>1. N[g][i] = memory[g][i]
      BY <1>1, <2>1, <2>4
    <3> QED  BY <3>1 DEF Tree
  <2> QED  BY <2>2, <2>3, <2>4
<1>3. \A r \in Slot : level[r[1]] # PTE => Read(N, r) = IF r = s THEN Table(f) ELSE Read(memory, r)
  BY <1>1
<1>4. \A r \in Slot : level[r[1]] \in {PGD, PUD} => Read(N, r) = Read(InitMem, r)
  BY <1>3, Levels DEF Tree
<1>5. ASSUME NEW r \in Slot, level[r[1]] = PMD PROVE HomeOf(Read(N, r), r, next, unused \ {f})
  <2>1. CASE r = s
    BY <1>0, <1>3, <1>5, <2>1, Levels DEF HomeOf
  <2>2. CASE r # s
    <3>1. Read(N, r) = Read(memory, r) /\ HomeOf(Read(memory, r), r, now, unused)
      BY <1>3, <1>5, <2>2, Levels DEF Tree
    <3> QED  BY <3>1 DEF HomeOf
  <2> QED  BY <2>1, <2>2
<1> QED  BY <1>1, <1>2, <1>4, <1>5 DEF Tree, N

\* What is reached at a level is reached at the levels above.
LEMMA ReachesUp ==
  ASSUME NEW t
  PROVE  /\ Reaches(t, PGD)
         /\ Reaches(t, PTE) => Reaches(t, PMD)
         /\ Reaches(t, PMD) => Reaches(t, PUD)
BY DEF Reaches, PGD, PUD, PMD, PTE

\* The cast keeps the frame of a table on the way.
LEMMA ReachesKeeps ==
  ASSUME NEW t, NEW l \in {PUD, PMD, PTE}, Reaches(t, l), Above[l] \in DOMAIN current[t],
         current[t][Above[l]].kind = "table"
  PROVE  EntrySlot(t, l) = <<current[t][Above[l]].to, index[args[t].addr][l]>>
<1>1. Above[l] \in PGD..(l - 1) /\ l # PGD
  BY DEF Above, PGD, PUD, PMD, PTE
<1>2. cast[current[t][Above[l]].to] = current[t][Above[l]].to
  BY <1>1 DEF Reaches
<1> QED  BY <1>1, <1>2 DEF EntrySlot

\* Where the walk of t looks for its entries.
LEMMA WalkedSlots ==
  ASSUME UserInv, NEW level, NEW home, Private(level, home), NEW now, TreeInv(level, now),
         NEW t \in Task
  PROVE  LET a == args[t].addr
             s == Slots(InitMem, ptedit_paging_root, a)
             D == DOMAIN current[t]
         IN /\ EntrySlot(t, PGD) = s[PGD]
            /\ PGD \in D /\ GoesOn(current[t][PGD], PGD) /\ Reaches(t, PUD) =>
                 EntrySlot(t, PUD) = s[PUD]
            /\ PUD \in D /\ GoesOn(current[t][PUD], PUD) /\ Reaches(t, PMD) =>
                 EntrySlot(t, PMD) = PmdSlot(a)
            /\ PMD \in D /\ Reaches(t, PMD) => UpperOK(a) /\ EntrySlot(t, PMD) = PmdSlot(a)
            /\ PMD \in D /\ GoesOn(current[t][PMD], PMD) =>
                 current[t][PMD].kind = "table" /\ current[t][PMD].to \in Frame
            /\ PMD \in D /\ GoesOn(current[t][PMD], PMD) /\ Reaches(t, PTE) =>
                 /\ LeadsOn(current[t][PMD])
                 /\ level[current[t][PMD].to] = PTE /\ now[current[t][PMD].to] = PmdSlot(a)
                 /\ current[t][PMD].to \notin free
                 /\ EntrySlot(t, PTE) = <<current[t][PMD].to, index[a][PTE]>>
                 /\ EntrySlot(t, PTE) \in Slot
            /\ PTE \in D => PMD \in D /\ GoesOn(current[t][PMD], PMD)
<1> DEFINE a == args[t].addr
           s == Slots(InitMem, ptedit_paging_root, a)
           D == DOMAIN current[t]
           e(l) == Read(InitMem, s[l])
<1>1. /\ LocalOK(t) /\ WalkedOK(t, level, now) /\ Tree(mem, level, now, free) /\ a \in Addr
      /\ IsChain(D)
  BY DEF UserInv, LocalType, TreeInv, LocalOK
<1>2. /\ s[PGD] = <<ptedit_paging_root, index[a][PGD]>>
      /\ s[PUD] = <<e(PGD).to, index[a][PUD]>>
      /\ s[PMD] = <<e(PUD).to, index[a][PMD]>>
      /\ e(PGD) \in Entry /\ e(PUD) \in Entry
      /\ e(PGD).kind # "leaf" /\ e(PUD).kind # "leaf"
  BY <1>1, UpperSlots
<1>3. /\ PGD \in D => current[t][PGD] \in {e(PGD), None}
      /\ PUD \in D /\ Reaches(t, PUD) => current[t][PUD] \in {e(PUD), None}
      /\ PMD \in D /\ Reaches(t, PMD) =>
           HomeOf(current[t][PMD], s[PMD], now, free) /\ Fits(current[t][PMD], PMD, level)
  <2>1. Reaches(t, PGD)
    BY <1>1, ReachesUp
  <2> QED  BY <1>1, <2>1 DEF WalkedOK
<1>4. PmdSlot(a) = s[PMD] /\ (UpperOK(a) <=> e(PGD).kind = "table" /\ e(PUD).kind = "table")
  BY DEF PmdSlot, UpperOK
<1> HIDE DEF s
<1>5. EntrySlot(t, PGD) = s[PGD]
  BY <1>2 DEF EntrySlot
<1>a. /\ PGD \in D /\ GoesOn(current[t][PGD], PGD) =>
           current[t][PGD] = e(PGD) /\ e(PGD).kind = "table"
      /\ PUD \in D /\ GoesOn(current[t][PUD], PUD) /\ Reaches(t, PUD) =>
           current[t][PUD] = e(PUD) /\ e(PUD).kind = "table"
  BY <1>2, <1>3 DEF GoesOn, IsPresent, None
<1>6. PGD \in D /\ GoesOn(current[t][PGD], PGD) /\ Reaches(t, PUD) => EntrySlot(t, PUD) = s[PUD]
  BY <1>2, <1>a, Levels, ReachesKeeps
<1>7. PUD \in D /\ GoesOn(current[t][PUD], PUD) /\ Reaches(t, PMD) =>
        EntrySlot(t, PMD) = PmdSlot(a)
  BY <1>2, <1>4, <1>a, Levels, ReachesKeeps, ReachesUp
<1>8. /\ PMD \in D => PGD \in D /\ PUD \in D /\ GoesOn(current[t][PGD], PGD) /\ GoesOn(current[t][PUD], PUD)
      /\ PTE \in D => PMD \in D /\ GoesOn(current[t][PMD], PMD)
  <2>1. /\ PMD \in D => PGD \in D /\ PUD \in D
        /\ PTE \in D => PMD \in D
    BY <1>1, Levels DEF IsChain
  <2>2. Below[PGD] = PUD /\ Below[PUD] = PMD /\ Below[PMD] = PTE /\ PGD # PTE /\ PUD # PTE /\ PMD # PTE
    BY Levels
  <2> QED  BY <1>1, <2>1, <2>2 DEF LocalOK
<1>9. PMD \in D /\ Reaches(t, PMD) => UpperOK(a) /\ EntrySlot(t, PMD) = PmdSlot(a)
  BY <1>4, <1>7, <1>8, <1>a, ReachesUp
<1>b. PMD \in D /\ GoesOn(current[t][PMD], PMD) =>
        current[t][PMD].kind = "table" /\ current[t][PMD].to \in Frame
  BY <1>1, EntryType DEF GoesOn, IsPresent, LocalOK
<1>10. ASSUME PMD \in D, GoesOn(current[t][PMD], PMD), Reaches(t, PTE)
       PROVE  /\ LeadsOn(current[t][PMD])
              /\ level[current[t][PMD].to] = PTE /\ now[current[t][PMD].to] = PmdSlot(a)
              /\ current[t][PMD].to \notin free
              /\ EntrySlot(t, PTE) = <<current[t][PMD].to, index[a][PTE]>>
              /\ EntrySlot(t, PTE) \in Slot
  <2>1. current[t][PMD].kind = "table" /\ current[t][PMD].to \in Frame /\ LeadsOn(current[t][PMD])
    BY <1>10, <1>b DEF LeadsOn
  <2>3. EntrySlot(t, PTE) = <<current[t][PMD].to, index[a][PTE]>>
    BY <1>10, <2>1, Levels, ReachesKeeps
  <2>4. EntrySlot(t, PTE) \in Slot
    BY <1>1, <2>1, <2>3, IndexType, Levels DEF Slot
  <2>5. level[current[t][PMD].to] = PTE /\ now[current[t][PMD].to] = PmdSlot(a)
        /\ current[t][PMD].to \notin free
    BY <1>3, <1>4, <1>10, <2>1, Levels, ReachesUp DEF Fits, HomeOf
  <2> QED  BY <2>1, <2>3, <2>4, <2>5
<1> QED  BY <1>5, <1>6, <1>7, <1>8, <1>9, <1>b, <1>10 DEF s

-----------------------------------------------------------------------------
(* The steps that change memory                                            *)

\* An update writes the PMD of its page, or a PTE of a page table at home there.
WriteAt(t, l, s, e, level, now) ==
  LET a == args[t].addr
  IN /\ l \in todo[t] /\ (\A j \in todo[t] : j <= l)
     /\ pc[t] = "write" /\ l \in DOMAIN current[t] /\ l \in DOMAIN args[t].new
     /\ s = EntrySlot(t, l) /\ e = args[t].new[l]
     /\ UpperOK(a) /\ PmdSlot(a) \in Slot /\ level[PmdSlot(a)[1]] = PMD
     /\ level[s[1]] = l /\ Fits(e, l, level)
     /\ l = PMD => s = PmdSlot(a) /\ HomeOf(e, s, now, free)
     /\ Reaches(t, l)
     /\ l = PTE => /\ now[s[1]] = PmdSlot(a)
                   /\ PMD \in DOMAIN current[t] /\ current[t][PMD].kind = "table"
                   /\ s = <<current[t][PMD].to, index[a][PTE]>>
     /\ Store(Write(mem, s, e)) /\ todo'[t] = todo[t] \ {l}
     /\ UNCHANGED <<free, tlb, pc, args, current, unread, unwritten>> /\ StepOf(t)

LEMMA WriteShape ==
  ASSUME UserInv, NEW level, NEW home, Private(level, home), NEW now, TreeInv(level, now),
         NEW t \in Task, UpdateWrite(t), ~stray'
  PROVE  \E l \in {PMD, PTE}, s \in Slot, e \in Entry : WriteAt(t, l, s, e, level, now)
<1> DEFINE a == args[t].addr
           D == DOMAIN current[t]
<1>0. /\ LocalOK(t) /\ HandlerOK(t) /\ Tree(mem, level, now, free) /\ a \in Addr
      /\ IsChain(D)
  BY DEF UserInv, LocalType, LocalOK, TreeInv
<1>1. PICK l \in todo[t] :
           /\ \A j \in todo[t] : j <= l
           /\ pc[t] = "write" /\ l \in D /\ l \in DOMAIN args[t].new
           /\ EntrySlot(t, l) \in Slot /\ args[t].new[l] \in Entry
           /\ Store(Write(mem, EntrySlot(t, l), args[t].new[l]))
           /\ todo'[t] = todo[t] \ {l} /\ Reaches(t, l)
           /\ UNCHANGED <<free, tlb, pc, args, current, unread, unwritten>> /\ StepOf(t)
  BY WriteStep
<1>2. args[t].new \in Requests[a]
  BY <1>0, <1>1 DEF LocalOK, HandlerOK
<1>3. l \in {PMD, PTE} /\ Fits(args[t].new[l], l, level)
  BY <1>0, <1>1, <1>2 DEF Private
<1>4. l = PMD => HomeOf(args[t].new[l], PmdSlot(a), now, free)
  BY <1>0, <1>1, <1>2 DEF TreeInv
<1>5. PMD \in D /\ PUD \in D
  BY <1>0, <1>1, <1>3, Levels DEF IsChain
<1>r. Reaches(t, PMD)
  BY <1>1, <1>3, ReachesUp
<1>6. UpperOK(a) /\ PmdSlot(a) \in Slot /\ level[PmdSlot(a)[1]] = PMD
  BY <1>0, <1>5, <1>r, WalkedSlots, TranslateForm
<1>7. l = PMD => EntrySlot(t, l) = PmdSlot(a)
  BY <1>5, <1>r, WalkedSlots
<1>8. l = PTE => /\ EntrySlot(t, l) = <<current[t][PMD].to, index[a][PTE]>>
                 /\ current[t][PMD].kind = "table"
                 /\ level[current[t][PMD].to] = PTE /\ now[current[t][PMD].to] = PmdSlot(a)
  BY <1>1, WalkedSlots
<1>9. l = PTE => EntrySlot(t, l)[1] = current[t][PMD].to
  BY <1>8
<1>10. /\ level[EntrySlot(t, l)[1]] = l
       /\ l = PTE => now[EntrySlot(t, l)[1]] = PmdSlot(a)
  BY <1>3, <1>6, <1>7, <1>8, <1>9
<1>11. WriteAt(t, l, EntrySlot(t, l), args[t].new[l], level, now)
  BY <1>1, <1>3, <1>4, <1>5, <1>6, <1>7, <1>8, <1>10 DEF WriteAt
<1> QED  BY <1>1, <1>3, <1>11

\* A page fault fills in the empty PTE s of a page table at home at the PMD, or an
\* empty PMD with the new page table f.
FillAt(a, s, level, now) ==
  /\ Read(mem, PmdSlot(a)).kind = "table"
  /\ s = <<Read(mem, PmdSlot(a)).to, index[a][PTE]>> /\ s \in Slot
  /\ level[s[1]] = PTE /\ now[s[1]] = PmdSlot(a) /\ Read(mem, s) = None
  /\ Store(Write(mem, s, Leaf(page[a]))) /\ free' = free

NewAt(a, f) ==
  /\ UpperOK(a) /\ Read(mem, PmdSlot(a)) = None
  /\ f \in free /\ free' = free \ {f} /\ Store(NewTable(mem, PmdSlot(a), f, a))

LEMMA FaultShape ==
  ASSUME UserInv, NEW level, NEW home, Private(level, home), NEW now, TreeInv(level, now),
         NEW a \in Addr, PageFault(a)
  PROVE  /\ PmdSlot(a) \in Slot /\ level[PmdSlot(a)[1]] = PMD
         /\ \/ \E s \in Slot : FillAt(a, s, level, now)
            \/ \E f \in free : NewAt(a, f)
         /\ UNCHANGED <<tlb, pc, args, current, todo, unread, unwritten, stray>>
<1> DEFINE s == Slots(mem, ptedit_paging_root, a)
           i == Slots(InitMem, ptedit_paging_root, a)
           r == resolve_vm(mem, ptedit_paging_root, a)
           kind(l) == Read(mem, s[l]).kind
<1>0. Tree(mem, level, now, free) /\ mem \in Memory /\ index[a][PTE] \in Index
  BY IndexType, Levels DEF TreeInv, Tree
<1>1. /\ s[PGD] = i[PGD] /\ s[P4D] = i[PGD] /\ s[PUD] = i[PUD] /\ s[PMD] = i[PMD]
      /\ Read(mem, i[PGD]) = Read(InitMem, i[PGD]) /\ Read(mem, i[PUD]) = Read(InitMem, i[PUD])
      /\ Read(InitMem, i[PUD]).kind # "none" => i[PMD] \in Slot /\ level[i[PMD][1]] = PMD
      /\ Read(mem, i[PMD]) \in Entry
  BY <1>0, UpperSlots
<1>2. PmdSlot(a) = i[PMD]
  BY DEF PmdSlot
<1>3. s[PTE] = <<Read(mem, s[PMD]).to, index[a][PTE]>>
  BY SlotsForm
<1>4. /\ \A l \in DOMAIN r : r[l] = s[l]
      /\ PUD \in DOMAIN r <=> kind(P4D) = "table" /\ kind(PUD) # "none"
      /\ PMD \in DOMAIN r <=> /\ PUD \in DOMAIN r
                              /\ kind(PMD) # "none" /\ kind(PUD) # "leaf"
      /\ PTE \in DOMAIN r <=> PMD \in DOMAIN r /\ kind(PMD) # "leaf"
  BY ResolveLevels
<1>u. UpperOK(a) <=> Read(InitMem, i[PGD]).kind = "table" /\ Read(InitMem, i[PUD]).kind = "table"
  BY DEF UpperOK
<1>5. PICK f : FaultAt(a, s, r, f)
  BY FaultStep
<1> HIDE DEF s, i, r
<1>6. PUD \in DOMAIN r
  BY <1>4, <1>5 DEF FaultAt
<1>7. PmdSlot(a) \in Slot /\ level[PmdSlot(a)[1]] = PMD
  BY <1>1, <1>2, <1>4, <1>6
<1>8. CASE /\ PTE \in DOMAIN r /\ Read(mem, r[PMD]).kind = "table" /\ Read(mem, r[PTE]) = None
           /\ Store(Write(mem, r[PTE], Leaf(page[a]))) /\ free' = free
  <2>1. r[PMD] = PmdSlot(a) /\ r[PTE] = s[PTE]
    BY <1>1, <1>2, <1>4, <1>8
  <2>2. r[PTE] = <<Read(mem, PmdSlot(a)).to, index[a][PTE]>>
    BY <1>1, <1>2, <1>3, <2>1
  <2>3. Read(mem, PmdSlot(a)).kind = "table" /\ LeadsOn(Read(mem, PmdSlot(a)))
    BY <1>8, <2>1 DEF LeadsOn
  <2>4. LET g == Read(mem, PmdSlot(a)).to
        IN <<g, index[a][PTE]>> \in Slot /\ level[g] = PTE /\ now[g] = PmdSlot(a)
    BY <1>0, <1>7, <2>3, BelowPmd
  <2>5. r[PTE][1] = Read(mem, PmdSlot(a)).to
    BY <2>2
  <2>6. FillAt(a, r[PTE], level, now) /\ r[PTE] \in Slot
    BY <1>8, <2>2, <2>3, <2>4, <2>5 DEF FillAt
  <2> QED  BY <1>7, <2>6, FaultStep
<1>9. CASE /\ PUD \in DOMAIN r /\ PMD \notin DOMAIN r /\ Read(mem, r[PUD]).kind = "table"
           /\ f \in free /\ free' = free \ {f}
           /\ Store([Write(mem, s[PMD], Table(f))
                 EXCEPT ![f] = [j \in Index |->
                   IF j = index[a][PTE] THEN Leaf(page[a]) ELSE None]])
  <2>1. r[PUD] = s[PUD] /\ kind(PMD) = "none" /\ kind(P4D) = "table" /\ kind(PUD) = "table"
    BY <1>4, <1>9
  <2>2. Read(mem, PmdSlot(a)) = None
    BY <1>1, <1>2, <2>1, EntryType
  <2>3. UpperOK(a)
    BY <1>1, <1>u, <2>1
  <2>4. Store(NewTable(mem, PmdSlot(a), f, a))
    BY <1>1, <1>2, <1>9 DEF NewTable
  <2>5. NewAt(a, f)
    BY <1>9, <2>2, <2>3, <2>4 DEF NewAt
  <2> QED  BY <1>7, <1>9, <2>5, FaultStep
<1> QED  BY <1>5, <1>8, <1>9 DEF FaultAt

-----------------------------------------------------------------------------
(* Page tables stay private                                                *)

LEMMA TreeInit ==
  ASSUME Init, NEW level, NEW home, Private(level, home)
  PROVE  TreeInv(level, home)
<1>1. Tree(mem, level, home, free)
  <2>1. \A s \in Slot : level[s[1]] = PMD => HomeOf(Read(InitMem, s), s, home, SpareTable)
    BY DEF Private, HomeOf
  <2>2. \A f \in Frame, i \in Index : Fits(InitMem[f][i], level[f], level)
    BY DEF Private
  <2> QED  BY <2>1, <2>2, UserEditAssumption DEF Init, Tree
<1>2. \A a \in Addr : \A r \in Requests[a] :
        PMD \in DOMAIN r => HomeOf(r[PMD], PmdSlot(a), home, free)
  BY DEF Init, Private, HomeOf
<1>3. \A t \in Task : WalkedOK(t, level, home)
  <2>1. \A t \in Task : DOMAIN current[t] = {}
    BY DEF Init
  <2> QED  BY <2>1 DEF WalkedOK
<1>4. free \subseteq SpareTable /\ home \in [Frame -> Slot]
  BY DEF Init, Private
<1> QED  BY <1>1, <1>2, <1>3, <1>4 DEF TreeInv

\* What t has read is as good afterwards, when fewer frames are unused and home changes
\* for an unused frame only.
LEMMA WalkedKept ==
  ASSUME NEW level, NEW now, NEW next, NEW t \in Task, LocalOK(t), WalkedOK(t, level, now),
         args'[t] = args[t], current'[t] = current[t], free' \subseteq free,
         \A f \in Frame \ free : next[f] = now[f]
  PROVE  WalkedOK(t, level, next)'
<1>0. \A l : Reaches(t, l)' <=> Reaches(t, l)
  BY DEF Reaches
<1>1. PMD \in DOMAIN current[t] /\ Reaches(t, PMD) =>
        HomeOf(current[t][PMD], PmdSlot(args[t].addr), now, free)
  BY DEF WalkedOK, PmdSlot
<1>2. PMD \in DOMAIN current[t] /\ Reaches(t, PMD) =>
        HomeOf(current[t][PMD], PmdSlot(args[t].addr), next, free')
  BY <1>1, EntryType DEF HomeOf, LeadsOn, LocalOK
<1> QED  BY <1>0, <1>2 DEF WalkedOK, PmdSlot

\* A level more is read: what is reached then has been reached before.
LEMMA ReachesGrows ==
  ASSUME NEW t, NEW l \in {PGD, PUD, PMD, PTE}, NEW e, l \notin DOMAIN current[t],
         IsChain(DOMAIN current[t]),
         \/ current'[t] = current[t]
         \/ current'[t] = [k \in DOMAIN current[t] \cup {l} |->
                             IF k = l THEN e ELSE current[t][k]]
  PROVE  \A j : Reaches(t, j)' => Reaches(t, j)
<1>1. \A k \in DOMAIN current[t] : k \in DOMAIN current'[t] /\ current'[t][k] = current[t][k]
  OBVIOUS
<1> QED  BY <1>1 DEF Reaches

LEMMA TreeDeref ==
  ASSUME UserInv, NEW level, NEW home, Private(level, home), NEW now, TreeInv(level, now),
         NEW t \in Task, NEW ok \in BOOLEAN, Deref(t, ok)
  PROVE  WalkedOK(t, level, now)'
<1> DEFINE a == args[t].addr
           s == Slots(InitMem, ptedit_paging_root, a)
           D == DOMAIN current[t]
<1>0. /\ LocalOK(t) /\ HandlerOK(t) /\ LocalType /\ WalkedOK(t, level, now)
      /\ Tree(mem, level, now, free) /\ a \in Addr /\ IsChain(D)
  BY DEF UserInv, LocalType, LocalOK, TreeInv
<1>1. PICK l \in {PGD, PUD, PMD, PTE}, e \in Entry : DerefAt(t, l, e)
  BY DerefStep
<1>2. /\ e \in {Read(mem, EntrySlot(t, l)), None} /\ EntrySlot(t, l) \in Slot
      /\ l # PGD => Above[l] \in D /\ GoesOn(current[t][Above[l]], Above[l])
      /\ args'[t] = args[t] /\ free' = free /\ l \notin D
      /\ \/ current'[t] = current[t]
         \/ current'[t] = [k \in D \cup {l} |-> IF k = l THEN e ELSE current[t][k]]
  BY <1>0, <1>1, Levels DEF DerefAt, HandlerOK
<1>r. \A j : Reaches(t, j)' => Reaches(t, j)
  BY <1>0, <1>2, ReachesGrows
<1>3. CASE current'[t] = current[t]
  BY <1>0, <1>2, <1>3, WalkedKept
<1>4. CASE current'[t] = [k \in D \cup {l} |-> IF k = l THEN e ELSE current[t][k]]
  <2>1. /\ DOMAIN current'[t] = D \cup {l} /\ current'[t][l] = e
        /\ \A k \in D : current'[t][k] = current[t][k]
    BY <1>2, <1>4
  <2>2. /\ Read(mem, s[PGD]) = Read(InitMem, s[PGD]) /\ Read(mem, s[PUD]) = Read(InitMem, s[PUD])
        /\ EntrySlot(t, PGD) = s[PGD]
        /\ l = PUD /\ Reaches(t, PUD) => EntrySlot(t, PUD) = s[PUD]
        /\ l = PMD /\ Reaches(t, PMD) => EntrySlot(t, PMD) = PmdSlot(a) /\ PmdSlot(a) = s[PMD]
    BY <1>0, <1>2, Levels, UpperSlots, WalkedSlots DEF PmdSlot
  <2>3. /\ l = PGD => e \in {Read(InitMem, s[PGD]), None}
        /\ l = PUD /\ Reaches(t, PUD) => e \in {Read(InitMem, s[PUD]), None}
    BY <1>2, <2>2, Levels
  <2>4. l = PMD /\ Reaches(t, PMD) => HomeOf(e, s[PMD], now, free) /\ Fits(e, PMD, level)
    <3>1. SUFFICES ASSUME l = PMD, Reaches(t, PMD)
          PROVE HomeOf(e, s[PMD], now, free) /\ Fits(e, PMD, level)
      OBVIOUS
    <3>2. CASE e = None
      BY <3>2, Levels DEF HomeOf, Fits, LeadsOn, None
    <3>3. CASE e = Read(mem, EntrySlot(t, PMD))
      <4>1. PUD \in D /\ PmdSlot(a) = s[PMD] /\ e = Read(mem, PmdSlot(a)) /\ PmdSlot(a) \in Slot
        BY <1>2, <2>2, <3>1, <3>3, Levels
      <4>2. GoesOn(current[t][PUD], PUD) /\ Reaches(t, PUD)
        BY <1>2, <3>1, Levels, ReachesUp
      <4>3. current[t][PUD] \in {Read(InitMem, s[PUD]), None}
        BY <1>0, <4>1, <4>2 DEF WalkedOK
      <4>4. Read(InitMem, s[PUD]).kind # "none"
        BY <4>2, <4>3 DEF GoesOn, IsPresent, None
      <4>5. level[PmdSlot(a)[1]] = PMD
        BY <1>0, <4>1, <4>4, UpperSlots
      <4>6. /\ Read(mem, PmdSlot(a)) = mem[PmdSlot(a)[1]][PmdSlot(a)[2]]
            /\ PmdSlot(a)[1] \in Frame /\ PmdSlot(a)[2] \in Index
        BY <4>1, ReadSlot
      <4>7. Fits(e, PMD, level)
        BY <1>0, <4>1, <4>5, <4>6 DEF Tree
      <4> QED  BY <1>0, <4>1, <4>5, <4>7 DEF Tree
    <3> QED  BY <1>2, <3>1, <3>2, <3>3
  <2>5. /\ \A k \in {PGD, PUD} \cap DOMAIN current'[t] :
             Reaches(t, k)' => current'[t][k] \in {Read(InitMem, s[k]), None}
        /\ PMD \in DOMAIN current'[t] /\ Reaches(t, PMD)' =>
             /\ HomeOf(current'[t][PMD], s[PMD], now, free)
             /\ Fits(current'[t][PMD], PMD, level)
    BY <1>0, <1>r, <2>1, <2>3, <2>4 DEF WalkedOK
  <2> QED  BY <1>2, <2>5 DEF WalkedOK
<1> QED  BY <1>2, <1>3, <1>4

LEMMA TreeInductive ==
  ASSUME UserInv, [Next]_vars, ~stray', NEW level, NEW home, Private(level, home),
         NEW now, TreeInv(level, now)
  PROVE  \E next : TreeInv(level, next)'
<1>0. LocalType /\ Tree(mem, level, now, free) /\ now \in [Frame -> Slot] /\ free \subseteq SpareTable
      /\ free \subseteq Frame /\ \A t \in Task : LocalOK(t)
  BY DEF UserInv, TreeInv, SharedType, LocalType
<1>1. ASSUME NEW t \in Task, StepOf(t), UNCHANGED <<mem, free>>, WalkedOK(t, level, now)'
      PROVE  TreeInv(level, now)'
  <2>1. ASSUME NEW u \in Task \ {t} PROVE WalkedOK(u, level, now)'
    <3>1. args'[u] = args[u] /\ current'[u] = current[u]
      BY <1>0, <1>1, Others
    <3> QED  BY <1>0, <1>1, <3>1, WalkedKept DEF TreeInv
  <2> QED  BY <1>1, <2>1 DEF TreeInv
<1>2. ASSUME NEW t \in Task, current'[t] = <<>> PROVE WalkedOK(t, level, now)'
  <2>1. DOMAIN current'[t] = {}
    BY <1>2
  <2> QED  BY <2>1 DEF WalkedOK
<1>3. ASSUME NEW t \in Task, NEW a \in Addr, NEW new \in Requests[a] \cup {<<>>}, Call(t, a, new)
      PROVE  TreeInv(level, now)'
  <2>1. current'[t] = <<>> /\ StepOf(t) /\ UNCHANGED <<mem, free>>
    BY <1>0, <1>3 DEF Call, Goto, LocalType, PerTask, StepOf
  <2> QED  BY <1>1, <1>2, <2>1
<1>4. ASSUME NEW t \in Task, Return(t) PROVE TreeInv(level, now)'
  <2>1. current'[t] = <<>> /\ StepOf(t) /\ UNCHANGED <<mem, free>>
    BY <1>0, <1>4 DEF Return, Goto, LocalType, PerTask, StepOf
  <2> QED  BY <1>1, <1>2, <2>1
<1>5. ASSUME NEW t \in Task, NEW ok \in BOOLEAN, Deref(t, ok) PROVE TreeInv(level, now)'
  <2>1. StepOf(t) /\ UNCHANGED <<mem, free>>
    BY <1>5, DerefStep DEF DerefAt
  <2> QED  BY <1>1, <1>5, <2>1, TreeDeref
<1>6. ASSUME UNCHANGED <<mem, free, args, current>> PROVE TreeInv(level, now)'
  BY <1>0, <1>6, WalkedKept DEF TreeInv
<1>7. ASSUME NEW t \in Task, UpdateWrite(t) PROVE TreeInv(level, now)'
  <2>1. PICK l \in {PMD, PTE}, s \in Slot, e \in Entry : WriteAt(t, l, s, e, level, now)
    BY <1>7, WriteShape
  <2>2. /\ mem' = Write(mem, s, e) /\ UNCHANGED <<free, args, current>>
        /\ level[s[1]] = l /\ Fits(e, l, level) /\ (l = PMD => HomeOf(e, s, now, free))
    BY <2>1, StoreSeen DEF WriteAt
  <2>3. Tree(mem', level, now, free')
    BY <1>0, <2>2, TreeWrite
  <2> QED  BY <1>0, <2>2, <2>3, WalkedKept DEF TreeInv
<1>8. ASSUME NEW a \in Addr, NEW s \in Slot, FillAt(a, s, level, now), UNCHANGED <<args, current>>
      PROVE  TreeInv(level, now)'
  <2>1. /\ mem' = Write(mem, s, Leaf(page[a])) /\ free' = free /\ level[s[1]] = PTE
    BY <1>8, StoreSeen DEF FillAt
  <2>2. Leaf(page[a]) \in Entry /\ Fits(Leaf(page[a]), PTE, level)
    BY UserEditAssumption, Levels DEF Leaf, Entry, Fits
  <2>3. Tree(mem', level, now, free')
    BY <1>0, <2>1, <2>2, TreeWrite, Levels
  <2> QED  BY <1>0, <1>8, <2>1, <2>3, WalkedKept DEF TreeInv
<1>9. ASSUME NEW a \in Addr, PmdSlot(a) \in Slot, level[PmdSlot(a)[1]] = PMD,
             NEW f \in free, NewAt(a, f), UNCHANGED <<args, current>>
      PROVE  \E next : TreeInv(level, next)'
  <2> DEFINE next == [now EXCEPT ![f] = PmdSlot(a)]
  <2>1. mem' = NewTable(mem, PmdSlot(a), f, a) /\ free' = free \ {f}
    BY <1>9, StoreSeen DEF NewAt
  <2>2. f \in Frame /\ level[f] = PTE
    BY <1>0 DEF Private
  <2>3. Tree(mem', level, next, free')
    BY <1>0, <1>9, <2>1, <2>2, TreeTable
  <2>4. next \in [Frame -> Slot] /\ \A g \in Frame \ free : next[g] = now[g]
    BY <1>0, <1>9
  <2> HIDE DEF next
  <2>5. \A t \in Task : WalkedOK(t, level, next)'
    BY <1>0, <1>9, <2>1, <2>4, WalkedKept DEF TreeInv
  <2>6. \A b \in Addr : \A r \in Requests[b] :
          PMD \in DOMAIN r => HomeOf(r[PMD], PmdSlot(b), next, free')
    <3>1. ASSUME NEW b \in Addr, NEW r \in Requests[b], PMD \in DOMAIN r PROVE r[PMD] \in Entry
      BY <3>1, UserEditAssumption DEF IsPartial
    <3> QED  BY <2>1, <2>4, <3>1, EntryType DEF TreeInv, HomeOf, LeadsOn
  <2>7. TreeInv(level, next)'
    BY <1>0, <2>1, <2>3, <2>4, <2>5, <2>6 DEF TreeInv
  <2> QED  BY <2>7
<1>10. ASSUME NEW a \in Addr, PageFault(a) PROVE \E next : TreeInv(level, next)'
  BY <1>8, <1>9, <1>10, FaultShape
<1>11. ASSUME NEW t \in Task, UpdateWritten(t) \/ UpdateFlush(t) PROVE TreeInv(level, now)'
  BY <1>6, <1>11 DEF UpdateWritten, UpdateFlush
<1>12. ASSUME NEW a \in Addr, TlbFill(a) PROVE TreeInv(level, now)'
  BY <1>6, <1>12 DEF TlbFill
<1>13. CASE UNCHANGED vars
  BY <1>6, <1>13 DEF vars
<1>14. ASSUME NEW t \in Task, UpdateLost(t) PROVE TreeInv(level, now)'
  BY <1>6, <1>14 DEF UpdateLost
<1> QED  BY <1>3, <1>4, <1>5, <1>7, <1>10, <1>11, <1>12, <1>13, <1>14 DEF Next

\* An update that has written elsewhere is not forgotten.
LEMMA StrayStays == UserInv /\ [Next]_vars /\ stray => stray'
<1>1. ASSUME NEW t \in Task, UserInv, UpdateWrite(t), stray PROVE stray'
  BY <1>1, WriteStep
<1> QED  BY <1>1 DEF Next, vars, Call, Deref, Return, UpdateLost, UpdateWritten, UpdateFlush,
                     TlbFill, PageFault

\* For the invariants that rest on private page tables.
LEMMA PrivateInvariant ==
  ASSUME NEW CONSTANT level, NEW CONSTANT home, Private(level, home)
  PROVE  Spec => [](UserInv /\ PrivateInv(level))
<1>1. Init => PrivateInv(level)
  BY TreeInit DEF PrivateInv
<1>2. UserInv /\ PrivateInv(level) /\ [Next]_vars => PrivateInv(level)'
  BY TreeInductive, StrayStays DEF PrivateInv
<1> QED  BY <1>1, <1>2, UserInvariant, PTL DEF Spec

-----------------------------------------------------------------------------
(* What a change of memory does to the pages                               *)

\* A write to the PMD of a, or to a page table at home there, changes no other page.
LEMMA OtherPage ==
  ASSUME NEW level, NEW home, Private(level, home), NEW memory, NEW now, NEW unused,
         Tree(memory, level, now, unused), NEW a \in Addr, NEW b \in Addr, a # b,
         NEW s \in Slot, NEW e \in Entry, Tree(Write(memory, s, e), level, now, unused),
         PmdSlot(a) \in Slot, level[PmdSlot(a)[1]] = PMD,
         s = PmdSlot(a) \/ (level[s[1]] = PTE /\ now[s[1]] = PmdSlot(a))
  PROVE  translate(Write(memory, s, e), b) = translate(memory, b)
<1> DEFINE W == Write(memory, s, e)
           p == Read(memory, PmdSlot(b))
<1>1. /\ translate(memory, b) = IF UpperOK(b) THEN LeafOf(memory, b) ELSE Fault
      /\ translate(W, b) = IF UpperOK(b) THEN LeafOf(W, b) ELSE Fault
      /\ UpperOK(b) => PmdSlot(b) \in Slot /\ level[PmdSlot(b)[1]] = PMD
      /\ p \in Entry
  BY TranslateForm
<1>2. memory \in Memory /\ \A r \in Slot : Read(W, r) = IF r = s THEN e ELSE Read(memory, r)
  BY ReadWrite DEF Tree
<1> HIDE DEF W
<1>3. ASSUME UpperOK(b) PROVE LeafOf(W, b) = LeafOf(memory, b)
  <2>1. PmdSlot(b) \in Slot /\ level[PmdSlot(b)[1]] = PMD /\ PmdSlot(b) # PmdSlot(a)
    BY <1>1, <1>3 DEF Private
  <2>2. Read(W, PmdSlot(b)) = p
    BY <1>2, <2>1, Levels
  <2>3. CASE p.kind = "table"
    <3>1. index[b][PTE] \in Index /\ LeadsOn(p)
      BY <2>3, IndexType, Levels DEF LeadsOn
    <3>2. <<p.to, index[b][PTE]>> \in Slot /\ level[p.to] = PTE /\ now[p.to] = PmdSlot(b)
      BY <2>1, <3>1, BelowPmd
    <3>3. <<p.to, index[b][PTE]>>[1] = p.to
      OBVIOUS
    <3>4. <<p.to, index[b][PTE]>> # s
      BY <2>1, <3>2, <3>3, Levels
    <3>5. Read(W, <<p.to, index[b][PTE]>>) = Read(memory, <<p.to, index[b][PTE]>>)
      BY <1>2, <3>2, <3>4
    <3> QED  BY <2>2, <3>5 DEF LeafOf
  <2>4. CASE p.kind # "table"
    BY <2>2, <2>4 DEF LeafOf
  <2> QED  BY <2>3, <2>4
<1> QED  BY <1>1, <1>3 DEF W

\* Neither does a new page table.
LEMMA OtherPageTable ==
  ASSUME NEW level, NEW home, Private(level, home), NEW memory, NEW now, NEW unused,
         Tree(memory, level, now, unused), NEW a \in Addr, NEW b \in Addr, a # b,
         PmdSlot(a) \in Slot, level[PmdSlot(a)[1]] = PMD,
         NEW f \in Frame, f \in unused, level[f] = PTE, NEW next,
         Tree(NewTable(memory, PmdSlot(a), f, a), level, next, unused \ {f})
  PROVE  translate(NewTable(memory, PmdSlot(a), f, a), b) = translate(memory, b)
<1> DEFINE N == NewTable(memory, PmdSlot(a), f, a)
           p == Read(memory, PmdSlot(b))
<1>1. /\ translate(memory, b) = IF UpperOK(b) THEN LeafOf(memory, b) ELSE Fault
      /\ UpperOK(b) => PmdSlot(b) \in Slot /\ level[PmdSlot(b)[1]] = PMD
      /\ p \in Entry
  BY TranslateForm
<1>a. translate(N, b) = IF UpperOK(b) THEN LeafOf(N, b) ELSE Fault
  BY TranslateForm
<1>2. \A r \in Slot : r[1] # f /\ r # PmdSlot(a) => Read(N, r) = Read(memory, r)
  BY NewTableRead DEF Tree
<1> HIDE DEF N
<1>3. ASSUME UpperOK(b) PROVE LeafOf(N, b) = LeafOf(memory, b)
  <2>1. PmdSlot(b) \in Slot /\ level[PmdSlot(b)[1]] = PMD /\ PmdSlot(b) # PmdSlot(a)
    BY <1>1, <1>3 DEF Private
  <2>2. Read(N, PmdSlot(b)) = p
    BY <1>2, <2>1, Levels
  <2>3. CASE p.kind = "table"
    <3>1. index[b][PTE] \in Index /\ LeadsOn(p)
      BY <2>3, IndexType, Levels DEF LeadsOn
    <3>2. <<p.to, index[b][PTE]>> \in Slot /\ level[p.to] = PTE /\ p.to \notin unused
      BY <2>1, <3>1, BelowPmd
    <3>3. <<p.to, index[b][PTE]>>[1] = p.to
      OBVIOUS
    <3>4. <<p.to, index[b][PTE]>> # PmdSlot(a) /\ p.to # f
      BY <3>2, <3>3, Levels
    <3>5. Read(N, <<p.to, index[b][PTE]>>) = Read(memory, <<p.to, index[b][PTE]>>)
      BY <1>2, <3>2, <3>3, <3>4
    <3> QED  BY <2>2, <3>5 DEF LeafOf
  <2>4. CASE p.kind # "table"
    BY <2>2, <2>4 DEF LeafOf
  <2> QED  BY <2>3, <2>4
<1> QED  BY <1>1, <1>a, <1>3 DEF N

\* An update changes the mapping of its own page only.
LEMMA WriteMaps ==
  ASSUME UserInv, NEW level, NEW home, Private(level, home), NEW now, TreeInv(level, now),
         NEW t \in Task, UpdateWrite(t), ~stray', NEW b \in Addr, b # args[t].addr
  PROVE  translate(mem', b) = translate(mem, b)
<1>1. PICK l \in {PMD, PTE}, s \in Slot, e \in Entry : WriteAt(t, l, s, e, level, now)
  BY WriteShape
<1>2. /\ mem' = Write(mem, s, e) /\ level[s[1]] = l /\ Fits(e, l, level)
      /\ (l = PMD => HomeOf(e, s, now, free))
      /\ PmdSlot(args[t].addr) \in Slot /\ level[PmdSlot(args[t].addr)[1]] = PMD
      /\ s = PmdSlot(args[t].addr) \/ (level[s[1]] = PTE /\ now[s[1]] = PmdSlot(args[t].addr))
  BY <1>1, StoreSeen DEF WriteAt
<1>3. args[t].addr \in Addr /\ Tree(mem, level, now, free)
  BY DEF UserInv, LocalType, LocalOK, TreeInv
<1>4. Tree(Write(mem, s, e), level, now, free)
  BY <1>2, <1>3, TreeWrite
<1>5. translate(Write(mem, s, e), b) = translate(mem, b)
  BY <1>2, <1>3, <1>4, OtherPage
<1> QED  BY <1>2, <1>5

\* A page fault maps a page that was not mapped, and changes no other.
LEMMA FaultMaps ==
  ASSUME UserInv, NEW level, NEW home, Private(level, home), NEW now, TreeInv(level, now),
         NEW a \in Addr, PageFault(a)
  PROVE  /\ translate(mem, a) = Fault
         /\ \A b \in Addr : b # a => translate(mem', b) = translate(mem, b)
<1>0. Tree(mem, level, now, free) /\ now \in [Frame -> Slot] /\ free \subseteq SpareTable
      /\ free \subseteq Frame
  BY DEF UserInv, TreeInv, SharedType
<1>1. PmdSlot(a) \in Slot /\ level[PmdSlot(a)[1]] = PMD
  BY FaultShape
<1>2. translate(mem, a) = IF UpperOK(a) THEN LeafOf(mem, a) ELSE Fault
  BY <1>0, TranslateForm
<1>3. Target(None, PTE) = Fault /\ Target(None, PMD) = Fault /\ None.kind = "none"
  BY DEF Target, None
<1>4. ASSUME NEW s \in Slot, FillAt(a, s, level, now)
      PROVE  /\ translate(mem, a) = Fault
             /\ \A b \in Addr : b # a => translate(mem', b) = translate(mem, b)
  <2>1. /\ mem' = Write(mem, s, Leaf(page[a])) /\ level[s[1]] = PTE /\ now[s[1]] = PmdSlot(a)
        /\ Read(mem, PmdSlot(a)).kind = "table" /\ Read(mem, s) = None
        /\ s = <<Read(mem, PmdSlot(a)).to, index[a][PTE]>>
    BY <1>4, StoreSeen DEF FillAt
  <2>2. LeafOf(mem, a) = Fault
    BY <1>3, <2>1 DEF LeafOf
  <2>3. Leaf(page[a]) \in Entry /\ Fits(Leaf(page[a]), PTE, level)
    BY UserEditAssumption, Levels DEF Leaf, Entry, Fits
  <2>4. Tree(Write(mem, s, Leaf(page[a])), level, now, free)
    BY <1>0, <2>1, <2>3, TreeWrite, Levels
  <2>5. \A b \in Addr : b # a => translate(Write(mem, s, Leaf(page[a])), b) = translate(mem, b)
    BY <1>0, <1>1, <2>1, <2>3, <2>4, OtherPage
  <2> QED  BY <1>2, <2>1, <2>2, <2>5
<1>5. ASSUME NEW f \in free, NewAt(a, f)
      PROVE  /\ translate(mem, a) = Fault
             /\ \A b \in Addr : b # a => translate(mem', b) = translate(mem, b)
  <2>1. mem' = NewTable(mem, PmdSlot(a), f, a) /\ Read(mem, PmdSlot(a)) = None
    BY <1>5, StoreSeen DEF NewAt
  <2>2. LeafOf(mem, a) = Fault
    BY <1>3, <2>1 DEF LeafOf
  <2>3. f \in Frame /\ level[f] = PTE
    BY <1>0 DEF Private
  <2>4. Tree(NewTable(mem, PmdSlot(a), f, a), level, [now EXCEPT ![f] = PmdSlot(a)], free \ {f})
    BY <1>0, <1>1, <2>3, TreeTable
  <2>5. \A b \in Addr : b # a =>
          translate(NewTable(mem, PmdSlot(a), f, a), b) = translate(mem, b)
    BY <1>0, <1>1, <2>3, <2>4, OtherPageTable
  <2> QED  BY <1>2, <2>1, <2>2, <2>5
<1> QED  BY <1>4, <1>5, FaultShape

-----------------------------------------------------------------------------
(* The TLB                                                                 *)

\* An update of a has not come to its flush yet.
Editing(a) == \E t \in Task : pc[t] \in {"write", "flush"} /\ args[t].addr = a

LEMMA TlbInductive ==
  ASSUME UserInv, [Next]_vars, NEW level, NEW home, Private(level, home),
         NEW now, TreeInv(level, now), UserTlbCoherent, ~stray'
  PROVE  UserTlbCoherent'
<1>0. /\ LocalType /\ tlb \in [Addr -> (Frame \X {PUD, PMD, PTE}) \cup {Fault}]
      /\ \A a \in Addr : tlb[a] \in {Fault, translate(mem, a)} \/ Editing(a)
  BY StrayStays DEF UserInv, SharedType, UserTlbCoherent, Editing
<1>a. SUFFICES \A a \in Addr : tlb'[a] \in {Fault, translate(mem', a)} \/ Editing(a)'
  BY DEF UserTlbCoherent, Editing, translate
<1>1. ASSUME NEW t \in Task, StepOf(t), pc[t] \notin {"write", "flush"}, UNCHANGED mem,
             \A a \in Addr : tlb'[a] \in {Fault, tlb[a]}
      PROVE  \A a \in Addr : tlb'[a] \in {Fault, translate(mem', a)} \/ Editing(a)'
  <2>1. \A u \in Task \ {t} : pc'[u] = pc[u] /\ args'[u] = args[u]
    BY <1>0, <1>1, Others
  <2>2. \A a \in Addr : Editing(a) => Editing(a)'
    BY <1>1, <2>1 DEF Editing
  <2> QED  BY <1>0, <1>1, <2>2
<1>2. ASSUME UNCHANGED <<pc, args>> PROVE \A a \in Addr : Editing(a)' <=> Editing(a)
  BY <1>2 DEF Editing
<1>3. ASSUME NEW t \in Task, NEW a \in Addr, NEW new \in Requests[a] \cup {<<>>}, Call(t, a, new)
      PROVE  \A b \in Addr : tlb'[b] \in {Fault, translate(mem', b)} \/ Editing(b)'
  <2>1. StepOf(t) /\ UNCHANGED <<mem, tlb>> /\ pc[t] = "user"
    BY <1>0, <1>3 DEF Call, Goto, LocalType, PerTask, StepOf
  <2> QED  BY <1>1, <2>1
<1>4. ASSUME NEW t \in Task, Return(t)
      PROVE  \A b \in Addr : tlb'[b] \in {Fault, translate(mem', b)} \/ Editing(b)'
  <2>1. StepOf(t) /\ UNCHANGED mem /\ pc[t] \notin {"write", "flush"}
    BY <1>0, <1>4 DEF Return, Goto, LocalType, PerTask, StepOf
  <2>2. \A a \in Addr : tlb'[a] \in {Fault, tlb[a]}
    BY <1>0, <1>4 DEF Return
  <2> QED  BY <1>1, <2>1, <2>2
<1>5. ASSUME NEW t \in Task, NEW ok \in BOOLEAN, Deref(t, ok)
      PROVE  \A b \in Addr : tlb'[b] \in {Fault, translate(mem', b)} \/ Editing(b)'
  <2>1. StepOf(t) /\ UNCHANGED <<mem, tlb>> /\ pc[t] = "walk"
    BY <1>5, DerefStep DEF DerefAt
  <2> QED  BY <1>1, <2>1
<1>6. ASSUME NEW t \in Task, UpdateWrite(t)
      PROVE  \A b \in Addr : tlb'[b] \in {Fault, translate(mem', b)} \/ Editing(b)'
  <2>1. UNCHANGED <<pc, args, tlb>> /\ Editing(args[t].addr)
    BY <1>6 DEF UpdateWrite, Editing
  <2>2. \A b \in Addr : b # args[t].addr => translate(mem', b) = translate(mem, b)
    BY <1>6, WriteMaps
  <2> QED  BY <1>0, <1>2, <2>1, <2>2
<1>7. ASSUME NEW t \in Task, UpdateWritten(t)
      PROVE  \A b \in Addr : tlb'[b] \in {Fault, translate(mem', b)} \/ Editing(b)'
  <2>1. /\ UNCHANGED <<mem, args, tlb>> /\ pc'[t] = "flush"
        /\ \A u \in Task : pc'[u] = IF u = t THEN "flush" ELSE pc[u]
    BY <1>0, <1>7 DEF UpdateWritten, Goto, LocalType, PerTask
  <2>2. \A b \in Addr : Editing(b) => Editing(b)'
    BY <2>1 DEF Editing
  <2> QED  BY <1>0, <2>1, <2>2
<1>8. ASSUME NEW t \in Task, UpdateFlush(t)
      PROVE  \A b \in Addr : tlb'[b] \in {Fault, translate(mem', b)} \/ Editing(b)'
  <2>1. /\ UNCHANGED <<mem, args>>
        /\ \A u \in Task : u # t => pc'[u] = pc[u]
        /\ \A b \in Addr : tlb'[b] = IF b = args[t].addr THEN Fault ELSE tlb[b]
    BY <1>0, <1>8 DEF UpdateFlush, Goto, LocalType, PerTask
  <2>2. \A b \in Addr : b # args[t].addr /\ Editing(b) => Editing(b)'
    BY <2>1 DEF Editing
  <2> QED  BY <1>0, <2>1, <2>2
<1>9. ASSUME NEW a \in Addr, TlbFill(a)
      PROVE  \A b \in Addr : tlb'[b] \in {Fault, translate(mem', b)} \/ Editing(b)'
  <2>1. /\ UNCHANGED <<pc, args, mem>>
        /\ \A b \in Addr : tlb'[b] = IF b = a THEN translate(mem, a) ELSE tlb[b]
    BY <1>0, <1>9 DEF TlbFill
  <2> QED  BY <1>0, <1>2, <2>1
<1>10. ASSUME NEW a \in Addr, PageFault(a)
       PROVE  \A b \in Addr : tlb'[b] \in {Fault, translate(mem', b)} \/ Editing(b)'
  <2>1. UNCHANGED <<pc, args, tlb>>
    BY <1>10, FaultStep
  <2>2. /\ translate(mem, a) = Fault
        /\ \A b \in Addr : b # a => translate(mem', b) = translate(mem, b)
    BY <1>10, FaultMaps
  <2> QED  BY <1>0, <1>2, <2>1, <2>2
<1>11. CASE UNCHANGED vars
  BY <1>0, <1>2, <1>11 DEF vars
<1>12. ASSUME NEW t \in Task, UpdateLost(t)
       PROVE  \A b \in Addr : tlb'[b] \in {Fault, translate(mem', b)} \/ Editing(b)'
  BY <1>0, <1>2, <1>12 DEF UpdateLost
<1> QED  BY <1>3, <1>4, <1>5, <1>6, <1>7, <1>8, <1>9, <1>10, <1>11, <1>12 DEF Next

\* After ptedit_update_user the CPU uses no mapping that the call has replaced, however
\* many threads walk and edit the tables and take page faults at the same time: the
\* invalidation comes after the last write, and nothing but the editor changes a page
\* that is mapped.  Reads and writes of /proc/umem may fail, and page tables may lie above
\* 1 TB, as long as no update has written through one.
THEOREM UserTlbNeverStale ==
  ASSUME NEW CONSTANT level, NEW CONSTANT home, Private(level, home)
  PROVE  Spec => []UserTlbCoherent
<1>1. Init => UserTlbCoherent
  BY DEF Init, UserTlbCoherent
<1>2. UserInv /\ PrivateInv(level) /\ UserTlbCoherent /\ [Next]_vars => UserTlbCoherent'
  <2>1. ASSUME stray' PROVE UserTlbCoherent'
    BY <2>1 DEF UserTlbCoherent
  <2> QED  BY <2>1, TlbInductive, StrayStays DEF PrivateInv
<1> QED  BY <1>1, <1>2, PrivateInvariant, PTL DEF Spec

-----------------------------------------------------------------------------
(* What the calls of one editor find and leave behind                      *)

\* What has been written is still there, in the tables of the address.
AppliedOK(t) ==
  pc[t] \in {"write", "flush"} =>
    \A l \in (DOMAIN current[t] \cap DOMAIN args[t].new) \ (todo[t] \cup unwritten[t]) :
      /\ Reaches(t, l)
      /\ args[t].new[l] # None => Read(mem, EntrySlot(t, l)) = args[t].new[l]

\* Until the editor writes the PTE, the PMD is the one through which it has found it.
SteadyOK(t) ==
  /\ args[t].new # <<>> /\ Reaches(t, PMD)
  /\ (pc[t] = "walk" /\ PMD \in DOMAIN current[t]) \/ PTE \in todo[t]
  => Read(mem, PmdSlot(args[t].addr)) = current[t][PMD]

\* A walk has seen the mapping of now; when it has read the PMD it has also seen what the
\* PTE maps that it will read next, although the PMD may have changed; and when it has
\* ended, what it has found.
SeenOK(t) ==
  /\ pc[t] = "walk" =>
       /\ translate(mem, args[t].addr) \in seen[t]
       /\ PMD \in DOMAIN current[t] /\ Reaches(t, PTE) =>
            Target(Read(mem, EntrySlot(t, PTE)), PTE) \in seen[t]
  /\ pc[t] \notin {"user", "walk"} /\ ~unread[t] /\ Reaches(t, PTE) => Found(t) \in seen[t]

EditInv == \A t \in Task : AppliedOK(t) /\ SteadyOK(t) /\ SeenOK(t)

\* Where the PMD and the PTE of a walk are.
LEMMA LowerSlots ==
  ASSUME UserInv, NEW level, NEW home, Private(level, home), NEW now, TreeInv(level, now),
         NEW t \in Task, PMD \in DOMAIN current[t], Reaches(t, PMD)
  PROVE  LET a == args[t].addr
         IN /\ a \in Addr /\ UpperOK(a) /\ EntrySlot(t, PMD) = PmdSlot(a)
            /\ PmdSlot(a) \in Slot /\ level[PmdSlot(a)[1]] = PMD /\ PmdSlot(a)[1] \notin free
            /\ PTE \in DOMAIN current[t] \/ pc[t] = "walk" =>
                 current[t][PMD].kind = "table" /\ current[t][PMD] # None
            /\ (PTE \in DOMAIN current[t] \/ pc[t] = "walk") /\ Reaches(t, PTE) =>
                 /\ EntrySlot(t, PTE) = <<current[t][PMD].to, index[a][PTE]>>
                 /\ EntrySlot(t, PTE) \in Slot /\ level[EntrySlot(t, PTE)[1]] = PTE
                 /\ now[EntrySlot(t, PTE)[1]] = PmdSlot(a) /\ EntrySlot(t, PTE)[1] \notin free
                 /\ EntrySlot(t, PTE)[1] = current[t][PMD].to
<1> DEFINE a == args[t].addr
           D == DOMAIN current[t]
<1>1. /\ a \in Addr /\ IsChain(D) /\ HandlerOK(t) /\ Tree(mem, level, now, free)
  BY DEF UserInv, LocalType, LocalOK, TreeInv
<1>2. PUD \in D
  BY <1>1, Levels DEF IsChain
<1>3. UpperOK(a) /\ EntrySlot(t, PMD) = PmdSlot(a)
  BY <1>2, WalkedSlots
<1>4. PmdSlot(a) \in Slot /\ level[PmdSlot(a)[1]] = PMD
  BY <1>1, <1>3, TranslateForm
<1>5. PmdSlot(a)[1] \notin free
  BY <1>4, Levels DEF TreeInv, Private
<1>6. PTE \in D \/ pc[t] = "walk" => GoesOn(current[t][PMD], PMD)
  BY <1>1, WalkedSlots DEF HandlerOK
<1>8. PTE \in D \/ pc[t] = "walk" => current[t][PMD].kind = "table" /\ current[t][PMD] # None
  BY <1>6, WalkedSlots DEF None
<1>7. ASSUME PTE \in D \/ pc[t] = "walk", Reaches(t, PTE)
      PROVE  /\ EntrySlot(t, PTE) = <<current[t][PMD].to, index[a][PTE]>>
             /\ EntrySlot(t, PTE) \in Slot /\ level[EntrySlot(t, PTE)[1]] = PTE
             /\ now[EntrySlot(t, PTE)[1]] = PmdSlot(a) /\ EntrySlot(t, PTE)[1] \notin free
             /\ EntrySlot(t, PTE)[1] = current[t][PMD].to
  <2>1. /\ current[t][PMD].kind = "table"
        /\ level[current[t][PMD].to] = PTE /\ now[current[t][PMD].to] = PmdSlot(a)
        /\ current[t][PMD].to \notin free
        /\ EntrySlot(t, PTE) = <<current[t][PMD].to, index[a][PTE]>>
        /\ EntrySlot(t, PTE) \in Slot
    BY <1>6, <1>7, WalkedSlots
  <2>2. EntrySlot(t, PTE)[1] = current[t][PMD].to
    BY <2>1
  <2> QED  BY <2>1, <2>2
<1> QED  BY <1>1, <1>3, <1>4, <1>5, <1>7, <1>8

\* A page fault leaves alone what is not empty.
LEMMA FaultKeeps ==
  ASSUME UserInv, NEW level, NEW home, Private(level, home), NEW now, TreeInv(level, now),
         NEW a \in Addr, PageFault(a), NEW s \in Slot, Read(mem, s) # None, s[1] \notin free
  PROVE  Read(mem', s) = Read(mem, s)
<1>0. mem \in Memory /\ PmdSlot(a) \in Slot /\ Leaf(page[a]) \in Entry /\ free \subseteq Frame
  BY FaultShape, UserEditAssumption DEF UserInv, SharedType, Leaf, Entry
<1>1. ASSUME NEW r \in Slot, FillAt(a, r, level, now) PROVE Read(mem', s) = Read(mem, s)
  BY <1>0, <1>1, StoreSeen, ReadWrite DEF FillAt
<1>2. ASSUME NEW f \in free, NewAt(a, f) PROVE Read(mem', s) = Read(mem, s)
  <2>1. mem' = NewTable(mem, PmdSlot(a), f, a) /\ Read(mem, PmdSlot(a)) = None /\ f \in Frame
    BY <1>0, <1>2, StoreSeen DEF NewAt
  <2>2. Read(NewTable(mem, PmdSlot(a), f, a), s) = Read(mem, s)
    BY <1>0, <2>1, NewTableRead
  <2> QED  BY <2>1, <2>2
<1> QED  BY <1>1, <1>2, FaultShape

\* The PTE that a walk will read next maps what it did, or what the address is now
\* mapped to.
LEMMA FaultSeen ==
  ASSUME UserInv, NEW level, NEW home, Private(level, home), NEW now, TreeInv(level, now),
         NEW a \in Addr, PageFault(a), NEW u \in Task, pc[u] = "walk", PMD \in DOMAIN current[u],
         Reaches(u, PTE)
  PROVE  \/ Read(mem', EntrySlot(u, PTE)) = Read(mem, EntrySlot(u, PTE))
         \/ Target(Read(mem', EntrySlot(u, PTE)), PTE) = translate(mem', args[u].addr)
<1> DEFINE b == args[u].addr
           p == EntrySlot(u, PTE)
<1>0. /\ mem \in Memory /\ PmdSlot(a) \in Slot /\ level[PmdSlot(a)[1]] = PMD /\ free \subseteq Frame
      /\ Leaf(page[a]) \in Entry /\ Fits(Leaf(page[a]), PTE, level)
      /\ Tree(mem, level, now, free)
  BY FaultShape, UserEditAssumption, Levels DEF UserInv, SharedType, Leaf, Entry, Fits, TreeInv
<1>1. /\ b \in Addr /\ UpperOK(b) /\ PmdSlot(b) \in Slot /\ level[PmdSlot(b)[1]] = PMD
      /\ p \in Slot /\ level[p[1]] = PTE /\ now[p[1]] = PmdSlot(b) /\ p[1] \notin free
  BY LowerSlots, ReachesUp
<1> HIDE DEF p
<1>2. ASSUME NEW s \in Slot, FillAt(a, s, level, now)
      PROVE  Read(mem', p) = Read(mem, p) \/ Target(Read(mem', p), PTE) = translate(mem', b)
  <2>1. /\ mem' = Write(mem, s, Leaf(page[a])) /\ level[s[1]] = PTE /\ now[s[1]] = PmdSlot(a)
        /\ Read(mem, PmdSlot(a)).kind = "table"
        /\ s = <<Read(mem, PmdSlot(a)).to, index[a][PTE]>>
    BY <1>2, StoreSeen DEF FillAt
  <2>2. \A r \in Slot : Read(mem', r) = IF r = s THEN Leaf(page[a]) ELSE Read(mem, r)
    BY <1>0, <2>1, ReadWrite
  <2>3. CASE p # s
    BY <1>1, <2>2, <2>3
  <2>4. CASE p = s
    <3>1. a = b
      BY <1>1, <2>1, <2>4 DEF Private
    <3>2. PmdSlot(a) # s
      BY <1>0, <2>1, Levels
    <3>3. Read(mem', PmdSlot(a)) = Read(mem, PmdSlot(a))
      BY <1>0, <2>2, <3>2
    <3>4. Tree(mem', level, now, free)
      BY <1>0, <2>1, TreeWrite, Levels
    <3>5. translate(mem', a) = LeafOf(mem', a)
      BY <1>1, <3>1, <3>4, TranslateForm
    <3>6. LeafOf(mem', a) = Target(Read(mem', s), PTE)
      BY <2>1, <3>3 DEF LeafOf
    <3> QED  BY <2>4, <3>1, <3>5, <3>6
  <2> QED  BY <2>3, <2>4
<1>3. ASSUME NEW f \in free, NewAt(a, f) PROVE Read(mem', p) = Read(mem, p)
  <2>1. mem' = NewTable(mem, PmdSlot(a), f, a) /\ f \in Frame
    BY <1>0, <1>3, StoreSeen DEF NewAt
  <2>2. p # PmdSlot(a) /\ p[1] # f
    BY <1>0, <1>1, Levels
  <2>3. Read(NewTable(mem, PmdSlot(a), f, a), p) = Read(mem, p)
    BY <1>0, <1>1, <2>1, <2>2, NewTableRead
  <2> QED  BY <2>1, <2>3
<1> QED  BY <1>2, <1>3, FaultShape DEF p

LEMMA WriteSeen ==
  ASSUME UserInv, NEW level, NEW home, Private(level, home), NEW now, TreeInv(level, now),
         NEW t \in Task, UpdateWrite(t), ~stray', SteadyOK(t),
         NEW u \in Task, pc[u] = "walk", PMD \in DOMAIN current[u], Reaches(u, PTE)
  PROVE  \/ Read(mem', EntrySlot(u, PTE)) = Read(mem, EntrySlot(u, PTE))
         \/ Target(Read(mem', EntrySlot(u, PTE)), PTE) = translate(mem', args[u].addr)
<1> DEFINE a == args[t].addr
           b == args[u].addr
           p == EntrySlot(u, PTE)
<1>0. mem \in Memory /\ Tree(mem, level, now, free) /\ HandlerOK(t) /\ a \in Addr
  BY DEF UserInv, SharedType, LocalType, LocalOK, TreeInv
<1>1. /\ b \in Addr /\ UpperOK(b) /\ PmdSlot(b) \in Slot /\ level[PmdSlot(b)[1]] = PMD
      /\ p \in Slot /\ level[p[1]] = PTE /\ now[p[1]] = PmdSlot(b)
  BY LowerSlots, ReachesUp
<1> HIDE DEF p
<1>2. PICK l \in {PMD, PTE}, s \in Slot, e \in Entry : WriteAt(t, l, s, e, level, now)
  BY WriteShape
<1>3. /\ mem' = Write(mem, s, e) /\ level[s[1]] = l /\ Fits(e, l, level)
      /\ l = PMD => HomeOf(e, s, now, free)
      /\ l = PTE => /\ now[s[1]] = PmdSlot(a) /\ current[t][PMD].kind = "table"
                    /\ s = <<current[t][PMD].to, index[a][PTE]>>
      /\ l \in todo[t] /\ pc[t] = "write" /\ PmdSlot(a) \in Slot /\ Reaches(t, l)
  BY <1>2, StoreSeen DEF WriteAt
<1>4. \A r \in Slot : Read(mem', r) = IF r = s THEN e ELSE Read(mem, r)
  BY <1>0, <1>3, ReadWrite
<1>5. CASE p # s
  BY <1>1, <1>4, <1>5 DEF p
<1>6. CASE p = s
  <2>1. l = PTE
    BY <1>1, <1>3, <1>6
  <2>2. a = b
    BY <1>0, <1>1, <1>3, <1>6, <2>1 DEF Private
  <2>3. PmdSlot(a) # s
    BY <1>1, <1>6, <2>2, Levels
  <2>4. Read(mem', PmdSlot(a)) = current[t][PMD]
    BY <1>0, <1>3, <1>4, <2>1, <2>3, ReachesUp DEF SteadyOK, HandlerOK
  <2>5. Tree(mem', level, now, free)
    BY <1>0, <1>3, TreeWrite
  <2>6. translate(mem', a) = LeafOf(mem', a)
    BY <1>1, <2>2, <2>5, TranslateForm
  <2>7. LeafOf(mem', a) = Target(Read(mem', s), PTE)
    BY <1>3, <2>1, <2>4 DEF LeafOf
  <2> QED  BY <1>6, <2>2, <2>6, <2>7 DEF p
<1> QED  BY <1>5, <1>6

LEMMA DerefSeen ==
  ASSUME UserInv, NEW level, NEW home, Private(level, home), NEW now, TreeInv(level, now),
         NEW t \in Task, NEW ok \in BOOLEAN, Deref(t, ok), SteadyOK(t), SeenOK(t)
  PROVE  AppliedOK(t)' /\ SteadyOK(t)' /\ SeenOK(t)'
<1> DEFINE a == args[t].addr
           s == Slots(InitMem, ptedit_paging_root, a)
           D == DOMAIN current[t]
<1>0. /\ LocalOK(t) /\ HandlerOK(t) /\ WalkedOK(t, level, now) /\ a \in Addr /\ mem \in Memory
      /\ Tree(mem, level, now, free) /\ IsChain(D)
  BY DEF UserInv, LocalType, SharedType, LocalOK, TreeInv
<1>1. PICK l \in {PGD, PUD, PMD, PTE}, e \in Entry : DerefAt(t, l, e)
  BY DerefStep
<1>2. /\ pc[t] = "walk" /\ EntrySlot(t, l) \in Slot
      /\ \/ ~unread'[t] /\ e = Read(mem, EntrySlot(t, l)) /\ seen' = seen
         \/ unread'[t] /\ e = None
      /\ \/ D = {} /\ l = PGD
         \/ D = {PGD} /\ l = PUD
         \/ D = {PGD, PUD} /\ l = PMD
         \/ D = {PGD, PUD, PMD} /\ l = PTE
      /\ UNCHANGED <<mem, args, unwritten>>
  BY <1>1 DEF DerefAt
<1>3. /\ translate(mem, a) \in seen[t]
      /\ PMD \in D /\ Reaches(t, PTE) => Target(Read(mem, EntrySlot(t, PTE)), PTE) \in seen[t]
  BY <1>2 DEF SeenOK
<1>4. /\ translate(mem, a) = IF UpperOK(a) THEN LeafOf(mem, a) ELSE Fault
      /\ UpperOK(a) <=> Read(InitMem, s[PGD]).kind = "table" /\ Read(InitMem, s[PUD]).kind = "table"
      /\ Read(mem, s[PGD]) = Read(InitMem, s[PGD]) /\ Read(mem, s[PUD]) = Read(InitMem, s[PUD])
      /\ Read(InitMem, s[PGD]).kind # "leaf" /\ Read(InitMem, s[PUD]).kind # "leaf"
  BY <1>0, TranslateForm, UpperSlots DEF UpperOK
<1>g. \A k \in D : GoesOn(current[t][k], k)
  BY <1>0, <1>2 DEF HandlerOK
<1>5. /\ EntrySlot(t, PGD) = s[PGD] /\ (PGD \in D /\ Reaches(t, PUD) => EntrySlot(t, PUD) = s[PUD])
      /\ PUD \in D /\ Reaches(t, PMD) => EntrySlot(t, PMD) = PmdSlot(a)
  BY <1>g, WalkedSlots
<1>6. \A k \in {PGD, PUD} \cap D : Reaches(t, k) =>
        current[t][k] = Read(InitMem, s[k]) /\ IsPresent(current[t][k])
  BY <1>0, <1>g DEF WalkedOK, GoesOn, IsPresent, None
<1> HIDE DEF s
<1>7. /\ PTE \in DOMAIN current'[t] =>
           Found(t)' = IF IsPresent(current'[t][PTE]) THEN <<current'[t][PTE].to, PTE>> ELSE Fault
      /\ PTE \notin DOMAIN current'[t] /\ PMD \in DOMAIN current'[t] =>
           Found(t)' = IF current'[t][PMD].kind = "leaf" THEN <<current'[t][PMD].to, PMD>> ELSE Fault
      /\ PTE \notin DOMAIN current'[t] /\ PMD \notin DOMAIN current'[t] => Found(t)' = Fault
  BY DEF Found
<1>8. /\ \/ pc'[t] = "walk" /\ todo'[t] = {} /\ ~LastLevel(l, e)
         \/ /\ pc'[t] # "walk" /\ todo'[t] = DOMAIN current'[t] \cap DOMAIN args[t].new
            /\ LastLevel(l, e)
      /\ pc'[t] \in {"walk", "resolved", "write"}
  BY <1>1 DEF DerefAt
<1>u. unread'[t] => pc'[t] # "walk" /\ LastLevel(l, e)
  BY <1>2, <1>8 DEF LastLevel, IsPresent, None
<1>9. \/ l = PGD /\ ~IsPresent(e) /\ current'[t] = current[t]
      \/ /\ current'[t] = [k \in D \cup {l} |-> IF k = l THEN e ELSE current[t][k]]
         /\ l = PGD => IsPresent(e)
  BY <1>1 DEF DerefAt
<1>r. /\ \A j : Reaches(t, j)' => Reaches(t, j)
      /\ Reaches(t, PTE)' => Reaches(t, PTE) /\ Reaches(t, PMD) /\ Reaches(t, PUD)
      /\ Reaches(t, PMD)' => Reaches(t, PMD) /\ Reaches(t, PUD)
      /\ Reaches(t, PGD)
  <2>1. l \notin D
    BY <1>2, Levels
  <2>2. \A j : Reaches(t, j)' => Reaches(t, j)
    BY <1>0, <1>9, <2>1, ReachesGrows
  <2> QED  BY <1>0, <2>2, ReachesUp
<1>10. AppliedOK(t)'
  BY <1>2, <1>8 DEF AppliedOK
<1>t. translate(mem, args[t].addr)' = translate(mem, a)
  BY <1>2 DEF translate
<1>11. CASE l \in {PGD, PUD}
  <2>1. D \cup {l} \subseteq {PGD, PUD} /\ DOMAIN current'[t] \subseteq D \cup {l}
    BY <1>2, <1>9, <1>11, Levels
  <2>2. PMD \notin DOMAIN current'[t] /\ PTE \notin DOMAIN current'[t] /\ PTE \notin todo'[t]
    BY <1>8, <2>1, Levels
  <2>3. SteadyOK(t)'
    BY <2>2 DEF SteadyOK
  <2>4. Reaches(t, PUD) /\ ~unread'[t] => e = Read(InitMem, s[l])
    BY <1>2, <1>4, <1>5, <1>11, Levels
  <2>5. pc'[t] # "walk" => ~IsPresent(e)
    BY <1>8, <1>11, Levels DEF LastLevel
  <2>6. pc'[t] # "walk" /\ Reaches(t, PUD) /\ ~unread'[t] => ~UpperOK(a)
    BY <1>4, <1>11, <2>4, <2>5 DEF IsPresent
  <2>7. pc'[t] # "walk" /\ Reaches(t, PTE)' /\ ~unread'[t] => Found(t)' \in seen'[t]
    BY <1>2, <1>3, <1>4, <1>7, <1>r, <2>2, <2>6
  <2>9. SeenOK(t)'
    BY <1>2, <1>3, <1>u, <1>t, <2>2, <2>7 DEF SeenOK
  <2> QED  BY <1>10, <2>3, <2>9
<1>12. CASE l = PMD
  <2>1. D = {PGD, PUD} /\ (Reaches(t, PMD) /\ ~unread'[t] => e = Read(mem, PmdSlot(a)))
    BY <1>2, <1>5, <1>12, Levels
  <2>2. Reaches(t, PUD) => UpperOK(a)
    BY <1>4, <1>6, <1>r, <2>1 DEF IsPresent
  <2>3. /\ DOMAIN current'[t] = {PGD, PUD, PMD} /\ current'[t][PMD] = e
        /\ PTE \notin DOMAIN current'[t] /\ PTE \notin todo'[t] /\ PMD \in DOMAIN current'[t]
    BY <1>8, <1>9, <1>12, <2>1, Levels
  <2>4. Reaches(t, PMD)' /\ ~unread'[t] => Read(mem', PmdSlot(args'[t].addr)) = current'[t][PMD]
    BY <1>2, <1>r, <2>1, <2>3
  <2>5. SteadyOK(t)'
    BY <1>u, <2>3, <2>4 DEF SteadyOK, PmdSlot
  <2>6. Reaches(t, PUD) => LeafOf(mem, a) \in seen[t]
    BY <1>3, <1>4, <2>2
  <2>7. ASSUME pc'[t] = "walk", Reaches(t, PTE)'
        PROVE  Target(Read(mem', EntrySlot(t, PTE)'), PTE) \in seen'[t]
    <3>1. e.kind = "table" /\ ~unread'[t] /\ seen' = seen
      BY <1>2, <1>8, <1>12, <1>u, <2>7 DEF LastLevel, IsPresent
    <3>2. EntrySlot(t, PTE)' = <<e.to, index[a][PTE]>>
      <4>1. PMD \in PGD..(PTE - 1) /\ PTE # PGD /\ Above[PTE] = PMD
        BY Levels DEF PGD, PMD, PTE
      <4>2. cast[current'[t][PMD].to] = current'[t][PMD].to
        BY <2>3, <2>7, <3>1, <4>1 DEF Reaches
      <4> QED  BY <1>2, <2>3, <4>1, <4>2 DEF EntrySlot
    <3>3. LeafOf(mem, a) = Target(Read(mem, <<e.to, index[a][PTE]>>), PTE)
      BY <1>r, <2>1, <2>7, <3>1 DEF LeafOf
    <3> QED  BY <1>2, <1>r, <2>6, <2>7, <3>1, <3>2, <3>3
  <2>8. ASSUME pc'[t] # "walk", Reaches(t, PTE)', ~unread'[t] PROVE Found(t)' \in seen'[t]
    <3>1. e.kind # "table"
      BY <1>8, <1>12, <2>8, Levels DEF LastLevel, IsPresent
    <3>2. LeafOf(mem, a) = Target(e, PMD)
      BY <1>r, <2>1, <2>8, <3>1 DEF LeafOf
    <3>3. Found(t)' = Target(e, PMD)
      BY <1>7, <2>3 DEF Target
    <3> QED  BY <1>2, <1>r, <2>6, <2>8, <3>2, <3>3
  <2>9. pc'[t] = "walk" => translate(mem, args[t].addr)' \in seen'[t]
    BY <1>2, <1>3, <1>t, <1>u
  <2>10. SeenOK(t)'
    BY <2>7, <2>8, <2>9 DEF SeenOK
  <2> QED  BY <1>10, <2>5, <2>10
<1>13. CASE l = PTE
  <2>1. D = {PGD, PUD, PMD} /\ (~unread'[t] => e = Read(mem, EntrySlot(t, PTE)))
        /\ EntrySlot(t, PTE) \in Slot
    BY <1>2, <1>13, Levels
  <2>2. Reaches(t, PTE) => level[EntrySlot(t, PTE)[1]] = PTE
    BY <1>2, <2>1, LowerSlots, ReachesUp
  <2>3. Reaches(t, PTE) /\ ~unread'[t] => e.kind # "table"
    <3>1. /\ EntrySlot(t, PTE)[1] \in Frame /\ EntrySlot(t, PTE)[2] \in Index
          /\ ~unread'[t] => e = mem[EntrySlot(t, PTE)[1]][EntrySlot(t, PTE)[2]]
      BY <2>1, ReadSlot
    <3>2. Reaches(t, PTE) /\ ~unread'[t] => Fits(e, PTE, level)
      BY <1>0, <2>2, <3>1 DEF Tree
    <3> QED  BY <3>2 DEF Fits
  <2>4. /\ PTE \in DOMAIN current'[t] /\ current'[t][PTE] = e
        /\ current'[t][PMD] = current[t][PMD]
    BY <1>9, <1>13, <2>1, Levels
  <2>5. pc'[t] # "walk"
    BY <1>8, <1>13 DEF LastLevel
  <2>6. Reaches(t, PTE) /\ ~unread'[t] => Found(t)' = Target(e, PTE)
    BY <1>7, <2>3, <2>4 DEF Target, IsPresent
  <2>7. Reaches(t, PTE) /\ ~unread'[t] => Target(e, PTE) \in seen'[t]
    BY <1>2, <1>3, <2>1
  <2>8. SeenOK(t)'
    BY <1>r, <2>5, <2>6, <2>7 DEF SeenOK
  <2>9. args[t].new # <<>> /\ Reaches(t, PMD) => Read(mem, PmdSlot(a)) = current[t][PMD]
    BY <1>2, <2>1 DEF SteadyOK
  <2>10. SteadyOK(t)'
    BY <1>2, <1>r, <2>4, <2>9 DEF SteadyOK, PmdSlot
  <2> QED  BY <1>10, <2>8, <2>10
<1> QED  BY <1>11, <1>12, <1>13

\* A thread that does not move is where it was.
LEMMA SameThread ==
  ASSUME NEW u \in Task, args'[u] = args[u], current'[u] = current[u]
  PROVE  /\ \A l : EntrySlot(u, l)' = EntrySlot(u, l)
         /\ \A l : Reaches(u, l)' <=> Reaches(u, l)
         /\ Found(u)' = Found(u)
<1>0. \A l : Reaches(u, l)' <=> Reaches(u, l)
  BY DEF Reaches
<1>1. \A l : EntrySlot(u, l)' = EntrySlot(u, l)
  BY DEF EntrySlot
<1>2. Found(u)' = Found(u)
  BY DEF Found
<1> QED  BY <1>0, <1>1, <1>2

\* What memory has to keep for what a thread has written, and for the walk of an editor.
LEMMA ThreadKept ==
  ASSUME NEW u \in Task, AppliedOK(u), SteadyOK(u), SeenOK(u),
         args'[u] = args[u], current'[u] = current[u], pc'[u] = pc[u], todo'[u] = todo[u],
         unread'[u] = unread[u], unwritten'[u] = unwritten[u],
         pc[u] \in {"write", "flush"} =>
           \A l \in (DOMAIN current[u] \cap DOMAIN args[u].new) \ (todo[u] \cup unwritten[u]) :
             args[u].new[l] # None => Read(mem', EntrySlot(u, l)) = Read(mem, EntrySlot(u, l)),
         args[u].new # <<>> /\ Reaches(u, PMD)
           /\ ((pc[u] = "walk" /\ PMD \in DOMAIN current[u]) \/ PTE \in todo[u]) =>
           Read(mem', PmdSlot(args[u].addr)) = Read(mem, PmdSlot(args[u].addr)),
         seen[u] \subseteq seen'[u],
         pc[u] = "walk" =>
           /\ translate(mem', args[u].addr) \in seen'[u]
           /\ PMD \in DOMAIN current[u] /\ Reaches(u, PTE) =>
                Target(Read(mem', EntrySlot(u, PTE)), PTE) \in seen'[u]
  PROVE  AppliedOK(u)' /\ SteadyOK(u)' /\ SeenOK(u)'
<1>1. /\ \A l : EntrySlot(u, l)' = EntrySlot(u, l)
      /\ \A l : Reaches(u, l)' <=> Reaches(u, l)
      /\ Found(u)' = Found(u)
  BY SameThread
<1>2. AppliedOK(u)'
  BY <1>1 DEF AppliedOK
<1>3. SteadyOK(u)'
  BY <1>1 DEF SteadyOK, PmdSlot
<1>4. translate(mem, args[u].addr)' = translate(mem', args[u].addr)
  BY DEF translate
<1>5. SeenOK(u)'
  BY <1>1, <1>4 DEF SeenOK
<1> QED  BY <1>2, <1>3, <1>5

LEMMA EditInductive ==
  ASSUME \A t, u \in Editor : t = u,
         UserInv, [Next]_vars, ~stray', NEW level, NEW home, Private(level, home),
         NEW now, TreeInv(level, now), EditInv
  PROVE  EditInv'
<1>0. /\ LocalType /\ mem \in Memory /\ \A t \in Task : LocalOK(t) /\ HandlerOK(t)
      /\ \A t \in Task : AppliedOK(t) /\ SteadyOK(t) /\ SeenOK(t)
  BY DEF UserInv, SharedType, LocalType, EditInv
<1>1. ASSUME NEW u \in Task, mem' = mem, seen'[u] = seen[u], args'[u] = args[u],
             current'[u] = current[u], pc'[u] = pc[u], todo'[u] = todo[u],
             unread'[u] = unread[u], unwritten'[u] = unwritten[u]
      PROVE  AppliedOK(u)' /\ SteadyOK(u)' /\ SeenOK(u)'
  <2>1. pc[u] = "walk" =>
          /\ translate(mem, args[u].addr) \in seen[u]
          /\ PMD \in DOMAIN current[u] /\ Reaches(u, PTE) =>
               Target(Read(mem, EntrySlot(u, PTE)), PTE) \in seen[u]
    BY <1>0 DEF SeenOK
  <2> QED  BY <1>0, <1>1, <2>1, ThreadKept
<1>2. ASSUME NEW t \in Task, StepOf(t), mem' = mem, \A u \in Task \ {t} : seen'[u] = seen[u],
             AppliedOK(t)' /\ SteadyOK(t)' /\ SeenOK(t)'
      PROVE  EditInv'
  <2>1. ASSUME NEW u \in Task \ {t} PROVE AppliedOK(u)' /\ SteadyOK(u)' /\ SeenOK(u)'
    BY <1>0, <1>1, <1>2, Others
  <2> QED  BY <1>2, <2>1 DEF EditInv
<1>3. ASSUME NEW t \in Task, NEW a \in Addr, NEW new \in Requests[a] \cup {<<>>}, Call(t, a, new)
      PROVE  EditInv'
  <2>1. /\ pc'[t] = "walk" /\ args'[t] = [addr |-> a, new |-> new] /\ current'[t] = <<>>
        /\ todo'[t] = todo[t] /\ pc[t] = "user" /\ seen'[t] = {translate(mem, a)}
        /\ StepOf(t) /\ mem' = mem /\ \A u \in Task \ {t} : seen'[u] = seen[u]
    BY <1>0, <1>3 DEF Call, Goto, LocalType, PerTask, StepOf
  <2>2. todo[t] = {} /\ DOMAIN <<>> = {}
    BY <1>0, <2>1 DEF HandlerOK
  <2>3. AppliedOK(t)' /\ SteadyOK(t)'
    BY <2>1, <2>2 DEF AppliedOK, SteadyOK
  <2>4. translate(mem, args[t].addr)' = translate(mem, a)
    BY <2>1 DEF translate
  <2>5. SeenOK(t)'
    BY <2>1, <2>2, <2>4 DEF SeenOK
  <2> QED  BY <1>2, <2>1, <2>3, <2>5
<1>4. ASSUME NEW t \in Task, Return(t) PROVE EditInv'
  <2>1. /\ pc'[t] = "user" /\ args'[t] = NoArgs /\ StepOf(t) /\ mem' = mem
        /\ \A u \in Task \ {t} : seen'[u] = seen[u]
    BY <1>0, <1>4 DEF Return, Goto, LocalType, PerTask, StepOf
  <2>2. AppliedOK(t)' /\ SteadyOK(t)' /\ SeenOK(t)'
    BY <2>1, NoArgsType DEF AppliedOK, SteadyOK, SeenOK
  <2> QED  BY <1>2, <2>1, <2>2
<1>5. ASSUME NEW t \in Task, NEW ok \in BOOLEAN, Deref(t, ok) PROVE EditInv'
  <2>0. StepOf(t) /\ mem' = mem /\ (seen' = seen \/ seen' = [seen EXCEPT ![t] = {}])
    BY <1>5, DerefStep DEF DerefAt
  <2>1. StepOf(t) /\ mem' = mem /\ \A u \in Task \ {t} : seen'[u] = seen[u]
    BY <1>0, <2>0 DEF LocalType, PerTask
  <2>2. AppliedOK(t)' /\ SteadyOK(t)' /\ SeenOK(t)'
    BY <1>0, <1>5, DerefSeen
  <2> QED  BY <1>2, <2>1, <2>2
<1>6. ASSUME NEW t \in Task, UpdateWritten(t) \/ UpdateFlush(t) PROVE EditInv'
  <2>1. /\ \/ pc[t] = "write" /\ todo[t] = {} /\ pc'[t] = "flush"
           \/ pc[t] = "flush" /\ pc'[t] = "flush_again"
        /\ StepOf(t) /\ UNCHANGED <<mem, args, current, todo, seen, unread, unwritten>>
    BY <1>0, <1>6 DEF UpdateWritten, UpdateFlush, Goto, LocalType, PerTask, StepOf
  <2>2. /\ \A l : EntrySlot(t, l)' = EntrySlot(t, l)
        /\ \A l : Reaches(t, l)' <=> Reaches(t, l)
        /\ Found(t)' = Found(t) /\ todo[t] = {}
    BY <1>0, <2>1, SameThread DEF HandlerOK
  <2>3. AppliedOK(t)'
    BY <1>0, <2>1, <2>2 DEF AppliedOK
  <2>4. SteadyOK(t)'
    BY <2>1, <2>2 DEF SteadyOK
  <2>5. SeenOK(t)'
    BY <1>0, <2>1, <2>2 DEF SeenOK
  <2> QED  BY <1>2, <2>1, <2>3, <2>4, <2>5
<1>7. ASSUME NEW t \in Task, UpdateWrite(t) PROVE EditInv'
  <2>1. PICK l \in {PMD, PTE}, s \in Slot, e \in Entry : WriteAt(t, l, s, e, level, now)
    BY <1>7, WriteShape
  <2>2. /\ mem' = Write(mem, s, e) /\ Store(Write(mem, s, e)) /\ s = EntrySlot(t, l) /\ e = args[t].new[l]
        /\ l \in todo[t] /\ (\A j \in todo[t] : j <= l) /\ pc[t] = "write"
        /\ level[s[1]] = l /\ todo'[t] = todo[t] \ {l} /\ l \in DOMAIN current[t]
        /\ UNCHANGED <<pc, args, current, unread, unwritten>> /\ StepOf(t) /\ Reaches(t, l)
    BY <2>1, StoreSeen DEF WriteAt
  <2>3. \A r \in Slot : Read(mem', r) = IF r = s THEN e ELSE Read(mem, r)
    BY <1>0, <2>2, ReadWrite
  <2>4. \A u \in Task : seen'[u] = IF pc[u] = "walk"
                                   THEN seen[u] \cup {translate(mem', args[u].addr)} ELSE seen[u]
    BY <2>2 DEF Store
  <2>5. args[t].new # <<>> /\ t \in Editor
    BY <1>0, <2>2 DEF HandlerOK
  <2>6. ASSUME NEW u \in Task \ {t} PROVE AppliedOK(u)' /\ SteadyOK(u)' /\ SeenOK(u)'
    <3>1. args[u].new = <<>> /\ pc[u] \notin {"write", "flush"}
      BY <1>0, <2>5 DEF HandlerOK
    <3>2. /\ args'[u] = args[u] /\ current'[u] = current[u] /\ pc'[u] = pc[u] /\ todo'[u] = todo[u]
          /\ unread'[u] = unread[u] /\ unwritten'[u] = unwritten[u]
      BY <1>0, <2>2, Others
    <3>3. ASSUME pc[u] = "walk", PMD \in DOMAIN current[u], Reaches(u, PTE)
          PROVE  Target(Read(mem', EntrySlot(u, PTE)), PTE) \in seen'[u]
      <4>1. \/ Read(mem', EntrySlot(u, PTE)) = Read(mem, EntrySlot(u, PTE))
            \/ Target(Read(mem', EntrySlot(u, PTE)), PTE) = translate(mem', args[u].addr)
        BY <1>0, <1>7, <3>3, WriteSeen
      <4>2. Target(Read(mem, EntrySlot(u, PTE)), PTE) \in seen[u]
        BY <1>0, <3>3 DEF SeenOK
      <4> QED  BY <2>4, <3>3, <4>1, <4>2
    <3> QED  BY <1>0, <2>4, <3>1, <3>2, <3>3, ThreadKept
  <2>7. /\ \A k : EntrySlot(t, k)' = EntrySlot(t, k)
        /\ \A k : Reaches(t, k)' <=> Reaches(t, k)
        /\ Found(t)' = Found(t)
    BY <2>2, SameThread
  <2>8. SeenOK(t)'
    BY <1>0, <2>2, <2>4, <2>7 DEF SeenOK
  <2>9. SteadyOK(t)'
    <3>1. PTE \notin todo'[t]
      BY <2>2 DEF PMD, PTE
    <3> QED  BY <2>2, <3>1 DEF SteadyOK
  <2>10. AppliedOK(t)'
    <3>1. SUFFICES ASSUME NEW k \in (DOMAIN current[t] \cap DOMAIN args[t].new)
                                      \ (todo'[t] \cup unwritten[t])
                   PROVE  /\ Reaches(t, k)
                          /\ args[t].new[k] # None =>
                               Read(mem', EntrySlot(t, k)) = args[t].new[k]
      BY <2>2, <2>7 DEF AppliedOK
    <3>2. CASE k = l
      BY <2>2, <2>3, <3>2
    <3>3. CASE k # l
      <4>1. k \notin todo[t] /\ k \in DOMAIN current[t] /\ k \in {PMD, PTE}
        BY <1>0, <2>2, <2>5, <3>1, <3>3 DEF Private, LocalOK
      <4>2. /\ Reaches(t, k)
            /\ args[t].new[k] # None => Read(mem, EntrySlot(t, k)) = args[t].new[k]
        BY <1>0, <2>2, <3>1, <4>1 DEF AppliedOK
      <4>3. PMD \in DOMAIN current[t]
        BY <2>2, <3>3, <4>1
      <4>4. EntrySlot(t, k) \in Slot /\ level[EntrySlot(t, k)[1]] = k
        BY <4>1, <4>2, <4>3, LowerSlots, ReachesUp
      <4>5. EntrySlot(t, k) # s
        BY <2>2, <3>3, <4>4
      <4> QED  BY <2>3, <4>2, <4>4, <4>5
    <3> QED  BY <3>2, <3>3
  <2> QED  BY <2>6, <2>8, <2>9, <2>10 DEF EditInv
<1>8. ASSUME NEW a \in Addr, PageFault(a) PROVE EditInv'
  <2>1. /\ UNCHANGED <<pc, args, current, todo, unread, unwritten>> /\ \E after : Store(after)
    BY <1>8, FaultStep DEF FaultAt
  <2>2. \A u \in Task : seen'[u] = IF pc[u] = "walk"
                                   THEN seen[u] \cup {translate(mem', args[u].addr)} ELSE seen[u]
    BY <2>1 DEF Store
  <2>3. ASSUME NEW u \in Task PROVE AppliedOK(u)' /\ SteadyOK(u)' /\ SeenOK(u)'
    <3>1. ASSUME pc[u] \in {"write", "flush"}, args[u].new \in Requests[args[u].addr],
                 NEW l \in (DOMAIN current[u] \cap DOMAIN args[u].new)
                          \ (todo[u] \cup unwritten[u]),
                 args[u].new[l] # None
          PROVE  Read(mem', EntrySlot(u, l)) = Read(mem, EntrySlot(u, l))
      <4>1. Read(mem, EntrySlot(u, l)) # None /\ Reaches(u, l)
        BY <1>0, <3>1 DEF AppliedOK
      <4>2. l \in {PMD, PTE}
        BY <1>0, <3>1 DEF Private, LocalOK
      <4>3. PMD \in DOMAIN current[u]
        BY <1>0, <3>1, <4>2, Levels DEF LocalOK, IsChain
      <4>4. EntrySlot(u, l) \in Slot /\ EntrySlot(u, l)[1] \notin free
        BY <3>1, <4>1, <4>2, <4>3, LowerSlots, ReachesUp
      <4> QED  BY <1>8, <4>1, <4>4, FaultKeeps
    <3>2. ASSUME args[u].new # <<>>, Reaches(u, PMD),
                 (pc[u] = "walk" /\ PMD \in DOMAIN current[u]) \/ PTE \in todo[u]
          PROVE  Read(mem', PmdSlot(args[u].addr)) = Read(mem, PmdSlot(args[u].addr))
      <4>1. Read(mem, PmdSlot(args[u].addr)) = current[u][PMD]
        BY <1>0, <3>2 DEF SteadyOK
      <4>2. PMD \in DOMAIN current[u] /\ (PTE \in DOMAIN current[u] \/ pc[u] = "walk")
        BY <1>0, <3>2, Levels DEF LocalOK, IsChain
      <4>3. /\ current[u][PMD] # None /\ PmdSlot(args[u].addr) \in Slot
            /\ PmdSlot(args[u].addr)[1] \notin free
        BY <3>2, <4>2, LowerSlots
      <4> QED  BY <1>8, <4>1, <4>3, FaultKeeps
    <3>3. ASSUME pc[u] = "walk", PMD \in DOMAIN current[u], Reaches(u, PTE)
          PROVE  Target(Read(mem', EntrySlot(u, PTE)), PTE) \in seen'[u]
      <4>1. \/ Read(mem', EntrySlot(u, PTE)) = Read(mem, EntrySlot(u, PTE))
            \/ Target(Read(mem', EntrySlot(u, PTE)), PTE) = translate(mem', args[u].addr)
        BY <1>8, <3>3, FaultSeen
      <4>2. Target(Read(mem, EntrySlot(u, PTE)), PTE) \in seen[u]
        BY <1>0, <3>3 DEF SeenOK
      <4> QED  BY <2>2, <3>3, <4>1, <4>2
    <3>4. pc[u] \in {"write", "flush"} => args[u].new \in Requests[args[u].addr]
      BY <1>0 DEF LocalOK, HandlerOK
    <3> QED  BY <1>0, <2>1, <2>2, <3>1, <3>2, <3>3, <3>4, ThreadKept
  <2> QED  BY <2>3 DEF EditInv
<1>9. ASSUME UNCHANGED <<mem, pc, args, current, todo, seen, unread, unwritten>> PROVE EditInv'
  BY <1>0, <1>1, <1>9 DEF EditInv
<1>10. ASSUME NEW a \in Addr, TlbFill(a) PROVE EditInv'
  BY <1>9, <1>10 DEF TlbFill
<1>11. CASE UNCHANGED vars
  BY <1>9, <1>11 DEF vars
<1>12. ASSUME NEW t \in Task, UpdateLost(t) PROVE EditInv'
  <2>1. PICK l \in todo[t] :
          /\ todo'[t] = todo[t] \ {l} /\ unwritten'[t] = unwritten[t] \cup {l} /\ StepOf(t)
          /\ UNCHANGED <<mem, pc, args, current, seen, unread>>
    BY <1>12, LostStep
  <2>2. /\ \A k : EntrySlot(t, k)' = EntrySlot(t, k)
        /\ \A k : Reaches(t, k)' <=> Reaches(t, k)
        /\ Found(t)' = Found(t)
    BY <2>1, SameThread
  <2>3. AppliedOK(t)'
    BY <1>0, <2>1, <2>2 DEF AppliedOK
  <2>4. SteadyOK(t)'
    BY <1>0, <2>1, <2>2 DEF SteadyOK, PmdSlot
  <2>5. translate(mem, args[t].addr)' = translate(mem, args[t].addr)
    BY <2>1 DEF translate
  <2>6. SeenOK(t)'
    BY <1>0, <2>1, <2>2, <2>5 DEF SeenOK
  <2> QED  BY <1>2, <2>1, <2>3, <2>4, <2>6
<1> QED  BY <1>3, <1>4, <1>5, <1>6, <1>7, <1>8, <1>10, <1>11, <1>12 DEF Next

LEMMA EditInvariant ==
  ASSUME NEW CONSTANT level, NEW CONSTANT home, Private(level, home), \A t, u \in Editor : t = u
  PROVE  Spec => [](stray \/ EditInv)
<1>1. Init => EditInv
  <2>1. SUFFICES ASSUME Init PROVE EditInv
    OBVIOUS
  <2>2. \A t \in Task : pc[t] = "user" /\ args[t] = NoArgs /\ todo[t] = {}
    BY <2>1 DEF Init
  <2> QED  BY <2>2, NoArgsType DEF EditInv, AppliedOK, SteadyOK, SeenOK
<1>2. UserInv /\ PrivateInv(level) /\ (stray \/ EditInv) /\ [Next]_vars => (stray \/ EditInv)'
  BY EditInductive, StrayStays DEF PrivateInv
<1> QED  BY <1>1, <1>2, PrivateInvariant, PTL DEF Spec

\* With one editor, what ptedit_update_user_ext has written into the entries that its walk
\* found is there when the call comes to its flush, except for the levels whose pwrite has
\* failed, although other threads walk the same tables and the kernel fills empty entries
\* in between; and unless an update was led astray, it is in the tables of the address.
THEOREM UserUpdatesApplied ==
  ASSUME NEW CONSTANT level, NEW CONSTANT home, Private(level, home), \A t, u \in Editor : t = u
  PROVE  Spec => []UserUpdateApplied
<1>1. UserInv /\ (stray \/ EditInv) => UserUpdateApplied
  BY DEF UserInv, LocalType, HandlerOK, EditInv, AppliedOK, UserUpdateApplied
<1> QED  BY <1>1, UserInvariant, EditInvariant, PTL

\* With one editor, the entries that ptedit_resolve_user_ext reads one after the other and
\* without a lock describe a mapping that the address had at some moment of the call, if no
\* pread has failed and no table on the way lies above 1 TB: the editor writes a PTE before
\* the PMD above it.
THEOREM UserResolvesMappings ==
  ASSUME NEW CONSTANT level, NEW CONSTANT home, Private(level, home), \A t, u \in Editor : t = u
  PROVE  Spec => []ResolveIsMapping
<1>1. (stray \/ EditInv) => ResolveIsMapping
  BY DEF EditInv, SeenOK, ResolveIsMapping
<1> QED  BY <1>1, EditInvariant, PTL

-----------------------------------------------------------------------------
(* The demos that look                                                     *)

\* Append, by what the provers have to know of it.
Longer(x, i) == Append(x, i)

LEMMA LongerIs ==
  ASSUME NEW S, NEW x \in Seq(S), NEW i \in S
  PROVE  /\ Len(Longer(x, i)) = Len(x) + 1
         /\ \A j \in 1..Len(x) : Longer(x, i)[j] = x[j]
         /\ Longer(x, i)[Len(x) + 1] = i
BY DEF Longer

LEMMA TripleIs ==
  ASSUME NEW S, NEW x \in S \X S \X S
  PROVE  x \in Seq(S) /\ Len(x) = 3
<1>1. PICK a \in S, b \in S, c \in S : x = <<a, b, c>>
  OBVIOUS
<1>2. <<a, b, c>> \in Seq(S) /\ Len(<<a, b, c>>) = 3
  OBVIOUS
<1> QED  BY <1>1, <1>2

LEMMA LongerTriple ==
  ASSUME NEW S, NEW x \in S \X S \X S, NEW i \in S
  PROVE  /\ Len(Longer(x, i)) = 4 /\ Longer(x, i)[4] = i
         /\ Longer(x, i)[1] = x[1] /\ Longer(x, i)[2] = x[2] /\ Longer(x, i)[3] = x[3]
<1>1. x \in Seq(S) /\ Len(x) = 3
  BY TripleIs
<1>2. /\ Len(Longer(x, i)) = Len(x) + 1
      /\ \A j \in 1..Len(x) : Longer(x, i)[j] = x[j]
      /\ Longer(x, i)[Len(x) + 1] = i
  BY <1>1, LongerIs
<1> QED  BY <1>1, <1>2

LEMMA LongerInjective ==
  ASSUME NEW S, NEW x \in S \X S \X S, NEW y \in S \X S \X S, NEW i \in S, NEW j \in S
  PROVE  /\ Longer(x, i) = Longer(y, j) => x = y /\ i = j
         /\ x # Longer(y, j)
<1>1. /\ Longer(x, i)[4] = i /\ Longer(x, i)[1] = x[1] /\ Longer(x, i)[2] = x[2]
      /\ Longer(x, i)[3] = x[3]
      /\ Longer(y, j)[4] = j /\ Longer(y, j)[1] = y[1] /\ Longer(y, j)[2] = y[2]
      /\ Longer(y, j)[3] = y[3] /\ Len(Longer(y, j)) = 4
  BY LongerTriple
<1>2. x[1] = y[1] /\ x[2] = y[2] /\ x[3] = y[3] => x = y
  OBVIOUS
<1>3. Longer(x, i) = Longer(y, j) =>
        x[1] = y[1] /\ x[2] = y[2] /\ x[3] = y[3] /\ i = j
  BY <1>1
<1>4. Len(x) = 3
  BY TripleIs
<1>5. x # Longer(y, j)
  BY <1>1, <1>4
<1> QED  BY <1>2, <1>3, <1>5

\* What memmap.c lists.
LEMMA Listed ==
  ASSUME NEW memory, NEW root, NEW x \in Index \X Index \X Index, NEW i \in Index
  PROVE  LET pd(y) == DirectoryEntry(memory, root, y)
             dirs == Directories(memory, root)
         IN /\ x \in memmap(memory, root) <=> x \in dirs /\ pd(x).kind = "leaf"
            /\ Longer(x, i) \in memmap(memory, root) <=>
                 x \in dirs /\ pd(x).kind # "leaf" /\ IsPresent(memory[pd(x).to][i])
<1> DEFINE pd(y) == DirectoryEntry(memory, root, y)
           dirs == Directories(memory, root)
           large == {y \in dirs : pd(y).kind = "leaf"}
           small == {z \in (dirs \ large) \X Index : IsPresent(memory[pd(z[1]).to][z[2]])}
<1>1. memmap(memory, root) = large \cup {Longer(z[1], z[2]) : z \in small}
  BY DEF memmap, Longer
<1>2. dirs \subseteq Index \X Index \X Index
  BY DEF Directories
<1>3. \A y, j : <<y, j>> \in small <=>
        y \in dirs /\ pd(y).kind # "leaf" /\ j \in Index /\ IsPresent(memory[pd(y).to][j])
  OBVIOUS
<1>4. \A y : y \in large <=> y \in dirs /\ pd(y).kind = "leaf"
  OBVIOUS
<1>5. \A z \in small : z = <<z[1], z[2]>> /\ z[1] \in Index \X Index \X Index /\ z[2] \in Index
  BY <1>2
<1> HIDE DEF dirs, large, small, pd
<1>6. x \notin {Longer(z[1], z[2]) : z \in small}
  BY <1>5, LongerInjective
<1>7. Longer(x, i) \notin large
  BY <1>2, <1>4, LongerInjective
<1>8. Longer(x, i) \in {Longer(z[1], z[2]) : z \in small} <=> <<x, i>> \in small
  <2>1. ASSUME NEW z \in small, Longer(x, i) = Longer(z[1], z[2]) PROVE <<x, i>> \in small
    <3>1. x = z[1] /\ i = z[2]
      BY <1>5, <2>1, LongerInjective
    <3> QED  BY <1>5, <3>1
  <2>2. ASSUME <<x, i>> \in small PROVE Longer(x, i) \in {Longer(z[1], z[2]) : z \in small}
    BY <2>2
  <2> QED  BY <2>1, <2>2
<1> QED  BY <1>1, <1>3, <1>4, <1>6, <1>7, <1>8 DEF pd, dirs

\* The page directory entry of an address, as memmap.c finds it.
LEMMA DirectoryIs ==
  ASSUME NEW level, NEW home, Private(level, home), NEW memory, NEW now, NEW unused,
         Tree(memory, level, now, unused), NEW a \in Addr
  PROVE  LET path == <<index[a][PGD], index[a][PUD], index[a][PMD]>>
         IN /\ path \in Directories(memory, ptedit_paging_root) <=>
                 UpperOK(a) /\ IsPresent(Read(memory, PmdSlot(a)))
            /\ UpperOK(a) =>
                 DirectoryEntry(memory, ptedit_paging_root, path) = Read(memory, PmdSlot(a))
            /\ path \in Index \X Index \X Index
<1> DEFINE path == <<index[a][PGD], index[a][PUD], index[a][PMD]>>
           s == Slots(InitMem, ptedit_paging_root, a)
           pml4 == memory[ptedit_paging_root][path[1]]
           pdpt == memory[pml4.to][path[2]]
<1>1. /\ s[PGD] = <<ptedit_paging_root, index[a][PGD]>>
      /\ s[PUD] = <<Read(InitMem, s[PGD]).to, index[a][PUD]>>
      /\ s[PMD] = <<Read(InitMem, s[PUD]).to, index[a][PMD]>>
      /\ Read(memory, s[PGD]) = Read(InitMem, s[PGD]) /\ Read(memory, s[PUD]) = Read(InitMem, s[PUD])
      /\ Read(InitMem, s[PGD]) \in Entry /\ Read(InitMem, s[PUD]) \in Entry
      /\ Read(InitMem, s[PGD]).kind # "leaf" /\ Read(InitMem, s[PUD]).kind # "leaf"
  BY UpperSlots
<1>2. /\ PmdSlot(a) = s[PMD]
      /\ UpperOK(a) <=> Read(InitMem, s[PGD]).kind = "table" /\ Read(InitMem, s[PUD]).kind = "table"
  BY DEF PmdSlot, UpperOK
<1> HIDE DEF s
<1>3. /\ index[a][PGD] \in Index /\ index[a][PUD] \in Index /\ index[a][PMD] \in Index
      /\ memory \in Memory
  BY IndexType, Levels DEF Tree
<1>4. path[1] = index[a][PGD] /\ path[2] = index[a][PUD] /\ path[3] = index[a][PMD]
      /\ path \in Index \X Index \X Index
  BY <1>3
<1> HIDE DEF path
<1>5. pml4 = Read(InitMem, s[PGD])
  BY <1>1, <1>3, <1>4, ReadType, UserEditAssumption
<1>6. pml4.kind = "table" => pml4.to \in Frame /\ pdpt = Read(InitMem, s[PUD])
  <2>1. pml4.kind = "table" => pml4.to \in Frame
    BY <1>1, <1>5, EntryType
  <2>2. pml4.to \in Frame => Read(memory, <<pml4.to, index[a][PUD]>>) = pdpt
    BY <1>3, <1>4, ReadType
  <2> QED  BY <1>1, <1>5, <2>1, <2>2
<1>7. UpperOK(a) => memory[pdpt.to][path[3]] = Read(memory, PmdSlot(a))
  <2>1. UpperOK(a) => pdpt.to \in Frame /\ pdpt = Read(InitMem, s[PUD])
    BY <1>1, <1>2, <1>5, <1>6, EntryType
  <2>2. \A f \in Frame : Read(memory, <<f, index[a][PMD]>>) = memory[f][path[3]]
    BY <1>3, <1>4, ReadType
  <2> QED  BY <1>1, <1>2, <2>1, <2>2
<1>8. UpperOK(a) <=> IsPresent(pml4) /\ IsPresent(pdpt)
  BY <1>1, <1>2, <1>5, <1>6 DEF IsPresent
<1>9. path \in Directories(memory, ptedit_paging_root) <=>
        IsPresent(pml4) /\ IsPresent(pdpt) /\ IsPresent(memory[pdpt.to][path[3]])
  BY <1>4 DEF Directories
<1>10. DirectoryEntry(memory, ptedit_paging_root, path) = memory[pdpt.to][path[3]]
  BY DEF DirectoryEntry
<1> QED  BY <1>4, <1>7, <1>8, <1>9, <1>10 DEF path

\* Within the reach of the cast the library's walk looks where the hardware does.
LEMMA ReachedEntries ==
  ASSUME NEW memory \in Memory, NEW a \in Addr, InReach(memory, ptedit_paging_root, a),
         Read(memory, Slots(memory, ptedit_paging_root, a)[PGD]).kind # "leaf",
         Read(memory, Slots(memory, ptedit_paging_root, a)[PUD]).kind # "leaf",
         NEW l \in DOMAIN EntriesUser(memory, ptedit_paging_root, a)
  PROVE  EntriesUser(memory, ptedit_paging_root, a)[l]
           = Read(memory, Slots(memory, ptedit_paging_root, a)[l])
<1> DEFINE u == UserSlots(memory, ptedit_paging_root, a)
           s == Slots(memory, ptedit_paging_root, a)
           e(k) == Read(memory, u[k])
           f(k) == Read(memory, s[k])
<1>1. /\ u[PGD] = <<ptedit_paging_root, index[a][PGD]>>
      /\ u[PUD] = <<cast[e(PGD).to], index[a][PUD]>>
      /\ u[PMD] = <<cast[e(PUD).to], index[a][PMD]>>
      /\ u[PTE] = <<cast[e(PMD).to], index[a][PTE]>>
  BY DEF UserSlots, PGD, PUD, PMD, PTE
<1>2. /\ s[PGD] = <<ptedit_paging_root, index[a][PGD]>>
      /\ s[PUD] = <<f(PGD).to, index[a][PUD]>>
      /\ s[PMD] = <<f(PUD).to, index[a][PMD]>>
      /\ s[PTE] = <<f(PMD).to, index[a][PTE]>>
  BY SlotsForm
<1>3. \A k \in {PGD, PUD, PMD} : f(k).kind = "table" => cast[f(k).to] = f(k).to
  BY DEF InReach
<1>4. /\ l \in {PGD, PUD, PMD, PTE} /\ IsPresent(e(PGD))
      /\ l \in {PMD, PTE} => IsPresent(e(PUD))
      /\ l = PTE => e(PMD).kind = "table"
      /\ EntriesUser(memory, ptedit_paging_root, a)[l] = e(l)
  <2> DEFINE pud == IsPresent(e(PGD))
             pmd == pud /\ IsPresent(e(PUD))
             pte == pmd /\ IsPresent(e(PMD)) /\ e(PMD).kind # "leaf"
             valid == <<pud, FALSE, pud, pmd, pte>>
  <2>1. EntriesUser(memory, ptedit_paging_root, a) = [k \in {j \in Level : valid[j]} |-> e(k)]
    BY DEF EntriesUser
  <2>2. l \in Level /\ valid[l] /\ EntriesUser(memory, ptedit_paging_root, a)[l] = e(l)
    <3> HIDE DEF valid, u
    <3> QED  BY <2>1
  <2>3. l = 1 \/ l = 2 \/ l = 3 \/ l = 4 \/ l = 5
    BY <2>2 DEF Level, PGD, PTE
  <2>4. /\ l = 1 => pud
        /\ l # 2
        /\ l = 3 => pud
        /\ l = 4 => pmd
        /\ l = 5 => pte
    <3>1. pud \in BOOLEAN /\ pmd \in BOOLEAN /\ pte \in BOOLEAN
      BY DEF IsPresent
    <3> HIDE DEF pud, pmd, pte
    <3>2. valid[1] = pud /\ valid[2] = FALSE /\ valid[3] = pud /\ valid[4] = pmd /\ valid[5] = pte
      BY <3>1
    <3> HIDE DEF valid
    <3>3. valid[l]
      BY <2>2
    <3> QED  BY <3>2, <3>3
  <2>5. pte => e(PMD).kind = "table"
    BY DEF IsPresent
  <2> HIDE DEF u
  <2> QED  BY <2>2, <2>3, <2>4, <2>5 DEF PGD, PUD, PMD, PTE
<1> HIDE DEF u, s
<1>5. u[PGD] = s[PGD]
  BY <1>1, <1>2
<1>6. u[PUD] = s[PUD]
  BY <1>1, <1>2, <1>3, <1>4, <1>5 DEF IsPresent, s
<1>7. l \in {PMD, PTE} => u[PMD] = s[PMD]
  BY <1>1, <1>2, <1>3, <1>4, <1>6 DEF IsPresent, s
<1>8. l = PTE => u[PTE] = s[PTE]
  BY <1>1, <1>2, <1>3, <1>4, <1>7
<1> QED  BY <1>4, <1>5, <1>6, <1>7, <1>8 DEF s

LEMMA LooksAgree ==
  ASSUME NEW level, NEW home, Private(level, home), NEW now, TreeInv(level, now)
  PROVE  WalksAgree
<1>1. SUFFICES ASSUME NEW a \in Addr
      PROVE LET entries == EntriesKernel(mem, ptedit_paging_root, a)
                mapped == translate(mem, a)
                path == <<index[a][PGD], index[a][PUD], index[a][PMD]>>
                listed == memmap(mem, ptedit_paging_root)
            IN /\ InReach(mem, ptedit_paging_root, a) =>
                    is_same(entries, EntriesUser(mem, ptedit_paging_root, a))
               /\ mapped # Fault => virt2phys(entries) = mapped
               /\ path \in listed <=> mapped[2] = PMD
               /\ Append(path, index[a][PTE]) \in listed <=> mapped # Fault /\ mapped[2] = PTE
  BY DEF WalksAgree
<1> DEFINE entries == EntriesKernel(mem, ptedit_paging_root, a)
           mapped == translate(mem, a)
           path == <<index[a][PGD], index[a][PUD], index[a][PMD]>>
           listed == memmap(mem, ptedit_paging_root)
           s == Slots(mem, ptedit_paging_root, a)
           v == resolve_vm(mem, ptedit_paging_root, a)
           p == Read(mem, PmdSlot(a))
           q == Read(mem, s[PTE])
<1>2. Tree(mem, level, now, free) /\ mem \in Memory /\ index[a][PTE] \in Index
  BY IndexType, Levels DEF TreeInv, Tree
<1>3. /\ mapped = IF UpperOK(a) THEN LeafOf(mem, a) ELSE Fault
      /\ p \in Entry /\ s[PMD] = PmdSlot(a)
      /\ UpperOK(a) => PmdSlot(a) \in Slot /\ level[PmdSlot(a)[1]] = PMD
  BY <1>2, TranslateForm
<1>4. LeafOf(mem, a) = IF p.kind # "table" THEN Target(p, PMD) ELSE Target(q, PTE)
  <2>1. s[PTE] = <<p.to, index[a][PTE]>>
    BY <1>3, SlotsForm
  <2> QED  BY <2>1 DEF LeafOf
<1>5. UpperOK(a) /\ p.kind = "table" =>
        /\ q = mem[p.to][index[a][PTE]] /\ q \in Entry /\ q.kind # "table"
  <2>1. SUFFICES ASSUME UpperOK(a), p.kind = "table"
        PROVE  q = mem[p.to][index[a][PTE]] /\ q \in Entry /\ q.kind # "table"
    OBVIOUS
  <2>0. LeadsOn(p) /\ PmdSlot(a) \in Slot /\ level[PmdSlot(a)[1]] = PMD
    BY <1>3, <2>1 DEF LeadsOn
  <2>2. p.to \in Frame /\ level[p.to] = PTE
    BY <1>2, <2>0, BelowPmd
  <2>3. s[PTE] = <<p.to, index[a][PTE]>>
    BY <1>3, SlotsForm
  <2>4. q = mem[p.to][index[a][PTE]] /\ q \in Entry
    BY <1>2, <2>2, <2>3, ReadType
  <2>5. Fits(q, PTE, level)
    BY <1>2, <2>2, <2>4 DEF Tree
  <2> QED  BY <2>4, <2>5 DEF Fits
<1>6. /\ \A l \in DOMAIN v : v[l] = s[l] /\ l \in Level
      /\ UpperOK(a) /\ p.kind # "none" => PMD \in DOMAIN v
      /\ UpperOK(a) /\ p.kind = "table" => PTE \in DOMAIN v
  <2>1. /\ s[P4D] = Slots(InitMem, ptedit_paging_root, a)[PGD]
        /\ s[PUD] = Slots(InitMem, ptedit_paging_root, a)[PUD]
        /\ Read(mem, Slots(InitMem, ptedit_paging_root, a)[PGD])
             = Read(InitMem, Slots(InitMem, ptedit_paging_root, a)[PGD])
        /\ Read(mem, Slots(InitMem, ptedit_paging_root, a)[PUD])
             = Read(InitMem, Slots(InitMem, ptedit_paging_root, a)[PUD])
    BY <1>2, UpperSlots
  <2>2. UpperOK(a) => Read(mem, s[P4D]).kind = "table" /\ Read(mem, s[PUD]).kind = "table"
    BY <2>1 DEF UpperOK
  <2>3. /\ \A l \in DOMAIN v : v[l] = s[l] /\ l \in Level
        /\ PUD \in DOMAIN v <=> Read(mem, s[P4D]).kind = "table" /\ Read(mem, s[PUD]).kind # "none"
        /\ PMD \in DOMAIN v <=> /\ PUD \in DOMAIN v
                                /\ Read(mem, s[PMD]).kind # "none" /\ Read(mem, s[PUD]).kind # "leaf"
        /\ PTE \in DOMAIN v <=> PMD \in DOMAIN v /\ Read(mem, s[PMD]).kind # "leaf"
    BY ResolveLevels
  <2> HIDE DEF s, v
  <2> QED  BY <1>3, <2>2, <2>3
<1>7. entries = [l \in DOMAIN v |-> Read(mem, v[l])]
  BY DEF EntriesKernel
<1>8. InReach(mem, ptedit_paging_root, a) =>
        \A l \in DOMAIN EntriesUser(mem, ptedit_paging_root, a) :
          EntriesUser(mem, ptedit_paging_root, a)[l] = Read(mem, s[l])
  <2>1. Read(mem, s[PGD]).kind # "leaf" /\ Read(mem, s[PUD]).kind # "leaf"
    BY <1>2, UpperSlots
  <2> QED  BY <1>2, <2>1, ReachedEntries
<1> HIDE DEF s, v, entries, mapped
<1>9. InReach(mem, ptedit_paging_root, a) =>
        is_same(entries, EntriesUser(mem, ptedit_paging_root, a))
  BY <1>6, <1>7, <1>8 DEF is_same
<1>10. /\ PMD \in DOMAIN v => PMD \in DOMAIN entries /\ entries[PMD] = p
       /\ PTE \in DOMAIN v => PTE \in DOMAIN entries /\ entries[PTE] = q
  BY <1>3, <1>6, <1>7
<1>11. Fault[1] = NoFrame /\ Fault[2] = PTE /\ PMD # PTE /\ NoFrame \notin Frame
  BY PagingAssumption, Levels DEF Fault
<1>12. CASE UpperOK(a) /\ p.kind = "leaf"
  <2>1. mapped = <<p.to, PMD>> /\ virt2phys(entries) = <<p.to, PMD>>
    BY <1>3, <1>4, <1>6, <1>10, <1>12 DEF Target, virt2phys
  <2>2. path \in listed /\ Longer(path, index[a][PTE]) \notin listed
    BY <1>2, <1>12, DirectoryIs, Listed DEF IsPresent
  <2>3. mapped[2] = PMD
    BY <2>1
  <2> HIDE DEF path, listed
  <2> QED  BY <1>9, <1>11, <2>1, <2>2, <2>3 DEF Longer, path, listed, entries, mapped
<1>13. CASE UpperOK(a) /\ p.kind = "table"
  <2>1. mapped = Target(q, PTE)
    BY <1>3, <1>4, <1>13
  <2>2. path \notin listed /\ (Longer(path, index[a][PTE]) \in listed <=> IsPresent(q))
    BY <1>2, <1>5, <1>13, DirectoryIs, Listed DEF IsPresent
  <2>3. CASE q.kind = "leaf"
    <3>1. mapped = <<q.to, PTE>> /\ virt2phys(entries) = <<q.to, PTE>> /\ q.to \in Frame
      BY <1>5, <1>6, <1>10, <1>13, <2>1, <2>3, EntryType DEF Target, virt2phys
    <3>2. mapped[1] = q.to /\ mapped[2] = PTE
      BY <3>1
    <3>3. mapped # Fault
      BY <1>11, <3>1, <3>2
    <3>4. IsPresent(q)
      BY <2>3 DEF IsPresent
    <3> QED  BY <1>9, <1>11, <2>2, <3>1, <3>2, <3>3, <3>4 DEF Longer, path, listed, entries, mapped
  <2>4. CASE q.kind # "leaf"
    <3>1. mapped = Fault /\ ~IsPresent(q)
      BY <1>5, <1>13, <2>1, <2>4 DEF Target, IsPresent
    <3> QED  BY <1>9, <1>11, <2>2, <3>1 DEF Longer, path, listed, entries, mapped
  <2> QED  BY <2>3, <2>4
<1>14. CASE ~UpperOK(a) \/ ~IsPresent(p)
  <2>1. mapped = Fault
    BY <1>3, <1>4, <1>14 DEF Target, IsPresent
  <2>2. path \notin listed /\ Longer(path, index[a][PTE]) \notin listed
    BY <1>2, <1>14, DirectoryIs, Listed
  <2> QED  BY <1>9, <1>11, <2>1, <2>2 DEF Longer, path, listed, entries, mapped
<1> QED  BY <1>12, <1>13, <1>14 DEF IsPresent

\* Whatever the edits of any number of threads have left behind, the walk of the kernel
\* module and that of the library agree where both have an entry, if the cast keeps the
\* frames of all tables of the address (performance.c), the physical address that virt2phys.c computes of a mapped page is the one the hardware
\* uses, and memmap.c lists exactly the pages that are mapped.
THEOREM WalksAlwaysAgree ==
  ASSUME NEW CONSTANT level, NEW CONSTANT home, Private(level, home)
  PROVE  Spec => []WalksAgree
<1>1. stray => WalksAgree
  BY DEF WalksAgree
<1>2. PrivateInv(level) => WalksAgree
  BY <1>1, LooksAgree DEF PrivateInv
<1> QED  BY <1>2, PrivateInvariant, PTL
=============================================================================
