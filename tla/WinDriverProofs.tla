--------------------------- MODULE WinDriverProofs ---------------------------
(***************************************************************************)
(* Proofs about WinDriver, for any number of CPUs, processes, clients and  *)
(* addresses, with and without tagged TLBs.  The invariant covers what the *)
(* CPUs have cached under the tags that are not in use, because a CPU may  *)
(* switch to any of them.                                                  *)
(***************************************************************************)
EXTENDS WinDriver, TLAPS

\* What a CPU has cached of address a for the tag g, as seen from the root r.
Coherent(c, g, r, a) ==
  \/ tlb[c][g][a] \in {None, mem[r][a]}
  \/ Updating(r, a)
  \/ <<c, g, a>> \in missed

\* A tag other than Untagged stands for one root, its process; what is cached
\* without a tag is of the root in use; without tags only that is cached.
CacheInv ==
  \A c \in Cpu :
    /\ cr3[c].tag \in Proc => cr3[c].root = cr3[c].tag
    /\ \A a \in Addr :
         /\ \A g \in Proc : Coherent(c, g, g, a)
         /\ cr3[c].tag = Untagged /\ cr3[c].root # None =>
              Coherent(c, Untagged, cr3[c].root, a)
         /\ cr3[c].tag # Untagged => tlb[c][Untagged][a] = None
         /\ ~machine.pcid => \A g \in Tag \ {cr3[c].tag} : tlb[c][g][a] = None

WinInv == TypeOK /\ RunsOnOwnTables /\ CacheInv

\* WinUpdateApplied already holds before the flush, and only clients use the
\* device.
AppliedInv ==
  /\ handle \subseteq Client
  /\ \A p \in Client : pc[p] \in {"flush", "flush_again"} /\ args[p].root # None =>
       \/ args[p].again = None
       \/ mem[args[p].root][args[p].addr] = args[p].new
       \/ args[p].root \notin machine.reachable
       \/ args[p].top /\ args[p].again # args[p].root

-----------------------------------------------------------------------------
(* Lemmas about the operators                                              *)

\* A running process has a CPU.
LEMMA CpuOfRuns ==
  ASSUME NEW p, Running(p)
  PROVE  CpuOf(p) \in Cpu /\ run[CpuOf(p)] = p
BY DEF Running, CpuOf

\* PTEDITOR_GET_CR3 answers with a root or with 0.
LEMMA GetCr3Type ==
  ASSUME TypeOK, NEW p \in Proc, NEW q \in Proc \cup {None}, Running(p)
  PROVE  GetCr3(p, q) \in Root \cup {None}
BY CpuOfRuns DEF GetCr3, TypeOK, Root

LEMMA PagingRootType ==
  ASSUME TypeOK, NEW p \in Proc, Running(p)
  PROVE  PagingRoot(p) \in Root \cup {None}
<1>1. args[p].pid \in Proc \cup {None}
  BY DEF TypeOK, Arguments
<1> QED  BY <1>1, GetCr3Type DEF PagingRoot, TypeOK

LEMMA NoArgsType == NoArgs \in Arguments
BY WinAssumption DEF NoArgs, Arguments

LEMMA EmptyType == Empty \in Table
BY DEF Empty, Table

\* Writing CR3 keeps the types.
LEMMA LoadCr3Type ==
  ASSUME TypeOK, NEW c \in Cpu, NEW r \in Root \cup {None}, NEW g \in Tag,
         LoadCr3(c, r, g)
  PROVE  /\ cr3' \in [Cpu -> [root : Root \cup {None}, tag : Tag]]
         /\ tlb' \in [Cpu -> [Tag -> Table]]
BY EmptyType DEF TypeOK, LoadCr3

\* Attaching to another process leaves the caller on its own tables.
LEMMA AttachLoads ==
  ASSUME NEW p, NEW q, Attach(p, q)
  PROVE  \/ LoadCr3(CpuOf(p), p, p)
         \/ UNCHANGED <<cr3, tlb>>
BY DEF Attach

LEMMA AttachType ==
  ASSUME TypeOK, NEW p \in Proc, NEW q, Running(p), Attach(p, q)
  PROVE  /\ cr3' \in [Cpu -> [root : Root \cup {None}, tag : Tag]]
         /\ tlb' \in [Cpu -> [Tag -> Table]]
<1>1. CASE LoadCr3(CpuOf(p), p, p)
  BY <1>1, CpuOfRuns, LoadCr3Type DEF Root, Tag
<1>2. CASE UNCHANGED <<cr3, tlb>>
  BY <1>2 DEF TypeOK
<1> QED  BY <1>1, <1>2, AttachLoads

\* The types of the arguments of a call.
LEMMA ArgsFields ==
  ASSUME TypeOK, NEW p \in Proc
  PROVE  args[p].addr \in Addr /\ args[p].new \in Page \cup {None}
BY DEF TypeOK, Arguments

\* The locals of a call may be set to any root, or to none.
LEMMA ArgsRootType ==
  ASSUME TypeOK, NEW p \in Proc, NEW r \in Root \cup {None}
  PROVE  /\ [args EXCEPT ![p].root = r] \in [Proc -> Arguments]
         /\ [args EXCEPT ![p].again = r] \in [Proc -> Arguments]
<1>1. args \in [Proc -> Arguments] /\ args[p] \in Arguments
  BY DEF TypeOK
<1>2. /\ [args[p] EXCEPT !.root = r] \in Arguments
      /\ [args[p] EXCEPT !.again = r] \in Arguments
  BY <1>1 DEF Arguments
<1> QED  BY <1>1, <1>2

-----------------------------------------------------------------------------
(* TypeOK                                                                  *)

\* TypeOK is inductive, given that a CPU runs a process on tables that exist.
LEMMA TypeInductive ==
  ASSUME TypeOK, RunsOnOwnTables, [Next]_vars
  PROVE  TypeOK'
<1> USE WinAssumption
<1>0. CASE UNCHANGED vars
  BY <1>0 DEF TypeOK, vars, names, files, cpus, calls, ghosts
<1>1. ASSUME Begin, done < MaxCalls, done' = done + 1 PROVE TypeOK'
  <2>0. done' \in 0..MaxCalls
    BY <1>1 DEF TypeOK
  <2>1. CASE CreateDevice
    BY <2>0, <2>1 DEF TypeOK, CreateDevice, files, cpus, calls, ghosts
  <2>2. ASSUME NEW p \in Proc, OpenDevice(p) PROVE TypeOK'
    <3>1. GetCr3(p, p) \in Root \cup {None}
      BY <2>2, GetCr3Type DEF OpenDevice
    <3>2. p \in alive
      BY <2>2, CpuOfRuns DEF OpenDevice, TypeOK
    <3> QED  BY <2>0, <2>2, <3>1, <3>2 DEF TypeOK, OpenDevice, names, cpus, calls, ghosts
  <2>3. ASSUME NEW p \in Proc, SetPat(p) PROVE TypeOK'
    BY <2>0, <2>3 DEF TypeOK, SetPat, names, files, cpus, calls, ghosts
  <2>4. ASSUME NEW p \in Proc, NEW q \in Proc, NEW r \in Root, SetCr3(p, q, r)
        PROVE  TypeOK'
    <3>1. Running(p) /\ CpuOf(p) \in Cpu
      BY <2>4, CpuOfRuns DEF SetCr3, At
    <3>2. /\ cr3' \in [Cpu -> [root : Root \cup {None}, tag : Tag]]
          /\ tlb' \in [Cpu -> [Tag -> Table]]
      <4>1. CASE LoadCr3(CpuOf(p), r, Untagged)
        BY <3>1, <4>1, LoadCr3Type DEF Tag
      <4>2. CASE Attach(p, q)
        BY <3>1, <4>2, AttachType
      <4> QED  BY <2>4, <4>1, <4>2 DEF SetCr3
    <3>3. chosen' \in [Proc -> SUBSET Root]
      BY <2>4 DEF TypeOK, SetCr3
    <3> QED  BY <2>0, <2>4, <3>2, <3>3 DEF TypeOK, SetCr3, names, files, calls, ghosts
  <2>5. ASSUME NEW p \in Proc, NEW r \in Root, NEW g \in Page \cup {None},
               WritePage(p, r, [a \in Addr |-> g])
        PROVE  TypeOK'
    <3>0. [a \in Addr |-> g] \in Table
      BY DEF Table
    <3>1. mem' \in [Root -> Table]
      BY <2>5, <3>0 DEF TypeOK, WritePage
    <3>2. missed' \subseteq Cpu \X Tag \X Addr
      BY <2>5 DEF TypeOK, WritePage
    <3> QED  BY <2>0, <2>5, <3>1, <3>2 DEF TypeOK, WritePage, names, files, cpus, calls
  <2>6. ASSUME NEW p \in Proc, NEW q \in Proc \cup {None}, NEW a \in Addr,
               NEW new \in Page, NEW top \in BOOLEAN, UpdateCall(p, q, a, new, top)
        PROVE  TypeOK'
    <3>1. args' \in [Proc -> Arguments]
      BY <2>6 DEF TypeOK, UpdateCall, Arguments
    <3> QED  BY <2>0, <2>6, <3>1 DEF TypeOK, UpdateCall, Goto, names, files, cpus, ghosts
  <2> QED  BY <1>1, <2>1, <2>2, <2>3, <2>4, <2>5, <2>6 DEF Begin
<1>2. ASSUME Step, UNCHANGED done PROVE TypeOK'
  <2>0. done' \in 0..MaxCalls
    BY <1>2 DEF TypeOK
  <2>1. ASSUME NEW ok \in BOOLEAN, CreateLink(ok) PROVE TypeOK'
    BY <2>0, <2>1 DEF TypeOK, CreateLink, files, cpus, calls, ghosts
  <2>2. CASE Dispatchable \/ UnloadLink \/ UnloadDevice
    BY <2>0, <2>2 DEF TypeOK, Dispatchable, UnloadLink, UnloadDevice, files, cpus,
                      calls, ghosts
  <2>3. ASSUME NEW p \in Proc, UpdateRoot(p) PROVE TypeOK'
    <3>1. Running(p) /\ PagingRoot(p) \in Root \cup {None}
      BY <2>3, PagingRootType DEF UpdateRoot, At
    <3>2. args' \in [Proc -> Arguments]
      BY <2>3, <3>1, ArgsRootType DEF UpdateRoot
    <3>3. /\ cr3' \in [Cpu -> [root : Root \cup {None}, tag : Tag]]
          /\ tlb' \in [Cpu -> [Tag -> Table]]
      BY <2>3, <3>1, AttachType DEF UpdateRoot
    <3> QED  BY <2>0, <2>3, <3>2, <3>3
             DEF TypeOK, UpdateRoot, Goto, names, files, ghosts
  <2>4. ASSUME NEW p \in Proc, UpdateWalk(p) PROVE TypeOK'
    <3>1. args[p].root \in Root \cup {None}
      BY DEF TypeOK, Arguments
    <3>2. args' \in [Proc -> Arguments]
      BY <2>4, <3>1, ArgsRootType DEF UpdateWalk
    <3> QED  BY <2>0, <2>4, <3>2 DEF TypeOK, UpdateWalk, Goto, names, files, cpus, ghosts
  <2>4a. ASSUME NEW p \in Proc, UpdateAgain(p) PROVE TypeOK'
    <3>1. Running(p) /\ PagingRoot(p) \in Root \cup {None}
      BY <2>4a, PagingRootType DEF UpdateAgain, At
    <3>2. args' \in [Proc -> Arguments]
      BY <2>4a, <3>1, ArgsRootType DEF UpdateAgain
    <3>3. /\ cr3' \in [Cpu -> [root : Root \cup {None}, tag : Tag]]
          /\ tlb' \in [Cpu -> [Tag -> Table]]
      BY <2>4a, <3>1, AttachType DEF UpdateAgain
    <3> QED  BY <2>0, <2>4a, <3>2, <3>3
             DEF TypeOK, UpdateAgain, Goto, names, files, ghosts
  <2>5. ASSUME NEW p \in Proc, UpdateWrite(p) PROVE TypeOK'
    <3>1. mem' \in [Root -> Table]
      BY <2>5, ArgsFields DEF TypeOK, UpdateWrite, Table
    <3> QED  BY <2>0, <2>5, <3>1 DEF TypeOK, UpdateWrite, Goto, names, files, cpus, ghosts
  <2>6. ASSUME NEW p \in Proc, UpdateFlush(p) PROVE TypeOK'
    <3>1. tlb' \in [Cpu -> [Tag -> Table]]
      BY <2>6, ArgsFields DEF TypeOK, UpdateFlush, InvalidateTlb, Table
    <3>2. missed' \subseteq Cpu \X Tag \X Addr
      BY <2>6, ArgsFields DEF TypeOK, UpdateFlush, Missed, Tag
    <3>3. args' \in [Proc -> Arguments]
      BY <2>6, NoArgsType DEF TypeOK, UpdateFlush
    <3> QED  BY <2>0, <2>6, <3>1, <3>2, <3>3
             DEF TypeOK, UpdateFlush, Goto, names, files, ghosts
  <2>7. ASSUME NEW p \in Proc, CloseDevice(p) PROVE TypeOK'
    BY <2>0, <2>7 DEF TypeOK, CloseDevice, names, cpus, calls, ghosts
  <2>8. ASSUME NEW p \in Proc, Exit(p) PROVE TypeOK'
    <3>1. missed' \subseteq Cpu \X Tag \X Addr
      BY <2>8, ArgsFields DEF TypeOK, Exit
    <3>2. args' \in [Proc -> Arguments]
      BY <2>8, NoArgsType DEF TypeOK, Exit
    <3>3. run' \in [Cpu -> alive' \cup {None}]
      BY <2>8 DEF TypeOK, Exit, Running, cpus, ghosts
    <3> QED  BY <2>0, <2>8, <3>1, <3>2, <3>3 DEF TypeOK, Exit, names, cpus, ghosts
  <2>9. ASSUME NEW c \in Cpu, NEW q \in Proc \cup {None}, Switch(c, q) PROVE TypeOK'
    <3>1. /\ cr3' \in [Cpu -> [root : Root \cup {None}, tag : Tag]]
          /\ tlb' \in [Cpu -> [Tag -> Table]]
      <4>1. CASE UNCHANGED <<cr3, tlb>>
        BY <4>1 DEF TypeOK
      <4>2. CASE LoadCr3(c, q, q)
        BY <4>2, LoadCr3Type DEF Root, Tag, Untagged
      <4> QED  BY <2>9, <4>1, <4>2 DEF Switch
    <3>2. /\ run' \in [Cpu -> alive \cup {None}]
          /\ \A d, e \in Cpu : run'[d] = run'[e] /\ run'[d] # None => d = e
      BY <2>9 DEF TypeOK, Switch, Running
    <3> QED  BY <2>0, <2>9, <3>1, <3>2 DEF TypeOK, Switch, names, files, calls, ghosts
  <2>10. ASSUME NEW c \in Cpu, NEW a \in Addr, TlbFill(c, a) PROVE TypeOK'
    <3>1. mem[cr3[c].root][a] \in Page \cup {None}
      BY <2>10 DEF TypeOK, TlbFill, RunsOnOwnTables, Root, Table
    <3>2. tlb' \in [Cpu -> [Tag -> Table]]
      BY <2>10, <3>1 DEF TypeOK, TlbFill, Table
    <3> QED  BY <2>0, <2>10, <3>2 DEF TypeOK, TlbFill, names, files, calls, ghosts
  <2> QED  BY <1>2, <2>1, <2>2, <2>3, <2>4, <2>4a, <2>5,
              <2>6, <2>7, <2>8, <2>9, <2>10 DEF Step
<1> QED  BY <1>0, <1>1, <1>2 DEF Next

-----------------------------------------------------------------------------
(* RunsOnOwnTables                                                         *)

\* A handler that attaches leaves the caller on its own tables.
LEMMA AttachRuns ==
  ASSUME TypeOK, RunsOnOwnTables, NEW p \in Proc, NEW q, Running(p), Attach(p, q),
         UNCHANGED <<run, chosen>>
  PROVE  RunsOnOwnTables'
<1>1. CpuOf(p) \in Cpu /\ run[CpuOf(p)] = p
  BY CpuOfRuns
<1>2. CASE LoadCr3(CpuOf(p), p, p)
  BY <1>1, <1>2 DEF LoadCr3, RunsOnOwnTables, TypeOK
<1>3. CASE UNCHANGED <<cr3, tlb>>
  BY <1>3 DEF RunsOnOwnTables
<1> QED  BY <1>2, <1>3, AttachLoads

\* The roots a CPU may run a process on are kept by every step.
LEMMA RunsInductive ==
  ASSUME TypeOK, RunsOnOwnTables, [Next]_vars
  PROVE  RunsOnOwnTables'
<1> USE WinAssumption
<1>0. CASE UNCHANGED <<run, cr3, chosen>>
  BY <1>0 DEF RunsOnOwnTables
<1>1. ASSUME NEW p \in Proc, NEW q \in Proc, NEW r \in Root, SetCr3(p, q, r)
      PROVE  RunsOnOwnTables'
  <2>1. CpuOf(p) \in Cpu /\ run[CpuOf(p)] = p /\ UNCHANGED run
    BY <1>1, CpuOfRuns DEF SetCr3, At
  <2>2. CASE q = p
    <3>1. /\ cr3' = [cr3 EXCEPT ![CpuOf(p)] = [root |-> r, tag |-> Untagged]]
          /\ chosen' = [chosen EXCEPT ![p] = @ \cup {r}]
      BY <1>1, <2>2 DEF SetCr3, LoadCr3
    <3> QED  BY <2>1, <3>1 DEF RunsOnOwnTables, TypeOK
  <2>3. CASE q # p
    BY <1>1, <2>1, <2>3, AttachRuns DEF SetCr3, At
  <2> QED  BY <2>2, <2>3
<1>2. ASSUME NEW c \in Cpu, NEW q \in Proc \cup {None}, Switch(c, q)
      PROVE  RunsOnOwnTables'
  <2>1. q # None => cr3'[c] = [root |-> q, tag |-> q]
    BY <1>2 DEF Switch, LoadCr3, TypeOK
  <2>2. \A d \in Cpu \ {c} : cr3'[d] = cr3[d] /\ run'[d] = run[d]
    BY <1>2 DEF Switch, LoadCr3, TypeOK
  <2>3. run'[c] = q /\ UNCHANGED chosen
    BY <1>2 DEF Switch, TypeOK, ghosts
  <2> QED  BY <2>1, <2>2, <2>3 DEF RunsOnOwnTables
<1>3. ASSUME NEW p \in Proc,
             \/ OpenDevice(p) \/ SetPat(p) \/ CloseDevice(p) \/ Exit(p)
             \/ UpdateWalk(p) \/ UpdateWrite(p) \/ UpdateFlush(p)
             \/ \E r \in Root, g \in Page \cup {None} : WritePage(p, r, [a \in Addr |-> g])
             \/ \E q \in Proc \cup {None}, a \in Addr, new \in Page, top \in BOOLEAN :
                  UpdateCall(p, q, a, new, top)
      PROVE  UNCHANGED <<run, cr3, chosen>>
  BY <1>3 DEF OpenDevice, SetPat, CloseDevice, Exit, UpdateWalk, UpdateWrite,
              UpdateFlush, WritePage, UpdateCall, cpus, ghosts
<1>3a. ASSUME NEW p \in Proc, UpdateRoot(p) \/ UpdateAgain(p)
       PROVE  RunsOnOwnTables'
  BY <1>3a, AttachRuns DEF UpdateRoot, UpdateAgain, At, ghosts
<1>4. ASSUME \/ CreateDevice \/ Dispatchable \/ UnloadLink \/ UnloadDevice
             \/ \E ok \in BOOLEAN : CreateLink(ok)
             \/ \E c \in Cpu, a \in Addr : TlbFill(c, a)
      PROVE  UNCHANGED <<run, cr3, chosen>>
  BY <1>4 DEF CreateDevice, Dispatchable, UnloadLink, UnloadDevice, CreateLink,
              TlbFill, cpus, ghosts
<1>5. CASE Begin
  BY <1>0, <1>1, <1>3, <1>4, <1>5 DEF Begin
<1>6. CASE Step
  BY <1>0, <1>2, <1>3, <1>3a, <1>4, <1>6 DEF Step
<1>7. CASE UNCHANGED vars
  BY <1>0, <1>7 DEF vars, cpus, ghosts
<1> QED  BY <1>5, <1>6, <1>7 DEF Next

-----------------------------------------------------------------------------
(* CacheInv                                                                *)

\* A step that changes neither the tables nor the CPUs, forgets no missed flush
\* and ends no update keeps CacheInv.
LEMMA CacheStable ==
  ASSUME CacheInv, UNCHANGED <<machine, cr3, tlb, mem>>, missed \subseteq missed',
         \A r \in Root \cup {None}, a \in Addr : Updating(r, a) =>
           \/ Updating(r, a)'
           \/ \A c \in Cpu, g \in Tag : <<c, g, a>> \in missed',
         TypeOK
  PROVE  CacheInv'
<1>1. ASSUME NEW c \in Cpu, NEW g \in Tag, NEW r \in Root \cup {None}, NEW a \in Addr,
             Coherent(c, g, r, a)
      PROVE  Coherent(c, g, r, a)'
  BY <1>1 DEF Coherent
<1>2. \A c \in Cpu : cr3[c].root \in Root \cup {None}
  BY DEF TypeOK
<1> QED  BY <1>1, <1>2 DEF CacheInv, Tag, Root

\* Writing CR3 keeps CacheInv, for a tag that names the root or for no tag.
LEMMA CacheLoad ==
  ASSUME TypeOK, CacheInv, NEW c \in Cpu, NEW r, NEW g \in Tag, LoadCr3(c, r, g),
         g \in Proc => r = g, UNCHANGED <<machine, mem, missed>>,
         \A s, a : Updating(s, a) => Updating(s, a)'
  PROVE  CacheInv'
<1> USE WinAssumption DEF Untagged
<1>1. \A d \in Cpu \ {c} : cr3'[d] = cr3[d] /\ tlb'[d] = tlb[d]
  BY DEF LoadCr3, TypeOK
<1>2. cr3'[c] = [root |-> r, tag |-> g]
  BY DEF LoadCr3, TypeOK
<1>3. \A h \in Tag : tlb'[c][h] = IF machine.pcid /\ h # Untagged THEN tlb[c][h]
                                  ELSE Empty
  BY DEF LoadCr3, TypeOK
<1>4. \A s, a : Updating(s, a) => Updating(s, a)'
  OBVIOUS
<1>5. ASSUME NEW d \in Cpu, NEW h \in Tag, NEW s, NEW a \in Addr, Coherent(d, h, s, a)
      PROVE  Coherent(d, h, s, a)'
  BY <1>1, <1>3, <1>4, <1>5 DEF Coherent, Empty
<1>6. \A a \in Addr : tlb'[c][Untagged][a] = None
  BY <1>3 DEF Tag, Empty
<1>7. ~machine.pcid => \A h \in Tag, a \in Addr : tlb'[c][h][a] = None
  BY <1>3 DEF Empty
<1>8. \A d \in Cpu \ {c}, a \in Addr :
        /\ cr3'[d].tag = Untagged /\ cr3'[d].root # None =>
             Coherent(d, Untagged, cr3[d].root, a)'
        /\ cr3'[d].tag # Untagged => tlb'[d][Untagged][a] = None
        /\ ~machine.pcid => \A h \in Tag \ {cr3'[d].tag} : tlb'[d][h][a] = None
  BY <1>1, <1>5 DEF CacheInv, Tag
<1>9. \A d \in Cpu, a \in Addr, h \in Proc : Coherent(d, h, h, a)'
  BY <1>5 DEF CacheInv, Tag
<1>10. \A d \in Cpu : cr3'[d].tag \in Proc => cr3'[d].root = cr3'[d].tag
  BY <1>1, <1>2 DEF CacheInv
<1>11. \A a \in Addr : Coherent(c, Untagged, r, a)'
  BY <1>6 DEF Coherent
<1> QED  BY <1>1, <1>2, <1>6, <1>7, <1>8, <1>9, <1>10, <1>11 DEF CacheInv, Coherent

\* Attaching keeps CacheInv.
LEMMA CacheAttach ==
  ASSUME TypeOK, CacheInv, NEW p \in Proc, NEW q, Running(p), Attach(p, q),
         UNCHANGED <<machine, mem, missed>>,
         \A s, a : Updating(s, a) => Updating(s, a)'
  PROVE  CacheInv'
<1>1. CpuOf(p) \in Cpu
  BY CpuOfRuns
<1>2. CASE LoadCr3(CpuOf(p), p, p)
  BY <1>1, <1>2, CacheLoad DEF Tag
<1>3. CASE UNCHANGED <<cr3, tlb>>
  BY <1>3, CacheStable
<1> QED  BY <1>2, <1>3, AttachLoads

\* ptedit_update up to its write: no flush is given up by these steps.
LEMMA CacheBeforeFlush ==
  ASSUME WinInv, NEW p \in Proc,
         \/ UpdateRoot(p) \/ UpdateWalk(p) \/ UpdateAgain(p)
         \/ \E q \in Proc \cup {None}, a \in Addr, new \in Page, top \in BOOLEAN :
              UpdateCall(p, q, a, new, top)
  PROVE  CacheInv'
<1>1. /\ pc[p] # "flush"
      /\ \A q \in Proc \ {p} : pc'[q] = pc[q] /\ args'[q] = args[q]
  BY DEF UpdateRoot, UpdateWalk, UpdateAgain, UpdateCall, At, Goto, WinInv, TypeOK
<1>2. UNCHANGED <<machine, mem, missed>>
  BY DEF UpdateRoot, UpdateWalk, UpdateAgain, UpdateCall, ghosts
<1>3. \A r, a : Updating(r, a) => Updating(r, a)'
  BY <1>1 DEF Updating, Written
<1>4. CASE UNCHANGED <<cr3, tlb>>
  BY <1>2, <1>3, <1>4, CacheStable DEF WinInv
<1>5. CASE UpdateRoot(p) \/ UpdateAgain(p)
  BY <1>2, <1>3, <1>5, CacheAttach DEF UpdateRoot, UpdateAgain, At, WinInv
<1> QED  BY <1>4, <1>5 DEF UpdateWalk, UpdateCall, cpus

\* The write makes what the CPUs have cached of the page stale, and the update
\* answers for it until it flushes.
LEMMA CacheWrite ==
  ASSUME WinInv, NEW p \in Proc, UpdateWrite(p)
  PROVE  CacheInv'
<1>1. PICK root \in Root \cup {None}, addr \in Addr :
        root = Written(p) /\ addr = args[p].addr
  BY DEF WinInv, TypeOK, Arguments, Written
<1>2. Updating(root, addr)'
  BY <1>1 DEF Updating, Written, UpdateWrite, Goto, WinInv, TypeOK
<1>3. \A r \in Root, a \in Addr : r # root \/ a # addr => mem'[r][a] = mem[r][a]
  BY <1>1 DEF UpdateWrite, WinInv, TypeOK, Table
<1>4. \A r, a : Updating(r, a) => Updating(r, a)'
  BY DEF Updating, Written, UpdateWrite, Goto, At, WinInv, TypeOK
<1>5. UNCHANGED <<machine, cr3, tlb, missed>>
  BY DEF UpdateWrite, cpus, ghosts
<1>6. ASSUME NEW c \in Cpu, NEW g, NEW r \in Root, NEW a \in Addr, Coherent(c, g, r, a)
      PROVE  Coherent(c, g, r, a)'
  <2>1. CASE r = root /\ a = addr
    BY <1>2, <2>1 DEF Coherent
  <2>2. CASE r # root \/ a # addr
    BY <1>3, <1>4, <1>5, <1>6, <2>2 DEF Coherent
  <2> QED  BY <2>1, <2>2
<1>7. \A c \in Cpu : cr3[c].root \in Root \cup {None}
  BY DEF WinInv, TypeOK
<1> QED  BY <1>5, <1>6, <1>7 DEF CacheInv, WinInv, Root

\* The flush removes the page under the tags in use; what it leaves under other
\* tags is recorded in missed.
LEMMA CacheFlush ==
  ASSUME WinInv, NEW p \in Proc, UpdateFlush(p)
  PROVE  CacheInv'
<1> USE WinAssumption DEF Untagged
<1>1. PICK addr \in Addr : addr = args[p].addr
  BY DEF WinInv, TypeOK, Arguments
<1>2. UNCHANGED <<machine, cr3, mem>>
  BY DEF UpdateFlush
<1>3. \A c \in Cpu : cr3[c].tag \in Tag /\ cr3[c].root \in Root \cup {None}
  BY DEF WinInv, TypeOK
<1>4. \A c \in Cpu, g \in Tag, a \in Addr :
        tlb'[c][g][a] = IF g = cr3[c].tag /\ a = addr THEN None ELSE tlb[c][g][a]
  BY <1>1, <1>3 DEF UpdateFlush, InvalidateTlb, WinInv, TypeOK, Table
<1>5. missed' = Missed(addr)
  BY <1>1 DEF UpdateFlush
<1>6. \A r, a : a # addr /\ Updating(r, a) => Updating(r, a)'
  BY <1>1 DEF Updating, Written, UpdateFlush, Goto, WinInv, TypeOK
<1>7. ASSUME NEW c \in Cpu, NEW g \in Tag, NEW r, NEW a \in Addr \ {addr},
             Coherent(c, g, r, a)
      PROVE  Coherent(c, g, r, a)'
  BY <1>2, <1>4, <1>5, <1>6, <1>7 DEF Coherent, Missed
<1>8. ASSUME NEW c \in Cpu, NEW g \in Proc
      PROVE  Coherent(c, g, g, addr)'
  <2>1. CASE g = cr3[c].tag
    BY <1>1, <1>4, <2>1 DEF Coherent, Tag
  <2>2. CASE g # cr3[c].tag /\ ~machine.pcid
    <3>1. tlb[c][g][addr] = None
      BY <2>2 DEF Tag, WinInv, CacheInv
    <3>2. tlb'[c][g][addr] = None
      BY <1>4, <3>1 DEF Tag
    <3> QED  BY <3>2 DEF Coherent
  <2>3. CASE g # cr3[c].tag /\ machine.pcid
    <3>1. tlb'[c][g][addr] = tlb[c][g][addr]
      BY <1>1, <1>4, <2>3 DEF Tag
    <3>2. tlb[c][g][addr] \notin {None, mem[g][addr]} => <<c, g, addr>> \in missed'
      BY <1>5, <2>3 DEF Missed
    <3> QED  BY <1>2, <3>1, <3>2 DEF Coherent
  <2> QED  BY <2>1, <2>2, <2>3
<1>9. \A c \in Cpu : cr3[c].tag = Untagged => Coherent(c, Untagged, cr3[c].root, addr)'
  BY <1>1, <1>4 DEF Coherent, Tag
<1>10. \A c \in Cpu, a \in Addr, g \in Proc : Coherent(c, g, g, a)'
  BY <1>7, <1>8 DEF CacheInv, WinInv, Tag
<1>11. \A c \in Cpu, a \in Addr : cr3[c].tag = Untagged /\ cr3[c].root # None =>
         Coherent(c, Untagged, cr3[c].root, a)'
  BY <1>2, <1>7, <1>9 DEF CacheInv, WinInv, Tag
<1>12. \A c \in Cpu, a \in Addr, g \in Tag : tlb[c][g][a] = None => tlb'[c][g][a] = None
  BY <1>4
<1> QED  BY <1>2, <1>10, <1>11, <1>12 DEF CacheInv, WinInv, Tag

\* A CPU caches what the root in use says.
LEMMA CacheFill ==
  ASSUME WinInv, NEW c \in Cpu, NEW a \in Addr, TlbFill(c, a)
  PROVE  CacheInv'
<1> USE WinAssumption DEF Untagged
<1>1. PICK tag \in Tag, root \in Root \cup {None} :
        tag = cr3[c].tag /\ root = cr3[c].root /\ (tag \in Proc => root = tag)
  BY DEF WinInv, TypeOK, CacheInv
<1>2. UNCHANGED <<machine, cr3, mem, missed, pc, args>>
  BY DEF TlbFill, calls, ghosts
<1>3. \A d \in Cpu, g \in Tag, b \in Addr :
        tlb'[d][g][b] = IF d = c /\ g = tag /\ b = a THEN mem[root][a]
                        ELSE tlb[d][g][b]
  BY <1>1 DEF TlbFill, WinInv, TypeOK, Table
<1>4. \A r, b : Updating(r, b)' <=> Updating(r, b)
  BY <1>2 DEF Updating, Written
<1>5. ASSUME NEW d \in Cpu, NEW g \in Tag, NEW r, NEW b \in Addr, Coherent(d, g, r, b),
             d = c /\ g = tag => r = root
      PROVE  Coherent(d, g, r, b)'
  BY <1>2, <1>3, <1>4, <1>5 DEF Coherent
<1>6. \A d \in Cpu, b \in Addr, g \in Proc : Coherent(d, g, g, b)'
  BY <1>1, <1>5 DEF CacheInv, WinInv, Tag
<1>7. \A d \in Cpu, b \in Addr : cr3[d].tag = Untagged /\ cr3[d].root # None =>
        Coherent(d, Untagged, cr3[d].root, b)'
  BY <1>1, <1>2, <1>5 DEF CacheInv, WinInv, Tag
<1>8. \A d \in Cpu, g \in Tag, b \in Addr : g # cr3[d].tag => tlb'[d][g][b] = tlb[d][g][b]
  BY <1>1, <1>3
<1> QED  BY <1>2, <1>6, <1>7, <1>8 DEF CacheInv, WinInv, Tag

LEMMA CacheInductive ==
  ASSUME WinInv, [Next]_vars
  PROVE  CacheInv'
<1> USE WinAssumption
<1>1. ASSUME NEW p \in Proc, NEW q \in Proc, NEW r \in Root, SetCr3(p, q, r)
      PROVE  CacheInv'
  <2>1. Running(p) /\ CpuOf(p) \in Cpu
    BY <1>1, CpuOfRuns DEF SetCr3, At
  <2>2. UNCHANGED <<machine, mem, missed, pc, args>>
    BY <1>1 DEF SetCr3, calls
  <2>3. \A s, a : Updating(s, a) => Updating(s, a)'
    BY <2>2 DEF Updating, Written
  <2>4. CASE LoadCr3(CpuOf(p), r, Untagged)
    <3>1. Untagged \in Tag \ Proc
      BY DEF Tag, Untagged
    <3> QED  BY <2>1, <2>2, <2>3, <2>4, <3>1, CacheLoad DEF WinInv
  <2>5. CASE Attach(p, q)
    BY <2>1, <2>2, <2>3, <2>5, CacheAttach DEF WinInv
  <2> QED  BY <1>1, <2>4, <2>5 DEF SetCr3
<1>2. ASSUME NEW c \in Cpu, NEW q \in Proc \cup {None}, Switch(c, q)
      PROVE  CacheInv'
  <2>1. UNCHANGED <<machine, mem, missed, pc, args>>
    BY <1>2 DEF Switch, calls, ghosts
  <2>1a. \A s, a : Updating(s, a) => Updating(s, a)'
    BY <2>1 DEF Updating, Written
  <2>2. CASE LoadCr3(c, q, q)
    BY <2>1, <2>1a, <2>2, CacheLoad DEF WinInv, Tag, Untagged
  <2>3. CASE UNCHANGED <<cr3, tlb>>
    BY <2>1, <2>1a, <2>3, CacheStable DEF WinInv
  <2> QED  BY <1>2, <2>2, <2>3 DEF Switch
<1>3. ASSUME NEW p \in Proc, Exit(p) PROVE CacheInv'
  <2>1. UNCHANGED <<machine, cr3, tlb, mem>> /\ missed \subseteq missed'
    BY <1>3 DEF Exit, cpus
  <2>2. \A q \in Proc \ {p} : pc'[q] = pc[q] /\ args'[q] = args[q]
    BY <1>3 DEF Exit, WinInv, TypeOK
  <2>3. pc[p] = "flush" => \A c \in Cpu, g \in Tag : <<c, g, args[p].addr>> \in missed'
    BY <1>3 DEF Exit
  <2>4. \A r \in Root \cup {None}, a \in Addr : Updating(r, a) =>
          \/ Updating(r, a)'
          \/ \A c \in Cpu, g \in Tag : <<c, g, a>> \in missed'
    BY <2>2, <2>3 DEF Updating, Written
  <2> QED  BY <2>1, <2>4, CacheStable DEF WinInv
<1>4. ASSUME NEW p \in Proc, NEW r \in Root, NEW g \in Page \cup {None},
             WritePage(p, r, [a \in Addr |-> g])
      PROVE  CacheInv'
  <2>1. UNCHANGED <<machine, cr3, tlb, pc, args>> /\ missed \subseteq missed'
    BY <1>4 DEF WritePage, cpus, calls
  <2>2. \A s \in Root \ {r} : mem'[s] = mem[s]
    BY <1>4 DEF WritePage, WinInv, TypeOK
  <2>3. \A s, a : Updating(s, a) => Updating(s, a)'
    BY <2>1 DEF Updating, Written
  <2>4. ASSUME NEW c \in Cpu, NEW h \in Tag, NEW a \in Addr, RootOf(c, h) = r
        PROVE  Coherent(c, h, r, a) => Coherent(c, h, r, a)'
    <3>1. CASE r \in machine.reachable
      <4>1. mem'[r][a] = g
        BY <1>4, <3>1 DEF WritePage, WinInv, TypeOK
      <4>2. tlb[c][h][a] \notin {None, g} => <<c, h, a>> \in missed'
        BY <1>4, <2>4, <3>1 DEF WritePage
      <4> QED  BY <2>1, <4>1, <4>2 DEF Coherent
    <3>2. CASE r \notin machine.reachable
      BY <1>4, <2>1, <2>3, <3>2 DEF WritePage, Coherent
    <3> QED  BY <3>1, <3>2
  <2>5. ASSUME NEW c \in Cpu, NEW h \in Tag, NEW a \in Addr, NEW s \in Root,
               s = RootOf(c, h), Coherent(c, h, s, a)
        PROVE  Coherent(c, h, s, a)'
    <3>1. CASE s = r
      BY <2>4, <2>5, <3>1
    <3>2. CASE s # r
      BY <2>1, <2>2, <2>3, <2>5, <3>2 DEF Coherent
    <3> QED  BY <3>1, <3>2
  <2>6. \A c \in Cpu : cr3[c].root \in Root \cup {None}
    BY DEF WinInv, TypeOK
  <2>7. \A c \in Cpu, a \in Addr, h \in Proc : Coherent(c, h, h, a)'
    BY <2>5 DEF CacheInv, WinInv, RootOf, Root, Tag, Untagged
  <2>8. \A c \in Cpu, a \in Addr : cr3[c].tag = Untagged /\ cr3[c].root # None =>
          Coherent(c, Untagged, cr3[c].root, a)'
    <3> SUFFICES ASSUME NEW c \in Cpu, NEW a \in Addr,
                        cr3[c].tag = Untagged, cr3[c].root # None
                 PROVE  Coherent(c, Untagged, cr3[c].root, a)'
      OBVIOUS
    <3>1. cr3[c].root = RootOf(c, Untagged) /\ cr3[c].root \in Root /\ Untagged \in Tag
      BY <2>6 DEF RootOf, Tag
    <3>2. Coherent(c, Untagged, cr3[c].root, a)
      BY DEF CacheInv, WinInv
    <3>3. PICK s \in Root : s = cr3[c].root
      BY <3>1
    <3>4. Coherent(c, Untagged, s, a)'
      BY <2>5, <3>1, <3>2, <3>3
    <3>5. cr3[c].root' = s
      BY <2>1, <3>3
    <3> QED  BY <2>1, <3>3, <3>4, <3>5 DEF Coherent
  <2> QED  BY <2>1, <2>7, <2>8 DEF CacheInv, WinInv
<1>5. CASE UNCHANGED <<machine, cr3, tlb, mem, missed, pc, args>>
  BY <1>5, CacheStable DEF WinInv, Updating, Written
<1>6. ASSUME NEW p \in Proc, OpenDevice(p) \/ SetPat(p) \/ CloseDevice(p)
      PROVE  UNCHANGED <<machine, cr3, tlb, mem, missed, pc, args>>
  BY <1>6 DEF OpenDevice, SetPat, CloseDevice, cpus, calls, ghosts
<1>7. ASSUME \/ CreateDevice \/ Dispatchable \/ UnloadLink \/ UnloadDevice
             \/ \E ok \in BOOLEAN : CreateLink(ok)
      PROVE  UNCHANGED <<machine, cr3, tlb, mem, missed, pc, args>>
  BY <1>7 DEF CreateDevice, Dispatchable, UnloadLink, UnloadDevice, CreateLink,
              cpus, calls, ghosts
<1>8. CASE Begin
  BY <1>1, <1>4, <1>5, <1>6, <1>7, <1>8, CacheBeforeFlush DEF Begin
<1>9. CASE Step
  BY <1>2, <1>3, <1>5, <1>6, <1>7, <1>9, CacheBeforeFlush, CacheWrite, CacheFlush,
     CacheFill DEF Step
<1>10. CASE UNCHANGED vars
  BY <1>5, <1>10 DEF vars, cpus, calls, ghosts
<1> QED  BY <1>8, <1>9, <1>10 DEF Next

-----------------------------------------------------------------------------
(* Theorems                                                                *)

LEMMA WinInvariant == Spec => []WinInv
<1>1. Init => WinInv
  <2> SUFFICES ASSUME Init PROVE WinInv
    OBVIOUS
  <2> USE WinAssumption DEF Untagged
  <2>0. [a \in Addr |-> CHOOSE g \in Page : TRUE] \in Table
    <3>1. (CHOOSE g \in Page : TRUE) \in Page
      OBVIOUS
    <3> QED  BY <3>1 DEF Table
  <2>1. /\ mem \in [Root -> Table]
        /\ tlb \in [Cpu -> [Tag -> Table]]
    BY <2>0, EmptyType DEF Init
  <2>2. TypeOK
    <3>1. args \in [Proc -> Arguments]
      BY NoArgsType DEF Init
    <3>2. cr3 \in [Cpu -> [root : Root \cup {None}, tag : Tag]]
      BY DEF Init, Tag
    <3>3. \A c, d \in Cpu : run[c] = run[d] /\ run[c] # None => c = d
      BY DEF Init
    <3>4. /\ run \in [Cpu -> alive \cup {None}]
          /\ paging_root \in [Proc -> Root \cup {None}]
          /\ handle \subseteq alive /\ alive \subseteq Proc
      BY DEF Init
    <3>5. /\ pat \in [Cpu -> BOOLEAN]
          /\ pc \in [Proc -> {"user", "root", "walk", "again", "write", "flush",
                           "flush_again"}]
      BY DEF Init
    <3>6. /\ driver \in {"absent", "created", "linked", "loaded", "unlinked"}
          /\ device \in BOOLEAN /\ link \in BOOLEAN
      BY DEF Init
    <3>7. /\ machine \in Machines /\ done \in 0..MaxCalls
          /\ missed \subseteq Cpu \X Tag \X Addr
          /\ chosen \in [Proc -> SUBSET Root]
      BY DEF Init
    <3> QED  BY <2>1, <3>1, <3>2, <3>3, <3>4, <3>5, <3>6, <3>7 DEF TypeOK
  <2>3. \A c \in Cpu, g \in Tag, a \in Addr : tlb[c][g][a] = None
    BY DEF Init, Empty
  <2>4. CacheInv
    BY <2>3 DEF Init, CacheInv, Coherent, Tag
  <2> QED  BY <2>2, <2>4 DEF Init, WinInv, RunsOnOwnTables
<1>2. WinInv /\ [Next]_vars => WinInv'
  BY TypeInductive, RunsInductive, CacheInductive DEF WinInv
<1> QED  BY <1>1, <1>2, PTL DEF Spec

\* The driver, the programs and the CPUs keep to their types.
THEOREM WinTypeCorrect == Spec => []TypeOK
BY WinInvariant, PTL DEF WinInv

\* A CPU never runs a process on tables that another process has asked for, nor a
\* caller on those of the process its handler has attached to, whichever process
\* SET_CR3 and GET_CR3 name and wherever the scheduler has moved the two.
THEOREM WinRunsOnOwnTables == Spec => []RunsOnOwnTables
BY WinInvariant, PTL DEF WinInv

\* No CPU goes on with a page that ptedit_update has replaced and flushed, except
\* with tags on a CPU that ran something else when the flush came: for any number
\* of CPUs, of processes that edit each other, and of addresses.
THEOREM WinCoherent == Spec => []WinTlbCoherent
<1>1. WinInv => WinTlbCoherent
  <2> SUFFICES ASSUME WinInv, NEW c \in Cpu, NEW a \in Addr, run[c] # None
               PROVE  Coherent(c, cr3[c].tag, cr3[c].root, a)
    BY DEF WinTlbCoherent, Coherent
  <2>1. cr3[c].tag \in Tag /\ cr3[c].root # None
    <3>1. run[c] \in Proc /\ chosen[run[c]] \subseteq Root
      BY DEF WinInv, TypeOK
    <3>2. cr3[c].root \in Root
      BY <3>1 DEF WinInv, RunsOnOwnTables, Root
    <3> QED  BY <3>2, WinAssumption DEF WinInv, TypeOK, Root
  <2>2. CASE cr3[c].tag = Untagged
    BY <2>1, <2>2 DEF WinInv, CacheInv
  <2>3. CASE cr3[c].tag \in Proc
    BY <2>3 DEF WinInv, CacheInv
  <2> QED  BY <2>1, <2>2, <2>3 DEF Tag
<1> QED  BY <1>1, WinInvariant, PTL

\* With one client, AppliedInv is inductive: nobody else writes the entry between
\* the read and the flush.
LEMMA AppliedInductive ==
  ASSUME \A p, q \in Client : p = q, WinInv, AppliedInv, [Next]_vars
  PROVE  AppliedInv'
<1> USE WinAssumption
<1>1. CASE UNCHANGED <<machine, mem, pc, args>> /\ handle' \subseteq Client
  BY <1>1 DEF AppliedInv
<1>2. ASSUME NEW p \in Proc, NEW q \in Proc \cup {None}, NEW a \in Addr,
             NEW new \in Page, NEW top \in BOOLEAN, UpdateCall(p, q, a, new, top)
      PROVE  AppliedInv'
  <2>1. /\ UNCHANGED <<machine, handle, mem>> /\ pc'[p] = "root"
        /\ \A o \in Proc \ {p} : pc'[o] = pc[o] /\ args'[o] = args[o]
    BY <1>2 DEF UpdateCall, Goto, files, WinInv, TypeOK
  <2> QED  BY <2>1 DEF AppliedInv
<1>3. ASSUME NEW p \in Proc, UpdateRoot(p) PROVE AppliedInv'
  <2>1. UNCHANGED <<machine, handle, mem>>
    BY <1>3 DEF UpdateRoot, files
  <2>2. \A o \in Proc \ {p} : pc'[o] = pc[o] /\ args'[o] = args[o]
    BY <1>3 DEF UpdateRoot, Goto, WinInv, TypeOK
  <2>3. pc'[p] \in {"again", "walk"}
    BY <1>3 DEF UpdateRoot, Goto, WinInv, TypeOK
  <2> QED  BY <2>1, <2>2, <2>3 DEF AppliedInv
<1>4. ASSUME NEW p \in Proc, UpdateWalk(p) PROVE AppliedInv'
  <2>1. UNCHANGED <<machine, handle, mem>> /\ pc'[p] = "again"
    BY <1>4 DEF UpdateWalk, Goto, files, WinInv, TypeOK
  <2>2. \A o \in Proc \ {p} : pc'[o] = pc[o] /\ args'[o] = args[o]
    BY <1>4 DEF UpdateWalk, Goto, WinInv, TypeOK
  <2> QED  BY <2>1, <2>2 DEF AppliedInv
<1>4a. ASSUME NEW p \in Proc, UpdateAgain(p) PROVE AppliedInv'
  <2>1. UNCHANGED <<machine, handle, mem>>
    BY <1>4a DEF UpdateAgain, files
  <2>2. \A o \in Proc \ {p} : pc'[o] = pc[o] /\ args'[o] = args[o]
    BY <1>4a DEF UpdateAgain, Goto, WinInv, TypeOK
  <2>3. args'[p].again = PagingRoot(p) /\ args'[p].root = args[p].root
    BY <1>4a DEF UpdateAgain, WinInv, TypeOK, Arguments
  <2>4. pc'[p] = "write" \/ args'[p].again = None \/ args'[p].root = None
    BY <1>4a, <2>3 DEF UpdateAgain, Goto, WinInv, TypeOK
  <2> QED  BY <2>1, <2>2, <2>4 DEF AppliedInv
<1>5. ASSUME NEW p \in Proc, UpdateWrite(p) PROVE AppliedInv'
  <2>1. UNCHANGED <<machine, handle, args>>
    BY <1>5 DEF UpdateWrite, files
  <2>2. p \in Client
    BY <1>5 DEF UpdateWrite, At, AppliedInv
  <2>3. Written(p) \in machine.reachable => Written(p) \in Root
    BY DEF WinInv, TypeOK, Machine
  <2>4. args[p] \in Arguments
    BY DEF WinInv, TypeOK
  <2>5. \/ mem'[Written(p)][args[p].addr] = args[p].new
        \/ Written(p) \notin machine.reachable
    BY <1>5, <2>3, <2>4 DEF UpdateWrite, WinInv, TypeOK, Table, Arguments
  <2>6. Written(p) = args[p].root \/ (args[p].top /\ args[p].again # args[p].root)
    BY <2>4 DEF Written, Arguments
  <2> QED  BY <2>1, <2>2, <2>5, <2>6 DEF AppliedInv
<1>6. ASSUME NEW p \in Proc, UpdateFlush(p) PROVE AppliedInv'
  <2>1. UNCHANGED <<machine, handle, mem>>
    BY <1>6 DEF UpdateFlush, files
  <2>2. \A o \in Proc \ {p} : pc'[o] = pc[o] /\ args'[o] = args[o]
    BY <1>6 DEF UpdateFlush, Goto, WinInv, TypeOK
  <2>3. \/ pc[p] = "flush" /\ args'[p] = args[p]
        \/ pc'[p] = "user"
    BY <1>6 DEF UpdateFlush, Goto, WinInv, TypeOK
  <2> QED  BY <2>1, <2>2, <2>3 DEF AppliedInv
<1>7. ASSUME NEW p \in Proc, Exit(p) PROVE AppliedInv'
  <2>1. UNCHANGED <<machine, mem>> /\ handle' \subseteq handle /\ pc'[p] = "user"
    BY <1>7 DEF Exit, WinInv, TypeOK
  <2>2. \A o \in Proc \ {p} : pc'[o] = pc[o] /\ args'[o] = args[o]
    BY <1>7 DEF Exit, WinInv, TypeOK
  <2> QED  BY <2>1, <2>2 DEF AppliedInv
<1>8. ASSUME NEW p \in Proc, NEW r \in Root, NEW g \in Page \cup {None},
             WritePage(p, r, [a \in Addr |-> g])
      PROVE  AppliedInv'
  <2>1. p \in Client /\ pc'[p] = "user"
    BY <1>8 DEF WritePage, At, AppliedInv, calls
  <2>2. handle' \subseteq Client
    BY <1>8 DEF WritePage, files, AppliedInv
  <2> QED  BY <2>1, <2>2 DEF AppliedInv
<1>9. ASSUME NEW p \in Proc,
             \/ OpenDevice(p) \/ SetPat(p) \/ CloseDevice(p)
             \/ \E q \in Proc, r \in Root : SetCr3(p, q, r)
      PROVE  AppliedInv'
  <2>1. handle' \subseteq Client
    BY <1>9 DEF OpenDevice, SetPat, CloseDevice, SetCr3, files, AppliedInv
  <2>2. UNCHANGED <<machine, mem, pc, args>>
    BY <1>9 DEF OpenDevice, SetPat, CloseDevice, SetCr3, calls
  <2> QED  BY <1>1, <2>1, <2>2
<1>10. ASSUME \/ CreateDevice \/ Dispatchable \/ UnloadLink \/ UnloadDevice
              \/ \E ok \in BOOLEAN : CreateLink(ok)
              \/ \E c \in Cpu : \/ \E q \in Proc \cup {None} : Switch(c, q)
                                \/ \E a \in Addr : TlbFill(c, a)
       PROVE  AppliedInv'
  <2>1. UNCHANGED <<machine, handle, mem, pc, args>>
    BY <1>10 DEF CreateDevice, Dispatchable, UnloadLink, UnloadDevice, CreateLink,
                 Switch, TlbFill, files, calls
  <2> QED  BY <1>1, <2>1 DEF AppliedInv
<1>11. CASE Begin
  BY <1>2, <1>8, <1>9, <1>10, <1>11 DEF Begin
<1>12. CASE Step
  BY <1>3, <1>4, <1>4a, <1>5, <1>6, <1>7, <1>9, <1>10, <1>12 DEF Step
<1>13. CASE UNCHANGED vars
  BY <1>1, <1>13 DEF vars, files, calls, AppliedInv
<1> QED  BY <1>11, <1>12, <1>13 DEF Next

\* One program's ptedit_update has written what it was given by the time it
\* returns, in the entry that it has found, unless the driver knows no virtual
\* address of the table, the target has exited, or the two lookups of the root
\* differ for an entry of the PGD: however the program switches its own paging
\* root, overwrites page tables and is rescheduled in between.
THEOREM WinApplied ==
  ASSUME \A p, q \in Client : p = q
  PROVE  Spec => []WinUpdateApplied
<1>1. Init => AppliedInv
  BY WinAssumption DEF Init, AppliedInv
<1>2. WinInv /\ AppliedInv /\ [Next]_vars => AppliedInv'
  BY AppliedInductive
<1>3. AppliedInv => WinUpdateApplied
  BY DEF AppliedInv, WinUpdateApplied
<1> QED  BY <1>1, <1>2, <1>3, WinInvariant, PTL DEF Spec
=============================================================================
