------------------------------ MODULE UserEdit ------------------------------
(***************************************************************************)
(* PTEDIT_IMPL_USER_PREAD and PTEDIT_IMPL_USER of ptedit.c: the library    *)
(* walks and edits the page tables itself, one access to physical memory   *)
(* at a time and without any lock, while the hardware uses the same tables *)
(* and the kernel fills them in.  One process on x86 (four levels, the P4D *)
(* folded), in the state after ptedit_init and ptedit_use_implementation.  *)
(*                                                                         *)
(* Two things can go wrong without an error: an access of /proc/umem fails *)
(* (a read is then zero, a write is lost), and the number of a frame above *)
(* 1 TB does not fit the field from which the walk takes it (Walks, cast). *)
(*                                                                         *)
(* Nothing is unmapped while a call is under way: the tables that a walk   *)
(* has found stay tables.  The kernel module's lock is there for that      *)
(* (VmEdit, WritesHitTables); the library has none.                        *)
(***************************************************************************)
EXTENDS Walks

CONSTANTS Task,      \* threads
          Editor,    \* the threads that call ptedit_update
          ptedit_paging_root,  \* what ptedit_get_paging_root(0) returned
          InitMem,   \* the page tables at the start
          SpareTable,\* frames the kernel may use for new page tables
          page,      \* page[a]: the frame the kernel maps at a
          Requests   \* Requests[a]: what a is given, from some levels to entries

ASSUME UserEditAssumption ==
  /\ P4dFolded
  /\ Editor \subseteq Task
  /\ ptedit_paging_root \in Frame
  /\ InitMem \in Memory
  /\ SpareTable \subseteq Frame
  /\ page \in [Addr -> Frame]
  /\ DOMAIN Requests = Addr
  /\ \A a \in Addr : \A r \in Requests[a] : IsPartial(r, Entry)

VARIABLES mem,      \* physical memory, as far as it holds page tables
          free,     \* frames for new page tables
          tlb,      \* tlb[a]: what the CPU has cached
          pc,
          args,     \* the address, and the new entries of an update
          current,  \* what the walk has found: entries of the valid levels
          todo,     \* levels still to be written
          seen,     \* history: how the address was mapped during the walk (none if
                    \* a read has failed)
          unread,   \* history: a read of the call has failed
          unwritten,\* history: levels whose write has failed
          stray     \* history: an update has written to a frame that it took
                    \* for a table of the address

vars == <<mem, free, tlb, pc, args, current, todo, seen, unread, unwritten, stray>>

\* The levels of ptedit_paging_definition, each with the one below it.
Below == [l \in {PGD, PUD, PMD} |-> IF l = PGD THEN PUD ELSE l + 1]

Above == [l \in {PUD, PMD, PTE} |-> IF l = PUD THEN PGD ELSE l - 1]

PC == {"user", "walk", "resolved", "write", "flush", "flush_again"}

NoArgs == [addr |-> CHOOSE a \in Addr : TRUE, new |-> <<>>]

translate(memory, a) == Translate(memory, ptedit_paging_root, a)

\* The types, and: above a level that was read there is a present entry, which
\* is no large page if it is a PMD.
TypeOK ==
  /\ mem \in Memory
  /\ free \subseteq Frame
  /\ tlb \in [Addr -> (Frame \X {PUD, PMD, PTE}) \cup {Fault}]
  /\ pc \in [Task -> PC]
  /\ \A t \in Task : /\ args[t].addr \in Addr
                     /\ args[t].new \in Requests[args[t].addr] \cup {<<>>}
  /\ \A t \in Task :
       /\ DOMAIN current[t] \in {{}, {PGD}, {PGD, PUD}, {PGD, PUD, PMD},
                                 {PGD, PUD, PMD, PTE}}
       /\ \A l \in DOMAIN current[t] :
            /\ current[t][l] \in Entry
            /\ l # PTE /\ Below[l] \in DOMAIN current[t] =>
                 IsPresent(current[t][l]) /\ (l = PMD => current[t][l].kind # "leaf")
       /\ todo[t] \subseteq DOMAIN current[t]
       /\ unread[t] \in BOOLEAN /\ unwritten[t] \subseteq DOMAIN current[t]
  /\ stray \in BOOLEAN

Init ==
  /\ mem = InitMem
  /\ free = SpareTable
  /\ tlb = [a \in Addr |-> Fault]
  /\ pc = [t \in Task |-> "user"]
  /\ args = [t \in Task |-> NoArgs]
  /\ current = [t \in Task |-> <<>>]
  /\ todo = [t \in Task |-> {}]
  /\ seen = [t \in Task |-> {}]
  /\ unread = [t \in Task |-> FALSE]
  /\ unwritten = [t \in Task |-> {}]
  /\ stray = FALSE

-----------------------------------------------------------------------------
(* Helpers.                                                                *)

Goto(t, label) == pc' = [pc EXCEPT ![t] = label]

\* The place of the entry of one level: the index of the address in the table
\* that the cast of the entry above names.
EntrySlot(t, l) ==
  <<IF l = PGD THEN ptedit_paging_root ELSE cast[current[t][Above[l]].to],
    index[args[t].addr][l]>>

\* The cast has kept the frames of all tables on the way to level l.
Reaches(t, l) ==
  \A k \in DOMAIN current[t] \cap (PGD..(l - 1)) :
    current[t][k].kind = "table" => cast[current[t][k].to] = current[t][k].to

\* The level that the walk reads next.
NextLevel(t) ==
  CHOOSE l \in {PGD} \cup DOMAIN Above :
    l \notin DOMAIN current[t] /\ (l = PGD \/ Above[l] \in DOMAIN current[t])

\* Memory becomes after: the walks under way may see it.
Store(after) ==
  /\ mem' = after
  /\ seen' = [t \in Task |->
                IF pc[t] = "walk"
                THEN seen[t] \cup {translate(after, args[t].addr)}
                ELSE seen[t]]

-----------------------------------------------------------------------------
(* ptedit_resolve_user_ext                                                 *)

\* A call of ptedit_resolve, or of ptedit_update with the entries in new.
Call(t, a, new) ==
  /\ pc[t] = "user"
  /\ new = <<>> \/ t \in Editor
  /\ args' = [args EXCEPT ![t] = [addr |-> a, new |-> new]]
  /\ current' = [current EXCEPT ![t] = <<>>]
  /\ seen' = [seen EXCEPT ![t] = {translate(mem, a)}]
  /\ Goto(t, "walk")
  /\ UNCHANGED <<mem, free, tlb, todo, unread, unwritten, stray>>

\* Mutant of LastLevel: the size bit of the PMD is not looked at.
LastLevelNoSize(l, e) == ~IsPresent(e) \/ l = PTE

\* Mutant of LastLevel: the walk goes on below an entry that is not present.
LastLevelNoPresent(l, e) == l = PTE \/ (l = PMD /\ e.kind = "leaf")

\* The walk ends at an entry that is not present, at a large page (only the PMD
\* is asked for its size) or at the PTE.
LastLevel(l, e) == ~IsPresent(e) \/ l = PTE \/ (l = PMD /\ e.kind = "leaf")

\* deref: one entry is read, which is zero if pread fails.  It is reported as
\* valid before it is asked whether it is present, except for the PGD.
Deref(t, ok) ==
  /\ pc[t] = "walk"
  /\ LET l == NextLevel(t)
         e == IF ok THEN Read(mem, EntrySlot(t, l)) ELSE None
         found == [k \in DOMAIN current[t] \cup {l} |->
                     IF k = l THEN e ELSE current[t][k]]
     IN /\ current' = [current EXCEPT ![t] =
                         IF l = PGD /\ ~IsPresent(e) THEN @ ELSE found]
        /\ IF ~LastLevel(l, e)
           THEN UNCHANGED <<pc, todo>>
           ELSE /\ Goto(t, IF args[t].new = <<>> THEN "resolved" ELSE "write")
                /\ todo' = [todo EXCEPT ![t] =
                              DOMAIN current'[t] \cap DOMAIN args[t].new]
  /\ unread' = [unread EXCEPT ![t] = ~ok]
  /\ seen' = IF ok THEN seen ELSE [seen EXCEPT ![t] = {}]
  /\ UNCHANGED <<mem, free, tlb, args, unwritten, stray>>

\* The thread goes on with what it was told.
Return(t) ==
  /\ pc[t] \in {"resolved", "flush_again"}
  /\ Goto(t, "user")
  /\ args' = [args EXCEPT ![t] = NoArgs]
  /\ current' = [current EXCEPT ![t] = <<>>]
  /\ seen' = [seen EXCEPT ![t] = {}]
  /\ unread' = [unread EXCEPT ![t] = FALSE]
  /\ unwritten' = [unwritten EXCEPT ![t] = {}]
  /\ IF pc[t] = "flush_again" THEN tlb' = [tlb EXCEPT ![args[t].addr] = Fault]
     ELSE UNCHANGED tlb
  /\ UNCHANGED <<mem, free, todo, stray>>

-----------------------------------------------------------------------------
(* ptedit_update_user_ext                                                  *)

\* Mutant of WriteSlot: the tables are taken from the new entries.
WriteSlotNew(t, l) ==
  <<IF l = PGD THEN ptedit_paging_root
    ELSE IF Above[l] \in DOMAIN args[t].new THEN cast[args[t].new[Above[l]].to]
    ELSE cast[current[t][Above[l]].to],
    index[args[t].addr][l]>>

\* Where an entry is written: the tables are those that the walk has found.
WriteSlot(t, l) == EntrySlot(t, l)

\* pset: the entries are written from the PTE up to the PGD.
UpdateWrite(t) ==
  /\ pc[t] = "write"
  /\ todo[t] # {}
  /\ LET l == CHOOSE k \in todo[t] : \A j \in todo[t] : j <= k
     IN /\ Store(Write(mem, WriteSlot(t, l), args[t].new[l]))
        /\ todo' = [todo EXCEPT ![t] = @ \ {l}]
        /\ stray' = (stray \/ ~Reaches(t, l))
  /\ UNCHANGED <<free, tlb, pc, args, current, unread, unwritten>>

\* pwrite fails, and the update goes on.
UpdateLost(t) ==
  /\ pc[t] = "write"
  /\ todo[t] # {}
  /\ LET l == CHOOSE k \in todo[t] : \A j \in todo[t] : j <= k
     IN /\ todo' = [todo EXCEPT ![t] = @ \ {l}]
        /\ unwritten' = [unwritten EXCEPT ![t] = @ \cup {l}]
  /\ UNCHANGED <<mem, free, tlb, pc, args, current, seen, unread, stray>>

UpdateWritten(t) ==
  /\ pc[t] = "write"
  /\ todo[t] = {}
  /\ Goto(t, "flush")
  /\ UNCHANGED <<mem, free, tlb, args, current, todo, seen, unread, unwritten, stray>>

\* Mutant of UpdateFlush: the TLB is not invalidated.
UpdateFlushNone(t) ==
  /\ pc[t] = "flush"
  /\ Goto(t, "resolved")
  /\ UNCHANGED <<mem, free, tlb, args, current, todo, seen, unread, unwritten, stray>>

\* ptedit_invalidate_tlb_pid(pid, address), and once more in the wrappers
\* ptedit_update_user and ptedit_update_user_map (see Return).
UpdateFlush(t) ==
  /\ pc[t] = "flush"
  /\ tlb' = [tlb EXCEPT ![args[t].addr] = Fault]
  /\ Goto(t, "flush_again")
  /\ UNCHANGED <<mem, free, args, current, todo, seen, unread, unwritten, stray>>

-----------------------------------------------------------------------------
(* The hardware and the kernel (external).                                 *)

TlbFill(a) ==
  /\ translate(mem, a) \notin {Fault, tlb[a]}
  /\ tlb' = [tlb EXCEPT ![a] = translate(mem, a)]
  /\ UNCHANGED <<mem, free, pc, args, current, todo, seen, unread, unwritten, stray>>

\* The kernel maps a page where there is none, with a new page table if needed.
PageFault(a) ==
  /\ LET slots == resolve_vm(mem, ptedit_paging_root, a)
     IN \/ /\ PTE \in DOMAIN slots
           /\ Read(mem, slots[PMD]).kind = "table"
           /\ Read(mem, slots[PTE]) = None
           /\ Store(Write(mem, slots[PTE], Leaf(page[a])))
           /\ UNCHANGED free
        \/ /\ PUD \in DOMAIN slots /\ PMD \notin DOMAIN slots
           /\ Read(mem, slots[PUD]).kind = "table"
           /\ \E f \in free :
                /\ free' = free \ {f}
                /\ Store([Write(mem, Slots(mem, ptedit_paging_root, a)[PMD], Table(f))
                            EXCEPT ![f] = [i \in Index |->
                              IF i = index[a][PTE] THEN Leaf(page[a]) ELSE None]])
  /\ UNCHANGED <<tlb, pc, args, current, todo, unread, unwritten, stray>>

-----------------------------------------------------------------------------

Next ==
  \/ \E t \in Task :
       \/ \E a \in Addr : \E new \in Requests[a] \cup {<<>>} : Call(t, a, new)
       \/ \E ok \in BOOLEAN : Deref(t, ok)
       \/ Return(t)
       \/ UpdateWrite(t) \/ UpdateLost(t) \/ UpdateWritten(t) \/ UpdateFlush(t)
  \/ \E a \in Addr : TlbFill(a) \/ PageFault(a)

Spec == Init /\ [][Next]_vars

-----------------------------------------------------------------------------
(* Properties.                                                             *)

\* The page that a caller reads off the entries it is given.
Found(t) ==
  LET e == current[t]
  IN CASE PTE \in DOMAIN e -> IF IsPresent(e[PTE]) THEN <<e[PTE].to, PTE>> ELSE Fault
       [] PTE \notin DOMAIN e /\ PMD \in DOMAIN e ->
            IF e[PMD].kind = "leaf" THEN <<e[PMD].to, PMD>> ELSE Fault
       [] OTHER -> Fault

\* ptedit_resolve tells how the hardware maps the address: although the levels
\* are read one after the other while another thread edits them and the kernel
\* fills them in, what they say together was the mapping at some moment of the
\* call.  It does not after a failed read, which looks like an unmapped page, nor
\* if a page table lies above 1 TB.
ResolveIsMapping ==
  ~stray => \A t \in Task :
    pc[t] \notin {"user", "walk"} /\ ~unread[t] /\ Reaches(t, PTE) => Found(t) \in seen[t]

\* When ptedit_update returns, the CPU does not go on with the mapping it has
\* replaced (the pages share no entry here; see VmEdit for pages that do), unless
\* an update has written elsewhere, through a page table above 1 TB.
UserTlbCoherent ==
  ~stray => \A a \in Addr :
    \/ tlb[a] \in {Fault, translate(mem, a)}
    \/ \E t \in Task : pc[t] \in {"write", "flush"} /\ args[t].addr = a

\* When ptedit_update returns, the entries that the caller asked for and that
\* were found hold what the caller gave, in the tables of the address, although
\* page faults fill entries in at the same time (for one editor; what was made
\* empty may have been filled in again).  Only the levels whose pwrite has failed
\* do not, of which nobody is told.
UserUpdateApplied ==
  ~stray => \A t \in Task : pc[t] = "flush" =>
    \A l \in (DOMAIN current[t] \cap DOMAIN args[t].new) \ unwritten[t] :
      args[t].new[l] # None =>
        Reaches(t, l) /\ Read(mem, EntrySlot(t, l)) = args[t].new[l]

\* What performance.c, virt2phys.c and memmap.c rely on, in whatever state the
\* edits of others have left the tables (without 1 GB pages, which the library
\* and the demos do not know, and when all reads succeed): the kernel's walk and
\* that of the library agree where both have an entry, if no table is above 1 TB;
\* the physical address of a mapped page is the one that the hardware goes to; and
\* the list is exactly what is mapped.
WalksAgree ==
  ~stray =>
    LET listed == memmap(mem, ptedit_paging_root)
    IN \A a \in Addr :
         LET entries == EntriesKernel(mem, ptedit_paging_root, a)
             mapped == translate(mem, a)
             path == <<index[a][PGD], index[a][PUD], index[a][PMD]>>
         IN /\ InReach(mem, ptedit_paging_root, a) =>
                 is_same(entries, EntriesUser(mem, ptedit_paging_root, a))
            /\ mapped # Fault => virt2phys(entries) = mapped
            /\ path \in listed <=> mapped[2] = PMD
            /\ Append(path, index[a][PTE]) \in listed <=>
                 mapped # Fault /\ mapped[2] = PTE

-----------------------------------------------------------------------------
(* What makes the page tables of UserEdit private to their pages: level[f] *)
(* is the level of the table in the frame f, home[f] the PMD that leads to *)
(* the page table f.                                                       *)

PmdSlot(a) == Slots(InitMem, ptedit_paging_root, a)[PMD]

\* What the entry e of level l may be: no large page above the PMD, and as PTE
\* nothing but a page.
Fits(e, l, level) ==
  /\ l # PTE /\ LeadsOn(e) => level[e.to] = LevelBelow(l)
  /\ l \in {PGD, PUD} => e.kind # "leaf"
  /\ l = PTE => e.kind # "table"

\* Memory at the start has no 1 GB pages; every page has a PMD of its own and
\* every page table one home, which is used for no other; callers change PMDs
\* and PTEs, and PMDs only to a large page or to a page table at home there.
Private(level, home) ==
  /\ level \in [Frame -> Level] /\ home \in [Frame -> Slot]
  /\ level[ptedit_paging_root] = PGD
  /\ \A f \in SpareTable : level[f] = PTE
  /\ \A f \in Frame, i \in Index : Fits(InitMem[f][i], level[f], level)
  /\ \A a, b \in Addr : PmdSlot(a) = PmdSlot(b) /\ PmdSlot(a) \in Slot => a = b
  /\ \A s \in Slot : level[s[1]] = PMD /\ LeadsOn(Read(InitMem, s)) =>
       home[Read(InitMem, s).to] = s /\ Read(InitMem, s).to \notin SpareTable
  /\ \A a \in Addr : \A r \in Requests[a] :
       /\ DOMAIN r \subseteq {PMD, PTE}
       /\ \A l \in DOMAIN r : Fits(r[l], l, level)
       /\ PMD \in DOMAIN r /\ LeadsOn(r[PMD]) =>
            home[r[PMD].to] = PmdSlot(a) /\ r[PMD].to \notin SpareTable

=============================================================================
