------------------------------- MODULE Demos -------------------------------
(***************************************************************************)
(* The programs that come with the library: example.c, and the demos that  *)
(* edit page tables.  A program is a sequence of calls, the library (in    *)
(* the single header that they include) gives each call its meaning on     *)
(* page-table entries, pages and TLB, and in between the kernel moves      *)
(* pages, clears accessed bits, and the CPU fills its TLB.  What the       *)
(* programs print is left out, what they test is checked.                  *)
(*                                                                         *)
(* Calls are atomic here; their steps are in VmEdit and EntryEdit.  All    *)
(* pages are below one page table.                                         *)
(***************************************************************************)
EXTENDS Naturals, Sequences

CONSTANTS Frame,     \* page frames for the pages of the programs
          PT,        \* the frame of their page table
          None,
          MaxMoves   \* bound on the interferences of the kernel

\* The pages, under the names of the variables that hold their address;
\* child_fn is the page of nx_function in the child.
VPage == {"address", "target", "secret", "pt", "new_addr", "huge_page", "fn",
          "child_fn"}

Bit == {"accessed", "nx", "uc"}

\* Letters that a page is filled with; a page table, or a freed page.
Letter == {"A", "B", "C", "S", "?"}

\* A frame number out of date, an accessed bit that has changed, a failed pread or
\* pwrite of /proc/umem, a process killed, an entry that is not there yet.
Excuse == {"moved", "aged", "unread", "unwritten", "killed", "late"}

Entry == [pfn : Frame \cup {PT}, bits : SUBSET Bit]

ASSUME DemosAssumption ==
  /\ PT \notin Frame /\ None \notin Frame \cup {PT} \cup Entry
  /\ MaxMoves \in Nat

\* The variables of type ptedit_entry_t, or for a page-frame number.
Register == {"vm", "target_entry", "secret_entry", "pt_entry", "old", "pmd"}

-----------------------------------------------------------------------------
(* Calls of the library and of the kernel, as the programs write them.     *)

ptedit_init == [op |-> "init"]
ptedit_cleanup == [op |-> "cleanup"]
mmap(v, c) == [op |-> "mmap", v |-> v, c |-> c]
mmap_huge(v, e) == [op |-> "mmap_huge", v |-> v, e |-> e]
mprotect_read(v) == [op |-> "pte_bit", v |-> v, b |-> "nx", on |-> TRUE]
munmap(v) == [op |-> "munmap", v |-> v]
fork == [op |-> "fork"]
ptedit_resolve(r, v) == [op |-> "resolve", r |-> r, v |-> v]
\* The same, going on at label e when there is no PGD entry.
resolve_or(r, v, e) == [op |-> "resolve_or", r |-> r, v |-> v, e |-> e]
ptedit_update(v, r) == [op |-> "update", v |-> v, r |-> r]
copy(r, s) == [op |-> "copy", r |-> r, s |-> s]
ptedit_set_pfn(r, s) == [op |-> "set_pfn", r |-> r, s |-> s]
ptedit_pte_set_pfn(v, r) == [op |-> "pte_set_pfn", v |-> v, r |-> r]
ptedit_pte_set_bit(v, b) == [op |-> "pte_bit", v |-> v, b |-> b, on |-> TRUE]
ptedit_pte_clear_bit(v, b) == [op |-> "pte_bit", v |-> v, b |-> b, on |-> FALSE]
ptedit_pmap(v, r) == [op |-> "pmap", v |-> v, r |-> r]
ptedit_write_physical_page(r, c) == [op |-> "write_page", r |-> r, c |-> c]
ptedit_invalidate_tlb(v) == [op |-> "invalidate", v |-> v]
ptedit_full_serializing_barrier == [op |-> "barrier"]
\* ptedit_find_first_mt, going on at label e when there is none, and
\* ptedit_apply_mt.
find_mt(m, e) == [op |-> "find_mt", m |-> m, e |-> e]
ptedit_apply_mt(r, m) == [op |-> "apply_mt", r |-> r, m |-> m]
\* *mapped_entry of page v, through the page w.
store_pfn(w, v, r) == [op |-> "store_pfn", w |-> w, v |-> v, r |-> r]
store_entry(w, v, r) == [op |-> "store_entry", w |-> w, v |-> v, r |-> r]
\* The tests: a letter read, a physical page read, an entry read, a bit asked
\* for (ptedit_pte_get_bit), and a bit as the CPU sees it.
load(v, c) == [op |-> "load", v |-> v, c |-> c]
ptedit_read_physical_page(r, c) == [op |-> "read_page", r |-> r, c |-> c]
load_entry(w, v, r) == [op |-> "load_entry", w |-> w, v |-> v, r |-> r]
ptedit_pte_get_bit(v, b, on) == [op |-> "get_bit", v |-> v, b |-> b, on |-> on]
behaves(v, b, on) == [op |-> "behaves", v |-> v, b |-> b, on |-> on]

-----------------------------------------------------------------------------
(* The programs.                                                           *)

\* Mutant of example: the PFN of address is not reset.
exampleNoReset ==
  << ptedit_init, mmap("address", "A"), mmap("target", "B"),
     ptedit_resolve("vm", "address"), ptedit_resolve("target_entry", "target"),
     ptedit_set_pfn("vm", "target_entry"), ptedit_update("address", "vm"),
     load("address", "B"),
     munmap("address"), munmap("target"), ptedit_cleanup >>

\* 18 is its label "error".
example ==
  << ptedit_init, mmap("address", "A"), mmap("target", "B"),
     resolve_or("vm", "address", 18), load("address", "A"),
     copy("old", "vm"), ptedit_resolve("target_entry", "target"),
     ptedit_set_pfn("vm", "target_entry"), ptedit_update("address", "vm"),
     load("address", "B"),
     ptedit_read_physical_page("old", "A"), ptedit_pmap("new_addr", "old"),
     load("new_addr", "A"),
     ptedit_write_physical_page("target_entry", "C"),
     ptedit_full_serializing_barrier, load("address", "C"),
     ptedit_pte_set_pfn("address", "old"),
     munmap("address"), munmap("target"), ptedit_cleanup >>

map_pt ==
  << mmap("target", "B"), mmap("secret", "S"), ptedit_init,
     ptedit_resolve("secret_entry", "secret"), ptedit_resolve("target_entry", "target"),
     ptedit_pmap("pt", "pmd"), load_entry("pt", "target", "target_entry"),
     store_pfn("pt", "target", "secret_entry"), ptedit_invalidate_tlb("target"),
     load("target", "S"),
     store_entry("pt", "target", "target_entry"), ptedit_cleanup >>

map_pt_manual ==
  << mmap("pt", "A"), mmap("target", "B"), mmap("secret", "S"), ptedit_init,
     ptedit_resolve("secret_entry", "secret"), ptedit_resolve("target_entry", "target"),
     ptedit_resolve("pt_entry", "pt"), copy("old", "pt_entry"),
     ptedit_set_pfn("pt_entry", "pmd"), ptedit_update("pt", "pt_entry"),
     load_entry("pt", "target", "target_entry"),
     store_pfn("pt", "target", "secret_entry"), ptedit_invalidate_tlb("target"),
     load("target", "S"),
     store_entry("pt", "target", "target_entry"),
     ptedit_update("pt", "old"), ptedit_cleanup >>

\* Without a place for a memory type the program goes on at its label "error",
\* and so it does without a huge page.
uncachable ==
  << mmap("pt", "A"), ptedit_init, ptedit_resolve("vm", "pt"),
     find_mt("uc", 21), ptedit_apply_mt("vm", "uc"), ptedit_update("pt", "vm"),
     behaves("pt", "uc", TRUE),
     find_mt("wb", 21), ptedit_apply_mt("vm", "wb"), ptedit_update("pt", "vm"),
     behaves("pt", "uc", FALSE),
     mmap_huge("huge_page", 21), ptedit_resolve("vm", "huge_page"), copy("old", "vm"),
     ptedit_apply_mt("vm", "uc"), ptedit_update("huge_page", "vm"),
     behaves("huge_page", "uc", TRUE), ptedit_update("huge_page", "old"),
     behaves("huge_page", "uc", FALSE), munmap("huge_page"),
     ptedit_cleanup >>

\* The parent; ChildAccess and ChildExec are the child, ordered by sleep only.
nx ==
  << mmap("fn", "A"), mprotect_read("fn"), fork, ptedit_init,
     ptedit_pte_get_bit("child_fn", "nx", TRUE), ptedit_pte_clear_bit("child_fn", "nx"),
     ptedit_pte_get_bit("child_fn", "nx", FALSE), ptedit_pte_get_bit("fn", "nx", TRUE),
     ptedit_cleanup >>

clear_bits ==
  << ptedit_init, mmap("address", "B"), ptedit_resolve("vm", "address"),
     ptedit_pte_clear_bit("address", "accessed"), ptedit_resolve("vm", "address"),
     ptedit_pte_set_bit("address", "accessed"), ptedit_resolve("vm", "address"),
     ptedit_pte_set_bit("address", "accessed"), munmap("address"), ptedit_cleanup >>

Programs == {example, map_pt, map_pt_manual, uncachable, nx, clear_bits}

-----------------------------------------------------------------------------

VARIABLES program, ip,
          reg,     \* the variables of the program
          pte,     \* pte[v]: the entry of page v, or None
          tlb,     \* tlb[v]: the entry that the CPU has cached, or None
          data,    \* data[f]: what is in a frame
          home,    \* home[v]: the frame that the kernel has given to v
          mts,     \* the memory types that some place of the PAT has
          child,   \* the child of nx
          moves,   \* how often the kernel has interfered
          failed,  \* history: the tests that have failed
          excused, \* history: what excuses a failed test or an edit not undone
          zapped   \* history: <<v, its entry when unmapped, its own frame>>

vars == <<program, ip, reg, pte, tlb, data, home, mts, child, moves, failed,
          excused, zapped>>

Ended == Len(program) + 1

\* The values that each variable ranges over.
TypeOK ==
  /\ program \in Programs /\ ip \in 1..Ended
  /\ reg \in [Register -> Entry \cup {None}]
  /\ pte \in [VPage -> Entry \cup {None}]
  /\ tlb \in [VPage -> Entry \cup {None}]
  /\ data \in [Frame -> Letter]
  /\ home \in [VPage -> Frame \cup {None}]
  /\ mts \subseteq {"uc", "wb"}
  /\ child \in {"none", "started", "sleeping", "exited", "crashed"}
  /\ moves \in 0..MaxMoves
  /\ failed \subseteq 1..Ended
  /\ excused \subseteq Excuse
  /\ \A z \in zapped : z \in VPage \X Entry \X Frame

Init ==
  /\ program \in Programs /\ ip = 1
  /\ reg = [r \in Register |-> IF r = "pmd" THEN [pfn |-> PT, bits |-> {}] ELSE None]
  /\ pte = [v \in VPage |-> None] /\ tlb = pte
  /\ data = [f \in Frame |-> "?"]
  /\ home = [v \in VPage |-> None]
  /\ mts \in {{"uc", "wb"}, {"wb"}, {"uc"}}
  /\ child = "none"
  /\ moves = 0 /\ failed = {} /\ excused = {} /\ zapped = {}

-----------------------------------------------------------------------------
(* Helpers.                                                                *)

Op(name) == ip < Ended /\ program[ip].op = name

arg == program[ip]

Goto(label) == ip' = label

\* The frames that are in use.
Used == {home[v] : v \in VPage}

\* An access: the CPU goes by its TLB, or else by the entry, which it caches.
Seen(v) == IF tlb[v] # None THEN tlb[v] ELSE pte[v]

Contents(f) == IF f = PT THEN "?" ELSE data[f]

\* The program goes on after a test.
Test(ok) ==
  /\ failed' = IF ok THEN failed ELSE failed \cup {ip}
  /\ Goto(ip + 1)
  /\ UNCHANGED <<program, reg, pte, tlb, data, home, mts, child, moves, excused,
                 zapped>>

\* The program goes on after a change of entries, with the TLB in cache.
Edit(entries, cache) ==
  /\ pte' = entries /\ tlb' = cache
  /\ Goto(ip + 1)
  /\ UNCHANGED <<program, reg, data, home, mts, child, moves, failed, excused,
                 zapped>>

Remember(r, e) ==
  /\ reg' = [reg EXCEPT ![r] = e]
  /\ Goto(ip + 1)
  /\ UNCHANGED <<program, pte, tlb, data, home, mts, child, moves, failed, excused,
                 zapped>>

\* The program goes on after a call that has done nothing, for a reason.
GoOnWithout(why) ==
  /\ excused' = excused \cup {why}
  /\ Goto(ip + 1)
  /\ UNCHANGED <<program, reg, pte, tlb, data, home, mts, child, moves, zapped>>

\* Mutant of Flushed: the TLB is not invalidated.
FlushedNot(v) == tlb

\* VM_UPDATE and INVALIDATE_TLB flush the page.
Flushed(v) == [tlb EXCEPT ![v] = None]

-----------------------------------------------------------------------------
(* The calls.                                                              *)

\* When ptedit_init fails the program ends.
Initialize(ok) ==
  /\ Op("init")
  /\ Goto(IF ok THEN ip + 1 ELSE Ended)
  /\ UNCHANGED <<program, reg, pte, tlb, data, home, mts, child, moves, failed,
                 excused, zapped>>

\* mmap and memset; MAP_POPULATE for a huge page.
Mmap(f) ==
  /\ Op("mmap") \/ Op("mmap_huge")
  /\ f \notin Used
  /\ home' = [home EXCEPT ![arg.v] = f]
  /\ data' = [data EXCEPT ![f] = IF Op("mmap") THEN arg.c ELSE "?"]
  /\ pte' = [pte EXCEPT ![arg.v] = [pfn |-> f, bits |-> {"accessed"}]]
  /\ Goto(ip + 1)
  /\ UNCHANGED <<program, reg, tlb, mts, child, moves, failed, excused, zapped>>

\* There is no huge page, or (if the device fails) no answer to ptedit_resolve.
GoesToLabel ==
  /\ Op("mmap_huge") \/ Op("resolve_or")
  /\ Goto(arg.e)
  /\ UNCHANGED <<program, reg, pte, tlb, data, home, mts, child, moves, failed,
                 excused, zapped>>

\* The pages of vs are unmapped, and their frames given back; what ptedit_pmap
\* has mapped has no frame of its own.
Zap(vs) ==
  /\ zapped' = zapped \cup
       {<<v, pte[v], home[v]>> : v \in {w \in vs : pte[w] # None /\ home[w] # None}}
  /\ pte' = [v \in VPage |-> IF v \in vs THEN None ELSE pte[v]]
  /\ tlb' = [v \in VPage |-> IF v \in vs THEN None ELSE tlb[v]]

Munmap ==
  /\ Op("munmap")
  /\ Zap({arg.v})
  /\ Goto(ip + 1)
  /\ UNCHANGED <<program, reg, data, home, mts, child, moves, failed, excused>>

\* The program closes the device; nothing is restored.
Cleanup ==
  /\ Op("cleanup")
  /\ Goto(ip + 1)
  /\ UNCHANGED <<program, reg, pte, tlb, data, home, mts, child, moves, failed,
                 excused, zapped>>

\* The process, and its child if it has one, end: everything is unmapped.
Exit ==
  /\ ip = Ended
  /\ \E v \in VPage : pte[v] # None
  /\ child \notin {"started", "sleeping"}
  /\ Zap(VPage)
  /\ UNCHANGED <<program, ip, reg, data, home, mts, child, moves, failed, excused>>

\* The kernel does not copy the entry of a page that it can find in the file.
Fork ==
  /\ Op("fork")
  /\ child' = "started"
  /\ Goto(ip + 1)
  /\ UNCHANGED <<program, reg, pte, tlb, data, home, mts, moves, failed, excused,
                 zapped>>

Resolve ==
  /\ Op("resolve") \/ Op("resolve_or")
  /\ Remember(arg.r, pte[arg.v])

Copy == Op("copy") /\ Remember(arg.r, reg[arg.s])

SetPfn ==
  /\ Op("set_pfn")
  /\ Remember(arg.r, [reg[arg.r] EXCEPT !.pfn = reg[arg.s].pfn])

FindMt ==
  /\ Op("find_mt")
  /\ Goto(IF arg.m \in mts THEN ip + 1 ELSE arg.e)
  /\ UNCHANGED <<program, reg, pte, tlb, data, home, mts, child, moves, failed,
                 excused, zapped>>

ApplyMt ==
  /\ Op("apply_mt")
  /\ Remember(arg.r, [reg[arg.r] EXCEPT !.bits =
                        IF arg.m = "uc" THEN @ \cup {"uc"} ELSE @ \ {"uc"}])

Update ==
  /\ Op("update")
  /\ Edit([pte EXCEPT ![arg.v] = reg[arg.r]], Flushed(arg.v))

PteSetPfn ==
  /\ Op("pte_set_pfn")
  /\ Edit([pte EXCEPT ![arg.v].pfn = reg[arg.r].pfn], Flushed(arg.v))

PteBit ==
  /\ Op("pte_bit") /\ pte[arg.v] # None
  /\ Edit([pte EXCEPT ![arg.v].bits = IF arg.on THEN @ \cup {arg.b} ELSE @ \ {arg.b}],
          Flushed(arg.v))

\* There is no entry yet: ptedit_pte_get_bit returns 0, ptedit_pte_clear_bit
\* returns early.
NoEntry ==
  /\ Op("get_bit") \/ Op("pte_bit")
  /\ pte[arg.v] = None
  /\ failed' = IF Op("get_bit") /\ arg.on THEN failed \cup {ip} ELSE failed
  /\ GoOnWithout("late")

Pmap ==
  /\ Op("pmap")
  /\ Edit([pte EXCEPT ![arg.v] = [pfn |-> reg[arg.r].pfn, bits |-> {}]], tlb)

\* Without /proc/umem, or if mmap fails, the pointer is MAP_FAILED.  The programs do
\* not test it, and are killed when they read through it in their next statement.
PmapFails ==
  /\ Op("pmap")
  /\ excused' = excused \cup {"killed"}
  /\ Goto(Ended)
  /\ UNCHANGED <<program, reg, pte, tlb, data, home, mts, child, moves, failed,
                 zapped>>

InvalidateTlb == Op("invalidate") /\ Edit(pte, Flushed(arg.v))

\* The paging root is read and set again, between fences.
Barrier == Op("barrier") /\ Edit(pte, tlb)

WritePhysicalPage ==
  /\ Op("write_page")
  /\ data' = [data EXCEPT ![reg[arg.r].pfn] = arg.c]
  /\ Goto(ip + 1)
  /\ UNCHANGED <<program, reg, pte, tlb, home, mts, child, moves, failed, excused,
                 zapped>>

\* pwrite fails: the page is not written.
WritePhysicalPageFails ==
  /\ Op("write_page")
  /\ failed' = failed
  /\ GoOnWithout("unwritten")

\* A store to *mapped_entry.  It reaches the entry if the page of the pointer is
\* the page table, and the TLB is not told.
StoreEntry ==
  /\ Op("store_entry") \/ Op("store_pfn")
  /\ Seen(arg.w).pfn = PT
  /\ Edit([pte EXCEPT ![arg.v] =
             IF Op("store_pfn") THEN [@ EXCEPT !.pfn = reg[arg.r].pfn] ELSE reg[arg.r]],
          tlb)

Load == Op("load") /\ Test(Contents(Seen(arg.v).pfn) = arg.c)

ReadPhysicalPage == Op("read_page") /\ Test(Contents(reg[arg.r].pfn) = arg.c)

\* pread fails: what the test finds in the buffer is what was there.
ReadPhysicalPageFails ==
  /\ Op("read_page")
  /\ failed' \in {failed, failed \cup {ip}}
  /\ GoOnWithout("unread")

LoadEntry ==
  /\ Op("load_entry")
  /\ Test(Seen(arg.w).pfn = PT /\ pte[arg.v] = reg[arg.r])

PteGetBit ==
  /\ Op("get_bit") /\ pte[arg.v] # None
  /\ Test(arg.b \in pte[arg.v].bits <=> arg.on)

Behaves == Op("behaves") /\ Test(arg.b \in Seen(arg.v).bits <=> arg.on)

\* The child of nx reads the function, and gets an entry of its own.
ChildAccess ==
  /\ child = "started"
  /\ child' = "sleeping"
  /\ pte' = [pte EXCEPT !["child_fn"] = [pfn |-> home["fn"], bits |-> {"accessed", "nx"}]]
  /\ home' = [home EXCEPT !["child_fn"] = home["fn"]]
  /\ UNCHANGED <<program, ip, reg, tlb, data, mts, moves, failed, excused, zapped>>

\* The child of nx calls the function.  Nothing but sleep orders this after the
\* edit; if the bit is gone the child must get through.
ChildExec ==
  /\ child = "sleeping"
  /\ child' = IF "nx" \in Seen("child_fn").bits THEN "crashed" ELSE "exited"
  /\ failed' = IF child' = "crashed" /\ "nx" \notin pte["child_fn"].bits
               THEN failed \cup {ip} ELSE failed
  /\ UNCHANGED <<program, ip, reg, pte, tlb, data, home, mts, moves, excused, zapped>>

-----------------------------------------------------------------------------
(* The hardware and the kernel (external).                                 *)

TlbFill(v) ==
  /\ pte[v] # None /\ tlb[v] = None
  /\ pte' = [pte EXCEPT ![v].bits = @ \cup {"accessed"}]
  /\ tlb' = [tlb EXCEPT ![v] = pte'[v]]
  /\ excused' = IF pte' = pte THEN excused ELSE excused \cup {"aged"}
  /\ UNCHANGED <<program, ip, reg, data, home, mts, child, moves, failed, zapped>>

\* The kernel clears the accessed bit.
Age(v) ==
  /\ moves < MaxMoves /\ moves' = moves + 1
  /\ pte[v] # None /\ home[v] # None /\ "accessed" \in pte[v].bits
  /\ pte' = [pte EXCEPT ![v].bits = @ \ {"accessed"}]
  /\ excused' = excused \cup {"aged"}
  /\ UNCHANGED <<program, ip, reg, tlb, data, home, mts, child, failed, zapped>>

\* The kernel moves a page that is where the kernel has put it.  From then on a
\* page-frame number that the program has asked for is out of date.
Move(v, f) ==
  /\ moves < MaxMoves /\ moves' = moves + 1
  /\ pte[v] # None /\ home[v] # None /\ pte[v].pfn = home[v] /\ f \notin Used
  /\ \A w \in VPage \ {v} : home[w] # home[v]
  /\ pte' = [pte EXCEPT ![v].pfn = f] /\ tlb' = [tlb EXCEPT ![v] = None]
  /\ home' = [home EXCEPT ![v] = f]
  /\ data' = [data EXCEPT ![f] = data[home[v]], ![home[v]] = "?"]
  /\ excused' = IF \E r \in Register : reg[r] # None /\ reg[r].pfn = home[v]
                THEN excused \cup {"moved"} ELSE excused
  /\ UNCHANGED <<program, ip, reg, mts, child, failed, zapped>>

-----------------------------------------------------------------------------

Step ==
  \/ \E ok \in BOOLEAN : Initialize(ok)
  \/ \E f \in Frame : Mmap(f)
  \/ GoesToLabel \/ Munmap \/ Cleanup \/ Exit \/ Fork
  \/ Resolve \/ Copy \/ SetPfn \/ FindMt \/ ApplyMt \/ Update
  \/ PteSetPfn \/ PteBit \/ NoEntry \/ Pmap \/ PmapFails \/ InvalidateTlb \/ Barrier
  \/ WritePhysicalPage \/ WritePhysicalPageFails \/ StoreEntry
  \/ Load \/ ReadPhysicalPage \/ ReadPhysicalPageFails \/ LoadEntry \/ PteGetBit
  \/ Behaves

Next ==
  \/ Step \/ ChildAccess \/ ChildExec
  \/ \E v \in VPage : TlbFill(v) \/ Age(v) \/ \E f \in Frame : Move(v, f)

Spec == Init /\ [][Next]_vars

-----------------------------------------------------------------------------
(* Properties.                                                             *)

Excused(i) ==
  \/ "moved" \in excused
  \/ /\ i < Ended
     /\ \/ program[i].op = "load_entry" /\ "aged" \in excused
        \/ program[i].op = "read_page" /\ "unread" \in excused
        \/ program[i].op \in {"load", "read_page"} /\ "unwritten" \in excused
        \/ program[i].op = "get_bit" /\ "late" \in excused

\* Every test in the programs succeeds, whatever the CPU has cached when an entry is
\* edited, and the child of nx gets through once its bit is cleared; unless the
\* kernel has moved a page whose frame number the program held; where a whole
\* entry is compared, unless an accessed bit has changed; where memory is, unless
\* /proc/umem failed before; and in nx, unless the child was slower than sleep(1).
SelfChecksPass == \A i \in failed : Excused(i)

\* When a page is unmapped its entry points to its own frame again, so that the
\* kernel gets back what it has given out, and is cacheable: the programs undo
\* their edits on every path to their end; unless the page has been moved
\* meanwhile, or no place of the PAT has the type to go back to, or example.c has
\* been killed over its failed ptedit_pmap, with address on the frame of target.
EditsUndone ==
  \A z \in zapped :
    /\ \/ z[2].pfn = z[3] \/ "moved" \in excused
       \/ z[1] = "address" /\ "killed" \in excused
    /\ "uc" \in z[2].bits => "wb" \notin mts

=============================================================================
