----------------------------- MODULE WinDriver -----------------------------
(***************************************************************************)
(* The Windows driver, driver/PTEdit/Driver.c, under the library's Windows *)
(* branches: loading and unloading, the control codes one action each, and *)
(* ptedit_update as the sequence of control codes that it is, while the    *)
(* scheduler moves the processes over the CPUs and these fill their TLBs.  *)
(*                                                                         *)
(* Page tables are abstracted to one level, a function from addresses to   *)
(* pages per root: the walk level by level is UserEdit's.                  *)
(***************************************************************************)
EXTENDS Naturals, FiniteSets

CONSTANTS Cpu, Proc,
          Client,     \* the processes that use the library
          Spare,      \* a root that belongs to no process
          Addr, Page,
          None,       \* no page, no process, no root
          Machines,   \* the machines to run on, see Machine
          MaxCalls    \* bound on the loads of the driver and the calls of the clients

Root == Proc \cup {Spare}

\* PCID 0: the library and the driver pass roots without their low bits.
Untagged == None

Tag == Proc \cup {Untagged}

\* pcid: the CPUs tag what they cache with the process; reachable: the roots
\* whose frame MmGetVirtualForPhysical knows.
Machine == [pcid : BOOLEAN, reachable : SUBSET Root]

ASSUME WinAssumption ==
  /\ Client \subseteq Proc /\ Machines \subseteq Machine /\ MaxCalls \in Nat
  /\ Addr # {} /\ Page # {}
  /\ Spare \notin Proc /\ None \notin Proc \cup Page \cup {Spare}

VARIABLES machine,
          driver,   \* where DriverEntry or Unload is
          device,   \* the device object exists
          link,     \* the symbolic link exists
          handle,   \* the processes that have the device open
          paging_root, \* paging_root[p]: what ptedit_init has cached in p
          alive,    \* the processes that have not exited
          run,      \* run[c]: the process that CPU c runs, or None
          cr3,      \* cr3[c]: the root and the tag in use on c
          tlb,      \* tlb[c][g][a]: what c has cached for tag g
          mem,      \* mem[r]: the page tables under root r
          pat,      \* pat[c]: whether the PAT of c has been reprogrammed
          pc,       \* where a process is in ptedit_update
          args,     \* the arguments and the locals of that call
          done,     \* how many calls there have been
          missed,   \* history: <<c, g, a>> that a flush has missed
          chosen    \* history: the roots that a process has set for itself

names == <<driver, device, link>>

cpus == <<run, cr3, tlb>>

calls == <<pc, args>>

files == <<handle, paging_root>>

ghosts == <<missed, chosen>>

vars == <<machine, names, files, alive, cpus, mem, pat, calls, done, ghosts>>

Table == [Addr -> Page \cup {None}]

\* pid: None is 0, oneself; top: the entry to edit is one of the PGD; root: the
\* root under which the entry was found, if it was; again: the second lookup.
Arguments == [pid : Proc \cup {None}, addr : Addr, new : Page \cup {None},
              top : BOOLEAN, root : Root \cup {None}, again : Root \cup {None}]

NoArgs == [pid |-> None, addr |-> CHOOSE a \in Addr : TRUE, new |-> None,
           top |-> FALSE, root |-> None, again |-> None]

TypeOK ==
  /\ machine \in Machines
  /\ driver \in {"absent", "created", "linked", "loaded", "unlinked"}
  /\ device \in BOOLEAN /\ link \in BOOLEAN
  /\ handle \subseteq alive /\ alive \subseteq Proc
  /\ paging_root \in [Proc -> Root \cup {None}]
  /\ run \in [Cpu -> alive \cup {None}]
  /\ \A c, d \in Cpu : run[c] = run[d] /\ run[c] # None => c = d
  /\ cr3 \in [Cpu -> [root : Root \cup {None}, tag : Tag]]
  /\ tlb \in [Cpu -> [Tag -> Table]]
  /\ mem \in [Root -> Table]
  /\ pat \in [Cpu -> BOOLEAN]
  /\ pc \in [Proc -> {"user", "root", "walk", "again", "write", "flush",
                       "flush_again"}]
  /\ args \in [Proc -> Arguments]
  /\ done \in 0..MaxCalls
  /\ missed \subseteq Cpu \X Tag \X Addr
  /\ chosen \in [Proc -> SUBSET Root]

Empty == [a \in Addr |-> None]

Init ==
  /\ machine \in Machines
  /\ driver = "absent" /\ device = FALSE /\ link = FALSE
  /\ handle = {} /\ alive = Proc
  /\ paging_root = [p \in Proc |-> None]
  /\ run = [c \in Cpu |-> None]
  /\ cr3 = [c \in Cpu |-> [root |-> None, tag |-> Untagged]]
  /\ tlb = [c \in Cpu |-> [g \in Tag |-> Empty]]
  /\ mem = [r \in Root |-> IF r = Spare THEN Empty
                           ELSE [a \in Addr |-> CHOOSE g \in Page : TRUE]]
  /\ pat = [c \in Cpu |-> FALSE]
  /\ pc = [p \in Proc |-> "user"]
  /\ args = [p \in Proc |-> NoArgs]
  /\ done = 0 /\ missed = {} /\ chosen = [p \in Proc |-> {}]

-----------------------------------------------------------------------------
(* DriverEntry and Unload                                                  *)

CreateDevice ==
  /\ driver = "absent"
  /\ driver' = "created" /\ device' = TRUE
  /\ UNCHANGED <<machine, link, files, alive, cpus, mem, pat, calls, ghosts>>

CreateLink(ok) ==
  /\ driver = "created"
  /\ driver' = (IF ok THEN "linked" ELSE "absent")
  /\ link' = ok /\ device' = ok
  /\ UNCHANGED <<machine, files, alive, cpus, mem, pat, calls, ghosts>>

\* The dispatch functions are filled in.
Dispatchable ==
  /\ driver = "linked"
  /\ driver' = "loaded"
  /\ UNCHANGED <<machine, device, link, files, alive, cpus, mem, pat, calls,
                 ghosts>>

\* The I/O manager calls Unload when nobody has the device open any more.
UnloadLink ==
  /\ driver = "loaded" /\ handle = {}
  /\ driver' = "unlinked" /\ link' = FALSE
  /\ UNCHANGED <<machine, device, files, alive, cpus, mem, pat, calls, ghosts>>

UnloadDevice ==
  /\ driver = "unlinked"
  /\ driver' = "absent" /\ device' = FALSE
  /\ UNCHANGED <<machine, link, files, alive, cpus, mem, pat, calls, ghosts>>

-----------------------------------------------------------------------------
(* Programs.  A process acts while a CPU runs it.                          *)

CpuOf(p) == CHOOSE c \in Cpu : run[c] = p

Running(p) == \E c \in Cpu : run[c] = p

At(p, label) == pc[p] = label /\ Running(p) /\ p \in handle

Goto(p, label) == pc' = [pc EXCEPT ![p] = label]

\* Mutant of GetCr3: the tag is not cut off.
GetCr3Tagged(p, q) ==
  IF q = p THEN cr3[CpuOf(p)]
  ELSE IF q \in alive THEN [root |-> q, tag |-> q] ELSE None

\* PTEDITOR_GET_CR3: attaching to oneself changes nothing, so the register of
\* this CPU is read; the library cuts the tag off.  0 for an unknown process.
GetCr3(p, q) ==
  IF q = p THEN cr3[CpuOf(p)].root ELSE IF q \in alive THEN q ELSE None

\* ptedit_init and ptedit_cleanup; the device is not exclusive.  The root for
\* pid 0 is asked for once, when the implementation is chosen.
OpenDevice(p) ==
  /\ Running(p) /\ p \in Client \ handle /\ link /\ driver = "loaded"
  /\ handle' = handle \cup {p}
  /\ paging_root' = [paging_root EXCEPT ![p] = GetCr3(p, p)]
  /\ UNCHANGED <<machine, names, alive, cpus, mem, pat, calls, ghosts>>

CloseDevice(p) ==
  /\ At(p, "user")
  /\ handle' = handle \ {p}
  /\ paging_root' = [paging_root EXCEPT ![p] = None]
  /\ UNCHANGED <<machine, names, alive, cpus, mem, pat, calls, ghosts>>

\* The process ends, or is killed in the middle of a call, and with it its flush.
Exit(p) ==
  /\ p \in alive /\ ~Running(p)
  /\ alive' = alive \ {p} /\ handle' = handle \ {p}
  /\ paging_root' = [paging_root EXCEPT ![p] = None]
  /\ pc' = [pc EXCEPT ![p] = "user"]
  /\ args' = [args EXCEPT ![p] = NoArgs]
  /\ missed' = IF pc[p] = "flush" THEN missed \cup (Cpu \X Tag \X {args[p].addr})
             ELSE missed
  /\ UNCHANGED <<machine, names, cpus, mem, pat, chosen>>

-----------------------------------------------------------------------------
(* The control codes                                                       *)

\* Mutant of InvalidateTlb: only the CPU of the caller.
InvalidateTlbHere(p, a) ==
  tlb' = [tlb EXCEPT ![CpuOf(p)][cr3[CpuOf(p)].tag][a] = None]

\* PTEDITOR_FLUSH_TLB: invlpg on every CPU, for the tag in use there.
InvalidateTlb(p, a) ==
  tlb' = [c \in Cpu |-> [tlb[c] EXCEPT ![cr3[c].tag][a] = None]]

\* What a CPU does when CR3 is written: without tags it forgets everything.
LoadCr3(c, r, g) ==
  /\ cr3' = [cr3 EXCEPT ![c] = [root |-> r, tag |-> g]]
  /\ tlb' = [tlb EXCEPT ![c] = [h \in Tag |->
               IF machine.pcid /\ h # Untagged THEN @[h] ELSE Empty]]

\* KeStackAttachProcess and KeUnstackDetachProcess in the handler of p: the CPU
\* gets the tables of q and then again those of p, as the process has them; with
\* oneself, or without a process q, nothing happens.
Attach(p, q) ==
  IF q \in alive \ {p} THEN LoadCr3(CpuOf(p), p, p) ELSE UNCHANGED <<cr3, tlb>>

\* Mutant of SetCr3: KeStackAttachProcess is missing.
SetCr3Unattached(p, q, r) ==
  /\ At(p, "user")
  /\ LoadCr3(CpuOf(p), r, Untagged)
  /\ chosen' = IF q = p THEN [chosen EXCEPT ![p] = @ \cup {r}] ELSE chosen
  /\ UNCHANGED <<machine, names, files, alive, run, mem, pat, calls, missed>>

\* PTEDITOR_SET_CR3: for the caller itself the register keeps the new value until
\* CR3 is next written; for another process detaching overwrites it at once.  The
\* case falls through into FLUSH_TLB with the pid as the address.
SetCr3(p, q, r) ==
  /\ At(p, "user")
  /\ IF q = p
     THEN LoadCr3(CpuOf(p), r, Untagged) /\ chosen' = [chosen EXCEPT ![p] = @ \cup {r}]
     ELSE Attach(p, q) /\ UNCHANGED chosen
  /\ UNCHANGED <<machine, names, files, alive, run, mem, pat, calls, missed>>

\* The root that the cached pages of tag g on CPU c are of.
RootOf(c, g) == IF g = Untagged THEN cr3[c].root ELSE g

\* PTEDITOR_WRITE_PAGE: any page, if the driver knows a virtual address of it, and
\* without a flush: what the CPUs have cached of it is left to the program.
WritePage(p, r, table) ==
  /\ At(p, "user")
  /\ IF r \in machine.reachable
     THEN /\ mem' = [mem EXCEPT ![r] = table]
          /\ missed' = missed \cup
               {m \in Cpu \X Tag \X Addr :
                  /\ RootOf(m[1], m[2]) = r
                  /\ tlb[m[1]][m[2]][m[3]] \notin {None, table[m[3]]}}
     ELSE UNCHANGED <<mem, missed>>
  /\ UNCHANGED <<machine, names, files, alive, cpus, pat, calls, chosen>>

\* PTEDITOR_SET_PAT, on all CPUs at once.  ptedit_set_mts does not use it: it
\* sends PTEDITOR_GET_PAT.
SetPat(p) ==
  /\ At(p, "user")
  /\ pat' = [c \in Cpu |-> TRUE]
  /\ UNCHANGED <<machine, names, files, alive, cpus, mem, calls, ghosts>>

-----------------------------------------------------------------------------
(* ptedit_update of the library, for another process or (pid 0) oneself.   *)

UpdateCall(p, q, a, new, top) ==
  /\ At(p, "user")
  /\ args' = [args EXCEPT ![p] = [pid |-> q, addr |-> a, new |-> new, top |-> top,
                                 root |-> None, again |-> None]]
  /\ Goto(p, "root")
  /\ UNCHANGED <<machine, names, files, alive, cpus, mem, pat, ghosts>>

\* The root: cached since ptedit_init for pid 0, else asked for.
PagingRoot(p) ==
  IF args[p].pid = None THEN paging_root[p] ELSE GetCr3(p, args[p].pid)

\* ptedit_resolve asks for the root; without one nothing is read.
UpdateRoot(p) ==
  /\ At(p, "root")
  /\ args' = [args EXCEPT ![p].root = PagingRoot(p)]
  /\ Goto(p, IF PagingRoot(p) = None THEN "again" ELSE "walk")
  /\ Attach(p, args[p].pid)
  /\ UNCHANGED <<machine, names, files, alive, run, mem, pat, ghosts>>

\* PTEDITOR_READ_PHYS_VAL: the entry is found or not.
UpdateWalk(p) ==
  /\ At(p, "walk")
  /\ args' = [args EXCEPT ![p].root =
                IF mem[@][args[p].addr] = None THEN None ELSE @]
  /\ Goto(p, "again")
  /\ UNCHANGED <<machine, names, files, alive, cpus, mem, pat, ghosts>>

\* ptedit_update_user_ext asks for the root once more, and returns without one;
\* an entry that was not found is not written.
UpdateAgain(p) ==
  /\ At(p, "again")
  /\ args' = [args EXCEPT ![p].again = PagingRoot(p)]
  /\ Goto(p, IF PagingRoot(p) = None THEN "flush_again"
             ELSE IF args[p].root = None THEN "flush" ELSE "write")
  /\ Attach(p, args[p].pid)
  /\ UNCHANGED <<machine, names, files, alive, run, mem, pat, ghosts>>

\* The entry of the PGD is taken under the second root, any other where the walk
\* has found it.
Written(p) == IF args[p].top THEN args[p].again ELSE args[p].root

\* Mutant of UpdateWrite: the test for a virtual address is inverted.
UpdateWriteInverted(p) ==
  /\ At(p, "write")
  /\ mem' = IF Written(p) \notin machine.reachable
            THEN [mem EXCEPT ![Written(p)][args[p].addr] = args[p].new]
            ELSE mem
  /\ Goto(p, "flush")
  /\ UNCHANGED <<machine, names, files, alive, cpus, pat, args, ghosts>>

\* PTEDITOR_WRITE_PHYS_VAL: nothing happens without a virtual address.
UpdateWrite(p) ==
  /\ At(p, "write")
  /\ mem' = IF Written(p) \in machine.reachable
            THEN [mem EXCEPT ![Written(p)][args[p].addr] = args[p].new]
            ELSE mem
  /\ Goto(p, "flush")
  /\ UNCHANGED <<machine, names, files, alive, cpus, pat, args, ghosts>>

\* What is left of a page that was replaced, after a flush of address a: with
\* tags, what the CPUs have under the tags not in use.
Missed(a) ==
  {m \in missed : m[3] # a \/ m[2] # cr3[m[1]].tag} \cup
  {m \in Cpu \X Proc \X {a} :
     /\ machine.pcid /\ m[2] # cr3[m[1]].tag
     /\ tlb[m[1]][m[2]][a] \notin {None, mem[m[2]][a]}}

\* The flush of ptedit_update_user_ext, and that of ptedit_update_user; neither
\* says for which process.
UpdateFlush(p) ==
  /\ At(p, "flush") \/ At(p, "flush_again")
  /\ InvalidateTlb(p, args[p].addr)
  /\ missed' = Missed(args[p].addr)
  /\ Goto(p, IF pc[p] = "flush" THEN "flush_again" ELSE "user")
  /\ args' = IF pc[p] = "flush" THEN args ELSE [args EXCEPT ![p] = NoArgs]
  /\ UNCHANGED <<machine, names, files, alive, run, cr3, mem, pat, chosen>>

-----------------------------------------------------------------------------
(* The hardware and the scheduler (external).                              *)

\* An idle CPU keeps the root it had.
Switch(c, q) ==
  /\ q # run[c]
  /\ q = None \/ (q \in alive /\ ~Running(q))
  /\ run' = [run EXCEPT ![c] = q]
  /\ IF q = None \/ cr3[c] = [root |-> q, tag |-> q] THEN UNCHANGED <<cr3, tlb>>
     ELSE LoadCr3(c, q, q)
  /\ UNCHANGED <<machine, names, files, alive, mem, pat, calls, ghosts>>

TlbFill(c, a) ==
  /\ run[c] # None
  /\ mem[cr3[c].root][a] # None
  /\ tlb[c][cr3[c].tag][a] = None
  /\ tlb' = [tlb EXCEPT ![c][cr3[c].tag][a] = mem[cr3[c].root][a]]
  /\ UNCHANGED <<machine, names, files, alive, run, cr3, mem, pat, calls, ghosts>>

-----------------------------------------------------------------------------

\* What programs and administrators begin.
Begin ==
  \/ CreateDevice
  \/ \E p \in Proc :
       \/ OpenDevice(p) \/ SetPat(p)
       \/ \E q \in Proc, r \in Root : SetCr3(p, q, r)
       \/ \E r \in Root, g \in Page \cup {None} : WritePage(p, r, [a \in Addr |-> g])
       \/ \E q \in Proc \cup {None}, a \in Addr, new \in Page, top \in BOOLEAN :
            UpdateCall(p, q, a, new, top)

\* What goes on by itself, or ends.
Step ==
  \/ \E ok \in BOOLEAN : CreateLink(ok)
  \/ Dispatchable \/ UnloadLink \/ UnloadDevice
  \/ \E p \in Proc :
       \/ UpdateRoot(p) \/ UpdateWalk(p) \/ UpdateAgain(p) \/ UpdateWrite(p)
       \/ UpdateFlush(p) \/ CloseDevice(p) \/ Exit(p)
  \/ \E c \in Cpu : \/ \E q \in Proc \cup {None} : Switch(c, q)
                    \/ \E a \in Addr : TlbFill(c, a)

Next ==
  \/ Begin /\ done < MaxCalls /\ done' = done + 1
  \/ Step /\ UNCHANGED done

Spec == Init /\ [][Next]_vars

-----------------------------------------------------------------------------
(* Properties.                                                             *)

Updating(r, a) ==
  \E p \in Proc : pc[p] = "flush" /\ Written(p) = r /\ args[p].addr = a

\* After ptedit_update no CPU goes on with the page that was replaced, although
\* the flush names no process and comes after the write, on CPUs that have
\* switched meanwhile; with tags, except on a CPU that ran something else when
\* the flush came (and for a process that was killed before its flush, or that
\* has overwritten the table with ptedit_write_physical_page, which flushes
\* nothing).
WinTlbCoherent ==
  \A c \in Cpu, a \in Addr : run[c] # None =>
    LET used == tlb[c][cr3[c].tag][a]
    IN \/ used \in {None, mem[cr3[c].root][a]}
       \/ Updating(cr3[c].root, a)
       \/ <<c, cr3[c].tag, a>> \in missed

\* When ptedit_update flushes, the entry it has found holds what it was given,
\* for one client, unless the driver knows no virtual address of the table or the
\* target has exited meanwhile; and except that an entry of the PGD is written
\* under the second of the two roots it asks for, which is another when the
\* program names itself by its pid, runs on a root it has chosen and is
\* rescheduled in between.
WinUpdateApplied ==
  \A p \in Client :
    pc[p] = "flush_again" /\ args[p].root # None /\ args[p].again # None =>
      \/ mem[args[p].root][args[p].addr] = args[p].new
      \/ args[p].root \notin machine.reachable
      \/ args[p].top /\ args[p].again # args[p].root

\* A CPU runs a process on its own tables or on tables that this very process has
\* set for itself: never on a root that another process has asked for, and no
\* handler leaves the caller on the tables of the process it has attached to.
\* So PTEDITOR_SET_CR3 for another process sets nobody's root, although
\* ptedit.h:615-617 offers ptedit_set_paging_root for any pid.
RunsOnOwnTables ==
  \A c \in Cpu : run[c] # None =>
    /\ cr3[c].root \in {run[c]} \cup chosen[run[c]]
    /\ cr3[c].tag = Untagged \/ cr3[c] = [root |-> run[c], tag |-> run[c]]

=============================================================================
