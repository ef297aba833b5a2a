------------------------------ MODULE PteditLib ------------------------------
(***************************************************************************)
(* The life of the library in its processes: ptedit_init, ptedit_cleanup,  *)
(* ptedit_use_implementation and the paging root of ptedit.c (x86, Linux), *)
(* with fork, exit, files of the program's own, and the module coming and  *)
(* going.  The library is not meant for threads: the steps of one of its   *)
(* calls are not interleaved with others of the same process.              *)
(***************************************************************************)
EXTENDS ModuleLifecycle, Integers

CONSTANTS Proc,   \* processes
          MaxFd,  \* the largest descriptor of a process
          MaxCalls \* bound on the calls of all programs, Insmod included

ASSUME LibAssumption == MaxFd \in Nat /\ MaxCalls \in Nat

Fd == 0..MaxFd

VARIABLES fdt,   \* fdt[p][n]: what descriptor n of process p is
          lib,   \* lib[p]: the statics of the library, and the call it is in
          pgd,   \* pgd[p]: mm->pgd of the process; a root is named by its owner
          ghost, \* history, see Ghost
          calls  \* how many calls there have been

libVars == <<fdt, lib, pgd, ghost>>

vars == <<moduleVars, libVars, calls>>

\* A "dead" descriptor is one of /proc/umem whose functions are gone.
File == {"closed", "device", "umem", "dead", "other"}

Impl == {"none", "kernel", "user_pread", "user"}

Root == Proc \cup {"zero"}

\* leaked: ptedit_init was called again without ptedit_cleanup; revived: a failed
\* ptedit_init has left the number of a descriptor closed earlier in ptedit_umem;
\* unpaired: the ptedit_cleanup under way has no ptedit_init before it; rerooted: the
\* page tables have changed since the library asked for them.
Ghost == {"leaked", "revived", "unpaired", "rerooted"}

Lib == [call : {"none", "idle", "opening", "ready", "failed", "closing"},
        ptedit_fd : Fd \cup {-1}, ptedit_umem : Fd \cup {-1}, impl : Impl,
        ptedit_paging_root : Root, ptedit_vmem : {"NULL", "MAP_FAILED", "mapped"}]

TypeOK ==
  /\ ModuleTypeOK
  /\ fdt \in [Proc -> [Fd -> File]]
  /\ lib \in [Proc -> Lib]
  /\ pgd \in [Proc -> Proc]
  /\ ghost \in [Proc -> SUBSET Ghost]
  /\ calls \in 0..MaxCalls

NoProcess ==
  [call |-> "none", ptedit_fd |-> 0, ptedit_umem |-> 0, impl |-> "none",
   ptedit_paging_root |-> "zero", ptedit_vmem |-> "NULL"]

Init ==
  /\ ModuleInit
  /\ fdt = [p \in Proc |-> [n \in Fd |-> "closed"]]
  /\ lib = [p \in Proc |-> NoProcess]
  /\ pgd = [p \in Proc |-> p]
  /\ ghost = [p \in Proc |-> {}]
  /\ calls = 0

-----------------------------------------------------------------------------
(* Descriptors (external).                                                 *)

FreeFds(p) == {n \in Fd : fdt[p][n] = "closed"}

\* The descriptor that open(2) returns: the lowest one that is free.
NewFd(p) == CHOOSE n \in FreeFds(p) : \A k \in FreeFds(p) : n <= k

Holders == {h \in Proc \X Fd : fdt[h[1]][h[2]] = "device"}

Set(p, field, v) == lib' = [lib EXCEPT ![p][field] = v]

\* close(2) of a number, which may not be open.
Close(p, n) ==
  /\ fdt' = [fdt EXCEPT ![p][n] = "closed"]
  /\ DeviceClose(Holders \subseteq {<<p, n>>})

NoClose == UNCHANGED <<fdt, moduleVars>>

Calling(p, call) == lib[p].call = call

-----------------------------------------------------------------------------
(* ptedit_init                                                             *)

\* The device is opened.  When that fails nothing but ptedit_fd has changed.
InitOpenDevice(p) ==
  /\ lib[p].call \in {"idle", "ready", "failed"}
  /\ IF CanOpen /\ FreeFds(p) # {}
     THEN /\ DeviceOpen
          /\ fdt' = [fdt EXCEPT ![p][NewFd(p)] = "device"]
          /\ lib' = [lib EXCEPT ![p].ptedit_fd = NewFd(p), ![p].call = "opening"]
          /\ ghost' = [ghost EXCEPT ![p] = @ \ {"revived"}]
     ELSE /\ lib' = [lib EXCEPT ![p].ptedit_fd = -1, ![p].call = "failed"]
          /\ ghost' = [ghost EXCEPT ![p] = @ \cup
               IF Calling(p, "ready") THEN {"leaked"}
               ELSE IF Calling(p, "idle") /\ lib[p].ptedit_umem > 0 THEN {"revived"}
               ELSE {}]
          /\ UNCHANGED <<moduleVars, fdt>>
  /\ UNCHANGED pgd

\* Mutant of InitOpenUmem: the number is kept when open fails.
InitOpenUmemKept(p) ==
  /\ Calling(p, "opening")
  /\ LET ok == umem /\ FreeFds(p) # {}
     IN /\ lib' = [lib EXCEPT ![p].ptedit_umem = IF ok THEN NewFd(p) ELSE @,
                              ![p].impl = "kernel", ![p].call = "ready"]
        /\ fdt' = IF ok THEN [fdt EXCEPT ![p][NewFd(p)] = "umem"] ELSE fdt
  /\ UNCHANGED <<moduleVars, pgd, ghost>>

\* /proc/umem is opened, or not, and the kernel implementation is chosen.
InitOpenUmem(p) ==
  /\ Calling(p, "opening")
  /\ LET ok == umem /\ FreeFds(p) # {}
     IN /\ lib' = [lib EXCEPT ![p].ptedit_umem = IF ok THEN NewFd(p) ELSE -1,
                              ![p].impl = "kernel", ![p].call = "ready"]
        /\ fdt' = IF ok THEN [fdt EXCEPT ![p][NewFd(p)] = "umem"] ELSE fdt
  /\ UNCHANGED <<moduleVars, pgd, ghost>>

-----------------------------------------------------------------------------
(* ptedit_cleanup: the numbers of the descriptors are kept.                *)

Unpaired(p) ==
  ghost' = [ghost EXCEPT ![p] = @ \cup IF Calling(p, "idle") THEN {"unpaired"} ELSE {}]

\* Mutant of CleanupDevice: ptedit_fd > 0, as for ptedit_umem.
CleanupDeviceAboveZero(p) ==
  /\ lib[p].call \in {"idle", "ready", "failed"}
  /\ IF lib[p].ptedit_fd > 0 THEN Close(p, lib[p].ptedit_fd) ELSE NoClose
  /\ Set(p, "call", "closing")
  /\ Unpaired(p)
  /\ UNCHANGED pgd

\* Mutant of CleanupDevice: both descriptors are closed, one of them twice.
CleanupDeviceBoth(p) ==
  /\ lib[p].call \in {"idle", "ready", "failed"}
  /\ fdt' = [fdt EXCEPT ![p] = [n \in Fd |->
       IF n \in {lib[p].ptedit_fd, lib[p].ptedit_umem} THEN "closed" ELSE @[n]]]
  /\ DeviceClose(Holders \subseteq {<<p, lib[p].ptedit_fd>>})
  /\ Set(p, "call", "closing")
  /\ Unpaired(p)
  /\ UNCHANGED pgd

\* Nothing tells ptedit_cleanup that there is nothing to clean up: a second call
\* closes the old numbers again, and one before ptedit_init closes descriptor 0.
CleanupDevice(p) ==
  /\ lib[p].call \in {"idle", "ready", "failed"}
  /\ IF lib[p].ptedit_fd >= 0 THEN Close(p, lib[p].ptedit_fd) ELSE NoClose
  /\ Set(p, "call", "closing")
  /\ Unpaired(p)
  /\ UNCHANGED pgd

CleanupUmem(p) ==
  /\ Calling(p, "closing")
  /\ IF lib[p].ptedit_umem > 0 THEN Close(p, lib[p].ptedit_umem) ELSE NoClose
  /\ Set(p, "call", "idle")
  /\ ghost' = [ghost EXCEPT ![p] = @ \ {"unpaired"}]
  /\ UNCHANGED pgd

-----------------------------------------------------------------------------
(* ptedit_use_implementation and the paging root.                          *)

UseKernel(p) ==
  /\ Calling(p, "ready")
  /\ Set(p, "impl", "kernel")
  /\ UNCHANGED <<moduleVars, fdt, pgd, ghost>>

\* mmap of /proc/umem, unless ptedit_vmem is set already.  It fails if there is no
\* descriptor, and may fail otherwise; nobody looks at the result.
Mapped(p, i, ok) ==
  IF i # "user" \/ lib[p].ptedit_vmem # "NULL" THEN lib[p].ptedit_vmem
  ELSE IF ok /\ lib[p].ptedit_umem > 0 THEN "mapped" ELSE "MAP_FAILED"

\* Mutant of UseUser: the paging root is only asked for once.
UseUserCached(p, i, ok) ==
  /\ Calling(p, "ready")
  /\ lib' = [lib EXCEPT
       ![p].impl = i,
       ![p].ptedit_paging_root = IF @ = "zero" THEN pgd[p] ELSE @,
       ![p].ptedit_vmem = Mapped(p, i, ok)]
  /\ ghost' = [ghost EXCEPT ![p] = @ \ {"rerooted"}]
  /\ UNCHANGED <<moduleVars, fdt, pgd>>

\* ptedit_get_paging_root(0) asks for the tables of the caller.
UseUser(p, i, ok) ==
  /\ Calling(p, "ready")
  /\ lib' = [lib EXCEPT
       ![p].impl = i,
       ![p].ptedit_paging_root = pgd[p],
       ![p].ptedit_vmem = Mapped(p, i, ok)]
  /\ ghost' = [ghost EXCEPT ![p] = @ \ {"rerooted"}]
  /\ UNCHANGED <<moduleVars, fdt, pgd>>

\* Mutant of SetPagingRoot: the root that is set is the cached one.
SetPagingRootCached(p, q, r) ==
  /\ Calling(p, "ready") /\ ~Calling(q, "none")
  /\ pgd' = [pgd EXCEPT ![q] = lib[p].ptedit_paging_root]
  /\ ghost' = [ghost EXCEPT ![q] = @ \cup {"rerooted"}]
  /\ UNCHANGED <<moduleVars, fdt, lib>>

\* ptedit_set_paging_root(pid of q, r): mm->pgd of q, and nothing of the library.
SetPagingRoot(p, q, r) ==
  /\ Calling(p, "ready") /\ ~Calling(q, "none")
  /\ pgd' = [pgd EXCEPT ![q] = r]
  /\ ghost' = [ghost EXCEPT ![q] = @ \cup {"rerooted"}]
  /\ UNCHANGED <<moduleVars, fdt, lib>>

\* Where ptedit_read_physical_page and ptedit_write_physical_page go: pread and
\* pwrite on /proc/umem, or READ_PAGE and WRITE_PAGE of the device.
PhysicalPageFd(p) ==
  IF lib[p].ptedit_umem > 0 THEN lib[p].ptedit_umem ELSE lib[p].ptedit_fd

-----------------------------------------------------------------------------
(* The programs and the module.                                            *)

Start(p) ==
  /\ Calling(p, "none")
  /\ Set(p, "call", "idle")
  /\ UNCHANGED <<moduleVars, fdt, pgd, ghost>>

\* The child has the descriptors and the statics of its parent, and page tables
\* of its own.
Fork(p, q) ==
  /\ lib[p].call \in {"idle", "ready", "failed"} /\ Calling(q, "none")
  /\ fdt' = [fdt EXCEPT ![q] = fdt[p]]
  /\ lib' = [lib EXCEPT ![q] = lib[p]]
  /\ ghost' = [ghost EXCEPT ![q] = ghost[p] \cup {"rerooted"}]
  /\ pgd' = [pgd EXCEPT ![q] = q]
  /\ UNCHANGED moduleVars

\* A process ends or is killed, wherever it is; the kernel closes its files.
Exit(p) ==
  /\ ~Calling(p, "none")
  /\ fdt' = [fdt EXCEPT ![p] = [n \in Fd |-> "closed"]]
  /\ lib' = [lib EXCEPT ![p] = NoProcess]
  /\ pgd' = [pgd EXCEPT ![p] = p]
  /\ ghost' = [ghost EXCEPT ![p] = {}]
  /\ DeviceClose(\A h \in Holders : h[1] = p)

\* The program's own files, the standard input among them.
OwnFile(p) ==
  /\ lib[p].call \in {"idle", "ready", "failed"}
  /\ \/ FreeFds(p) # {} /\ fdt' = [fdt EXCEPT ![p][NewFd(p)] = "other"]
     \/ \E n \in Fd : fdt[p][n] = "other" /\ fdt' = [fdt EXCEPT ![p][n] = "closed"]
  /\ UNCHANGED <<moduleVars, lib, pgd, ghost>>

\* With the end of pteditor_exit the open files of /proc/umem are dead.
UmemRemoved ==
  /\ ExitUmem
  /\ fdt' = [p \in Proc |-> [n \in Fd |->
               IF fdt[p][n] = "umem" THEN "dead" ELSE fdt[p][n]]]
  /\ UNCHANGED <<lib, pgd, ghost>>

\* What a program or an administrator may do next.
Call(p) ==
  \/ InitOpenDevice(p) \/ CleanupDevice(p)
  \/ UseKernel(p)
  \/ \E i \in {"user_pread", "user"}, ok \in BOOLEAN : UseUser(p, i, ok)
  \/ \E q, r \in Proc : SetPagingRoot(p, q, r)
  \/ \E q \in Proc : Fork(p, q)
  \/ Start(p) \/ OwnFile(p)

\* What happens by itself.
Step(p) == InitOpenUmem(p) \/ CleanupUmem(p) \/ Exit(p)

Next ==
  \/ /\ calls < MaxCalls
     /\ calls' = calls + 1
     /\ (\E p \in Proc : Call(p)) \/ (Insmod /\ UNCHANGED libVars)
  \/ /\ \/ \E p \in Proc : Step(p)
        \/ ModuleStep /\ UNCHANGED libVars
        \/ UmemRemoved
     /\ UNCHANGED calls

Spec == Init /\ [][Next]_vars

-----------------------------------------------------------------------------
(* Properties.                                                             *)

\* Between a ptedit_init that succeeded and ptedit_cleanup the two numbers in
\* the statics are an open device and, unless -1, an open /proc/umem that still
\* has its functions, whatever the program opens and closes and whoever removes
\* the module; and a descriptor of /proc/umem is never 0, which the library
\* takes for none.
OwnDescriptors ==
  \A p \in Proc : Calling(p, "ready") =>
    /\ fdt[p][lib[p].ptedit_fd] = "device"
    /\ lib[p].ptedit_umem = -1 \/ fdt[p][lib[p].ptedit_umem] = "umem"
    /\ fdt[p][PhysicalPageFd(p)] = "device" <=> lib[p].ptedit_umem = -1

\* What ptedit_cleanup closes is the library's own, whatever came before it:
\* ptedit_init, also a failed one, fork, and files of the program.  There are two
\* exceptions: a ptedit_init that failed and left the number of an earlier time
\* behind, and a ptedit_cleanup that has no ptedit_init before it (the second of
\* two, or the very first call).
ClosesOwnFiles ==
  \A p \in Proc :
    /\ lib[p].call \in {"ready", "failed"} /\ lib[p].ptedit_fd >= 0 =>
         fdt[p][lib[p].ptedit_fd] = "device"
    /\ lib[p].call \in {"ready", "failed", "closing"} /\ lib[p].ptedit_umem > 0 =>
         \/ fdt[p][lib[p].ptedit_umem] \in {"umem", "dead"}
         \/ ghost[p] \cap {"revived", "unpaired"} # {}

\* After ptedit_cleanup the process keeps no descriptor of the library, so that
\* the device is free for others; unless ptedit_init was called twice.
NoDescriptorLeak ==
  \A p \in Proc : Calling(p, "idle") /\ "leaked" \notin ghost[p] =>
    \A n \in Fd : fdt[p][n] \in {"closed", "other"}

\* device_busy is set as long as some process, also one that inherited it, has
\* the device open, and no longer; also when the module is loaded again.
BusyMeansOpen == device_busy <=> Holders # {}

\* The user-space implementations start at the page tables of their own process,
\* unless those have changed since the choice of the implementation (a fork, or
\* ptedit_set_paging_root by anybody).  PTEDIT_IMPL_USER goes through a map of
\* physical memory, also after a fork, a cleanup and another init; unless mmap
\* failed the first time, which the library neither notices nor tries again.
ResolvesOwnTables ==
  \A p \in Proc :
    Calling(p, "ready") /\ lib[p].impl \in {"user_pread", "user"} =>
      /\ lib[p].ptedit_paging_root = pgd[p] \/ "rerooted" \in ghost[p]
      /\ lib[p].impl = "user" => lib[p].ptedit_vmem \in {"mapped", "MAP_FAILED"}

=============================================================================
