--------------------------- MODULE PteditLibProofs ---------------------------
(***************************************************************************)
(* Proofs about ModuleLifecycle and PteditLib, for any number of processes *)
(* and descriptors, any kernels and any number of calls.  ModuleInv says   *)
(* what pteditor_init and pteditor_exit have set up at each of their       *)
(* steps; ProcessInv says which descriptors a process has open at each     *)
(* step of ptedit_init and ptedit_cleanup.                                 *)
(***************************************************************************)
EXTENDS PteditLib, FiniteSetTheorems, TLAPS

\* Where the module has registered the device and not taken it back.
Registered == {"lookup", "probe", "umem", "live", "deregister"}

\* Where invalidate_tlb has been set since the module was loaded.
Flushable == {"probe", "umem", "live"} \cup ExitSteps

ModuleInv ==
  /\ misc_dev => mod \in Registered \/ (mod = "absent" /\ FlushSymbol \notin symbols)
  /\ device_busy => misc_dev /\ mod \notin ExitSteps
  /\ mod \in Flushable => invalidate_tlb
  /\ mod \in {"live"} \cup ExitSteps => has_umem = umem
  /\ umem => mod \in {"live"} \cup ExitSteps
  /\ probe_devmem => mod \in {"umem", "live", "deregister", "unprobe"}

\* A descriptor that is not the library's.
Foreign == {"closed", "other"}

\* A process with the descriptors f, the statics l and the history g: by the
\* call that it is in, the descriptors of the library that it has.  A process
\* that has leaked the device keeps it, at a number that is not ptedit_umem.
ProcessInv(f, l, g) ==
  /\ l.call = "none" => \A n \in Fd : f[n] = "closed"
  /\ l.call \in {"opening", "ready"} =>
       "leaked" \notin g /\ l.ptedit_fd \in Fd /\ f[l.ptedit_fd] = "device"
  /\ l.call = "opening" =>
       f[0] # "closed" /\ \A n \in Fd : n = l.ptedit_fd \/ f[n] \in Foreign
  /\ l.call = "ready" =>
       /\ \/ l.ptedit_umem = -1
          \/ l.ptedit_umem \in Fd \ {0} /\ f[l.ptedit_umem] = "umem"
       /\ \A n \in Fd : n \in {l.ptedit_fd, l.ptedit_umem} \/ f[n] \in Foreign
  /\ l.call = "failed" =>
       /\ l.ptedit_fd = -1
       /\ "leaked" \in g \/ \A n \in Fd : f[n] \in Foreign
  /\ l.call = "closing" =>
       "leaked" \in g \/ \A n \in Fd : (n = l.ptedit_umem /\ n > 0) \/ f[n] \in Foreign
  /\ l.call = "idle" => "leaked" \in g \/ \A n \in Fd : f[n] \in Foreign
  /\ l.call \in {"failed", "closing"} /\ l.ptedit_umem > 0 =>
       f[l.ptedit_umem] \in {"umem", "dead"} \/ "revived" \in g \/ "unpaired" \in g
  /\ "leaked" \in g => l.ptedit_fd = -1
  /\ "unpaired" \in g => l.call = "closing"
  /\ "leaked" \in g => \E n \in Fd : n # l.ptedit_umem /\ f[n] = "device"

LibInv == \A p \in Proc : ProcessInv(fdt[p], lib[p], ghost[p])

IInv == TypeOK /\ ModuleInv /\ BusyMeansOpen /\ LibInv /\ ResolvesOwnTables

-----------------------------------------------------------------------------
(* Numbers and descriptors.                                                *)

\* A set of numbers has a least one.  (The numbers below a set without one are
\* closed under successor, which is injective and misses 0: they are not finite.)
LEMMA LeastNumber ==
  ASSUME NEW T \in SUBSET Nat, T # {}
  PROVE  \E x \in T : \A y \in T : x <= y
<1> SUFFICES ASSUME \A x \in T : \E y \in T : y < x
             PROVE  FALSE
  OBVIOUS
<1> DEFINE low == {u \in Nat : \A t \in T : u <= t}
           next == [u \in low |-> u + 1]
<1>1. low \in SUBSET Nat /\ 0 \in low
  OBVIOUS
<1>2. IsFiniteSet(low)
  <2>1. PICK t \in T : TRUE
    OBVIOUS
  <2>2. t \in Nat /\ \A u \in low : u <= t
    BY <2>1
  <2> HIDE DEF low
  <2> QED BY <1>1, <2>2, FS_BoundedSetOfNaturals
<1>3. \A u \in low : u + 1 \in low
  OBVIOUS
<1> HIDE DEF low
<1>4. next \in Injection(low, low)
  BY <1>1, <1>3 DEF Injection, IsInjective
<1> HIDE DEF next
<1>5. next \in Surjection(low, low)
  BY <1>2, <1>4, FS_Injection
<1>6. \E u \in low : next[u] = 0
  BY <1>1, <1>5 DEF Surjection
<1> QED BY <1>1, <1>6 DEF next

\* open(2) returns a free descriptor, and no smaller one is free.
LEMMA NewFdIsFree ==
  ASSUME NEW p \in Proc, FreeFds(p) # {}
  PROVE  /\ NewFd(p) \in Fd /\ fdt[p][NewFd(p)] = "closed"
         /\ fdt[p][0] = "closed" => NewFd(p) = 0
<1>1. FreeFds(p) \in SUBSET Nat
  BY LibAssumption DEF FreeFds, Fd
<1>2. \E n \in FreeFds(p) : \A k \in FreeFds(p) : n <= k
  BY <1>1, LeastNumber
<1>3. /\ NewFd(p) \in FreeFds(p)
      /\ \A k \in FreeFds(p) : NewFd(p) <= k
  BY <1>2 DEF NewFd
<1>4. 0 \in Fd
  BY LibAssumption DEF Fd
<1> QED BY <1>1, <1>3, <1>4 DEF FreeFds

-----------------------------------------------------------------------------
(* The module.                                                             *)

\* What a step of anybody is for the module.
ModuleAction ==
  \/ Insmod \/ ModuleStep \/ ExitUmem \/ DeviceOpen
  \/ \E last \in BOOLEAN : DeviceClose(last)
  \/ UNCHANGED moduleVars

LEMMA StepOfModule == [Next]_vars => ModuleAction
<1> SUFFICES ASSUME [Next]_vars PROVE ModuleAction
  OBVIOUS
<1> USE DEF ModuleAction
<1>1. ASSUME NEW p \in Proc, Call(p) PROVE ModuleAction
  <2>1. CASE InitOpenDevice(p)
    BY <2>1 DEF InitOpenDevice
  <2>2. CASE CleanupDevice(p)
    BY <2>2 DEF CleanupDevice, Close, NoClose
  <2>3. CASE OwnFile(p)
    BY <2>3 DEF OwnFile
  <2>4. ASSUME NEW q \in Proc, NEW r \in Proc, SetPagingRoot(p, q, r)
        PROVE  ModuleAction
    BY <2>4 DEF SetPagingRoot
  <2>5. ASSUME NEW q \in Proc, Fork(p, q)
        PROVE  ModuleAction
    BY <2>5 DEF Fork
  <2>6. CASE UseKernel(p)
    BY <2>6 DEF UseKernel
  <2>7. ASSUME NEW i \in {"user_pread", "user"}, NEW ok \in BOOLEAN, UseUser(p, i, ok)
        PROVE  ModuleAction
    BY <2>7 DEF UseUser
  <2>8. CASE Start(p)
    BY <2>8 DEF Start
  <2> QED BY <1>1, <2>1, <2>2, <2>3, <2>4, <2>5, <2>6, <2>7, <2>8 DEF Call
<1>2. ASSUME NEW p \in Proc, Step(p) PROVE ModuleAction
  <2>1. CASE InitOpenUmem(p)
    BY <2>1 DEF InitOpenUmem
  <2>2. CASE CleanupUmem(p)
    BY <2>2 DEF CleanupUmem, Close, NoClose
  <2>3. CASE Exit(p)
    BY <2>3 DEF Exit
  <2> QED BY <1>2, <2>1, <2>2, <2>3 DEF Step
<1>3. CASE UmemRemoved
  BY <1>3 DEF UmemRemoved
<1>4. CASE UNCHANGED vars
  BY <1>4 DEF vars
<1> QED BY <1>1, <1>2, <1>3, <1>4 DEF Next

\* One step per action of pteditor_init, of pteditor_exit and of the device.
LEMMA ModuleInvStep ==
  ModuleTypeOK /\ ModuleInv /\ ModuleAction => ModuleTypeOK' /\ ModuleInv'
<1> SUFFICES ASSUME ModuleTypeOK, ModuleInv, ModuleAction
             PROVE  ModuleTypeOK' /\ ModuleInv'
  OBVIOUS
<1> USE DEF ModuleTypeOK, ModuleInv, Registered, Flushable, InitSteps, ExitSteps
<1>1. CASE Insmod
  BY <1>1 DEF Insmod
<1>2. CASE InitKallsyms
  BY <1>2 DEF InitKallsyms
<1>3. ASSUME NEW ok \in BOOLEAN, InitRegister(ok)
      PROVE  ModuleTypeOK' /\ ModuleInv'
  BY <1>3 DEF InitRegister
<1>4. CASE InitLookup
  BY <1>4 DEF InitLookup
<1>5. ASSUME NEW ok \in BOOLEAN, InitProbe(ok)
      PROVE  ModuleTypeOK' /\ ModuleInv'
  BY <1>5 DEF InitProbe
<1>6. CASE InitUmem
  BY <1>6 DEF InitUmem
<1>7. CASE Rmmod
  BY <1>7 DEF Rmmod
<1>8. CASE ExitDeregister
  BY <1>8 DEF ExitDeregister
<1>9. CASE ExitProbe
  BY <1>9 DEF ExitProbe
<1>10. CASE ExitUmem
  BY <1>10 DEF ExitUmem
<1>11. CASE DeviceOpen
  BY <1>11 DEF DeviceOpen, CanOpen
<1>12. ASSUME NEW last \in BOOLEAN, DeviceClose(last)
       PROVE  ModuleTypeOK' /\ ModuleInv'
  BY <1>12 DEF DeviceClose
<1>13. CASE UNCHANGED moduleVars
  BY <1>13 DEF moduleVars
<1> QED BY <1>1, <1>2, <1>3, <1>4, <1>5, <1>6, <1>7, <1>8, <1>9, <1>10, <1>11,
           <1>12, <1>13 DEF ModuleAction, ModuleStep

-----------------------------------------------------------------------------
(* Types.                                                                  *)

LibTypeOK ==
  /\ fdt \in [Proc -> [Fd -> File]]
  /\ lib \in [Proc -> Lib]
  /\ pgd \in [Proc -> Proc]
  /\ ghost \in [Proc -> SUBSET Ghost]
  /\ calls \in 0..MaxCalls

LEMMA FileType ==
  ASSUME LibTypeOK, NEW p \in Proc, NEW n \in Fd, NEW x \in File
  PROVE  [fdt EXCEPT ![p][n] = x] \in [Proc -> [Fd -> File]]
BY DEF LibTypeOK

LEMMA ClosedType ==
  ASSUME LibTypeOK, NEW p \in Proc, NEW n \in Fd, Close(p, n)
  PROVE  fdt' \in [Proc -> [Fd -> File]]
BY FileType DEF Close, File

\* What the assignments to statics in ptedit_init, ptedit_cleanup and
\* ptedit_use_implementation do to the others.
LEMMA StaticsAfterOpen ==
  ASSUME LibTypeOK, NEW p \in Proc, NEW n \in Fd \cup {-1},
         NEW c \in {"opening", "failed"},
         lib' = [lib EXCEPT ![p].ptedit_fd = n, ![p].call = c]
  PROVE  /\ lib' \in [Proc -> Lib] /\ \A q \in Proc \ {p} : lib'[q] = lib[q]
         /\ lib'[p].call = c
         /\ lib'[p].ptedit_fd = n
         /\ lib'[p].ptedit_umem = lib[p].ptedit_umem
         /\ lib'[p].impl = lib[p].impl
         /\ lib'[p].ptedit_paging_root = lib[p].ptedit_paging_root
         /\ lib'[p].ptedit_vmem = lib[p].ptedit_vmem
<1>1. lib[p] \in Lib /\ lib \in [Proc -> Lib]
  BY DEF LibTypeOK
<1>2. lib'[p] = [call |-> c, ptedit_fd |-> n,
                 ptedit_umem |-> lib[p].ptedit_umem, impl |-> lib[p].impl,
                 ptedit_paging_root |-> lib[p].ptedit_paging_root,
                 ptedit_vmem |-> lib[p].ptedit_vmem]
  BY <1>1 DEF Lib
<1>3. lib'[p] \in Lib
  BY <1>1, <1>2 DEF Lib
<1>4. lib' = [lib EXCEPT ![p] = lib'[p]]
  BY <1>1
<1> QED BY <1>1, <1>2, <1>3, <1>4

LEMMA StaticsAfterUmem ==
  ASSUME LibTypeOK, NEW p \in Proc, NEW n \in Fd \cup {-1},
         lib' = [lib EXCEPT ![p].ptedit_umem = n, ![p].impl = "kernel",
                            ![p].call = "ready"]
  PROVE  /\ lib' \in [Proc -> Lib] /\ \A q \in Proc \ {p} : lib'[q] = lib[q]
         /\ lib'[p].call = "ready"
         /\ lib'[p].ptedit_fd = lib[p].ptedit_fd
         /\ lib'[p].ptedit_umem = n
         /\ lib'[p].impl = "kernel"
         /\ lib'[p].ptedit_paging_root = lib[p].ptedit_paging_root
         /\ lib'[p].ptedit_vmem = lib[p].ptedit_vmem
<1>1. lib[p] \in Lib /\ lib \in [Proc -> Lib]
  BY DEF LibTypeOK
<1>2. lib'[p] = [call |-> "ready", ptedit_fd |-> lib[p].ptedit_fd,
                 ptedit_umem |-> n, impl |-> "kernel",
                 ptedit_paging_root |-> lib[p].ptedit_paging_root,
                 ptedit_vmem |-> lib[p].ptedit_vmem]
  BY <1>1 DEF Lib
<1>3. lib'[p] \in Lib
  BY <1>1, <1>2 DEF Lib, Impl
<1>4. lib' = [lib EXCEPT ![p] = lib'[p]]
  BY <1>1
<1> QED BY <1>1, <1>2, <1>3, <1>4

LEMMA StaticsAfterChoice ==
  ASSUME LibTypeOK, NEW p \in Proc, NEW i \in {"user_pread", "user"},
         NEW ok \in BOOLEAN, UseUser(p, i, ok)
  PROVE  /\ lib' \in [Proc -> Lib] /\ \A q \in Proc \ {p} : lib'[q] = lib[q]
         /\ lib'[p].call = "ready"
         /\ lib'[p].ptedit_fd = lib[p].ptedit_fd
         /\ lib'[p].ptedit_umem = lib[p].ptedit_umem
         /\ lib'[p].impl = i
         /\ lib'[p].ptedit_paging_root = pgd[p]
         /\ lib'[p].ptedit_vmem = Mapped(p, i, ok)
<1>1. lib[p] \in Lib /\ lib \in [Proc -> Lib] /\ pgd[p] \in Proc
  BY DEF LibTypeOK
<1>2. lib'[p] = [call |-> "ready", ptedit_fd |-> lib[p].ptedit_fd,
                 ptedit_umem |-> lib[p].ptedit_umem, impl |-> i,
                 ptedit_paging_root |-> pgd[p],
                 ptedit_vmem |-> Mapped(p, i, ok)]
  BY <1>1 DEF Lib, UseUser, Calling
<1>v. Mapped(p, i, ok) \in {"NULL", "MAP_FAILED", "mapped"}
  BY <1>1 DEF Mapped, Lib
<1>3. lib'[p] \in Lib
  BY <1>1, <1>2, <1>v DEF Lib, Impl, Root
<1>4. lib' = [lib EXCEPT ![p] = lib'[p]]
  BY <1>1 DEF UseUser
<1> QED BY <1>1, <1>2, <1>3, <1>4 DEF UseUser

LEMMA StaticsAfterCall ==
  ASSUME LibTypeOK, NEW p \in Proc, NEW c \in {"idle", "closing"},
         Set(p, "call", c)
  PROVE  /\ lib' \in [Proc -> Lib] /\ \A q \in Proc \ {p} : lib'[q] = lib[q]
         /\ lib'[p].call = c
         /\ lib'[p].ptedit_fd = lib[p].ptedit_fd
         /\ lib'[p].ptedit_umem = lib[p].ptedit_umem
         /\ lib'[p].impl = lib[p].impl
         /\ lib'[p].ptedit_paging_root = lib[p].ptedit_paging_root
         /\ lib'[p].ptedit_vmem = lib[p].ptedit_vmem
<1>1. lib[p] \in Lib /\ lib \in [Proc -> Lib]
  BY DEF LibTypeOK
<1>2. lib'[p] = [call |-> c, ptedit_fd |-> lib[p].ptedit_fd,
                 ptedit_umem |-> lib[p].ptedit_umem, impl |-> lib[p].impl,
                 ptedit_paging_root |-> lib[p].ptedit_paging_root,
                 ptedit_vmem |-> lib[p].ptedit_vmem]
  BY <1>1 DEF Lib, Set
<1>3. lib'[p] \in Lib
  BY <1>1, <1>2 DEF Lib
<1>4. lib' = [lib EXCEPT ![p] = lib'[p]]
  BY <1>1 DEF Set
<1> QED BY <1>1, <1>2, <1>3, <1>4

LEMMA StaticsAfterKernel ==
  ASSUME LibTypeOK, NEW p \in Proc, UseKernel(p)
  PROVE  /\ lib' \in [Proc -> Lib] /\ \A q \in Proc \ {p} : lib'[q] = lib[q]
         /\ lib'[p].call = "ready"
         /\ lib'[p].ptedit_fd = lib[p].ptedit_fd
         /\ lib'[p].ptedit_umem = lib[p].ptedit_umem
         /\ lib'[p].impl = "kernel"
         /\ lib'[p].ptedit_paging_root = lib[p].ptedit_paging_root
         /\ lib'[p].ptedit_vmem = lib[p].ptedit_vmem
<1>1. lib[p] \in Lib /\ lib \in [Proc -> Lib]
  BY DEF LibTypeOK
<1>2. lib'[p] = [call |-> "ready", ptedit_fd |-> lib[p].ptedit_fd,
                 ptedit_umem |-> lib[p].ptedit_umem, impl |-> "kernel",
                 ptedit_paging_root |-> lib[p].ptedit_paging_root,
                 ptedit_vmem |-> lib[p].ptedit_vmem]
  BY <1>1 DEF Lib, UseKernel, Set, Calling
<1>3. lib'[p] \in Lib
  BY <1>1, <1>2 DEF Lib, Impl
<1>4. lib' = [lib EXCEPT ![p] = lib'[p]]
  BY <1>1 DEF UseKernel, Set
<1> QED BY <1>1, <1>2, <1>3, <1>4

-----------------------------------------------------------------------------
(* The processes.                                                          *)

\* ResolvesOwnTables for one process: its statics l, its history g, its root r.
Rooted(l, g, r) ==
  l.call = "ready" /\ l.impl \in {"user_pread", "user"} =>
    /\ l.ptedit_paging_root = r \/ "rerooted" \in g
    /\ l.impl = "user" => l.ptedit_vmem \in {"mapped", "MAP_FAILED"}

\* What remains to be shown of a step, beside ModuleInvStep.
Kept == LibTypeOK' /\ BusyMeansOpen' /\ LibInv' /\ ResolvesOwnTables'

LEMMA RootedProcesses ==
  ResolvesOwnTables <=> \A p \in Proc : Rooted(lib[p], ghost[p], pgd[p])
BY DEF ResolvesOwnTables, Rooted, Calling

\* Only what the step does to its own process matters.
LEMMA OneProcess ==
  ASSUME LibInv, ResolvesOwnTables, NEW p \in Proc,
         \A q \in Proc \ {p} : /\ fdt'[q] = fdt[q] /\ lib'[q] = lib[q]
                               /\ ghost'[q] = ghost[q] /\ pgd'[q] = pgd[q],
         ProcessInv(fdt[p], lib[p], ghost[p])',
         Rooted(lib[p], ghost[p], pgd[p])'
  PROVE  LibInv' /\ ResolvesOwnTables'
<1>1. \A q \in Proc : ProcessInv(fdt[q], lib[q], ghost[q])'
  <2> SUFFICES ASSUME NEW q \in Proc, q # p
               PROVE  ProcessInv(fdt'[q], lib'[q], ghost'[q])
    OBVIOUS
  <2>1. ProcessInv(fdt[q], lib[q], ghost[q])
    BY DEF LibInv
  <2> QED BY <2>1
<1>2. \A q \in Proc : Rooted(lib[q], ghost[q], pgd[q])'
  <2> SUFFICES ASSUME NEW q \in Proc, q # p
               PROVE  Rooted(lib'[q], ghost'[q], pgd'[q])
    OBVIOUS
  <2>1. Rooted(lib[q], ghost[q], pgd[q])
    BY RootedProcesses
  <2> QED BY <2>1
<1>3. ResolvesOwnTables'
  BY <1>2 DEF ResolvesOwnTables, Rooted, Calling
<1> QED BY <1>1, <1>3 DEF LibInv

LEMMA HoldersOfProcess ==
  \A q \in Proc, k \in Fd : fdt[q][k] = "device" => Holders # {}
<1> SUFFICES ASSUME NEW q \in Proc, NEW k \in Fd, fdt[q][k] = "device"
             PROVE  <<q, k>> \in Holders
  OBVIOUS
<1> QED BY DEF Holders

\* close(2) by the library: nobody else's descriptor, and device_busy follows.
LEMMA Closed ==
  ASSUME LibTypeOK, BusyMeansOpen, ModuleTypeOK,
         NEW p \in Proc, NEW n \in Fd, Close(p, n)
  PROVE  /\ fdt' \in [Proc -> [Fd -> File]]
         /\ \A q \in Proc \ {p} : fdt'[q] = fdt[q]
         /\ \A k \in Fd : fdt'[p][k] = IF k = n THEN "closed" ELSE fdt[p][k]
         /\ BusyMeansOpen'
<1>1. /\ fdt' \in [Proc -> [Fd -> File]]
      /\ \A q \in Proc \ {p} : fdt'[q] = fdt[q]
      /\ \A k \in Fd : fdt'[p][k] = IF k = n THEN "closed" ELSE fdt[p][k]
  BY ClosedType DEF Close, LibTypeOK
<1>2. Holders' = Holders \ {<<p, n>>}
  <2>1. \A q \in Proc, k \in Fd :
          fdt'[q][k] = "device" <=> fdt[q][k] = "device" /\ <<q, k>> # <<p, n>>
    BY <1>1
  <2> QED BY <2>1 DEF Holders
<1>3. device_busy' = (device_busy /\ ~(Holders \subseteq {<<p, n>>}))
  BY DEF Close, DeviceClose
<1> QED BY <1>1, <1>2, <1>3 DEF BusyMeansOpen

LEMMA SameFiles ==
  ASSUME BusyMeansOpen, fdt' = fdt, device_busy' = device_busy
  PROVE  BusyMeansOpen'
BY DEF BusyMeansOpen, Holders

\* ptedit_init: whoever can open the device has none, so has leaked none.
LEMMA KeptByInitOpenDevice ==
  ASSUME IInv, NEW p \in Proc, InitOpenDevice(p), calls' \in 0..MaxCalls
  PROVE  Kept
<1> USE DEF IInv, TypeOK
<1>0. LibTypeOK /\ ModuleTypeOK
  BY DEF LibTypeOK
<1>1. ProcessInv(fdt[p], lib[p], ghost[p]) /\ Rooted(lib[p], ghost[p], pgd[p])
  BY RootedProcesses DEF LibInv
<1>2. fdt \in [Proc -> [Fd -> File]] /\ ghost \in [Proc -> SUBSET Ghost] /\ pgd' = pgd
  BY DEF InitOpenDevice
<1>3. CASE CanOpen /\ FreeFds(p) # {}
  <2> DEFINE n == NewFd(p)
  <2>1. n \in Fd /\ fdt[p][n] = "closed" /\ (fdt[p][0] = "closed" => n = 0)
    BY <1>3, NewFdIsFree
  <2> HIDE DEF n
  <2>2. /\ fdt' = [fdt EXCEPT ![p][n] = "device"]
        /\ lib' = [lib EXCEPT ![p].ptedit_fd = n, ![p].call = "opening"]
        /\ ghost' = [ghost EXCEPT ![p] = @ \ {"revived"}]
        /\ device_busy' = TRUE
    BY <1>3 DEF InitOpenDevice, DeviceOpen, n
  <2>3. fdt' \in [Proc -> [Fd -> File]] /\ ghost' \in [Proc -> SUBSET Ghost]
    BY <1>0, <1>2, <2>1, <2>2, FileType DEF File
  <2>4. /\ lib' \in [Proc -> Lib] /\ \A q \in Proc \ {p} : lib'[q] = lib[q]
        /\ lib'[p].call = "opening" /\ lib'[p].ptedit_fd = n
        /\ lib'[p].ptedit_umem = lib[p].ptedit_umem
    BY <1>0, <2>1, <2>2, StaticsAfterOpen, Zenon
  <2>5. \A k \in Fd : fdt[p][k] # "device"
    BY <1>3, HoldersOfProcess DEF CanOpen, BusyMeansOpen
  <2>6. "leaked" \notin ghost[p] /\ \A k \in Fd : fdt[p][k] \in Foreign
    BY <1>1, <2>5 DEF ProcessInv, InitOpenDevice
  <2>7. fdt'[p][n] = "device" /\ \A k \in Fd : k # n => fdt'[p][k] = fdt[p][k]
    BY <1>2, <2>1, <2>2
  <2>8. "leaked" \notin ghost'[p] /\ "unpaired" \notin ghost'[p]
    BY <1>1, <1>2, <2>2, <2>6 DEF ProcessInv, InitOpenDevice
  <2>9. ProcessInv(fdt[p], lib[p], ghost[p])'
    <3>1. 0 \in Fd
      BY LibAssumption DEF Fd
    <3> QED BY <2>1, <2>4, <2>6, <2>7, <2>8, <3>1 DEF ProcessInv, Foreign
  <2>10. Rooted(lib[p], ghost[p], pgd[p])'
    BY <2>4 DEF Rooted
  <2>11. \A q \in Proc \ {p} : /\ fdt'[q] = fdt[q] /\ lib'[q] = lib[q]
                               /\ ghost'[q] = ghost[q] /\ pgd'[q] = pgd[q]
    BY <1>2, <2>2, <2>4
  <2>12. BusyMeansOpen'
    <3>1. <<p, n>> \in Holders'
      BY <2>1, <2>7 DEF Holders
    <3> QED BY <2>2, <3>1 DEF BusyMeansOpen
  <2> QED BY <1>2, <2>3, <2>4, <2>9, <2>10, <2>11, <2>12, OneProcess
          DEF Kept, LibTypeOK
<1>4. CASE ~(CanOpen /\ FreeFds(p) # {})
  <2>1. /\ lib' = [lib EXCEPT ![p].ptedit_fd = -1, ![p].call = "failed"]
        /\ ghost' = [ghost EXCEPT ![p] = @ \cup
               IF Calling(p, "ready") THEN {"leaked"}
               ELSE IF Calling(p, "idle") /\ lib[p].ptedit_umem > 0 THEN {"revived"}
               ELSE {}]
        /\ fdt' = fdt /\ device_busy' = device_busy
    BY <1>4 DEF InitOpenDevice, moduleVars
  <2>2. ghost' \in [Proc -> SUBSET Ghost]
    BY <1>2, <2>1 DEF Ghost
  <2>3. /\ lib' \in [Proc -> Lib] /\ \A q \in Proc \ {p} : lib'[q] = lib[q]
        /\ lib'[p].call = "failed" /\ lib'[p].ptedit_fd = -1
        /\ lib'[p].ptedit_umem = lib[p].ptedit_umem
    <3>1. -1 \in Fd \cup {-1} /\ "failed" \in {"opening", "failed"}
      OBVIOUS
    <3> QED BY <1>0, <2>1, <3>1, StaticsAfterOpen, Zenon
  <2>4. lib[p] \in Lib /\ lib[p].ptedit_umem \in Int
    BY DEF Lib, Fd
  <2>5. ProcessInv(fdt[p], lib[p], ghost[p])'
    <3>1. CASE Calling(p, "ready")
      <4>1. ghost'[p] = ghost[p] \cup {"leaked"}
        BY <1>2, <2>1, <3>1
      <4>2. lib[p].ptedit_fd \in Fd /\ fdt'[p][lib[p].ptedit_fd] = "device"
        BY <1>1, <2>1, <3>1 DEF ProcessInv, Calling
      <4>3. lib[p].ptedit_fd # lib'[p].ptedit_umem
        BY <1>1, <2>1, <2>3, <3>1, <4>2 DEF ProcessInv, Calling, Fd
      <4> QED BY <1>1, <2>1, <2>3, <2>4, <3>1, <4>1, <4>2, <4>3
              DEF ProcessInv, Calling, Fd
    <3>2. CASE Calling(p, "idle")
      <4>1. /\ ghost[p] \subseteq ghost'[p]
            /\ "leaked" \in ghost'[p] <=> "leaked" \in ghost[p]
            /\ lib[p].ptedit_umem > 0 => "revived" \in ghost'[p]
        BY <1>2, <2>1, <3>2 DEF Calling
      <4> QED BY <1>1, <2>1, <2>3, <2>4, <3>2, <4>1 DEF ProcessInv, Calling
    <3>3. CASE Calling(p, "failed")
      <4>1. ghost'[p] = ghost[p]
        BY <1>2, <2>1, <3>3 DEF Calling
      <4> QED BY <1>1, <2>1, <2>3, <2>4, <3>3, <4>1 DEF ProcessInv, Calling
    <3> QED BY <3>1, <3>2, <3>3 DEF InitOpenDevice, Calling
  <2>6. Rooted(lib[p], ghost[p], pgd[p])'
    BY <2>3 DEF Rooted
  <2>7. \A q \in Proc \ {p} : /\ fdt'[q] = fdt[q] /\ lib'[q] = lib[q]
                              /\ ghost'[q] = ghost[q] /\ pgd'[q] = pgd[q]
    BY <1>2, <2>1, <2>3
  <2> QED BY <1>2, <2>1, <2>2, <2>3, <2>5, <2>6, <2>7, OneProcess, SameFiles
          DEF Kept, LibTypeOK
<1> QED BY <1>3, <1>4

\* /proc/umem is opened as a second descriptor, which is not 0.
LEMMA KeptByInitOpenUmem ==
  ASSUME IInv, NEW p \in Proc, InitOpenUmem(p), calls' \in 0..MaxCalls
  PROVE  Kept
<1> USE DEF IInv, TypeOK
<1>0. LibTypeOK
  BY DEF LibTypeOK
<1>1. ProcessInv(fdt[p], lib[p], ghost[p]) /\ lib[p].call = "opening"
  BY DEF LibInv, InitOpenUmem, Calling
<1>2. /\ fdt \in [Proc -> [Fd -> File]] /\ pgd' = pgd /\ ghost' = ghost
      /\ device_busy' = device_busy
  BY DEF InitOpenUmem, moduleVars
<1> DEFINE ok == umem /\ FreeFds(p) # {}
           n == IF ok THEN NewFd(p) ELSE -1
<1>3. /\ lib' = [lib EXCEPT ![p].ptedit_umem = n, ![p].impl = "kernel",
                            ![p].call = "ready"]
      /\ ok => fdt' = [fdt EXCEPT ![p][n] = "umem"]
      /\ ~ok => fdt' = fdt
  BY DEF InitOpenUmem
<1>4. /\ ok => /\ n \in Fd /\ fdt[p][n] = "closed"
               /\ fdt[p][0] = "closed" => n = 0
      /\ ~ok => n = -1
  BY NewFdIsFree
<1> HIDE DEF n, ok
<1>5. n \in Fd \cup {-1}
  BY <1>4
<1>6. /\ lib' \in [Proc -> Lib] /\ \A q \in Proc \ {p} : lib'[q] = lib[q]
      /\ lib'[p].call = "ready" /\ lib'[p].ptedit_fd = lib[p].ptedit_fd
      /\ lib'[p].ptedit_umem = n /\ lib'[p].impl = "kernel"
  BY <1>0, <1>3, <1>5, StaticsAfterUmem, Zenon
<1>7. /\ fdt' \in [Proc -> [Fd -> File]]
      /\ \A q \in Proc \ {p} : fdt'[q] = fdt[q]
      /\ ok => fdt'[p][n] = "umem" /\ \A k \in Fd : k # n => fdt'[p][k] = fdt[p][k]
      /\ ~ok => fdt'[p] = fdt[p]
  <2>1. CASE ok
    <3>1. n \in Fd /\ fdt' = [fdt EXCEPT ![p][n] = "umem"] /\ "umem" \in File
      BY <1>3, <1>4, <2>1 DEF File
    <3>2. fdt' \in [Proc -> [Fd -> File]]
      BY <1>0, <3>1, FileType
    <3> QED BY <1>2, <2>1, <3>1, <3>2
  <2>2. CASE ~ok
    BY <1>2, <1>3, <2>2
  <2> QED BY <2>1, <2>2
<1>8. ok => n # 0 /\ n # lib[p].ptedit_fd
  BY <1>1, <1>4 DEF ProcessInv
<1>9. ProcessInv(fdt[p], lib[p], ghost[p])'
  BY <1>1, <1>2, <1>4, <1>6, <1>7, <1>8 DEF ProcessInv, Foreign
<1>10. Rooted(lib[p], ghost[p], pgd[p])'
  BY <1>6 DEF Rooted
<1>11. BusyMeansOpen'
  <2>1. \A q \in Proc, k \in Fd : fdt'[q][k] = "device" <=> fdt[q][k] = "device"
    BY <1>4, <1>7
  <2>2. Holders' = Holders
    BY <2>1 DEF Holders
  <2> QED BY <1>2, <2>2 DEF BusyMeansOpen
<1>12. \A q \in Proc \ {p} : /\ fdt'[q] = fdt[q] /\ lib'[q] = lib[q]
                             /\ ghost'[q] = ghost[q] /\ pgd'[q] = pgd[q]
  BY <1>2, <1>6, <1>7
<1> QED BY <1>2, <1>6, <1>7, <1>9, <1>10, <1>11, <1>12, OneProcess
        DEF Kept, LibTypeOK

\* ptedit_cleanup closes the device of a process that has not leaked it.
LEMMA KeptByCleanupDevice ==
  ASSUME IInv, NEW p \in Proc, CleanupDevice(p), calls' \in 0..MaxCalls
  PROVE  Kept
<1> USE DEF IInv, TypeOK
<1>0. LibTypeOK /\ ModuleTypeOK
  BY DEF LibTypeOK
<1>1. ProcessInv(fdt[p], lib[p], ghost[p]) /\ lib[p].call \in {"idle", "ready", "failed"}
  BY DEF LibInv, CleanupDevice
<1>2. pgd' = pgd /\ Unpaired(p) /\ Set(p, "call", "closing")
  BY DEF CleanupDevice
<1>g. /\ ghost' \in [Proc -> SUBSET Ghost] /\ \A q \in Proc \ {p} : ghost'[q] = ghost[q]
      /\ "leaked" \in ghost'[p] <=> "leaked" \in ghost[p]
      /\ "revived" \in ghost'[p] <=> "revived" \in ghost[p]
      /\ lib[p].call = "idle" => "unpaired" \in ghost'[p]
  BY <1>2 DEF Unpaired, Ghost, Calling
<1>3. /\ lib' \in [Proc -> Lib] /\ \A q \in Proc \ {p} : lib'[q] = lib[q]
      /\ lib'[p].call = "closing" /\ lib'[p].ptedit_fd = lib[p].ptedit_fd
      /\ lib'[p].ptedit_umem = lib[p].ptedit_umem
  <2>1. "closing" \in {"idle", "closing"}
    OBVIOUS
  <2> QED BY <1>0, <1>2, <2>1, StaticsAfterCall, Zenon
<1>4. lib[p].ptedit_fd \in Fd \cup {-1} /\ lib[p].ptedit_umem \in Int
  BY DEF Lib, Fd
<1>5. \A n \in Fd : n \in Nat
  BY LibAssumption DEF Fd
<1>6. Rooted(lib[p], ghost[p], pgd[p])'
  BY <1>3 DEF Rooted
<1>7. CASE lib[p].ptedit_fd \in Fd
  <2> DEFINE n == lib[p].ptedit_fd
  <2>1. Close(p, n)
    BY <1>5, <1>7 DEF CleanupDevice
  <2>2. lib[p].call # "failed" /\ "leaked" \notin ghost[p]
    BY <1>1, <1>5, <1>7 DEF ProcessInv
  <2> HIDE DEF n
  <2>3. n \in Fd
    BY <1>7 DEF n
  <2>4. /\ fdt' \in [Proc -> [Fd -> File]]
        /\ \A q \in Proc \ {p} : fdt'[q] = fdt[q]
        /\ \A k \in Fd : fdt'[p][k] = IF k = n THEN "closed" ELSE fdt[p][k]
        /\ BusyMeansOpen'
    BY <1>0, <2>1, <2>3, Closed
  <2>5. ProcessInv(fdt[p], lib[p], ghost[p])'
    BY <1>1, <1>g, <1>3, <1>4, <1>5, <2>2, <2>4 DEF ProcessInv, Foreign, n
  <2>6. \A q \in Proc \ {p} : /\ fdt'[q] = fdt[q] /\ lib'[q] = lib[q]
                              /\ ghost'[q] = ghost[q] /\ pgd'[q] = pgd[q]
    BY <1>2, <1>g, <1>3, <2>4
  <2> QED BY <1>2, <1>g, <1>3, <1>6, <2>4, <2>5, <2>6, OneProcess DEF Kept, LibTypeOK
<1>8. CASE lib[p].ptedit_fd = -1
  <2>1. fdt' = fdt /\ device_busy' = device_busy
    BY <1>8 DEF CleanupDevice, NoClose, moduleVars
  <2>2. lib[p].call # "ready"
    BY <1>1, <1>5, <1>8 DEF ProcessInv
  <2>3. ProcessInv(fdt[p], lib[p], ghost[p])'
    BY <1>1, <1>g, <1>3, <1>4, <1>5, <2>1, <2>2 DEF ProcessInv, Foreign
  <2>4. \A q \in Proc \ {p} : /\ fdt'[q] = fdt[q] /\ lib'[q] = lib[q]
                              /\ ghost'[q] = ghost[q] /\ pgd'[q] = pgd[q]
    BY <1>2, <1>g, <1>3, <2>1
  <2> QED BY <1>2, <1>g, <1>3, <1>6, <2>1, <2>3, <2>4, OneProcess, SameFiles
          DEF Kept, LibTypeOK
<1> QED BY <1>4, <1>7, <1>8

\* ptedit_cleanup closes the number in ptedit_umem, which is not a leaked device.
LEMMA KeptByCleanupUmem ==
  ASSUME IInv, NEW p \in Proc, CleanupUmem(p), calls' \in 0..MaxCalls
  PROVE  Kept
<1> USE DEF IInv, TypeOK
<1>0. LibTypeOK /\ ModuleTypeOK
  BY DEF LibTypeOK
<1>1. ProcessInv(fdt[p], lib[p], ghost[p]) /\ lib[p].call = "closing"
  BY DEF LibInv, CleanupUmem, Calling
<1>2. pgd' = pgd /\ Set(p, "call", "idle")
  BY DEF CleanupUmem
<1>g. /\ ghost' \in [Proc -> SUBSET Ghost] /\ \A q \in Proc \ {p} : ghost'[q] = ghost[q]
      /\ "leaked" \in ghost'[p] <=> "leaked" \in ghost[p]
      /\ "revived" \in ghost'[p] <=> "revived" \in ghost[p]
      /\ "unpaired" \notin ghost'[p]
  BY DEF CleanupUmem
<1>3. /\ lib' \in [Proc -> Lib] /\ \A q \in Proc \ {p} : lib'[q] = lib[q]
      /\ lib'[p].call = "idle" /\ lib'[p].ptedit_fd = lib[p].ptedit_fd
      /\ lib'[p].ptedit_umem = lib[p].ptedit_umem
  BY <1>0, <1>2, StaticsAfterCall
<1>4. lib[p].ptedit_umem \in Fd \cup {-1}
  BY DEF Lib, Fd
<1>5. \A n \in Fd : n \in Nat
  BY LibAssumption DEF Fd
<1>6. Rooted(lib[p], ghost[p], pgd[p])'
  BY <1>3 DEF Rooted
<1>7. CASE lib[p].ptedit_umem > 0
  <2> DEFINE n == lib[p].ptedit_umem
  <2>1. Close(p, n)
    BY <1>5, <1>7 DEF CleanupUmem
  <2>2. n \in Fd
    BY <1>4, <1>7
  <2> HIDE DEF n
  <2>3. /\ fdt' \in [Proc -> [Fd -> File]]
        /\ \A q \in Proc \ {p} : fdt'[q] = fdt[q]
        /\ \A k \in Fd : fdt'[p][k] = IF k = n THEN "closed" ELSE fdt[p][k]
        /\ BusyMeansOpen'
    BY <1>0, <2>1, <2>2, Closed
  <2>4. ProcessInv(fdt[p], lib[p], ghost[p])'
    BY <1>1, <1>g, <1>3, <1>5, <2>2, <2>3 DEF ProcessInv, Foreign, n
  <2>5. \A q \in Proc \ {p} : /\ fdt'[q] = fdt[q] /\ lib'[q] = lib[q]
                              /\ ghost'[q] = ghost[q] /\ pgd'[q] = pgd[q]
    BY <1>2, <1>g, <1>3, <2>3
  <2> QED BY <1>2, <1>g, <1>3, <1>6, <2>3, <2>4, <2>5, OneProcess DEF Kept, LibTypeOK
<1>8. CASE ~(lib[p].ptedit_umem > 0)
  <2>1. fdt' = fdt /\ device_busy' = device_busy
    BY <1>8 DEF CleanupUmem, NoClose, moduleVars
  <2>2. ProcessInv(fdt[p], lib[p], ghost[p])'
    BY <1>1, <1>g, <1>3, <1>4, <1>5, <1>8, <2>1 DEF ProcessInv, Foreign
  <2>3. \A q \in Proc \ {p} : /\ fdt'[q] = fdt[q] /\ lib'[q] = lib[q]
                              /\ ghost'[q] = ghost[q] /\ pgd'[q] = pgd[q]
    BY <1>2, <1>g, <1>3, <2>1
  <2> QED BY <1>2, <1>g, <1>3, <1>6, <2>1, <2>2, <2>3, OneProcess, SameFiles
          DEF Kept, LibTypeOK
<1> QED BY <1>7, <1>8

\* ptedit_use_implementation.
LEMMA KeptByChoice ==
  ASSUME IInv, NEW p \in Proc, NEW i \in {"user_pread", "user"}, NEW ok \in BOOLEAN,
         UseKernel(p) \/ UseUser(p, i, ok), calls' \in 0..MaxCalls
  PROVE  Kept
<1> USE DEF IInv, TypeOK
<1>0. LibTypeOK /\ ModuleTypeOK
  BY DEF LibTypeOK
<1>1. ProcessInv(fdt[p], lib[p], ghost[p]) /\ lib[p].call = "ready"
  BY DEF LibInv, UseKernel, UseUser, Calling
<1>2. fdt' = fdt /\ pgd' = pgd /\ device_busy' = device_busy
  BY DEF UseKernel, UseUser, moduleVars
<1>3. /\ ghost' \in [Proc -> SUBSET Ghost]
      /\ \A q \in Proc \ {p} : ghost'[q] = ghost[q]
      /\ "leaked" \in ghost'[p] => "leaked" \in ghost[p]
      /\ "unpaired" \in ghost'[p] => "unpaired" \in ghost[p]
  BY DEF UseKernel, UseUser
<1>4. /\ lib' \in [Proc -> Lib] /\ \A q \in Proc \ {p} : lib'[q] = lib[q]
      /\ lib'[p].call = "ready" /\ lib'[p].ptedit_fd = lib[p].ptedit_fd
      /\ lib'[p].ptedit_umem = lib[p].ptedit_umem
  BY <1>0, StaticsAfterKernel, StaticsAfterChoice
<1>5. Rooted(lib[p], ghost[p], pgd[p])'
  <2>1. CASE UseKernel(p)
    <3>1. lib'[p].impl = "kernel"
      BY <1>0, <2>1, StaticsAfterKernel
    <3> QED BY <3>1 DEF Rooted
  <2>2. CASE UseUser(p, i, ok)
    <3>1. /\ lib'[p].impl = i /\ lib'[p].ptedit_paging_root = pgd[p]
          /\ lib'[p].ptedit_vmem = Mapped(p, i, ok)
      BY <1>0, <2>2, StaticsAfterChoice, Zenon
    <3>2. lib[p].ptedit_vmem \in {"NULL", "MAP_FAILED", "mapped"}
      BY <1>0 DEF LibTypeOK, Lib
    <3> QED BY <1>2, <3>1, <3>2 DEF Rooted, Mapped
  <2> QED BY <2>1, <2>2
<1>6. ProcessInv(fdt[p], lib[p], ghost[p])'
  BY <1>1, <1>2, <1>3, <1>4 DEF ProcessInv
<1>7. \A q \in Proc \ {p} : /\ fdt'[q] = fdt[q] /\ lib'[q] = lib[q]
                            /\ ghost'[q] = ghost[q] /\ pgd'[q] = pgd[q]
  BY <1>2, <1>3, <1>4
<1> QED BY <1>2, <1>3, <1>4, <1>5, <1>6, <1>7, OneProcess, SameFiles
        DEF Kept, LibTypeOK

\* ptedit_set_paging_root: the change is in the history of the process changed.
LEMMA KeptBySetPagingRoot ==
  ASSUME IInv, NEW p \in Proc, NEW q \in Proc, NEW r \in Proc,
         SetPagingRoot(p, q, r), calls' \in 0..MaxCalls
  PROVE  Kept
<1> USE DEF IInv, TypeOK
<1>1. ProcessInv(fdt[q], lib[q], ghost[q])
  BY DEF LibInv
<1>2. lib[q].call # "none" /\ fdt' = fdt /\ lib' = lib /\ device_busy' = device_busy
  BY DEF SetPagingRoot, Calling, moduleVars
<1>3. /\ ghost' \in [Proc -> SUBSET Ghost] /\ pgd' \in [Proc -> Proc]
      /\ ghost'[q] = ghost[q] \cup {"rerooted"}
      /\ \A k \in Proc \ {q} : ghost'[k] = ghost[k] /\ pgd'[k] = pgd[k]
  BY DEF SetPagingRoot, Ghost
<1>4. Rooted(lib[q], ghost[q], pgd[q])'
  <2>1. Rooted(lib[q], ghost[q], pgd[q])
    BY RootedProcesses
  <2> QED BY <1>2, <1>3, <2>1 DEF Rooted
<1>5. ProcessInv(fdt[q], lib[q], ghost[q])'
  <2>1. \A x \in {"leaked", "revived", "unpaired"} : x \in ghost'[q] <=> x \in ghost[q]
    BY <1>3
  <2> QED BY <1>1, <1>2, <2>1 DEF ProcessInv
<1>6. \A k \in Proc \ {q} : /\ fdt'[k] = fdt[k] /\ lib'[k] = lib[k]
                            /\ ghost'[k] = ghost[k] /\ pgd'[k] = pgd[k]
  BY <1>2, <1>3
<1> QED BY <1>2, <1>3, <1>4, <1>5, <1>6, OneProcess, SameFiles DEF Kept, LibTypeOK

LEMMA KeptByStart ==
  ASSUME IInv, NEW p \in Proc, Start(p), calls' \in 0..MaxCalls
  PROVE  Kept
<1> USE DEF IInv, TypeOK
<1>0. LibTypeOK
  BY DEF LibTypeOK
<1>1. ProcessInv(fdt[p], lib[p], ghost[p]) /\ lib[p].call = "none"
  BY DEF LibInv, Start, Calling
<1>2. /\ fdt' = fdt /\ pgd' = pgd /\ ghost' = ghost /\ device_busy' = device_busy
      /\ Set(p, "call", "idle")
  BY DEF Start, moduleVars
<1>3. /\ lib' \in [Proc -> Lib] /\ \A q \in Proc \ {p} : lib'[q] = lib[q]
      /\ lib'[p].call = "idle" /\ lib'[p].ptedit_umem = lib[p].ptedit_umem
  <2>1. "idle" \in {"idle", "closing"}
    OBVIOUS
  <2> QED BY <1>0, <1>2, <2>1, StaticsAfterCall, Zenon
<1>4. Rooted(lib[p], ghost[p], pgd[p])'
  BY <1>3 DEF Rooted
<1>5. ProcessInv(fdt[p], lib[p], ghost[p])'
  BY <1>1, <1>2, <1>3 DEF ProcessInv, Foreign
<1>6. \A q \in Proc \ {p} : /\ fdt'[q] = fdt[q] /\ lib'[q] = lib[q]
                            /\ ghost'[q] = ghost[q] /\ pgd'[q] = pgd[q]
  BY <1>2, <1>3
<1> QED BY <1>2, <1>3, <1>4, <1>5, <1>6, OneProcess, SameFiles DEF Kept, LibTypeOK

\* The child has the descriptors of its parent, so the device has more holders.
LEMMA KeptByFork ==
  ASSUME IInv, NEW p \in Proc, NEW q \in Proc, Fork(p, q), calls' \in 0..MaxCalls
  PROVE  Kept
<1> USE DEF IInv, TypeOK
<1>1. /\ ProcessInv(fdt[p], lib[p], ghost[p]) /\ ProcessInv(fdt[q], lib[q], ghost[q])
      /\ lib[q].call = "none" /\ p # q /\ device_busy' = device_busy
  BY DEF LibInv, Fork, Calling, moduleVars
<1>2. /\ fdt' \in [Proc -> [Fd -> File]] /\ lib' \in [Proc -> Lib]
      /\ ghost' \in [Proc -> SUBSET Ghost] /\ pgd' \in [Proc -> Proc]
      /\ fdt'[q] = fdt[p] /\ lib'[q] = lib[p]
      /\ ghost'[q] = ghost[p] \cup {"rerooted"} /\ pgd'[q] = q
  BY DEF Fork, Ghost
<1>3. \A k \in Proc \ {q} : /\ fdt'[k] = fdt[k] /\ lib'[k] = lib[k]
                            /\ ghost'[k] = ghost[k] /\ pgd'[k] = pgd[k]
  BY DEF Fork
<1>4. Rooted(lib[q], ghost[q], pgd[q])'
  <2>1. Rooted(lib[p], ghost[p], pgd[p])
    BY RootedProcesses
  <2> QED BY <1>2, <2>1 DEF Rooted
<1>5. ProcessInv(fdt[q], lib[q], ghost[q])'
  <2>1. \A x \in {"leaked", "revived", "unpaired"} : x \in ghost'[q] <=> x \in ghost[p]
    BY <1>2
  <2> QED BY <1>1, <1>2, <2>1 DEF ProcessInv
<1>6. BusyMeansOpen'
  <2>1. ASSUME Holders # {} PROVE Holders' # {}
    <3>1. PICK h \in Proc \X Fd : fdt[h[1]][h[2]] = "device"
      BY <2>1 DEF Holders
    <3>2. h[1] # q
      BY <1>1, <3>1 DEF ProcessInv
    <3>3. h \in Holders'
      BY <1>3, <3>1, <3>2 DEF Holders
    <3> QED BY <3>3
  <2>2. ASSUME Holders' # {} PROVE Holders # {}
    <3>1. PICK h \in Proc \X Fd : fdt'[h[1]][h[2]] = "device"
      BY <2>2 DEF Holders
    <3>2. fdt[IF h[1] = q THEN p ELSE h[1]][h[2]] = "device"
      BY <1>2, <1>3, <3>1
    <3> QED BY <3>1, <3>2, HoldersOfProcess
  <2> QED BY <1>1, <2>1, <2>2 DEF BusyMeansOpen
<1> QED BY <1>2, <1>3, <1>4, <1>5, <1>6, OneProcess DEF Kept, LibTypeOK

\* The kernel closes every file of a process that ends.
LEMMA KeptByExit ==
  ASSUME IInv, NEW p \in Proc, Exit(p), calls' \in 0..MaxCalls
  PROVE  Kept
<1> USE DEF IInv, TypeOK
<1>1. /\ fdt' \in [Proc -> [Fd -> File]] /\ ghost' \in [Proc -> SUBSET Ghost]
      /\ pgd' \in [Proc -> Proc] /\ \A n \in Fd : fdt'[p][n] = "closed"
      /\ lib'[p] = NoProcess /\ ghost'[p] = {}
  BY DEF Exit, File, Ghost
<1>2. NoProcess \in Lib
  BY LibAssumption DEF NoProcess, Lib, Fd, Impl, Root
<1>3. lib' \in [Proc -> Lib]
  BY <1>2 DEF Exit
<1>4. \A q \in Proc \ {p} : /\ fdt'[q] = fdt[q] /\ lib'[q] = lib[q]
                            /\ ghost'[q] = ghost[q] /\ pgd'[q] = pgd[q]
  BY DEF Exit
<1>5. ProcessInv(fdt[p], lib[p], ghost[p])' /\ Rooted(lib[p], ghost[p], pgd[p])'
  BY <1>1 DEF ProcessInv, Rooted, NoProcess
<1>6. BusyMeansOpen'
  <2>1. device_busy' = (device_busy /\ ~(\A h \in Holders : h[1] = p))
    BY DEF Exit, DeviceClose
  <2>2. Holders' = {h \in Holders : h[1] # p}
    <3>1. \A q \in Proc, k \in Fd :
            fdt'[q][k] = "device" <=> fdt[q][k] = "device" /\ q # p
      BY <1>1, <1>4
    <3> QED BY <3>1 DEF Holders
  <2> QED BY <2>1, <2>2 DEF BusyMeansOpen
<1> QED BY <1>1, <1>3, <1>4, <1>5, <1>6, OneProcess DEF Kept, LibTypeOK

\* The program's own files never have the number of one of the library's.
LEMMA KeptByOwnFile ==
  ASSUME IInv, NEW p \in Proc, OwnFile(p), calls' \in 0..MaxCalls
  PROVE  Kept
<1> USE DEF IInv, TypeOK
<1>0. LibTypeOK
  BY DEF LibTypeOK
<1>1. /\ ProcessInv(fdt[p], lib[p], ghost[p]) /\ Rooted(lib[p], ghost[p], pgd[p])
      /\ lib[p].call \in {"idle", "ready", "failed"}
  BY RootedProcesses DEF LibInv, OwnFile
<1>2. /\ lib' = lib /\ pgd' = pgd /\ ghost' = ghost /\ device_busy' = device_busy
  BY DEF OwnFile, moduleVars
<1>3. PICK n \in Fd : \E x \in Foreign : /\ fdt[p][n] \in Foreign
                                         /\ fdt' = [fdt EXCEPT ![p][n] = x]
  <2>1. CASE FreeFds(p) # {} /\ fdt' = [fdt EXCEPT ![p][NewFd(p)] = "other"]
    BY <2>1, NewFdIsFree DEF Foreign
  <2>2. CASE \E n \in Fd : /\ fdt[p][n] = "other"
                           /\ fdt' = [fdt EXCEPT ![p][n] = "closed"]
    BY <2>2 DEF Foreign
  <2> QED BY <2>1, <2>2 DEF OwnFile
<1>4. PICK x \in Foreign : fdt[p][n] \in Foreign /\ fdt' = [fdt EXCEPT ![p][n] = x]
  BY <1>3
<1>5. fdt' \in [Proc -> [Fd -> File]]
  BY <1>0, <1>4, FileType DEF Foreign, File
<1>6. /\ \A q \in Proc \ {p} : fdt'[q] = fdt[q]
      /\ fdt'[p][n] = x /\ \A k \in Fd : k # n => fdt'[p][k] = fdt[p][k]
  BY <1>4
<1>7. ProcessInv(fdt[p], lib[p], ghost[p])'
  BY <1>1, <1>2, <1>4, <1>6 DEF ProcessInv, Foreign
<1>8. Rooted(lib[p], ghost[p], pgd[p])'
  BY <1>1, <1>2
<1>9. BusyMeansOpen'
  <2>1. \A q \in Proc, k \in Fd : fdt'[q][k] = "device" <=> fdt[q][k] = "device"
    BY <1>4, <1>6 DEF Foreign
  <2>2. Holders' = Holders
    BY <2>1 DEF Holders
  <2> QED BY <1>2, <2>2 DEF BusyMeansOpen
<1>10. \A q \in Proc \ {p} : /\ fdt'[q] = fdt[q] /\ lib'[q] = lib[q]
                             /\ ghost'[q] = ghost[q] /\ pgd'[q] = pgd[q]
  BY <1>2, <1>6
<1> QED BY <1>2, <1>5, <1>7, <1>8, <1>9, <1>10, OneProcess DEF Kept, LibTypeOK

\* pteditor_exit has come to its end, so nobody has the device open, and nobody
\* is between ptedit_init and ptedit_cleanup.
LEMMA KeptByUmemRemoved ==
  ASSUME IInv, UmemRemoved, calls' \in 0..MaxCalls
  PROVE  Kept
<1> USE DEF IInv, TypeOK
<1>1. /\ lib' = lib /\ pgd' = pgd /\ ghost' = ghost /\ device_busy' = device_busy
      /\ ~device_busy
  BY DEF UmemRemoved, ExitUmem, ModuleInv, ExitSteps
<1>2. \A q \in Proc, n \in Fd : fdt'[q][n] = IF fdt[q][n] = "umem" THEN "dead" ELSE fdt[q][n]
  BY DEF UmemRemoved
<1>3. fdt' \in [Proc -> [Fd -> File]]
  BY DEF UmemRemoved, File
<1>4. \A q \in Proc, n \in Fd : fdt[q][n] # "device"
  BY <1>1, HoldersOfProcess DEF BusyMeansOpen
<1>5. ASSUME NEW q \in Proc PROVE ProcessInv(fdt[q], lib[q], ghost[q])'
  <2>1. ProcessInv(fdt[q], lib[q], ghost[q])
    BY DEF LibInv
  <2>2. lib[q].call \notin {"opening", "ready"} /\ "leaked" \notin ghost[q]
    BY <1>4, <2>1 DEF ProcessInv
  <2>3. lib[q].ptedit_umem \in Fd \cup {-1} /\ \A n \in Fd : n \in Nat
    BY LibAssumption DEF Lib, Fd
  <2>4. \A n \in Fd : fdt[q][n] \in Foreign => fdt'[q][n] = fdt[q][n]
    BY <1>2 DEF Foreign
  <2>5. \A n \in Fd : fdt[q][n] \in {"umem", "dead"} => fdt'[q][n] \in {"umem", "dead"}
    BY <1>2
  <2> QED BY <1>1, <2>1, <2>2, <2>3, <2>4, <2>5, SMTT(30) DEF ProcessInv, Foreign
<1>6. BusyMeansOpen'
  <2>1. Holders' = {}
    BY <1>2, <1>4 DEF Holders
  <2> QED BY <1>1, <2>1 DEF BusyMeansOpen
<1>7. ResolvesOwnTables'
  BY <1>1 DEF ResolvesOwnTables, Calling
<1> QED BY <1>1, <1>3, <1>5, <1>6, <1>7 DEF Kept, LibTypeOK, LibInv

\* The library does not move while the module is loaded or removed; the statics of
\* a module that is loaded again are fresh, but then nobody has the device open.
LEMMA KeptByModule ==
  ASSUME IInv, Insmod \/ ModuleStep \/ UNCHANGED moduleVars, UNCHANGED libVars,
         calls' \in 0..MaxCalls
  PROVE  Kept
<1> USE DEF IInv, TypeOK
<1>1. fdt' = fdt /\ lib' = lib /\ pgd' = pgd /\ ghost' = ghost
  BY DEF libVars
<1>2. device_busy' = device_busy
  <2>1. CASE Insmod
    BY <2>1 DEF Insmod, ModuleInv, ModuleTypeOK
  <2>2. CASE ModuleStep
    BY <2>2 DEF ModuleStep, InitKallsyms, InitRegister, InitLookup, InitProbe,
                InitUmem, Rmmod, ExitDeregister, ExitProbe
  <2>3. CASE UNCHANGED moduleVars
    BY <2>3 DEF moduleVars
  <2> QED BY <2>1, <2>2, <2>3
<1>3. LibInv' /\ ResolvesOwnTables'
  BY <1>1 DEF LibInv, ResolvesOwnTables, Calling
<1> QED BY <1>1, <1>2, <1>3, SameFiles DEF Kept, LibTypeOK

-----------------------------------------------------------------------------

LEMMA LibInductive == IInv /\ [Next]_vars => IInv'
<1> SUFFICES ASSUME IInv, [Next]_vars PROVE IInv'
  OBVIOUS
<1>1. ModuleTypeOK' /\ ModuleInv'
  BY StepOfModule, ModuleInvStep DEF IInv, TypeOK
<1>2. calls' \in 0..MaxCalls
  BY LibAssumption DEF IInv, TypeOK, Next, vars
<1>3. ASSUME NEW p \in Proc, Call(p) PROVE Kept
  <2>1. ASSUME NEW i \in {"user_pread", "user"}, NEW ok \in BOOLEAN,
               UseKernel(p) \/ UseUser(p, i, ok)
        PROVE  Kept
    BY <1>2, <2>1, KeptByChoice
  <2> QED BY <1>2, <1>3, <2>1, KeptByInitOpenDevice, KeptByCleanupDevice,
             KeptBySetPagingRoot, KeptByFork, KeptByStart, KeptByOwnFile DEF Call
<1>4. ASSUME NEW p \in Proc, Step(p) PROVE Kept
  BY <1>2, <1>4, KeptByInitOpenUmem, KeptByCleanupUmem, KeptByExit DEF Step
<1>5. ASSUME UmemRemoved PROVE Kept
  BY <1>2, <1>5, KeptByUmemRemoved
<1>6. ASSUME Insmod \/ ModuleStep \/ UNCHANGED moduleVars, UNCHANGED libVars PROVE Kept
  BY <1>2, <1>6, KeptByModule
<1>7. Kept
  BY <1>3, <1>4, <1>5, <1>6 DEF Next, vars, libVars, moduleVars
<1> QED BY <1>1, <1>7 DEF Kept, LibTypeOK, IInv, TypeOK

LEMMA LibInitially == Init => IInv
<1> SUFFICES ASSUME Init PROVE IInv
  OBVIOUS
<1> USE LibAssumption
<1>1. ModuleTypeOK /\ ModuleInv
  BY DEF Init, ModuleInit, ModuleTypeOK, ModuleInv, Registered, Flushable, ExitSteps
<1>2. NoProcess \in Lib
  BY DEF NoProcess, Lib, Fd, Impl, Root
<1>3. TypeOK
  BY <1>1, <1>2 DEF Init, TypeOK, File, Ghost
<1>4. BusyMeansOpen
  BY DEF Init, ModuleInit, BusyMeansOpen, Holders
<1>5. LibInv
  BY DEF Init, LibInv, ProcessInv, NoProcess
<1>6. ResolvesOwnTables
  BY DEF Init, ResolvesOwnTables, Calling, NoProcess
<1> QED BY <1>1, <1>3, <1>4, <1>5, <1>6 DEF IInv

LEMMA LibInvariant == Spec => []IInv
<1> QED BY LibInitially, LibInductive, PTL DEF Spec

\* The state of module and library has its types: every number kept in the statics
\* is a descriptor or -1, and the module is at a step of its init or exit.
THEOREM LibTypeCorrect == Spec => []TypeOK
<1>1. IInv => TypeOK
  BY DEF IInv
<1> QED BY <1>1, LibInvariant, PTL

\* Whoever has the device open finds the handlers and invalidate_tlb, except in the
\* two windows of pteditor_init that HandlersReady names.
THEOREM OpenDeviceHasHandlers == Spec => []HandlersReady
<1>1. IInv => HandlersReady
  BY DEF IInv, TypeOK, ModuleTypeOK, ModuleInv, HandlersReady, Registered, Flushable,
         InitSteps, ExitSteps
<1> QED BY <1>1, LibInvariant, PTL

\* pteditor_exit, and a pteditor_init that fails, leave nothing behind but the
\* device of a kernel without flush_tlb_mm_range.
THEOREM ModuleLeavesNothing == Spec => []NothingLeftBehind
<1>1. IInv => NothingLeftBehind
  BY DEF IInv, TypeOK, ModuleTypeOK, ModuleInv, NothingLeftBehind, Registered,
         Flushable, InitSteps, ExitSteps
<1> QED BY <1>1, LibInvariant, PTL

\* device_busy is set exactly as long as a descriptor of the device is open in some
\* process, over forks, kills, failed inits and reloads of the module.
THEOREM BusyIsOpen == Spec => []BusyMeansOpen
<1>1. IInv => BusyMeansOpen
  BY DEF IInv
<1> QED BY <1>1, LibInvariant, PTL

\* Between ptedit_init and ptedit_cleanup the statics name an open device and, or
\* -1, a /proc/umem that works, which is never descriptor 0.
THEOREM DescriptorsAreOwn == Spec => []OwnDescriptors
<1>1. IInv => OwnDescriptors
  <2> SUFFICES ASSUME IInv, NEW p \in Proc, lib[p].call = "ready"
               PROVE  /\ fdt[p][lib[p].ptedit_fd] = "device"
                      /\ lib[p].ptedit_umem = -1 \/ fdt[p][lib[p].ptedit_umem] = "umem"
                      /\ fdt[p][PhysicalPageFd(p)] = "device" <=> lib[p].ptedit_umem = -1
    BY DEF OwnDescriptors, Calling
  <2>1. ProcessInv(fdt[p], lib[p], ghost[p])
    BY DEF IInv, LibInv
  <2>2. \A n \in Fd : n \in Nat
    BY LibAssumption DEF Fd
  <2> QED BY <2>1, <2>2 DEF ProcessInv, PhysicalPageFd
<1> QED BY <1>1, LibInvariant, PTL

\* ptedit_cleanup closes nothing of the program's own, except after the sequence
\* init, cleanup, failed init, and except when it is called without a ptedit_init
\* before it, which it does not notice.
THEOREM CleanupClosesOwn == Spec => []ClosesOwnFiles
<1>1. IInv => ClosesOwnFiles
  <2> SUFFICES ASSUME IInv, NEW p \in Proc
               PROVE  /\ lib[p].call \in {"ready", "failed"} /\ lib[p].ptedit_fd >= 0 =>
                           fdt[p][lib[p].ptedit_fd] = "device"
                      /\ lib[p].call \in {"ready", "failed", "closing"}
                           /\ lib[p].ptedit_umem > 0 =>
                           \/ fdt[p][lib[p].ptedit_umem] \in {"umem", "dead"}
                           \/ ghost[p] \cap {"revived", "unpaired"} # {}
    BY DEF ClosesOwnFiles
  <2>1. ProcessInv(fdt[p], lib[p], ghost[p])
    BY DEF IInv, LibInv
  <2> QED BY <2>1 DEF ProcessInv
<1> QED BY <1>1, LibInvariant, PTL

\* After ptedit_cleanup the process keeps nothing of the library, unless it had
\* called ptedit_init twice.
THEOREM NothingLeaks == Spec => []NoDescriptorLeak
<1>1. IInv => NoDescriptorLeak
  BY DEF IInv, LibInv, ProcessInv, NoDescriptorLeak, Calling, Foreign
<1> QED BY <1>1, LibInvariant, PTL

\* The user-space implementations start at the tables of their own process, unless
\* a fork or ptedit_set_paging_root came after the choice.
THEOREM OwnTablesResolved == Spec => []ResolvesOwnTables
<1>1. IInv => ResolvesOwnTables
  BY DEF IInv
<1> QED BY <1>1, LibInvariant, PTL

=============================================================================
