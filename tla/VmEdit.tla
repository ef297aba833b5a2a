------------------------------- MODULE VmEdit -------------------------------
(***************************************************************************)
(* VM_RESOLVE and VM_UPDATE of module/pteditor.c on page tables in memory, *)
(* beside what goes on at the same time: the hardware fills its TLBs, the  *)
(* kernel maps and unmaps pages and frees page tables, processes exec and  *)
(* exit.                                                                   *)
(*                                                                         *)
(* mm_is_locked is false whenever a handler reads it (PteditorDevice,      *)
(* theorem LockedModeNeverReached), so both handlers always lock.          *)
(* update_vm looks the mm of the pid up three times: for the lock, for the *)
(* walk (in resolve_vm) and for the flush (in invalidate_tlb_kernel), and  *)
(* it takes no reference on what it finds.  A task without an mm, one that *)
(* has exited or a kernel thread, yields the mm it has borrowed last.      *)
(***************************************************************************)
EXTENDS PageTables, FiniteSets

CONSTANTS Task,       \* the tasks that call the device
          Cpu,        \* the CPUs
          Pid,        \* the processes whose page tables are edited
          Mm,         \* the mm_structs
          NoMm,       \* get_mm found no process
          AllMm,      \* a flush of everything
          NoTask,     \* nobody holds the lock
          current,    \* current[t]: the pid of task t
          mm_pgd,     \* mm_pgd[m]: the root table of mm m
          InitMem,    \* the page tables at the start
          InitMm,     \* the mm of every process at the start
          SpareTable, \* frames the kernel may use for new page tables
          Requests,   \* new_entry: functions from some levels to entries
          page,       \* page[a]: the frame the kernel maps at a
          Calls,      \* the ioctls that are issued: "resolve", "update",
                      \* "invalidate", "switch"
          Kernel,     \* what the kernel does meanwhile: "munmap", "fault",
                      \* "exec", "exit", "borrow"
          Arch        \* "x86" or "aarch64"

ASSUME VmEditAssumption ==
  /\ current \in [Task -> Pid]
  /\ mm_pgd \in [Mm -> Frame]
  /\ InitMem \in Memory
  /\ InitMm \in [Pid -> Mm]
  /\ SpareTable \subseteq Frame
  /\ page \in [Addr -> Frame]
  /\ \A r \in Requests : IsPartial(r, Entry)
  /\ NoMm \notin Mm /\ AllMm \notin Mm \cup {NoMm} /\ NoTask \notin Task

VARIABLES mem,      \* physical memory, as far as it holds page tables
          free,     \* frames that the kernel has freed
          mmOf,     \* task->mm of every process
          activeMm, \* task->active_mm
          writer,   \* mmap_lock of every mm: its writer ...
          readers,  \* ... and its readers
          tlb,      \* tlb[c][m, a]: what CPU c has cached
          exposed,  \* history: <<c, m, a>> that became stale in the TLB of c
                    \* without a flush of it being on its way
          pc,
          args,     \* what the handler was called with
          mm,       \* the mm it has locked
          vm,       \* the vm_t of resolve_vm: slots of the valid levels
          edited,   \* the mm that vm belongs to
          todo,     \* levels still to be written or read, CPUs to be flushed
          flush,    \* the mm that is being flushed
          entry,    \* what vm_to_user has copied
          invalidate_tlb  \* the function pointer: "kernel" or "custom"

memVars == <<mem, free, mmOf, activeMm>>
lockVars == <<writer, readers>>
tlbVars == <<tlb, exposed, invalidate_tlb>>
localVars == <<args, mm, vm, edited, todo, flush, entry>>
vars == <<mem, free, mmOf, activeMm, writer, readers, tlb, exposed, pc, args,
          mm, vm, edited, todo, flush, entry, invalidate_tlb>>

NoArgs == [pid |-> CHOOSE p \in Pid : TRUE, addr |-> CHOOSE a \in Addr : TRUE,
           new |-> <<>>]

Args == [pid : Pid, addr : Addr, new : Requests \cup {<<>>}]

Translation == (Frame \X {PUD, PMD, PTE}) \cup {Fault}

PC == {"user", "r_lock", "r_walk", "r_unlock", "r_copy",
       "u_lock", "u_walk", "u_write", "ipi", "u_unlock",
       "m_clear", "m_free"}

TypeOK ==
  /\ mem \in Memory
  /\ free \subseteq Frame
  /\ mmOf \in [Pid -> Mm \cup {NoMm}]
  /\ activeMm \in [Pid -> Mm \cup {NoMm}]
  /\ writer \in [Mm -> Task \cup {NoTask}]
  /\ readers \in [Mm -> SUBSET Task]
  /\ tlb \in [Cpu -> [Mm \X Addr -> Translation]]
  /\ exposed \subseteq Cpu \X Mm \X Addr
  /\ pc \in [Task -> PC]
  /\ args \in [Task -> Args]
  /\ mm \in [Task -> Mm \cup {NoMm}]
  /\ vm \in [Task -> {vm[t] : t \in Task}]
  /\ \A t \in Task : IsPartial(vm[t], Slot)
  /\ edited \in [Task -> Mm \cup {NoMm}]
  /\ todo \in [Task -> SUBSET (Level \cup Cpu)]
  /\ flush \in [Task -> Mm \cup {NoMm, AllMm}]
  /\ invalidate_tlb \in {"kernel", "custom"}
  /\ entry \in [Task -> {entry[t] : t \in Task}]
  /\ \A t \in Task : IsPartial(entry[t], Entry) /\ DOMAIN entry[t] \subseteq DOMAIN vm[t]

Init ==
  /\ mem = InitMem
  /\ free = SpareTable
  /\ mmOf = InitMm
  /\ activeMm = InitMm
  /\ writer = [m \in Mm |-> NoTask]
  /\ readers = [m \in Mm |-> {}]
  /\ tlb = [c \in Cpu |-> [x \in Mm \X Addr |-> Fault]]
  /\ exposed = {}
  /\ pc = [t \in Task |-> "user"]
  /\ args = [t \in Task |-> NoArgs]
  /\ mm = [t \in Task |-> NoMm]
  /\ vm = [t \in Task |-> <<>>]
  /\ edited = [t \in Task |-> NoMm]
  /\ todo = [t \in Task |-> {}]
  /\ flush = [t \in Task |-> NoMm]
  /\ entry = [t \in Task |-> <<>>]
  /\ invalidate_tlb = "kernel"

-----------------------------------------------------------------------------
(* Helpers.                                                                *)

get_mm(p) == IF mmOf[p] # NoMm THEN mmOf[p] ELSE activeMm[p]

LiveMm == {mmOf[p] : p \in Pid} \ {NoMm}

\* An mm that a task without its own has borrowed is not freed.
BorrowedMm == {activeMm[p] : p \in {q \in Pid : mmOf[q] = NoMm}}

walk(m, a) == IF m = NoMm THEN <<>> ELSE resolve_vm(mem, mm_pgd[m], a)

translate(m, a) == Translate(mem, mm_pgd[m], a)

\* What a CPU has cached rightly and no longer would if memory became after,
\* except for the pages that are about to be flushed.
Outdated(after, pages) ==
  {x \in Cpu \X Mm \X Addr :
     LET cached == tlb[x[1]][<<x[2], x[3]>>]
     IN /\ <<x[2], x[3]>> \notin pages
        /\ cached = translate(x[2], x[3])
        /\ cached \notin {Fault, Translate(after, mm_pgd[x[2]], x[3])}}

Goto(t, label) == pc' = [pc EXCEPT ![t] = label]

\* Back to user space: the handler's locals are gone.
Return(t) ==
  /\ Goto(t, "user")
  /\ args' = [args EXCEPT ![t] = NoArgs]
  /\ mm' = [mm EXCEPT ![t] = NoMm]
  /\ vm' = [vm EXCEPT ![t] = <<>>]
  /\ edited' = [edited EXCEPT ![t] = NoMm]
  /\ todo' = [todo EXCEPT ![t] = {}]
  /\ flush' = [flush EXCEPT ![t] = NoMm]
  /\ entry' = [entry EXCEPT ![t] = <<>>]

-----------------------------------------------------------------------------
(* The mmap lock (external).                                               *)

ReadLock(t, m) ==
  /\ writer[m] = NoTask
  /\ readers' = [readers EXCEPT ![m] = @ \cup {t}]
  /\ UNCHANGED writer

ReadUnlock(t, m) ==
  /\ readers' = [readers EXCEPT ![m] = @ \ {t}]
  /\ UNCHANGED writer

WriteLock(t, m) ==
  /\ writer[m] = NoTask /\ readers[m] = {}
  /\ writer' = [writer EXCEPT ![m] = t]
  /\ UNCHANGED readers

WriteUnlock(t, m) ==
  /\ writer' = [writer EXCEPT ![m] = NoTask]
  /\ UNCHANGED readers

-----------------------------------------------------------------------------
(* VM_RESOLVE: resolve_vm(vaddr, &vm, 1); vm_to_user(&vm_user, &vm);       *)

\* mm = get_mm(entry->pid); if(!mm) return 1: then nothing is valid, which is
\* what vm_to_user reports.
ResolveEnter(t, p, a) ==
  /\ "resolve" \in Calls
  /\ pc[t] = "user"
  /\ get_mm(p) # NoMm
  /\ args' = [args EXCEPT ![t] = [pid |-> p, addr |-> a, new |-> <<>>]]
  /\ mm' = [mm EXCEPT ![t] = get_mm(p)]
  /\ Goto(t, "r_lock")
  /\ UNCHANGED <<memVars, lockVars, tlbVars, vm, edited, todo, flush, entry>>

ResolveLock(t) ==
  /\ pc[t] = "r_lock"
  /\ ReadLock(t, mm[t])
  /\ Goto(t, "r_walk")
  /\ UNCHANGED <<memVars, tlbVars, localVars>>

ResolveWalk(t) ==
  /\ pc[t] = "r_walk"
  /\ vm' = [vm EXCEPT ![t] = walk(mm[t], args[t].addr)]
  /\ edited' = [edited EXCEPT ![t] = mm[t]]
  /\ Goto(t, "r_unlock")
  /\ UNCHANGED <<memVars, lockVars, tlbVars, args, mm, todo, flush, entry>>

ResolveUnlock(t) ==
  /\ pc[t] = "r_unlock"
  /\ ReadUnlock(t, mm[t])
  /\ todo' = [todo EXCEPT ![t] = DOMAIN vm[t]]
  /\ Goto(t, "r_copy")
  /\ UNCHANGED <<memVars, tlbVars, args, mm, vm, edited, flush, entry>>

\* vm_to_user copies the entries through the pointers, in this order, after
\* resolve_vm has given the lock back.
CopyOrder == <<P4D, PGD, PMD, PUD, PTE>>

CopyNext(t) ==
  CopyOrder[CHOOSE i \in 1..5 : /\ CopyOrder[i] \in todo[t]
                              /\ \A j \in 1..(i - 1) : CopyOrder[j] \notin todo[t]]

ResolveCopy(t) ==
  /\ pc[t] = "r_copy"
  /\ todo[t] # {}
  /\ LET l == CopyNext(t)
     IN /\ todo' = [todo EXCEPT ![t] = @ \ {l}]
        /\ entry' = [entry EXCEPT ![t] =
                       [k \in DOMAIN @ \cup {l} |->
                          IF k = l THEN Read(mem, vm[t][l]) ELSE @[k]]]
  /\ UNCHANGED <<memVars, lockVars, tlbVars, pc, args, mm, vm, edited, flush>>

\* to_user: the caller has valid and the entries.
ResolveReturn(t) ==
  /\ pc[t] = "r_copy"
  /\ todo[t] = {}
  /\ Return(t)
  /\ UNCHANGED <<memVars, lockVars, tlbVars>>

-----------------------------------------------------------------------------
(* VM_UPDATE: update_vm(&vm_user, 1).                                      *)

UpdateEnter(t, p, a, r) ==
  /\ "update" \in Calls
  /\ pc[t] = "user"
  /\ get_mm(p) # NoMm
  /\ args' = [args EXCEPT ![t] = [pid |-> p, addr |-> a, new |-> r]]
  /\ mm' = [mm EXCEPT ![t] = get_mm(p)]
  /\ Goto(t, "u_lock")
  /\ UNCHANGED <<memVars, lockVars, tlbVars, vm, edited, todo, flush, entry>>

\* Mutant of UpdateLock: the mmap lock is not taken.
UpdateLockNone(t) ==
  /\ pc[t] = "u_lock"
  /\ Goto(t, "u_walk")
  /\ UNCHANGED <<memVars, lockVars, tlbVars, localVars>>

UpdateLock(t) ==
  /\ pc[t] = "u_lock"
  /\ WriteLock(t, mm[t])
  /\ Goto(t, "u_walk")
  /\ UNCHANGED <<memVars, tlbVars, localVars>>

\* resolve_vm(addr, &old_entry, 0), which looks the mm up again.  A level is
\* written if it is valid and the caller asks for it.
UpdateWalk(t) ==
  /\ pc[t] = "u_walk"
  /\ LET m == get_mm(args[t].pid)
         old == walk(m, args[t].addr)
     IN /\ edited' = [edited EXCEPT ![t] = m]
        /\ vm' = [vm EXCEPT ![t] = old]
        /\ todo' = [todo EXCEPT ![t] = DOMAIN old \cap DOMAIN args[t].new]
  /\ Goto(t, "u_write")
  /\ UNCHANGED <<memVars, lockVars, tlbVars, args, mm, flush, entry>>

\* Mutant of UpdateWrite: else if instead of if, so that one level is written.
UpdateWriteFirst(t) ==
  /\ pc[t] = "u_write"
  /\ todo[t] # {}
  /\ LET l == CHOOSE k \in todo[t] : \A j \in todo[t] : k <= j
     IN mem' = Write(mem, vm[t][l], args[t].new[l])
  /\ todo' = [todo EXCEPT ![t] = {}]
  /\ UNCHANGED <<free, mmOf, activeMm, lockVars, tlbVars, pc, args, mm, vm, edited,
                 flush, entry>>

\* The page that the flush of update_vm will be for: the process that was named
\* owns the tables that are edited.
Flushed(t) ==
  IF mmOf[args[t].pid] = edited[t] THEN {<<edited[t], args[t].addr>>} ELSE {}

\* set_pgd, set_p4d, set_pud, set_pmd, set_pte, in this order.
UpdateWrite(t) ==
  /\ pc[t] = "u_write"
  /\ todo[t] # {}
  /\ LET l == CHOOSE k \in todo[t] : \A j \in todo[t] : k <= j
         after == Write(mem, vm[t][l], args[t].new[l])
     IN /\ mem' = after
        /\ todo' = [todo EXCEPT ![t] = @ \ {l}]
        /\ exposed' = exposed \cup Outdated(after, Flushed(t))
  /\ UNCHANGED <<free, mmOf, activeMm, lockVars, tlb, invalidate_tlb, pc, args, mm,
                 vm, edited, flush, entry>>

\* Mutant of FlushMm: the caller's own mm is flushed on every architecture.
FlushMmCaller(t, p) ==
  IF invalidate_tlb = "custom" THEN AllMm ELSE mmOf[current[t]]

\* What invalidate_tlb(pid, addr) flushes.  invalidate_tlb_custom: everything.
\* invalidate_tlb_kernel: x86 looks the pid up again ("process might have
\* already been killed": then nothing is flushed), aarch64 takes the mm of the
\* caller and ignores the pid (its test for a VMA at the address always
\* succeeds here: aarch64 is never run with "munmap").
FlushMm(t, p) ==
  CASE invalidate_tlb = "custom"               -> AllMm
    [] invalidate_tlb = "kernel" /\ Arch = "x86" -> get_mm(p)
    [] OTHER                                   -> mmOf[current[t]]

\* Mutant of UpdateFlush: update_vm does not call invalidate_tlb.
UpdateFlushNone(t) ==
  /\ pc[t] = "u_write"
  /\ todo[t] = {}
  /\ Goto(t, "u_unlock")
  /\ UNCHANGED <<memVars, lockVars, tlbVars, localVars>>

\* invalidate_tlb(old_entry.pid, addr)
UpdateFlush(t) ==
  /\ pc[t] = "u_write"
  /\ todo[t] = {}
  /\ flush' = [flush EXCEPT ![t] = FlushMm(t, args[t].pid)]
  /\ todo' = [todo EXCEPT ![t] = IF flush'[t] = NoMm THEN {} ELSE Cpu]
  /\ Goto(t, "ipi")
  /\ UNCHANGED <<memVars, lockVars, tlbVars, args, mm, vm, edited, entry>>

\* INVALIDATE_TLB_PID, and INVALIDATE_TLB with the pid of the caller: the same
\* function, without the mmap lock.
InvalidateTlb(t, p, a) ==
  /\ "invalidate" \in Calls
  /\ pc[t] = "user"
  /\ FlushMm(t, p) # NoMm
  /\ args' = [args EXCEPT ![t] = [pid |-> p, addr |-> a, new |-> <<>>]]
  /\ flush' = [flush EXCEPT ![t] = FlushMm(t, p)]
  /\ todo' = [todo EXCEPT ![t] = Cpu]
  /\ Goto(t, "ipi")
  /\ UNCHANGED <<memVars, lockVars, tlbVars, mm, vm, edited, entry>>

\* One CPU drops the page, or with invalidate_tlb_custom everything; the
\* caller waits for all of them (external: flush_tlb_mm_range, on_each_cpu).
FlushCpu(t, c) ==
  /\ pc[t] = "ipi"
  /\ c \in todo[t]
  /\ tlb' = [tlb EXCEPT ![c] =
               [x \in Mm \X Addr |->
                  IF flush[t] = AllMm \/ x = <<flush[t], args[t].addr>>
                  THEN Fault ELSE @[x]]]
  /\ exposed' = {x \in exposed :
                   \/ x[1] # c
                   \/ flush[t] # AllMm /\ <<x[2], x[3]>> # <<flush[t], args[t].addr>>}
  /\ todo' = [todo EXCEPT ![t] = @ \ {c}]
  /\ UNCHANGED <<memVars, lockVars, invalidate_tlb, pc, args, mm, vm, edited, flush,
                 entry>>

\* Every CPU has answered.
FlushDone(t) ==
  /\ pc[t] = "ipi"
  /\ todo[t] = {}
  /\ IF mm[t] = NoMm THEN Return(t) ELSE Goto(t, "u_unlock") /\ UNCHANGED localVars
  /\ UNCHANGED <<memVars, lockVars, tlbVars>>

UpdateUnlock(t) ==
  /\ pc[t] = "u_unlock"
  /\ WriteUnlock(t, mm[t])
  /\ Return(t)
  /\ UNCHANGED <<memVars, tlbVars>>

\* SWITCH_TLB_INVALIDATION; x86 ignores the request for the custom function.
SwitchTlbInvalidation(t, impl) ==
  /\ "switch" \in Calls
  /\ pc[t] = "user"
  /\ impl \in {"kernel", "custom"}
  /\ invalidate_tlb' = IF Arch = "x86" /\ impl = "custom" THEN invalidate_tlb
                       ELSE impl
  /\ UNCHANGED <<memVars, lockVars, tlb, exposed, pc, localVars>>

-----------------------------------------------------------------------------
(* The hardware and the kernel (external).                                 *)

\* A CPU that runs a thread of m uses address a.
TlbFill(c, m, a) ==
  /\ m \in LiveMm
  /\ translate(m, a) \notin {Fault, tlb[c][<<m, a>>]}
  /\ tlb' = [tlb EXCEPT ![c][<<m, a>>] = translate(m, a)]
  /\ exposed' = exposed \ {<<c, m, a>>}
  /\ UNCHANGED <<memVars, lockVars, invalidate_tlb, pc, localVars>>

\* munmap of everything under one page table: the PMD is cleared, the TLBs are
\* flushed and the table is freed, all under the mmap lock.
MunmapBegin(t, a) ==
  /\ "munmap" \in Kernel
  /\ pc[t] = "user"
  /\ LET m == mmOf[current[t]]
     IN /\ m # NoMm
        /\ PTE \in DOMAIN walk(m, a)
        /\ Read(mem, walk(m, a)[PMD]).kind = "table"
        /\ WriteLock(t, m)
        /\ mm' = [mm EXCEPT ![t] = m]
        /\ vm' = [vm EXCEPT ![t] = walk(m, a)]
  /\ Goto(t, "m_clear")
  /\ UNCHANGED <<memVars, tlbVars, args, edited, todo, flush, entry>>

MunmapClear(t) ==
  /\ pc[t] = "m_clear"
  /\ mem' = Write(mem, vm[t][PMD], None)
  /\ exposed' = exposed \cup Outdated(mem', {mm[t]} \X Addr)
  /\ Goto(t, "m_free")
  /\ UNCHANGED <<free, mmOf, activeMm, lockVars, tlb, invalidate_tlb, localVars>>

MunmapFree(t) ==
  /\ pc[t] = "m_free"
  /\ free' = free \cup {vm[t][PTE][1]}
  /\ tlb' = [c \in Cpu |-> [x \in Mm \X Addr |->
                             IF x[1] = mm[t] THEN Fault ELSE tlb[c][x]]]
  /\ exposed' = {x \in exposed : x[2] # mm[t]}
  /\ WriteUnlock(t, mm[t])
  /\ Return(t)
  /\ UNCHANGED <<mem, mmOf, activeMm, invalidate_tlb>>

\* A page fault maps a page, with a new page table if there is none.  It takes
\* the lock of the VMA, which VM_UPDATE does not take.  The new table may still be
\* in use by a page that an update has led there.
PageFault(m, a) ==
  /\ "fault" \in Kernel
  /\ m \in LiveMm
  /\ \A t \in Task : pc[t] \in {"m_clear", "m_free"} => mm[t] # m
  /\ LET slots == walk(m, a)
     IN \/ /\ PTE \in DOMAIN slots
           /\ Read(mem, slots[PMD]).kind = "table"
           /\ Read(mem, slots[PTE]) = None
           /\ mem' = Write(mem, slots[PTE], Leaf(page[a]))
           /\ UNCHANGED free
        \/ /\ PUD \in DOMAIN slots /\ PMD \notin DOMAIN slots
           /\ Read(mem, slots[PUD]).kind = "table"
           /\ \E f \in free :
                /\ free' = free \ {f}
                /\ mem' = [Write(mem, Slots(mem, mm_pgd[m], a)[PMD], Table(f))
                             EXCEPT ![f] = [i \in Index |->
                               IF i = index[a][PTE] THEN Leaf(page[a]) ELSE None]]
  /\ exposed' = exposed \cup Outdated(mem', {})
  /\ UNCHANGED <<mmOf, activeMm, lockVars, tlb, invalidate_tlb, pc, localVars>>

\* The flushes that will come too late for the mm of p, because the next lookup
\* of p finds another one: they leave behind what is stale now.
LostFlushes(p) ==
  {x \in Cpu \X Mm \X Addr :
     /\ x[2] = mmOf[p]
     /\ tlb[x[1]][<<x[2], x[3]>>] # translate(x[2], x[3])
     /\ \E t \in Task : /\ pc[t] = "u_write" /\ args[t].pid = p
                        /\ edited[t] = x[2] /\ args[t].addr = x[3]}

\* Another process replaces its mm (exec).  The new one may be a recycled one:
\* no handler holds a reference, so some may still point to it, and even think
\* that they have it locked.  It starts with nothing in the TLBs and unlocked.
\* An mm that nobody has keeps its tables as they are.
Exec(p, m) ==
  /\ "exec" \in Kernel
  /\ \A t \in Task : current[t] # p
  /\ mmOf[p] # NoMm
  /\ m \in Mm \ (LiveMm \cup BorrowedMm)
  /\ mmOf' = [mmOf EXCEPT ![p] = m]
  /\ activeMm' = [activeMm EXCEPT ![p] = m]
  /\ writer' = [writer EXCEPT ![m] = NoTask]
  /\ readers' = [readers EXCEPT ![m] = {}]
  /\ tlb' = [c \in Cpu |-> [x \in Mm \X Addr |->
                             IF x[1] = m THEN Fault ELSE tlb[c][x]]]
  /\ exposed' = {x \in exposed \cup LostFlushes(p) : x[2] # m}
  /\ UNCHANGED <<mem, free, invalidate_tlb, pc, localVars>>

\* Another process exits: its mm stays behind as its active_mm.
Exit(p) ==
  /\ "exit" \in Kernel
  /\ \A t \in Task : current[t] # p
  /\ mmOf[p] # NoMm
  /\ mmOf' = [mmOf EXCEPT ![p] = NoMm]
  /\ activeMm' = [activeMm EXCEPT ![p] = mmOf[p]]
  /\ exposed' = exposed \cup LostFlushes(p)
  /\ UNCHANGED <<mem, free, lockVars, tlb, invalidate_tlb, pc, localVars>>

\* A task without an mm is scheduled after another one, whose mm it borrows, or
\* it is gone for good.
Borrow(p, m) ==
  /\ "borrow" \in Kernel
  /\ mmOf[p] = NoMm
  /\ m \in LiveMm \cup {NoMm}
  /\ activeMm' = [activeMm EXCEPT ![p] = m]
  /\ UNCHANGED <<mem, free, mmOf, lockVars, tlbVars, pc, localVars>>

-----------------------------------------------------------------------------

Next ==
  \/ \E t \in Task :
       \/ \E p \in Pid, a \in Addr :
            \/ ResolveEnter(t, p, a)
            \/ \E r \in Requests : UpdateEnter(t, p, a, r)
            \/ InvalidateTlb(t, p, a)
       \/ ResolveLock(t) \/ ResolveWalk(t) \/ ResolveUnlock(t)
       \/ ResolveCopy(t) \/ ResolveReturn(t)
       \/ UpdateLock(t) \/ UpdateWalk(t) \/ UpdateWrite(t)
       \/ UpdateFlush(t) \/ FlushDone(t) \/ UpdateUnlock(t)
       \/ \E c \in Cpu : FlushCpu(t, c)
       \/ \E impl \in {"kernel", "custom"} : SwitchTlbInvalidation(t, impl)
       \/ \E a \in Addr : MunmapBegin(t, a)
       \/ MunmapClear(t) \/ MunmapFree(t)
  \/ \E c \in Cpu, m \in Mm, a \in Addr : TlbFill(c, m, a)
  \/ \E m \in Mm, a \in Addr : PageFault(m, a)
  \/ \E p \in Pid : (\E m \in Mm : Exec(p, m)) \/ Exit(p)
  \/ \E p \in Pid, m \in Mm \cup {NoMm} : Borrow(p, m)

Spec == Init /\ [][Next]_vars

-----------------------------------------------------------------------------
(* Properties.                                                             *)

\* The flush that will repair what CPU c has cached of page a is under way.
FlushPending(t, c, m, a) ==
  \/ pc[t] = "u_write" /\ <<m, a>> \in Flushed(t)
  \/ /\ pc[t] = "ipi" /\ c \in todo[t]
     /\ flush[t] = AllMm \/ <<flush[t], args[t].addr>> = <<m, a>>
  \/ pc[t] = "m_free" /\ mm[t] = m

\* "The TLB for the given address is flushed after updating the entries": no
\* CPU goes on using a mapping that VM_UPDATE has replaced.  There are three
\* exceptions, which exposed remembers: the update was made through another page
\* that shares an upper-level entry; the process that was named does not own the
\* tables that were edited, since it has none of its own and borrows different
\* ones every time it is looked up; or it left the tables, which others use on,
\* between the write and the flush.
TlbCoherent ==
  \A c \in Cpu, m \in LiveMm, a \in Addr :
    \/ tlb[c][<<m, a>>] \in {Fault, translate(m, a)}
    \/ <<c, m, a>> \in exposed
    \/ \E t \in Task : FlushPending(t, c, m, a)

\* VM_UPDATE writes only to page tables that are still in use: what it found in
\* its walk is not freed under it.
WritesHitTables ==
  \A t \in Task : pc[t] = "u_write" =>
    \A l \in todo[t] : vm[t][l][1] \notin free

\* When VM_UPDATE returns, every entry that the caller asked for and that
\* exists has the value that the caller gave.
UpdateApplied ==
  \A t \in Task : pc[t] = "u_unlock" =>
    \A l \in DOMAIN vm[t] \cap DOMAIN args[t].new :
      Read(mem, vm[t][l]) = args[t].new[l]

\* What VM_RESOLVE reports as valid is there: the entries of the upper levels
\* that it returns are not zero.
ValidIsNonzero ==
  \A t \in Task : \A l \in DOMAIN entry[t] : l # PTE => entry[t][l].kind # "none"

-----------------------------------------------------------------------------
(* What makes the page tables of VmEdit orderly.                           *)

\* A page table is reached through one PMD, and not at all if it is unused.
PageTablesOwned(memory, level, unused) ==
  \A s \in Slot : level[s[1]] = PMD /\ LeadsOn(Read(memory, s)) =>
    /\ Read(memory, s).to \notin unused
    /\ \A r \in Slot : /\ level[r[1]] = PMD /\ LeadsOn(Read(memory, r))
                       /\ Read(memory, r).to = Read(memory, s).to
                       => r = s

\* Memory at the start, and callers that make large pages but no page tables,
\* clear nothing, and do not name a folded P4D twice.
Orderly(level) ==
  /\ level \in [Frame -> Level]
  /\ \A m \in Mm : level[mm_pgd[m]] = PGD
  /\ \A f \in SpareTable : level[f] = PTE
  /\ Leveled(InitMem, level)
  /\ PageTablesOwned(InitMem, level, SpareTable)
  /\ \A r \in Requests : /\ \A l \in DOMAIN r : r[l].kind # "none"
                         /\ \A l \in DOMAIN r \ {PTE} : r[l].kind = "leaf"
                         /\ P4dFolded => ~({PGD, P4D} \subseteq DOMAIN r)

\* With a folded P4D no walk asks the PGD for zero (pgd_none is constantly false):
\* what it would find there is not zero.
RootsFilled(memory) ==
  P4dFolded => \A m \in Mm, a \in Addr :
                 memory[mm_pgd[m]][index[a][PGD]].kind # "none"

=============================================================================
