--------------------------- MODULE PteditorDevice ---------------------------
(***************************************************************************)
(* The character device of module/pteditor.c: who has it open, and the     *)
(* locks its ioctl handlers take.                                          *)
(*                                                                         *)
(* The handlers run as .unlocked_ioctl: every task that holds a descriptor *)
(* of the one open file (threads, forked children) may be inside           *)
(* device_ioctl at the same time.  What keeps them apart is the mmap lock  *)
(* of the mm they work on and the module's global flag mm_is_locked, which *)
(* VM_LOCK sets so that later calls skip the mmap lock.                    *)
(*                                                                         *)
(* One action per step between two points at which another task may run:   *)
(* a handler blocks in a lock, and reads mm_is_locked before it locks and, *)
(* in GET_ROOT and SET_ROOT, once more before it unlocks; VM_UPDATE looks  *)
(* its process up once more behind the lock.  The contents of the page     *)
(* tables are left to other modules.                                       *)
(***************************************************************************)
EXTENDS Integers, FiniteSets

CONSTANTS Task,        \* the tasks (threads) that use the device
          File,        \* identities of open file descriptions
          Mm,          \* the mm_structs
          active_mm,   \* current->active_mm of every task
          Commands,    \* the ioctls the tasks issue
          NoTask,      \* nobody holds the lock
          NoMm,        \* get_mm found no process
          NoFile       \* the device is not open

LockCommands == {"VM_LOCK", "VM_UNLOCK"}

ReadCommands == {"VM_RESOLVE", "GET_ROOT"}

WriteCommands == {"VM_UPDATE", "SET_ROOT"}

AllCommands == LockCommands \cup ReadCommands \cup WriteCommands

ASSUME ConstantsAssumption ==
  /\ active_mm \in [Task -> Mm]
  /\ Commands \subseteq AllCommands
  /\ NoTask \notin Task
  /\ NoMm \notin Mm
  /\ NoFile \notin File

VARIABLES device_busy,   \* static bool device_busy
          mm_is_locked,  \* static bool mm_is_locked
          misc_mtx,      \* holder of the misc core's mutex (external)
          live,          \* open file descriptions not yet released
          refs,          \* refs[f]: the tasks with a descriptor of f
          writer,        \* writer[m]: holder of mmap_lock for writing
          readers,       \* readers[m]: holders of mmap_lock for reading
          pc,            \* where each task is
          cmd,           \* the ioctl a task is in
          mm,            \* the local variable mm of that handler: the mm it locks
          works,         \* the mm whose tables it walks or edits
          lock           \* the value of !mm_is_locked the handler acts on

vars == <<device_busy, mm_is_locked, misc_mtx, live, refs, writer, readers,
          pc, cmd, mm, works, lock>>

fileVars == <<device_busy, misc_mtx, live, refs>>

lockVars == <<writer, readers>>

callVars == <<cmd, mm, works, lock>>

-----------------------------------------------------------------------------

(***************************************************************************)
(* "user": in user space.  "open_*": in open(2).  The others are inside    *)
(* device_ioctl: about to lock, in the section the lock is for, about to   *)
(* unlock; VM_LOCK and VM_UNLOCK handle two locks one after the other.     *)
(***************************************************************************)
PC == {"user", "open_check", "open_set", "lock", "lookup", "section", "unlock",
       "vmlock_write", "vmlock_read", "vmlock_set",
       "vmunlock_write", "vmunlock_read", "vmunlock_clear", "mmap"}

HandlerPC == PC \ {"user", "open_check", "open_set", "mmap"}

\* The types, and: a handler is past its NULL check exactly when it has an mm.
TypeOK ==
  /\ device_busy \in BOOLEAN
  /\ mm_is_locked \in BOOLEAN
  /\ misc_mtx \in Task \cup {NoTask}
  /\ live \subseteq File
  /\ refs \in [File -> SUBSET Task]
  /\ writer \in [Mm -> Task \cup {NoTask}]
  /\ readers \in [Mm -> SUBSET Task]
  /\ pc \in [Task -> PC]
  /\ cmd \in [Task -> AllCommands \cup {"none"}]
  /\ mm \in [Task -> Mm \cup {NoMm}]
  /\ works \in [Task -> Mm \cup {NoMm}]
  /\ lock \in [Task -> BOOLEAN]
  /\ \A t \in Task : pc[t] \in HandlerPC <=> mm[t] # NoMm

Init ==
  /\ device_busy = FALSE
  /\ mm_is_locked = FALSE
  /\ misc_mtx = NoTask
  /\ live = {}
  /\ refs = [f \in File |-> {}]
  /\ writer = [m \in Mm |-> NoTask]
  /\ readers = [m \in Mm |-> {}]
  /\ pc = [t \in Task |-> "user"]
  /\ cmd = [t \in Task |-> "none"]
  /\ mm = [t \in Task |-> NoMm]
  /\ works = [t \in Task |-> NoMm]
  /\ lock = [t \in Task |-> FALSE]

-----------------------------------------------------------------------------
(* Opening and releasing the device.                                       *)

\* misc_open takes misc_mtx before it calls the driver's open (external).
MiscOpen(t) ==
  /\ pc[t] = "user"
  /\ misc_mtx = NoTask
  /\ misc_mtx' = t
  /\ pc' = [pc EXCEPT ![t] = "open_check"]
  /\ UNCHANGED <<device_busy, mm_is_locked, live, refs, lockVars, callVars>>

\* Mutant: device_open does not look at device_busy.
OpenCheckAlwaysFree(t) ==
  /\ pc[t] = "open_check"
  /\ pc' = [pc EXCEPT ![t] = "open_set"]
  /\ UNCHANGED <<fileVars, mm_is_locked, lockVars, callVars>>

\* device_open: if (device_busy == true) return -EBUSY;
OpenCheck(t) ==
  /\ pc[t] = "open_check"
  /\ pc' = [pc EXCEPT ![t] = IF device_busy THEN "user" ELSE "open_set"]
  /\ misc_mtx' = IF device_busy THEN NoTask ELSE misc_mtx
  /\ UNCHANGED <<device_busy, mm_is_locked, live, refs, lockVars, callVars>>

\* device_open: device_busy = true; return 0;  the descriptor is installed.
OpenSet(t, f) ==
  /\ pc[t] = "open_set"
  /\ f \notin live
  /\ device_busy' = TRUE
  /\ live' = live \cup {f}
  /\ refs' = [refs EXCEPT ![f] = {t}]
  /\ misc_mtx' = NoTask
  /\ pc' = [pc EXCEPT ![t] = "user"]
  /\ UNCHANGED <<mm_is_locked, lockVars, callVars>>

\* fork, or a second thread: u gets a descriptor of an open file (external).
Share(t, u, f) ==
  /\ pc[t] = "user"
  /\ t \in refs[f]
  /\ u \notin refs[f]
  /\ refs' = [refs EXCEPT ![f] = @ \cup {u}]
  /\ UNCHANGED <<device_busy, mm_is_locked, misc_mtx, live, lockVars, pc,
                 callVars>>

\* close(2), or the exit of a task; a task that is blocked in a lock cannot
\* be killed, the locks are taken uninterruptibly (external).
Close(t, f) ==
  /\ pc[t] = "user"
  /\ t \in refs[f]
  /\ refs' = [refs EXCEPT ![f] = @ \ {t}]
  /\ UNCHANGED <<device_busy, mm_is_locked, misc_mtx, live, lockVars, pc,
                 callVars>>

\* Mutant: the release does not clear device_busy.
DeviceReleaseStaysBusy(f) ==
  /\ f \in live
  /\ refs[f] = {}
  /\ live' = live \ {f}
  /\ UNCHANGED <<device_busy, mm_is_locked, misc_mtx, refs, lockVars, pc, callVars>>

\* Mutant: the device is given back when any descriptor of it is closed.
DeviceReleaseEarly(f) ==
  /\ f \in live
  /\ device_busy' = FALSE
  /\ live' = IF refs[f] = {} THEN live \ {f} ELSE live
  /\ UNCHANGED <<mm_is_locked, misc_mtx, refs, lockVars, pc, callVars>>

\* device_release, called once the last descriptor is gone: device_busy = false;
DeviceRelease(f) ==
  /\ f \in live
  /\ refs[f] = {}
  /\ device_busy' = FALSE
  /\ live' = live \ {f}
  /\ UNCHANGED <<mm_is_locked, misc_mtx, refs, lockVars, pc, callVars>>

-----------------------------------------------------------------------------
(* The mmap lock (external): down_read, up_read, down_write, up_write.     *)

MmapReadLock(t, m) ==
  /\ writer[m] = NoTask
  /\ readers' = [readers EXCEPT ![m] = @ \cup {t}]
  /\ UNCHANGED writer

MmapReadUnlock(t, m) ==
  /\ readers' = [readers EXCEPT ![m] = @ \ {t}]
  /\ UNCHANGED writer

MmapWriteLock(t, m) ==
  /\ writer[m] = NoTask
  /\ readers[m] = {}
  /\ writer' = [writer EXCEPT ![m] = t]
  /\ UNCHANGED readers

MmapWriteUnlock(t, m) ==
  /\ writer' = [writer EXCEPT ![m] = NoTask]
  /\ UNCHANGED readers

-----------------------------------------------------------------------------
(* device_ioctl: VM_RESOLVE, VM_UPDATE, GET_ROOT and SET_ROOT.             *)

HasDevice(t) == \E f \in live : t \in refs[f]

\* get_mm: the mm of the process with the given pid, or none (external lookup).
LookupResults == Mm \cup {NoMm}

\* Mutant: the result of get_mm is used without the NULL check.
IoctlEnterUnchecked(t, c, m) ==
  /\ pc[t] = "user"
  /\ HasDevice(t)
  /\ c \in Commands \cap (ReadCommands \cup WriteCommands)
  /\ cmd' = [cmd EXCEPT ![t] = c]
  /\ mm' = [mm EXCEPT ![t] = m]
  /\ lock' = [lock EXCEPT ![t] = ~mm_is_locked]
  /\ pc' = [pc EXCEPT ![t] = "lock"]
  /\ UNCHANGED <<fileVars, mm_is_locked, lockVars, works>>

\* The handler looks up the mm of the pid it was given and reads mm_is_locked
\* to decide whether it has to lock.  if(!mm) return 1: nothing has changed, so
\* the failed call is no step of its own.
IoctlEnter(t, c, m) ==
  /\ pc[t] = "user"
  /\ HasDevice(t)
  /\ m # NoMm
  /\ c \in Commands \cap (ReadCommands \cup WriteCommands)
  /\ cmd' = [cmd EXCEPT ![t] = c]
  /\ mm' = [mm EXCEPT ![t] = m]
  /\ lock' = [lock EXCEPT ![t] = ~mm_is_locked]
  /\ pc' = [pc EXCEPT ![t] = "lock"]
  /\ UNCHANGED <<fileVars, mm_is_locked, lockVars, works>>

\* Mutant: every handler takes the lock for reading.
IoctlLockShared(t) ==
  /\ pc[t] = "lock"
  /\ IF ~lock[t] THEN UNCHANGED lockVars ELSE MmapReadLock(t, mm[t])
  /\ pc' = [pc EXCEPT ![t] = IF cmd[t] = "VM_UPDATE" THEN "lookup" ELSE "section"]
  /\ works' = [works EXCEPT ![t] = mm[t]]
  /\ UNCHANGED <<fileVars, mm_is_locked, cmd, mm, lock>>

\* if(lock) mmap_read_lock(mm) or mmap_write_lock(mm)
IoctlLock(t) ==
  /\ pc[t] = "lock"
  /\ IF ~lock[t] THEN UNCHANGED lockVars
     ELSE IF cmd[t] \in WriteCommands THEN MmapWriteLock(t, mm[t])
     ELSE MmapReadLock(t, mm[t])
  /\ pc' = [pc EXCEPT ![t] = IF cmd[t] = "VM_UPDATE" THEN "lookup" ELSE "section"]
  /\ works' = [works EXCEPT ![t] = mm[t]]
  /\ UNCHANGED <<fileVars, mm_is_locked, cmd, mm, lock>>

\* update_vm calls resolve_vm, which looks the process up again: it may have
\* another mm by now, or none.  It walks what it finds under the lock of mm[t].
IoctlLookup(t, m) ==
  /\ pc[t] = "lookup"
  /\ works' = [works EXCEPT ![t] = m]
  /\ pc' = [pc EXCEPT ![t] = "section"]
  /\ UNCHANGED <<fileVars, mm_is_locked, lockVars, cmd, mm, lock>>

\* The work on the mm is done.  resolve_vm and update_vm unlock by the value of
\* !mm_is_locked they were called with, GET_ROOT and SET_ROOT read it again.
IoctlWork(t) ==
  /\ pc[t] = "section"
  /\ lock' = [lock EXCEPT ![t] = IF cmd[t] \in {"GET_ROOT", "SET_ROOT"}
                                 THEN ~mm_is_locked ELSE @]
  /\ pc' = [pc EXCEPT ![t] = "unlock"]
  /\ UNCHANGED <<fileVars, mm_is_locked, lockVars, cmd, mm, works>>

\* Mutant of IoctlUnlock: the write lock is given back as if it were a read lock.
IoctlUnlockRead(t) ==
  /\ pc[t] = "unlock"
  /\ IF lock[t] THEN MmapReadUnlock(t, mm[t]) ELSE UNCHANGED lockVars
  /\ pc' = [pc EXCEPT ![t] = "user"]
  /\ cmd' = [cmd EXCEPT ![t] = "none"]
  /\ mm' = [mm EXCEPT ![t] = NoMm]
  /\ works' = [works EXCEPT ![t] = NoMm]
  /\ lock' = [lock EXCEPT ![t] = FALSE]
  /\ UNCHANGED <<fileVars, mm_is_locked>>

\* if(lock) mmap_read_unlock(mm) or mmap_write_unlock(mm), and return
IoctlUnlock(t) ==
  /\ pc[t] = "unlock"
  /\ IF ~lock[t] THEN UNCHANGED lockVars
     ELSE IF cmd[t] \in WriteCommands THEN MmapWriteUnlock(t, mm[t])
     ELSE MmapReadUnlock(t, mm[t])
  /\ pc' = [pc EXCEPT ![t] = "user"]
  /\ cmd' = [cmd EXCEPT ![t] = "none"]
  /\ mm' = [mm EXCEPT ![t] = NoMm]
  /\ works' = [works EXCEPT ![t] = NoMm]
  /\ lock' = [lock EXCEPT ![t] = FALSE]
  /\ UNCHANGED <<fileVars, mm_is_locked>>

-----------------------------------------------------------------------------
(* device_ioctl: VM_LOCK and VM_UNLOCK, on current->active_mm.             *)

\* The guards at the head of the two handlers.  When the flag already has the
\* value the command wants, the handler returns -1 and changes nothing.
VmEnter(t, c) ==
  /\ pc[t] = "user"
  /\ HasDevice(t)
  /\ c \in Commands \cap LockCommands
  /\ IF mm_is_locked = (c = "VM_LOCK")
     THEN UNCHANGED <<pc, cmd, mm>>
     ELSE /\ cmd' = [cmd EXCEPT ![t] = c]
          /\ mm' = [mm EXCEPT ![t] = active_mm[t]]
          /\ pc' = [pc EXCEPT ![t] = IF c = "VM_LOCK" THEN "vmlock_write"
                                    ELSE "vmunlock_write"]
  /\ UNCHANGED <<fileVars, mm_is_locked, lockVars, works, lock>>

\* Mutant: VM_LOCK without the second lock, so that it completes.
VmSuccessorNoReadLock ==
  [vmlock_write |-> "vmlock_set", vmlock_read |-> "vmlock_set",
   vmlock_set |-> "user",
   vmunlock_write |-> "vmunlock_read", vmunlock_read |-> "vmunlock_clear",
   vmunlock_clear |-> "user"]

\* What follows each statement of the two handlers.
VmSuccessor ==
  [vmlock_write |-> "vmlock_read", vmlock_read |-> "vmlock_set",
   vmlock_set |-> "user",
   vmunlock_write |-> "vmunlock_read", vmunlock_read |-> "vmunlock_clear",
   vmunlock_clear |-> "user"]

\* VM_LOCK: mmap_write_lock(mm); mmap_read_lock(mm); mm_is_locked = true;
\* VM_UNLOCK: mmap_write_unlock(mm); mmap_read_unlock(mm); mm_is_locked = false;
VmStep(t) ==
  /\ pc[t] \in DOMAIN VmSuccessor
  /\ CASE pc[t] = "vmlock_write"   -> MmapWriteLock(t, mm[t])
       [] pc[t] = "vmlock_read"    -> MmapReadLock(t, mm[t])
       [] pc[t] = "vmunlock_write" -> MmapWriteUnlock(t, mm[t])
       [] pc[t] = "vmunlock_read"  -> MmapReadUnlock(t, mm[t])
       [] OTHER                    -> UNCHANGED lockVars
  /\ mm_is_locked' = CASE pc[t] = "vmlock_set"     -> TRUE
                       [] pc[t] = "vmunlock_clear" -> FALSE
                       [] OTHER                    -> mm_is_locked
  /\ LET next == VmSuccessor[pc[t]]
     IN /\ pc' = [pc EXCEPT ![t] = next]
        /\ cmd' = [cmd EXCEPT ![t] = IF next = "user" THEN "none" ELSE @]
        /\ mm' = [mm EXCEPT ![t] = IF next = "user" THEN NoMm ELSE @]
  /\ UNCHANGED <<fileVars, works, lock>>

-----------------------------------------------------------------------------
(* The rest of the kernel (external): mmap, munmap, mprotect or brk of a   *)
(* task, in the middle of which it holds its own mmap lock for writing.    *)

MmapBegin(t) ==
  /\ pc[t] = "user"
  /\ MmapWriteLock(t, active_mm[t])
  /\ pc' = [pc EXCEPT ![t] = "mmap"]
  /\ UNCHANGED <<fileVars, mm_is_locked, callVars>>

MmapEnd(t) ==
  /\ pc[t] = "mmap"
  /\ MmapWriteUnlock(t, active_mm[t])
  /\ pc' = [pc EXCEPT ![t] = "user"]
  /\ UNCHANGED <<fileVars, mm_is_locked, callVars>>

-----------------------------------------------------------------------------

Next ==
  \/ \E t \in Task :
       \/ MiscOpen(t) \/ OpenCheck(t)
       \/ \E f \in File : OpenSet(t, f)
       \/ \E u \in Task, f \in File : Share(t, u, f)
       \/ \E f \in File : Close(t, f)
       \/ \E c \in Commands, m \in LookupResults : IoctlEnter(t, c, m)
       \/ IoctlLock(t)
       \/ \E m \in LookupResults : IoctlLookup(t, m)
       \/ IoctlWork(t) \/ IoctlUnlock(t)
       \/ \E c \in Commands : VmEnter(t, c)
       \/ VmStep(t)
       \/ MmapBegin(t) \/ MmapEnd(t)
  \/ \E f \in File : DeviceRelease(f)

Spec == Init /\ [][Next]_vars

(***************************************************************************)
(* A task that has entered the kernel runs on: the scheduler starves       *)
(* nobody.  And the rwsem starves nobody (external): a waiter is handed    *)
(* the lock after a while, past readers and writers that come later,       *)
(* unless some one task never gives the lock back.  Nothing makes a task   *)
(* leave user space, so no call and no close is fair.                      *)
(***************************************************************************)
Waits(t) == pc[t] \in {"lock", "vmlock_write"}

\* u holds the lock that t waits for.
Blocks(u, t) ==
  mm[t] # NoMm /\ (u \in readers[mm[t]] \/ writer[mm[t]] = u)

LockFair(t) ==
  \/ []<>~Waits(t)
  \/ \E u \in Task : <>[]Blocks(u, t)

Fairness ==
  /\ \A t \in Task :
       /\ WF_vars(OpenCheck(t))
       /\ WF_vars(\E f \in File : OpenSet(t, f))
       /\ WF_vars(IoctlLock(t))
       /\ WF_vars(\E m \in LookupResults : IoctlLookup(t, m))
       /\ WF_vars(IoctlWork(t))
       /\ WF_vars(IoctlUnlock(t))
       /\ WF_vars(VmStep(t))
       /\ WF_vars(MmapEnd(t))
       /\ LockFair(t)
  /\ \A f \in File : WF_vars(DeviceRelease(f))

FairSpec == Spec /\ Fairness

-----------------------------------------------------------------------------
(* Properties.                                                             *)

\* The open file that has the device, as ExclusiveDevice sees it.
owner == IF live = {} THEN NoFile ELSE CHOOSE f \in live : TRUE

Abstract == INSTANCE ExclusiveDevice WITH File <- File, NoFile <- NoFile,
                                          owner <- owner

\* device_open and device_release, with the misc core around them, implement
\* a resource that one file acquires and releases before the next can have it.
ImplementsExclusiveDevice == Abstract!Spec

\* The device is open at most once at a time ("acquires PTEditor kernel
\* module"), although device_open tests and sets device_busy in two steps, and
\* device_busy is set exactly while it is open: it is not lost while a file
\* lives, and it does not stay behind when the last one is released.
ExclusiveOpen ==
  /\ \A f, g \in live : f = g
  /\ device_busy <=> live # {}

\* The handlers' view of the mmap locks is exact: a task holds the lock of the
\* mm it works on, in the mode its command needs, exactly from the lock to the
\* unlock of its handler.  In particular no handler unlocks what it did not
\* lock, although GET_ROOT and SET_ROOT read mm_is_locked twice, and no
\* task goes back to user space with a lock.
LocksBalanced ==
  \A t \in Task, m \in Mm :
    /\ t \in readers[m] <=> /\ pc[t] \in {"section", "unlock"}
                            /\ cmd[t] \in ReadCommands
                            /\ mm[t] = m
    /\ writer[m] = t <=> \/ /\ pc[t] \in {"lookup", "section", "unlock"}
                            /\ cmd[t] \in WriteCommands
                            /\ mm[t] = m
                         \/ pc[t] = "vmlock_read" /\ mm[t] = m
                         \/ pc[t] = "mmap" /\ active_mm[t] = m

\* The second lookup of VM_UPDATE found another mm than the one it has locked:
\* the process it was given was replaced by exec, or lives on borrowed tables.
Strayed(t) == pc[t] = "section" /\ works[t] # mm[t]

\* An update of an mm (VM_UPDATE, SET_ROOT) is alone on it: no other handler
\* walks or edits the same mm at that time, and the kernel maps nothing there.
\* Except for one case: a VM_UPDATE whose second lookup finds another mm works
\* on that one without its lock, beside whoever else works there.
UpdateExclusive ==
  \A t, u \in Task :
    /\ t # u
    /\ pc[t] = "section" /\ cmd[t] \in WriteCommands
    /\ pc[u] \in {"section", "mmap"}
    /\ ~Strayed(t) /\ ~Strayed(u)
    => works[t] # (IF pc[u] = "mmap" THEN active_mm[u] ELSE works[u])

\* VM_LOCK takes the mmap lock for writing and then waits for itself: its
\* second lock is never granted, so mm_is_locked is never set, every later
\* handler locks for itself, and VM_UNLOCK always answers "VM is not locked".
LockedModeUnreachable ==
  /\ ~mm_is_locked
  /\ \A t \in Task : pc[t] \notin {"vmlock_set", "vmunlock_write",
                                    "vmunlock_read", "vmunlock_clear"}

\* A task hangs in VM_LOCK and keeps the mm that t works on locked.
Hung(t) == \E u \in Task : pc[u] = "vmlock_read" /\ mm[u] = mm[t]

\* Every call of the device returns, and so does the kernel's mmap, whatever the
\* other tasks do, unless some task hangs in VM_LOCK on the same mm.
CallsReturn == \A t \in Task : pc[t] # "user" ~> pc[t] = "user" \/ Hung(t)

\* Once the last descriptor is gone the device can be opened again, also when
\* the descriptor was shared by a fork.
DeviceFreed ==
  \A f \in File : (f \in live /\ refs[f] = {}) ~> ~device_busy

=============================================================================
