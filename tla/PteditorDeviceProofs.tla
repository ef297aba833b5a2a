------------------------ MODULE PteditorDeviceProofs ------------------------
(***************************************************************************)
(* Proofs about PteditorDevice, for any tasks, files and mms.              *)
(*                                                                         *)
(* The argument has two halves that do not depend on each other.  Opening: *)
(* misc_mtx is held from the test of device_busy to its assignment, so the *)
(* test is still true when the assignment is made.  Locking: VM_LOCK stops *)
(* between its two locks, because the lock it waits for is its own, so     *)
(* mm_is_locked is always false; hence both reads of it in one handler     *)
(* agree, and every handler unlocks exactly what it locked.                *)
(***************************************************************************)
EXTENDS PteditorDevice, TLAPS

-----------------------------------------------------------------------------
(* Types.                                                                  *)

LEMMA VmSuccessorValues ==
  /\ DOMAIN VmSuccessor = {"vmlock_write", "vmlock_read", "vmlock_set",
       "vmunlock_write", "vmunlock_read", "vmunlock_clear"}
  /\ VmSuccessor["vmlock_write"] = "vmlock_read"
  /\ VmSuccessor["vmlock_read"] = "vmlock_set"
  /\ VmSuccessor["vmlock_set"] = "user"
  /\ VmSuccessor["vmunlock_write"] = "vmunlock_read"
  /\ VmSuccessor["vmunlock_read"] = "vmunlock_clear"
  /\ VmSuccessor["vmunlock_clear"] = "user"
BY DEF VmSuccessor

\* Every step keeps the types, and keeps a handler's mm in step with its place.
LEMMA TypeStep == TypeOK /\ [Next]_vars => TypeOK'
<1> SUFFICES ASSUME TypeOK, [Next]_vars PROVE TypeOK'
  OBVIOUS
<1> USE ConstantsAssumption DEF TypeOK, PC, HandlerPC, AllCommands,
        LockCommands, ReadCommands, WriteCommands
<1>1. ASSUME NEW t \in Task, MiscOpen(t) PROVE TypeOK'
  BY <1>1 DEF MiscOpen, lockVars, callVars
<1>2. ASSUME NEW t \in Task, OpenCheck(t) PROVE TypeOK'
  BY <1>2 DEF OpenCheck, lockVars, callVars
<1>3. ASSUME NEW t \in Task, NEW f \in File, OpenSet(t, f) PROVE TypeOK'
  BY <1>3 DEF OpenSet, lockVars, callVars
<1>4. ASSUME NEW t \in Task, NEW u \in Task, NEW f \in File, Share(t, u, f)
      PROVE TypeOK'
  BY <1>4 DEF Share, lockVars, callVars
<1>5. ASSUME NEW t \in Task, NEW f \in File, Close(t, f) PROVE TypeOK'
  BY <1>5 DEF Close, lockVars, callVars
<1>6. ASSUME NEW f \in File, DeviceRelease(f) PROVE TypeOK'
  BY <1>6 DEF DeviceRelease, lockVars, callVars
<1>7. ASSUME NEW t \in Task, NEW c \in Commands, NEW m \in LookupResults,
             IoctlEnter(t, c, m)
      PROVE TypeOK'
  BY <1>7 DEF IoctlEnter, LookupResults, fileVars, lockVars
<1>8. ASSUME NEW t \in Task, IoctlLock(t) PROVE TypeOK'
  <2>1. mm[t] \in Mm
    BY <1>8 DEF IoctlLock
  <2> QED
    BY <1>8, <2>1 DEF IoctlLock, MmapReadLock, MmapWriteLock, fileVars,
       lockVars, callVars
<1>9. ASSUME NEW t \in Task, IoctlWork(t) PROVE TypeOK'
  BY <1>9 DEF IoctlWork, fileVars, lockVars
<1>10. ASSUME NEW t \in Task, NEW m \in LookupResults, IoctlLookup(t, m)
      PROVE TypeOK'
  BY <1>10 DEF IoctlLookup, LookupResults, fileVars, lockVars
<1>11. ASSUME NEW t \in Task, IoctlUnlock(t) PROVE TypeOK'
  <2>1. mm[t] \in Mm
    BY <1>11 DEF IoctlUnlock
  <2> QED
    BY <1>11, <2>1 DEF IoctlUnlock, MmapReadUnlock, MmapWriteUnlock, fileVars,
       lockVars
<1>12. ASSUME NEW t \in Task, NEW c \in Commands, VmEnter(t, c) PROVE TypeOK'
  BY <1>12 DEF VmEnter, fileVars, lockVars
<1>13. ASSUME NEW t \in Task, VmStep(t) PROVE TypeOK'
  <2>1. mm[t] \in Mm
    BY <1>13, VmSuccessorValues DEF VmStep
  <2>2. /\ writer' \in [Mm -> Task \cup {NoTask}]
        /\ readers' \in [Mm -> SUBSET Task]
    BY <1>13, <2>1 DEF VmStep, MmapReadLock, MmapReadUnlock, MmapWriteLock,
       MmapWriteUnlock, lockVars
  <2>3. mm_is_locked' \in BOOLEAN
    BY <1>13 DEF VmStep
  <2> DEFINE next == VmSuccessor[pc[t]]
  <2>4. next \in {"user", "vmlock_read", "vmlock_set", "vmunlock_read",
                  "vmunlock_clear"}
    BY <1>13, VmSuccessorValues DEF VmStep
  <2>5. /\ pc' = [pc EXCEPT ![t] = next]
        /\ cmd' = [cmd EXCEPT ![t] = IF next = "user" THEN "none" ELSE @]
        /\ mm' = [mm EXCEPT ![t] = IF next = "user" THEN NoMm ELSE @]
        /\ UNCHANGED <<fileVars, works, lock>>
    BY <1>13 DEF VmStep
  <2> HIDE DEF next
  <2> QED
    BY <2>1, <2>2, <2>3, <2>4, <2>5 DEF fileVars
<1>14. ASSUME NEW t \in Task, MmapBegin(t) PROVE TypeOK'
  BY <1>14 DEF MmapBegin, MmapWriteLock, fileVars, callVars
<1>15. ASSUME NEW t \in Task, MmapEnd(t) PROVE TypeOK'
  BY <1>15 DEF MmapEnd, MmapWriteUnlock, fileVars, callVars
<1>16. CASE UNCHANGED vars
  BY <1>16 DEF vars
<1> QED
  BY <1>1, <1>2, <1>3, <1>4, <1>5, <1>6, <1>7, <1>8, <1>9, <1>10, <1>11, <1>12,
     <1>13, <1>14, <1>15, <1>16 DEF Next

\* The types hold in every state; in particular no handler of device_ioctl
\* gets past its NULL check without an mm.
THEOREM TypeCorrect == Spec => []TypeOK
<1>1. Init => TypeOK
  BY ConstantsAssumption DEF Init, TypeOK, PC, HandlerPC, AllCommands
<1> QED
  BY <1>1, TypeStep, PTL DEF Spec

-----------------------------------------------------------------------------
(* Opening.                                                                *)

\* misc_mtx is held through device_open, and while it is held between the test
\* and the assignment nobody else can make the device busy.
OpenInv ==
  /\ ExclusiveOpen
  /\ \A t \in Task : pc[t] \in {"open_check", "open_set"} <=> misc_mtx = t
  /\ \A t \in Task : pc[t] = "open_set" => ~device_busy

LEMMA OpenInit == Init => OpenInv
BY ConstantsAssumption DEF Init, OpenInv, ExclusiveOpen

LEMMA OpenStep == TypeOK /\ OpenInv /\ [Next]_vars => OpenInv'
<1> SUFFICES ASSUME TypeOK, OpenInv, [Next]_vars PROVE OpenInv'
  OBVIOUS
<1> USE ConstantsAssumption DEF OpenInv, ExclusiveOpen, TypeOK
<1>1. ASSUME NEW t \in Task, MiscOpen(t) PROVE OpenInv'
  BY <1>1 DEF MiscOpen
<1>2. ASSUME NEW t \in Task, OpenCheck(t) PROVE OpenInv'
  BY <1>2 DEF OpenCheck
<1>3. ASSUME NEW t \in Task, NEW f \in File, OpenSet(t, f) PROVE OpenInv'
  BY <1>3 DEF OpenSet
<1>4. ASSUME NEW t \in Task, NEW u \in Task, NEW f \in File, Share(t, u, f)
      PROVE OpenInv'
  BY <1>4 DEF Share
<1>5. ASSUME NEW t \in Task, NEW f \in File, Close(t, f) PROVE OpenInv'
  BY <1>5 DEF Close
<1>6. ASSUME NEW f \in File, DeviceRelease(f) PROVE OpenInv'
  BY <1>6 DEF DeviceRelease
<1>7. ASSUME NEW t \in Task, NEW c \in Commands, NEW m \in LookupResults,
             IoctlEnter(t, c, m)
      PROVE OpenInv'
  BY <1>7 DEF IoctlEnter, fileVars
<1>8. ASSUME NEW t \in Task, IoctlLock(t) PROVE OpenInv'
  BY <1>8 DEF IoctlLock, fileVars
<1>9. ASSUME NEW t \in Task, IoctlWork(t) PROVE OpenInv'
  BY <1>9 DEF IoctlWork, fileVars
<1>10. ASSUME NEW t \in Task, NEW m \in LookupResults, IoctlLookup(t, m)
      PROVE OpenInv'
  BY <1>10 DEF IoctlLookup, fileVars
<1>11. ASSUME NEW t \in Task, IoctlUnlock(t) PROVE OpenInv'
  BY <1>11 DEF IoctlUnlock, fileVars
<1>12. ASSUME NEW t \in Task, NEW c \in Commands, VmEnter(t, c) PROVE OpenInv'
  BY <1>12 DEF VmEnter, fileVars
<1>13. ASSUME NEW t \in Task, VmStep(t) PROVE OpenInv'
  <2> DEFINE next == VmSuccessor[pc[t]]
  <2>1. /\ pc[t] \notin {"open_check", "open_set"}
        /\ next \notin {"open_check", "open_set"}
    BY <1>13, VmSuccessorValues DEF VmStep
  <2>2. pc' = [pc EXCEPT ![t] = next] /\ UNCHANGED fileVars
    BY <1>13 DEF VmStep
  <2> HIDE DEF next
  <2> QED
    BY <2>1, <2>2 DEF fileVars
<1>14. ASSUME NEW t \in Task, MmapBegin(t) PROVE OpenInv'
  BY <1>14 DEF MmapBegin, fileVars
<1>15. ASSUME NEW t \in Task, MmapEnd(t) PROVE OpenInv'
  BY <1>15 DEF MmapEnd, fileVars
<1>16. CASE UNCHANGED vars
  BY <1>16 DEF vars
<1> QED
  BY <1>1, <1>2, <1>3, <1>4, <1>5, <1>6, <1>7, <1>8, <1>9, <1>10, <1>11, <1>12,
     <1>13, <1>14, <1>15, <1>16 DEF Next

\* At most one file has the device open, and device_busy says whether one has:
\* the unlocked test-and-set of device_open is safe behind misc_mtx.
THEOREM OpenIsExclusive == Spec => []ExclusiveOpen
<1>1. OpenInv => ExclusiveOpen
  BY DEF OpenInv
<1> QED
  BY <1>1, OpenInit, OpenStep, TypeCorrect, PTL DEF Spec

\* The device as an exclusive resource: opening acquires it only while it is
\* free, releasing frees it, and nothing else touches its owner.
THEOREM DeviceRefinement == Spec => ImplementsExclusiveDevice
<1>1. Init => Abstract!Init
  BY DEF Init, Abstract!Init, owner
<1>2. TypeOK /\ OpenInv /\ [Next]_vars => [Abstract!Next]_owner
  <2> SUFFICES ASSUME TypeOK, OpenInv, [Next]_vars PROVE [Abstract!Next]_owner
    OBVIOUS
  <2>1. ASSUME UNCHANGED live PROVE UNCHANGED owner
    BY <2>1 DEF owner
  <2>2. ASSUME NEW t \in Task, NEW f \in File, OpenSet(t, f)
        PROVE Abstract!Next
    <3>1. live = {} /\ live' = {f}
      BY <2>2 DEF OpenSet, OpenInv, ExclusiveOpen
    <3>2. owner = NoFile /\ owner' = f
      BY <3>1 DEF owner
    <3> QED
      BY <3>2 DEF Abstract!Next, Abstract!Acquire
  <2>3. ASSUME NEW f \in File, DeviceRelease(f) PROVE Abstract!Next
    <3>1. live = {f} /\ live' = {}
      BY <2>3 DEF DeviceRelease, OpenInv, ExclusiveOpen
    <3>2. owner = f /\ owner' = NoFile
      BY <3>1 DEF owner
    <3> QED
      BY <3>2, ConstantsAssumption DEF Abstract!Next, Abstract!Release
  <2> QED
    BY <2>1, <2>2, <2>3 DEF Next, MiscOpen, OpenCheck, Share, Close,
       IoctlEnter, IoctlLock, IoctlLookup, IoctlWork, IoctlUnlock,
       VmEnter, VmStep,
       MmapBegin, MmapEnd, fileVars, vars
<1> QED
  BY <1>1, <1>2, OpenInit, OpenStep, TypeCorrect, PTL
     DEF Spec, ImplementsExclusiveDevice, Abstract!Spec

-----------------------------------------------------------------------------
(* Locking.                                                                *)

\* What a handler on its way through the lock carries with it.
HandlerInv ==
  \A t \in Task :
    /\ pc[t] \in {"lock", "lookup", "section", "unlock"} =>
         lock[t] /\ cmd[t] \in ReadCommands \cup WriteCommands
    /\ pc[t] = "lookup" => cmd[t] = "VM_UPDATE"

\* A writer is alone.
RwLock == \A m \in Mm : writer[m] # NoTask => readers[m] = {}

LockInv ==
  /\ LocksBalanced
  /\ LockedModeUnreachable
  /\ HandlerInv
  /\ RwLock

LEMMA LockInit == Init => LockInv
BY ConstantsAssumption DEF Init, LockInv, LocksBalanced, LockedModeUnreachable,
   HandlerInv, RwLock

LEMMA LockStep == TypeOK /\ LockInv /\ [Next]_vars => LockInv'
<1> SUFFICES ASSUME TypeOK, LockInv, [Next]_vars PROVE LockInv'
  OBVIOUS
<1> USE ConstantsAssumption DEF LockInv, LocksBalanced, LockedModeUnreachable,
        HandlerInv, RwLock, TypeOK
<1>1. ASSUME NEW t \in Task, MiscOpen(t) PROVE LockInv'
  BY <1>1 DEF MiscOpen, lockVars, callVars
<1>2. ASSUME NEW t \in Task, OpenCheck(t) PROVE LockInv'
  BY <1>2 DEF OpenCheck, lockVars, callVars
<1>3. ASSUME NEW t \in Task, NEW f \in File, OpenSet(t, f) PROVE LockInv'
  BY <1>3 DEF OpenSet, lockVars, callVars
<1>4. ASSUME NEW t \in Task, NEW u \in Task, NEW f \in File, Share(t, u, f)
      PROVE LockInv'
  BY <1>4 DEF Share, lockVars, callVars
<1>5. ASSUME NEW t \in Task, NEW f \in File, Close(t, f) PROVE LockInv'
  BY <1>5 DEF Close, lockVars, callVars
<1>6. ASSUME NEW f \in File, DeviceRelease(f) PROVE LockInv'
  BY <1>6 DEF DeviceRelease, lockVars, callVars
<1>7. ASSUME NEW t \in Task, NEW c \in Commands, NEW m \in LookupResults,
             IoctlEnter(t, c, m)
      PROVE LockInv'
  <2>1. /\ pc[t] = "user" /\ pc' = [pc EXCEPT ![t] = "lock"]
        /\ c \in ReadCommands \cup WriteCommands
        /\ cmd' = [cmd EXCEPT ![t] = c]
        /\ mm' = [mm EXCEPT ![t] = m]
        /\ UNCHANGED <<mm_is_locked, writer, readers>>
    BY <1>7 DEF IoctlEnter, lockVars
  <2>2. lock'[t] /\ \A u \in Task : u # t => lock'[u] = lock[u]
    <3>1. (~mm_is_locked) = TRUE
      OBVIOUS
    <3>2. lock' = [lock EXCEPT ![t] = ~mm_is_locked]
      BY <1>7 DEF IoctlEnter
    <3>3. lock' = [lock EXCEPT ![t] = TRUE]
      BY <3>1, <3>2, Zenon
    <3> QED
      BY <3>3
  <2>3. LocksBalanced'
    BY <2>1
  <2>4. HandlerInv'
    BY <2>1, <2>2
  <2> QED
    BY <2>1, <2>3, <2>4
<1>8. ASSUME NEW t \in Task, IoctlLock(t) PROVE LockInv'
  <2>0. pc[t] = "lock"
    BY <1>8 DEF IoctlLock
  <2>1. /\ mm[t] \in Mm
        /\ lock[t]
        /\ cmd[t] \in ReadCommands \cup WriteCommands
    BY <2>0 DEF HandlerPC, PC
  <2>2. CASE cmd[t] \in WriteCommands
    BY <1>8, <2>1, <2>2 DEF IoctlLock, MmapWriteLock, callVars, ReadCommands,
       WriteCommands
  <2>3. CASE cmd[t] \notin WriteCommands
    BY <1>8, <2>1, <2>3 DEF IoctlLock, MmapReadLock, callVars, ReadCommands,
       WriteCommands
  <2> QED
    BY <2>2, <2>3
<1>9. ASSUME NEW t \in Task, IoctlWork(t) PROVE LockInv'
  BY <1>9 DEF IoctlWork, lockVars
<1>10. ASSUME NEW t \in Task, NEW m \in LookupResults, IoctlLookup(t, m)
      PROVE LockInv'
  BY <1>10 DEF IoctlLookup, lockVars, ReadCommands, WriteCommands
<1>11. ASSUME NEW t \in Task, IoctlUnlock(t) PROVE LockInv'
  <2>0. pc[t] = "unlock"
    BY <1>11 DEF IoctlUnlock
  <2>1. /\ mm[t] \in Mm
        /\ lock[t]
        /\ cmd[t] \in ReadCommands \cup WriteCommands
    BY <2>0 DEF HandlerPC, PC
  <2>2. CASE cmd[t] \in WriteCommands
    BY <1>11, <2>1, <2>2 DEF IoctlUnlock, MmapWriteUnlock, ReadCommands,
       WriteCommands
  <2>3. CASE cmd[t] \notin WriteCommands
    BY <1>11, <2>1, <2>3 DEF IoctlUnlock, MmapReadUnlock, ReadCommands,
       WriteCommands
  <2> QED
    BY <2>2, <2>3
<1>12. ASSUME NEW t \in Task, NEW c \in Commands, VmEnter(t, c) PROVE LockInv'
  BY <1>12 DEF VmEnter, lockVars, LockCommands
<1>13. ASSUME NEW t \in Task, VmStep(t) PROVE LockInv'
  \* Of the six statements only the first can be executed.
  <2>1. pc[t] = "vmlock_write" \/ pc[t] = "vmlock_read"
    BY <1>13, VmSuccessorValues DEF VmStep
  <2>2. pc[t] # "vmlock_read"
    <3> SUFFICES ASSUME pc[t] = "vmlock_read" PROVE FALSE
      OBVIOUS
    <3>1. mm[t] \in Mm /\ writer[mm[t]] = t
      BY DEF HandlerPC, PC
    <3>2. writer[mm[t]] = NoTask
      BY <1>13 DEF VmStep, MmapReadLock
    <3> QED
      BY <3>1, <3>2
  <2>3. /\ mm[t] \in Mm
        /\ MmapWriteLock(t, mm[t])
        /\ mm_is_locked' = mm_is_locked
        /\ pc' = [pc EXCEPT ![t] = "vmlock_read"]
        /\ cmd' = [cmd EXCEPT ![t] = cmd[t]]
        /\ mm' = [mm EXCEPT ![t] = mm[t]]
        /\ UNCHANGED <<works, lock>>
    <3>1. pc[t] = "vmlock_write"
      BY <2>1, <2>2
    <3>2. mm[t] \in Mm
      BY <3>1 DEF HandlerPC, PC
    <3>3. MmapWriteLock(t, mm[t]) /\ mm_is_locked' = mm_is_locked
      BY <1>13, <3>1 DEF VmStep
    <3> QED
      BY <1>13, <3>1, <3>2, <3>3, VmSuccessorValues DEF VmStep
  <2> QED
    BY <2>1, <2>2, <2>3 DEF MmapWriteLock
<1>14. ASSUME NEW t \in Task, MmapBegin(t) PROVE LockInv'
  BY <1>14 DEF MmapBegin, MmapWriteLock, callVars
<1>15. ASSUME NEW t \in Task, MmapEnd(t) PROVE LockInv'
  BY <1>15 DEF MmapEnd, MmapWriteUnlock, callVars
<1>16. CASE UNCHANGED vars
  BY <1>16 DEF vars
<1> QED
  BY <1>1, <1>2, <1>3, <1>4, <1>5, <1>6, <1>7, <1>8, <1>9, <1>10, <1>11, <1>12,
     <1>13, <1>14, <1>15, <1>16 DEF Next

LEMMA LockInvariant == Spec => []LockInv
BY LockInit, LockStep, TypeCorrect, PTL DEF Spec

\* mm_is_locked is never set: VM_LOCK does not get past its second lock.
THEOREM LockedModeNeverReached == Spec => []LockedModeUnreachable
<1>1. LockInv => LockedModeUnreachable
  BY DEF LockInv
<1> QED
  BY <1>1, LockInvariant, PTL

\* Every handler unlocks exactly what it locked, and no task leaves the kernel
\* with a lock.
THEOREM LocksAreBalanced == Spec => []LocksBalanced
<1>1. LockInv => LocksBalanced
  BY DEF LockInv
<1> QED
  BY <1>1, LockInvariant, PTL

\* While VM_UPDATE or SET_ROOT works on the mm it has locked, no other handler
\* walks or edits it under a lock of its own, and the kernel does not change its
\* mappings.
THEOREM UpdatesAreExclusive == Spec => []UpdateExclusive
<1>1. TypeOK /\ LockInv => UpdateExclusive
  <2> SUFFICES ASSUME TypeOK, LockInv, NEW t \in Task, NEW u \in Task, t # u,
                      pc[t] = "section", cmd[t] \in WriteCommands,
                      pc[u] \in {"section", "mmap"}, ~Strayed(t), ~Strayed(u)
               PROVE works[t] # (IF pc[u] = "mmap" THEN active_mm[u] ELSE works[u])
    BY DEF UpdateExclusive
  <2>1. mm[t] \in Mm /\ writer[mm[t]] = t /\ readers[mm[t]] = {}
    BY ConstantsAssumption
       DEF TypeOK, LockInv, LocksBalanced, RwLock, HandlerPC, PC
  <2>2. works[t] = mm[t]
    BY DEF Strayed
  <2>3. CASE pc[u] = "mmap"
    BY <2>1, <2>2, <2>3, ConstantsAssumption DEF LockInv, LocksBalanced
  <2>4. CASE pc[u] = "section"
    <3>1. works[u] = mm[u]
      BY <2>4 DEF Strayed
    <3> QED
      BY <2>1, <2>2, <2>4, <3>1 DEF LockInv, LocksBalanced, HandlerInv
  <2> QED
    BY <2>3, <2>4
<1> QED
  BY <1>1, LockInvariant, TypeCorrect, PTL

=============================================================================
