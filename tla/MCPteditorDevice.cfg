CONSTANTS
  t1 = t1
  t2 = t2
  t3 = t3
  m1 = m1
  m2 = m2
  Task <- MCTask
  File = {f1, f2}
  Mm <- MCMm
  active_mm <- MCactive_mm
  Commands <- MCCommands
  NoTask = NoTask
  NoMm = NoMm
  NoFile = NoFile
SPECIFICATION FairSpec
INVARIANTS TypeOK ExclusiveOpen LocksBalanced UpdateExclusive LockedModeUnreachable
PROPERTIES ImplementsExclusiveDevice CallsReturn DeviceFreed
CHECK_DEADLOCK FALSE
