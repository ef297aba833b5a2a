CONSTANTS
  t1 = t1
  t2 = t2
  p1 = p1
  p2 = p2
  m1 = m1
  m2 = m2
  m3 = m3
  a1 = a1
  a2 = a2
  page1 = page1
  page2 = page2
  spare = spare
  c1 = c1
  c2 = c2
  Addr = {a1, a2}
  Index = {0, 1}
  index <- MCindex
  P4dFolded = TRUE
  Frame <- OneFrame
  NoFrame = NoFrame
  Task = {t1, t2}
  Cpu = {c1, c2}
  Pid = {p1}
  Mm <- OneMm
  NoMm = NoMm
  AllMm = AllMm
  NoTask = NoTask
  current <- OneCurrent
  mm_pgd <- OnePgd
  InitMem <- OneMem
  InitMm <- OneMmOf
  SpareTable = {spare}
  page <- MCpage
  Requests <- PteRequests
  Calls = {"resolve"}
  Kernel = {"munmap"}
  Arch = "x86"
SPECIFICATION Spec
INVARIANTS ValidIsNonzero
