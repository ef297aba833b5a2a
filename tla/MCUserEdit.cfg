CONSTANTS
  t1 = t1
  t2 = t2
  a1 = a1
  a2 = a2
  pgdTable = pgdTable
  pudTable = pudTable
  pmdTable = pmdTable
  pteTable = pteTable
  spare = spare
  high = high
  page1 = page1
  page2 = page2
  Addr = {a1, a2}
  Index = {0, 1}
  index <- MCindex
  P4dFolded = TRUE
  Frame <- MCFrame
  NoFrame = NoFrame
  cast <- MCcast
  Task = {t1, t2}
  Editor = {t1}
  ptedit_paging_root = pgdTable
  InitMem <- MCMem
  SpareTable = {spare, high}
  page <- MCpage
  Requests <- MCRequests
SPECIFICATION Spec
INVARIANTS TypeOK ResolveIsMapping UserTlbCoherent UserUpdateApplied WalksAgree
