CONSTANTS
  MaxCalls = 4
  Cpu = {c1, c2}
  Proc = {p1, p2}
  Client = {p1}
  Spare = Spare
  Addr = {a1}
  Page = {page1, page2}
  None = None
  Machines <- MCMachines
SPECIFICATION Spec
SYMMETRY CpuSymmetry
INVARIANTS TypeOK WinTlbCoherent WinUpdateApplied 
CHECK_DEADLOCK FALSE
