CONSTANTS
  t1 = t1
  c1 = c1
  c2 = c2
  Machine = "x86"
  Task = {t1}
  Cpu = {c1, c2}
  Type <- MCType
  InitMts <- MCInitMts
  InitEntry <- MCInitEntry
  Places <- AllPlaces
SPECIFICATION Spec
INVARIANT MtsProgrammed
SYMMETRY Symmetric
