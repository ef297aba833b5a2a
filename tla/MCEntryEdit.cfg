CONSTANTS
  t1 = t1
  t2 = t2
  Machine = "x86"
  Task = {t1, t2}
  Calls <- MCCalls
  Mappings <- MCMappings
  HwBits <- MCHwBits
  Kernel = {"map", "clear", "free"}
  Stray <- MCStray
SPECIFICATION Spec
INVARIANTS TypeOK FieldsWhole ForeignBitsKept
SYMMETRY Symmetric
