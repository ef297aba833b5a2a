CONSTANTS
  Proc = {p1, p2}
  MaxFd = 2
  MaxCalls = 9
  Kernels <- MCKernels
SPECIFICATION Spec
SYMMETRY ProcSymmetry
INVARIANTS TypeOK HandlersReady NothingLeftBehind OwnDescriptors ClosesOwnFiles
  NoDescriptorLeak BusyMeansOpen ResolvesOwnTables
CHECK_DEADLOCK FALSE
