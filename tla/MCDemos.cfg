CONSTANTS
  Frame = {f1, f2, f3, f4}
  PT = PT
  None = None
  MaxMoves = 1
SPECIFICATION Spec
INVARIANTS  EditsUndone
CHECK_DEADLOCK FALSE
