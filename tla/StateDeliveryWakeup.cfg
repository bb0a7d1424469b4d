\* A flush threshold below the number of topics.
SPECIFICATION Spec
CONSTANTS
  Keys = {k1, k2}
  Limit = 1
  MaxChanges = 2
SYMMETRY KeySymmetry
INVARIANT WaitingIsWoken
CHECK_DEADLOCK FALSE
