SPECIFICATION Spec
CHECK_DEADLOCK FALSE
CONSTANTS
  Workers = {w1, w2, w3}
  N = 3
INVARIANTS
  MismatchFallsBack
