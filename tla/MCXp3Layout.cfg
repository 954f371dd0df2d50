SPECIFICATION Spec
CHECK_DEADLOCK FALSE
CONSTANTS
  N = 3
  HeaderEnd = 1
  MaxAddr = 16
  Rounds = 2
  Templates <- MCTemplates
INVARIANTS
  SuccessReadsBack
  SharedOnlyIfEqual
  AnchoredIndexFits
  OpaqueKept
PROPERTIES
  Terminates
