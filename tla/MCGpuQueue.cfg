SPECIFICATION GpuSpec
CHECK_DEADLOCK FALSE
CONSTANTS
  Callers = {w1, w2, w3}
  Modes = {"Auto", "Gpu", "Hybrid"}
  Limit = 2
  Word = 8
  Calls = 1
  None = None
INVARIANTS
  QueueBounded
PROPERTIES
  HybridEscapesHang
  EveryCallReturns
