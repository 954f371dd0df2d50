SPECIFICATION ProgressSpec
CONSTANTS
  w1 = w1
  w2 = w2
  t1 = t1
  Workers = {w1, w2}
  Tasks = {t1}
  TaskOf <- MCTaskOf
  Frames = 2
  NoEvent = NoEvent
INVARIANTS
  FinishedOnce
  LateIsBounded
PROPERTIES
  EveryTaskEnds
