SPECIFICATION GuardedSpec
CONSTANTS
  Tasks = {t0, t1, t2}
  Null = Null
  QUE_SIZE = 4
  Second = 3
  WordMod = 12
  Priorities = {0, 3}
INVARIANTS
  TasksKept
  ClockAgrees
PROPERTIES
  KeepsTurns
  EveryTaskChosen
