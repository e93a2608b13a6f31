CONSTANTS
  N = 2
  Tasks = {t1, t2}
  Aborters = {t2}
  NumberOfAttempts = 1
  NoTask = NoTask
SPECIFICATION Spec
INVARIANTS
  WakeupPending
  ZeroIsIdle
PROPERTIES
  ImplementsTaskPool
  DestructorEnds
