CONSTANTS
  s1 = s1
  s2 = s2
  c = c
  d = d
  Threads = {s1, s2, c, d}
  Process <- MCProcess
  Files = {"gc.lock", "repo.lock"}
  GcLock = "gc.lock"
  RepoLock = "repo.lock"
  Nobody = Nobody
  N = 2
  MaxGenerations = 2
  Counters = {0, 1, 2, 3, 4}
  Ephemeral = Ephemeral
  MaxTrouble = 1
  Casts <- MCCasts
SPECIFICATION Spec
INVARIANT
  NoWaitCycle
PROPERTIES
  OnlyOldestDropped
  StableWhileUsed
  DroppedIsRemoved
