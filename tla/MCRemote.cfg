CONSTANTS
  t1 = t1
  t2 = t2
  t3 = t3
  Threads = {t1, t2, t3}
  Objects <- MCObjects
  Trees <- MCTrees
  Entries <- MCEntries
  Size <- MCSize
  ServerMax = 3
  ReportedMax = 4
  MinBatch = 1
  MaxGrpc = 4
  Generations = 2
  MaxAttempts = 2
  MaxCollections = 2
  MaxTrouble = 3
  Actions <- MCActions
  Leaves <- MCLeaves
  InputRoot <- MCInputRoot
  Messages <- MCMessages
  Output <- MCOutput
  Threshold = 1
  Casts <- MCCasts
SPECIFICATION Spec
INVARIANTS
  ServerTreesComplete
  FailureHasCause
  RunningIsListed
  SyncedIsComplete
CHECK_DEADLOCK FALSE
PROPERTY
  JobEnds
