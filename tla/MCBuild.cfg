SPECIFICATION Spec
CONSTANTS
  Versions = {1, 2}
  Workspace <- MCWorkspace
  Requests <- MCRequests
  Configs <- MCConfigs
  Served = {"base", "tools", "far"}
  MaxBuilds = 3
  MaxTrouble = 2
INVARIANTS
  EntriesBacked
  EntriesSound
  OutcomeAsFresh
  VarsSuffice
  TaintKept
CHECK_DEADLOCK FALSE
