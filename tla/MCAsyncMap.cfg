CONSTANTS
  a = a
  b = b
  c = c
  r = r
  s = s
  Keys = {a, b, c}
  Roots = {r, s}
  WithFail = {r}
  Problems <- MCProblems
SPECIFICATION Spec
INVARIANTS
  AnsweredOnce
  AnsweredWhenQuiescent
  StuckIsDiagnosed
  ReportedCycleIsReal
PROPERTIES
  ComesToRest
