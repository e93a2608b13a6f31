CONSTANTS
  Problems <- MCProblems
  Jobs = 2
SPECIFICATION Spec
INVARIANTS
  InputsBeforeAction
  OnlyNeeded
  Outcome
PROPERTIES
  ComesToRest
