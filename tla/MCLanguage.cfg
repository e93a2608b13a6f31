SPECIFICATION Spec
CONSTANTS
  Alphabet <- MCAlphabet
  MaxNumeral = 9
  Leaves <- MCLeaves
  Constants <- MCConstants
  Loops <- MCLoops
  Configurations <- MCConfigurations
  Binders <- MCBinders
  MaxDepth = 2
  MaxNodes = 6
INVARIANTS ReadAsWritten MeaningPreserved FieldsPreserved
CHECK_DEADLOCK FALSE
