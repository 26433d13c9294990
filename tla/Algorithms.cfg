SPECIFICATION Spec
CONSTANTS
  N = 8
  Alloc = 24
  LogSize = 5
  KeyName <- Name
  KeyBytes = 2
INVARIANTS IntegersRight KemRight CurveRight SymmetricRight BytesRight
CHECK_DEADLOCK FALSE
