SPECIFICATION Spec
CONSTANTS
  Whole = 3
  Makes = 3
  Crashes = 2
  Rounds = 2
INVARIANTS FilesSound SignerSound
PROPERTIES SignReturns
CHECK_DEADLOCK FALSE
