SPECIFICATION Spec
CONSTANTS
  ShortTime = 2
  LongTime = 4
  SubsystemMax = 1
  Letters = {"q", "Q", "v", "o", "O", "s", "S", "p", "P", "l", "x", "e", "?"}
  MaxLetters = 4
  MaxAge = 5
INVARIANTS UnknownUserBounded OptionsRight
PROPERTIES SilenceEnds
CHECK_DEADLOCK FALSE
