SPECIFICATION Spec
CONSTANTS
  MsgLimit = 4
  MaxTries = 4
  FlagNoneAuth = FALSE
  IdMax = 7
  Offers <- BoldOffers
  RekeyOffers <- PlainOffers
  Rekeys = 1
  Chatter = {"IGNORE", "NEWKEYS", "DATA", "SERVICE", "DISCONNECT"}
  ClientMax = 6
  NetCap = 1
  OutputMax = 2
INVARIANTS LimitsHold
PROPERTIES NonceOnce
