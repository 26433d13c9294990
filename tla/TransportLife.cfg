SPECIFICATION FairSpec
CONSTANTS
  MsgLimit = 30
  MaxTries = 32
  FlagNoneAuth = TRUE
  IdMax = 40
  Offers <- AllOffers
  RekeyOffers <- PlainOffers
  Rekeys = 2
  Chatter = {"IGNORE", "DATA", "OTHER"}
  ClientMax = 3
  NetCap = 2
  OutputMax = 1
INVARIANTS PacketsAgree
PROPERTIES ExchangeCompletes
