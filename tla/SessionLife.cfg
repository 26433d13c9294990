SPECIFICATION Spec
CONSTANTS
  BufSize = 2
  PacketMin = 1
  PacketLimit = 2
  WindowMax = 4
  CustomCmd = FALSE
  SendReady = 1
  SendCap = 6
  NetCap = 2
  PipeCap = 1
  OutputMax = 2
  Windows = {2}
  Limits = {2}
  Sizes = {1, 2}
  Failures = {}
  Wants = {1}
  ClientKinds = {"OPEN", "exec", "EOF", "CLOSE", "DATA", "EXT"}
  ClientMax = 4
  Wild = FALSE
INVARIANTS InputWindow SessionTypeOK WatchesHold NoLostWakeup CreditReturns EndsInOrder
PROPERTIES InputNotCutShort
