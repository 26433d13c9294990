SPECIFICATION FairSpec
CONSTANTS
  BufSize = 2
  PacketMin = 1
  PacketLimit = 2
  WindowMax = 4
  CustomCmd = FALSE
  SendReady = 1
  SendCap = 6
  NetCap = 2
  PipeCap = 2
  OutputMax = 3
  Windows = {2}
  Limits = {2}
  Sizes = {1, 2}
  Failures = {}
  Wants = {1}
  ClientKinds = {"OPEN", "exec", "CLOSE", "ADJ"}
  ClientMax = 3
  Wild = FALSE
INVARIANTS OutputWindow
PROPERTIES Termination
