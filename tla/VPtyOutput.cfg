SPECIFICATION Spec
CONSTANTS
  BufSize = 2
  PacketMin = 1
  PacketLimit = 2
  WindowMax = 4
  CustomCmd = FALSE
  SendReady = 1
  SendCap = 6
  NetCap = 2
  PipeCap = 1
  OutputMax = 1
  Windows = {1}
  Limits = {2}
  Sizes = {1}
  Failures = {}
  Wants = {1}
  ClientKinds = {"OPEN", "pty-req", "shell", "DATA"}
  ClientMax = 4
  Wild = FALSE
INVARIANTS OutputComplete
