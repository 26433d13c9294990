SPECIFICATION Spec
CONSTANTS
  BufSize = 2
  PacketMin = 1
  PacketLimit = 2
  WindowMax = 4
  CustomCmd = TRUE
  SendReady = 1
  SendCap = 6
  NetCap = 2
  PipeCap = 1
  OutputMax = 1
  Windows = {1}
  Limits = {0}
  Sizes = {1}
  Failures = {"env"}
  Wants = {0, 1}
  ClientKinds = {"OPEN", "pty-req", "exec", "shell", "GLOBAL", "EOF", "DATA"}
  ClientMax = 4
  Wild = FALSE
INVARIANTS RepliesInOrder PtyKeptOpen LegalClientSurvives
