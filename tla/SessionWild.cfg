SPECIFICATION Spec
CONSTANTS
  BufSize = 2
  PacketMin = 1
  PacketLimit = 2
  WindowMax = 4
  CustomCmd = FALSE
  SendReady = 1
  SendCap = 3
  NetCap = 2
  PipeCap = 1
  OutputMax = 1
  Windows = {1}
  Limits = {0}
  Sizes = {2}
  Failures = {"fork", "env"}
  Wants = {1}
  ClientKinds = {"OPEN", "OPENX", "subsystem", "pty-req", "env", "window-change", "OTHER", "KEXINIT", "DISCONNECT", "DATA", "EXT", "ADJ", "EOF", "CLOSE", "HANGUP"}
  ClientMax = 3
  Wild = TRUE
INVARIANTS DescriptorsMatch InputFits
PROPERTIES CloseIsFinal ChannelSpec
