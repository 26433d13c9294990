SPECIFICATION Spec
CONSTANTS
  Root = "root"
  Service = "service"
  Files <- SomeFiles
  Above <- SomePaths
  Layouts <- SomeLayouts
  Loose = {{}, {"tmp"}}
  EnvLen = 13
  EnvSpace = 15
  LargeCost = 4
  Large = {"big"}
  Paths = {{}, {"big"}}
  Terms = {"xterm", "big"}
  EnvNames = {"HOME"}
INVARIANTS LoginTypeOK KeyDecision ShellSafe
PROPERTIES OnlyNamedVariable Returns
CHECK_DEADLOCK FALSE
