CONSTANTS
  HostAtrs <- MCAnyAtrs
  LogLevels = {1, 2}
  HostClks = {0, 5}
  DefaultClk = 4
  MeasuredClk = 3
  QueueCap = 2
  MaxResets = 2
  MaxHostMsgs = 3
SPECIFICATION Spec
INVARIANT OnlyValidAtrLaunched
CHECK_DEADLOCK FALSE
