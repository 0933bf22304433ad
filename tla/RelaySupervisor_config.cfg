CONSTANTS
  HostAtrs <- MCValidAtrs
  LogLevels = {1, 2}
  HostClks = {0, 5}
  DefaultClk = 4
  MeasuredClk = 3
  QueueCap = 2
  MaxResets = 2
  MaxHostMsgs = 4
SPECIFICATION Spec
INVARIANT ConfigConverges
CHECK_DEADLOCK FALSE
