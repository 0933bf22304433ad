\* RelaySupervisor: AtrPayloadLive with an inverse-convention ATR
\* (expected to be violated: the worker sends the ATR from parse_ATR's
\* stack array inv_atr).  A supplementary config, not one of the runs.
CONSTANTS
  HostAtrs <- MCInverseAtrs
  LogLevels = {1, 2}
  HostClks = {0, 5}
  DefaultClk = 4
  MeasuredClk = 3
  QueueCap = 2
  MaxResets = 2
  MaxHostMsgs = 3
SPECIFICATION Spec
INVARIANT AtrPayloadLive
CHECK_DEADLOCK FALSE
