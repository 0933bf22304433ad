\* RelaySupervisor: NoLeakedAtrBuffer with 3B ATRs only and enough host
\* frames to fill update_atr_queue (expected to be violated: the third
\* SENDATR before a reset is dropped with its buffer).  A supplementary
\* config, not one of the runs.
CONSTANTS
  HostAtrs <- MCValidAtrs
  LogLevels = {2}
  HostClks = {0}
  DefaultClk = 4
  MeasuredClk = 3
  QueueCap = 2
  MaxResets = 1
  MaxHostMsgs = 4
SPECIFICATION Spec
INVARIANT NoLeakedAtrBuffer
CHECK_DEADLOCK FALSE
