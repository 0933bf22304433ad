CONSTANTS
  HostAtrs <- MCValidAtrs
  LogLevels = {1, 2}
  HostClks = {0, 5}
  DefaultClk = 4
  MeasuredClk = 3
  QueueCap = 2
  MaxResets = 3
  MaxHostMsgs = 4
SPECIFICATION Spec
INVARIANT TypeOK
PROPERTY SessionsFollowResets
\* read_usb_atr blocks until the host sends a frame: once the host-frame
\* bound is spent in NEED_ATR the device really stops.
CHECK_DEADLOCK FALSE
