\* SendAtr: parse_ATR against the spec on every ATR of MCHostAtrs.
CONSTANT HostAtrs <- MCHostAtrs
SPECIFICATION Spec
INVARIANT TypeOK
INVARIANT ParsedAsSpec
\* One SENDATR frame per behaviour: the parse is the last step.
CHECK_DEADLOCK FALSE
