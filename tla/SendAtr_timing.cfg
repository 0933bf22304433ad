\* SendAtr: TimingAsSpec (expected to be violated).
CONSTANT HostAtrs <- MCHostAtrs
SPECIFICATION Spec
INVARIANT TimingAsSpec
\* One SENDATR frame per behaviour: the parse is the last step.
CHECK_DEADLOCK FALSE
