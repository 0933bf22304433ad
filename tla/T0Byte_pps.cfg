\* T0Byte: ReaderAnswered with a reader that may skip PPS (expected to be violated).
CONSTANTS
    Ins <- MCIns
    InsCase <- MCInsCase
    GET_RESPONSE = "C0"
    P3s = {0, 8}
    RespLens = {2, 5, 10, 30}
    MaxCmds = 4
SPECIFICATION SpecSkipsPps
PROPERTY ReaderAnswered
\* The reader stops after MaxCmds commands.
CHECK_DEADLOCK FALSE
