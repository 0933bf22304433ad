\* T0Byte: six commands of a reader that sends a PPS, answers of every kind.
CONSTANTS
    Ins <- MCIns
    InsCase <- MCInsCase
    GET_RESPONSE = "C0"
    P3s = {0, 8}
    RespLens = {2, 5, 10, 30}
    MaxCmds = 6
SPECIFICATION Spec
INVARIANT TypeOK
PROPERTY ApduRelay
PROPERTY ReaderAnswered
\* The reader stops after MaxCmds commands.
CHECK_DEADLOCK FALSE
