\* T0Byte: GetResponseWhole with a 258-byte answer (expected to be violated).
CONSTANTS
    Ins <- MCIns
    InsCase <- MCInsCase
    GET_RESPONSE = "C0"
    P3s = {0, 8}
    RespLens = {2, 10, 258}
    MaxCmds = 4
SPECIFICATION Spec
PROPERTY GetResponseWhole
\* The reader stops after MaxCmds commands.
CHECK_DEADLOCK FALSE
