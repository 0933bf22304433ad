\* HostChannel: two host frames for core 1, one reset edge.
CONSTANTS
    Levels = {1, 2}
    QueueCap = 2
    MaxHostMsgs = 2
    MaxResets = 1
    MaxWtx = 1
SPECIFICATION Spec
INVARIANT HostReadsFrames
\* The host and the reset line stop after their bounds.
CHECK_DEADLOCK FALSE
