--------------------------- MODULE SessionSupervisor ---------------------------
(***************************************************************************)
(* What the relay supervisor promises (spec sections 2 and 4.6): the      *)
(* worker core runs exactly one of waiting, T=0 or T=1; every reset edge  *)
(* tears the worker down and relaunches it for the current ATR's protocol *)
(* (none when the protocol is unknown), and a relaunched worker runs with *)
(* the configuration of that edge.  Queues, buffers and host frames are   *)
(* left out.  RelaySupervisor implements this specification.              *)
(***************************************************************************)
EXTENDS Naturals

VARIABLES
    worker,    \* "off", "waiting", "starting" or "run"
    cfg,       \* the reset edge whose configuration the worker runs with
    epoch,     \* reset edges handled
    pending,   \* an edge is being handled and the worker not yet relaunched
    proto      \* the protocol of the current ATR: 0, 1, or 2 (unknown)

svars == <<worker, cfg, epoch, pending, proto>>

Init ==
    /\ worker = "off"
    /\ cfg = 0
    /\ epoch = 0
    /\ pending = FALSE
    /\ proto \in 0..2

\* The first ATR arrives and the worker waits for a reset.
Boot ==
    /\ worker = "off" /\ epoch = 0
    /\ worker' = "waiting"
    /\ proto' \in 0..2
    /\ UNCHANGED <<cfg, epoch, pending>>

Reset ==
    /\ ~pending
    /\ worker' = "off"
    /\ epoch' = epoch + 1
    /\ pending' = TRUE
    /\ UNCHANGED <<cfg, proto>>

Launch ==
    /\ pending
    /\ worker' = IF proto \in {0, 1} THEN "starting" ELSE "off"
    /\ pending' = FALSE
    /\ UNCHANGED <<cfg, epoch, proto>>

Start ==
    /\ worker = "starting"
    /\ worker' = "run"
    /\ cfg' = epoch
    /\ UNCHANGED <<epoch, pending, proto>>

\* The host replaces the ATR between edges.
Update ==
    /\ ~pending
    /\ proto' \in 0..2
    /\ UNCHANGED <<worker, cfg, epoch, pending>>

Next == Boot \/ Reset \/ Launch \/ Start \/ Update

\* An edge being handled ends in a launch, and a launched worker starts.
Spec == Init /\ [][Next]_svars /\ WF_svars(Launch) /\ WF_svars(Start)
=============================================================================
