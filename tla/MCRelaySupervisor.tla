-------------------------- MODULE MCRelaySupervisor --------------------------
(* Model-checking instance of RelaySupervisor. *)
EXTENDS RelaySupervisor

\* A T=0 ATR with default F/D (TD1 = 00) and a T=1 ATR whose TA1 = 96
\* asks for F = 512, D = 32.
MCValidAtrs == {<<\h3B, \h80, \h00>>, <<\h3B, \h90, \h96, \h01>>}
\* The same plus one with an unknown TS byte.
MCAnyAtrs == MCValidAtrs \cup {<<\h3C, \h00>>}
\* The same plus the T=0 ATR in the inverse convention (TS = 3F).
MCInverseAtrs == MCValidAtrs \cup {<<\h3F, \h7F, \hFF>>}
====
