----------------------------- MODULE MCT1Block -----------------------------
(* Model of T1Block for TLC.  Sizes are in 16-byte units: the default IFS *)
(* of 32 bytes is 2, an IFS request may ask for 16 or 48 bytes, the host  *)
(* answers with 16 or 48 bytes, so one chain may need two blocks (the    *)
(* chain config sets its own sizes).                                     *)
EXTENDS T1Block

\* I-blocks with either N(S), R-blocks without and with an error, and the
\* S-requests resync, IFS and abort, and an S(WTX response).
MCReaderPcbs == {\h00, \h40, \h80, \h81, \hC0, \hC1, \hC2, \hE3}

\* Two values the uninitialised response_tpdu.pcb may hold.
MCUndefPcbs == {\h00, \h25}
====
