------------------------------- MODULE T0Apdu -------------------------------
(***************************************************************************)
(* What the T=0 relay promises, one APDU at a time (spec sections 3, 4.4  *)
(* and 8), with bytes, procedure bytes and the PPS left out.  A command   *)
(* from the reader is either a GET RESPONSE served from the stored answer *)
(* of the previous exchange, or it clears the store and goes to the host; *)
(* the host's answer is delivered at once or stored whole for the next    *)
(* GET RESPONSE.  T0Byte implements this specification.                  *)
(***************************************************************************)
EXTENDS Naturals

CONSTANTS
    Commands,      \* the command headers a reader can send
    GET_RESPONSE,  \* the INS 0xC0
    Lens           \* lengths of the host's answers

VARIABLES
    phase,      \* "idle", "cmd" (a command is in), "host" (at the host)
    cmd,        \* the command being handled, None when idle
    store,      \* the stored answer: its exchange and its length, or Empty
    exch,       \* host exchanges so far
    delivered   \* the last answer served from the store

avars == <<phase, cmd, store, exch, delivered>>

None == [ins |-> "none", p3 |-> 0]
Empty == [id |-> 0, full |-> 0]

Init ==
    /\ phase = "idle"
    /\ cmd = None
    /\ store = Empty
    /\ exch = 0
    /\ delivered = [id |-> 0, len |-> 0]

Command ==
    /\ phase = "idle"
    /\ \E c \in Commands : cmd' = c
    /\ phase' = "cmd"
    /\ UNCHANGED <<store, exch, delivered>>

FromStore == cmd.ins = GET_RESPONSE /\ store # Empty

\* The whole stored answer goes back; the store is kept until the next
\* command that is not a GET RESPONSE (spec section 3).
ServeStored ==
    /\ phase = "cmd"
    /\ FromStore
    /\ delivered' = [id |-> store.id, len |-> store.full]
    /\ phase' = "idle"
    /\ cmd' = None
    /\ UNCHANGED <<store, exch>>

Relay ==
    /\ phase = "cmd"
    /\ ~FromStore
    /\ store' = Empty
    /\ exch' = exch + 1
    /\ phase' = "host"
    /\ UNCHANGED <<cmd, delivered>>

\* The answer reaches the reader now, or is stored whole for later.
Answer ==
    /\ phase = "host"
    /\ \/ UNCHANGED store
       \/ \E n \in Lens : store' = [id |-> exch, full |-> n]
    /\ phase' = "idle"
    /\ cmd' = None
    /\ UNCHANGED <<exch, delivered>>

Next == Command \/ ServeStored \/ Relay \/ Answer

\* A command that is in is handled; the host and the reader may stop.
Spec == Init /\ [][Next]_avars /\ WF_avars(ServeStored) /\ WF_avars(Relay)
=============================================================================
