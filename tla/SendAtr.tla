------------------------------- MODULE SendAtr -------------------------------
(***************************************************************************)
(* read_usb_uart_apdu, SENDATR (pico_poc.c 115-123): the host's ATR is    *)
(* copied into a fresh payload and parsed by parse_ATR, which is compared *)
(* with the reference parse of AtrParser.                                  *)
(***************************************************************************)
EXTENDS AtrParser

CONSTANT HostAtrs   \* the ATRs the host may send

ASSUME HostAtrs \subseteq Seq(0..255)

VARIABLES atr, parsed, pc

vars == <<atr, parsed, pc>>

Init ==
    /\ atr \in HostAtrs
    /\ parsed = Unparsed
    /\ pc = "recv"

sendatr ==
    /\ pc = "recv"
    /\ parsed' = parse_ATR(atr)
    /\ pc' = "parsed"
    /\ UNCHANGED atr

Next == sendatr

Spec == Init /\ [][Next]_vars

\* The fields parse_ATR sets keep to their ranges: F and D come from the
\* conversion tables, BWI and CWI are nibbles.
TypeOK ==
    /\ pc \in {"recv", "parsed"}
    /\ parsed.valid =>
         /\ parsed.F \in {SpecF[i] : i \in 1..16} /\ parsed.D \in {SpecD[i] : i \in 1..16}
         /\ parsed.protocol \in 0..2 /\ parsed.IFSC \in 0..255
         /\ parsed.BWI \in 0..15 /\ parsed.CWI \in 0..15

\* Spec section 4.2, steps 1-4: parse_ATR accepts exactly the TS values
\* 3B and 3F, and for those it derives the protocol from TD1 and F and D
\* from TA1 as the spec's tables say, after undoing the inverse
\* convention and walking the interface bytes.
ParsedAsSpec ==
    pc = "parsed" =>
      LET r == Reference(atr)
      IN /\ parsed.valid = r.valid
         /\ r.valid => /\ parsed.protocol = r.protocol
                       /\ parsed.F = r.F /\ parsed.D = r.D

\* Spec section 4.2, step 5: for a T=1 card, IFSC, BWI and CWI come from
\* the TA and TB of a group under a T=1 TD; BWI sets the BWT the WTX alarm
\* of prot_t1 runs on.  The loop at util.c 916-923 decides by the protocol
\* of the next TD, and takes groups under T=0 as well.
TimingAsSpec ==
    pc = "parsed" /\ parsed.valid /\ parsed.protocol = 1 =>
      LET r == Reference(atr)
      IN parsed.IFSC = r.IFSC /\ parsed.BWI = r.BWI /\ parsed.CWI = r.CWI
=============================================================================
