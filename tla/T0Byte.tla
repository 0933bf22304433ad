------------------------------- MODULE T0Byte -------------------------------
(***************************************************************************)
(* Core 1's T=0 relay, prot_t0 in pico_poc.c, facing an ISO 7816-3 reader. *)
(* The session starts after the ATR has been written (line 236): the       *)
(* device reads a PPS (239-259), then loops reading a command header,      *)
(* the procedure byte and command data, serving GET RESPONSE from its      *)
(* response cache or forwarding the command to the host and writing the    *)
(* answer back as it is, as procedure byte and data, or as 61xx/6Cxx with  *)
(* the answer kept in the cache (265-338).                                 *)
(*                                                                         *)
(* The reader-to-device line is a sequence of byte runs (a PPS, a header,  *)
(* command data, or the rest of a run the device read only part of);      *)
(* sc_read takes a byte count from it and blocks until that many bytes    *)
(* are there, and sc_write first discards whatever is pending.  Lengths    *)
(* are real byte counts, and len_response_cache is a uint8.               *)
(***************************************************************************)
EXTENDS Integers, Sequences

CONSTANTS
    Ins,              \* INS bytes the reader sends, as model values
    InsCase,          \* ISO case of each INS (the osim card profile)
    GET_RESPONSE,     \* the INS 0xC0
    P3s,              \* P3 values the reader chooses freely
    RespLens,         \* lengths of the host's response APDUs
    MaxCmds           \* bound on the commands the reader sends

ASSUME /\ GET_RESPONSE \in Ins
       /\ InsCase \in [Ins -> 1..4]
       /\ \A n \in RespLens : n \in 2..1024

SW_LEN == 2
HEADER_LEN == 5
PPS_LEN == 4

\* A header the device read out of step with the reader's bytes.
Garbled == [ins |-> "garbled", p3 |-> 0]

Cmd == [ins : Ins, p3 : 0..255] \cup {Garbled}

Run(kind, c, size) == [kind |-> kind, cmd |-> c, size |-> size]

\* osim_determine_apdu_case: the case the card profile gives a header;
\* bytes that are no header get no case (0).
osim_determine_apdu_case(c) == IF c = Garbled THEN 0 ELSE InsCase[c.ins]

RECURSIVE Pending(_)
Pending(rx) == IF rx = <<>> THEN 0 ELSE Head(rx).size + Pending(Tail(rx))

\* What is left on the line after sc_read has taken n bytes.
RECURSIVE Consume(_, _)
Consume(rx, n) ==
    IF n = 0 THEN rx
    ELSE IF Head(rx).size <= n THEN Consume(Tail(rx), n - Head(rx).size)
    ELSE <<[Head(rx) EXCEPT !.kind = "rest", !.size = @ - n]>> \o Tail(rx)

\* sc_read(len) reads the first run whole exactly when it is len bytes.
ReadsWhole(rx, kind, len) == rx[1].kind = kind /\ rx[1].size = len

CaseTwoLe_unguarded(p3) == SW_LEN + p3 + 256

\* The expected length le of a case 2 command (lines 281-284).
CaseTwoLe(p3) == SW_LEN + p3 + (IF p3 = 0 THEN 256 ELSE 0)

VARIABLES
    dpc,          \* where prot_t0 is
    rx,           \* bytes from the reader not yet read by the device
    hdr,          \* the command header in buf
    le,           \* expected response length
    cache,        \* response_cache: len_response_cache (uint8), the full
                  \* length memcpy'd and the host exchange it came from
    exch,         \* host exchanges so far
    rpc,          \* reader: where it is in the T=0 exchange
    rcmd,         \* reader: the command it is carrying out
    next,         \* reader: the command 61xx / 6Cxx told it to send
    sent,         \* reader: commands sent
    served        \* the last answer served from the cache

dev == <<dpc, rx, hdr, le, cache, exch>>
reader == <<rpc, rcmd, next, sent>>
vars == <<dev, reader, served>>

Any == [ins |-> "any", p3 |-> 0]

\* sc_write (util.c 146-170) starts with discard_uart_buffer (127-135):
\* whatever the reader sent that was not read yet is dropped.  The echo of
\* each written byte is read back and compared only for a log line.
sc_write == rx' = <<>>

Init ==
    /\ dpc = "pps"
    /\ rx = <<>>
    /\ hdr = Garbled
    /\ le = SW_LEN
    /\ cache = [len |-> 0, full |-> 0, id |-> 0]
    /\ exch = 0
    /\ rpc = "atr"
    /\ rcmd = Garbled
    /\ next = Any
    /\ sent = 0
    /\ served = [id |-> 0, len |-> 0, full |-> 0, at |-> 0]

(***************************************************************************)
(* What the reader does on what the device writes.                        *)
(***************************************************************************)
\* A status word 'sw1 x': 61 asks for GET RESPONSE with P3 = x, 6C for the
\* same command again with P3 = x; anything else ends the command.
GetsSw(sw1, x) ==
    /\ rpc' = "idle"
    /\ next' = CASE sw1 = "61" -> [ins |-> GET_RESPONSE, p3 |-> x]
                 [] sw1 = "6C" -> [rcmd EXCEPT !.p3 = x]
                 [] OTHER      -> Any
    /\ UNCHANGED <<rcmd, sent>>

GetsData ==
    /\ rpc' = "idle"
    /\ next' = Any
    /\ UNCHANGED <<rcmd, sent>>

(***************************************************************************)
(* The device, prot_t0.                                                   *)
(***************************************************************************)
\* Lines 239-259: do_pps is always set, so four bytes are read as a PPS.
\* Only a PPS starting with PPS_BYTE is echoed; anything else is logged and
\* the four bytes are gone.
t0_pps ==
    /\ dpc = "pps"
    /\ Pending(rx) >= PPS_LEN
    /\ IF rx[1].kind = "pps"
         THEN /\ sc_write
              /\ rpc' = IF rpc = "pps_wait" THEN "idle" ELSE rpc
         ELSE /\ rx' = Consume(rx, PPS_LEN)
              /\ UNCHANGED rpc
    /\ dpc' = "header"
    /\ UNCHANGED <<hdr, le, cache, exch, rcmd, next, sent, served>>

\* Lines 266-295: read the header, classify it, and for case 3/4 with
\* Lc > 0 write the procedure byte and go on to read Lc data bytes.
t0_header_no_proc ==
    /\ dpc = "header"
    /\ Pending(rx) >= HEADER_LEN
    /\ LET c == IF ReadsWhole(rx, "hdr", HEADER_LEN) THEN rx[1].cmd
                ELSE Garbled
           case == osim_determine_apdu_case(c)
       IN /\ hdr' = c
          /\ le' = IF case = 2 THEN CaseTwoLe(c.p3) ELSE SW_LEN
          /\ rx' = Consume(rx, HEADER_LEN)
          /\ dpc' = IF case \in {3, 4} /\ c.p3 > 0 THEN "data" ELSE "check"
    /\ UNCHANGED <<cache, exch, reader, served>>

t0_header ==
    /\ dpc = "header"
    /\ Pending(rx) >= HEADER_LEN
    /\ LET c == IF ReadsWhole(rx, "hdr", HEADER_LEN) THEN rx[1].cmd
                ELSE Garbled
           case == osim_determine_apdu_case(c)
       IN /\ hdr' = c
          /\ le' = IF case = 2 THEN CaseTwoLe(c.p3) ELSE SW_LEN
          /\ IF case \in {3, 4} /\ c.p3 > 0
               THEN /\ sc_write
                    /\ rpc' = IF rpc = "wait" THEN "send_data" ELSE rpc
                    /\ dpc' = "data"
               ELSE /\ rx' = Consume(rx, HEADER_LEN)
                    /\ UNCHANGED rpc
                    /\ dpc' = "check"
    /\ UNCHANGED <<cache, exch, rcmd, next, sent, served>>

\* Line 290: read the Lc command data bytes.
t0_data ==
    /\ dpc = "data"
    /\ Pending(rx) >= hdr.p3
    /\ rx' = Consume(rx, hdr.p3)
    /\ dpc' = "check"
    /\ UNCHANGED <<hdr, le, cache, exch, reader, served>>

\* Lines 297-300: a GET RESPONSE while the cache holds something gets the
\* procedure byte and len_response_cache bytes of the cache.
CacheHit == cache.len > 0 /\ hdr.ins = GET_RESPONSE

t0_cache_hit ==
    /\ dpc = "check"
    /\ CacheHit
    /\ sc_write
    /\ GetsData
    /\ served' = [id |-> cache.id, len |-> cache.len, full |-> cache.full,
                  at |-> sent]
    /\ dpc' = "header"
    /\ UNCHANGED <<hdr, le, cache, exch>>

\* Lines 303-307: anything else clears the cache and goes to the host.
t0_forward_kept ==
    /\ dpc = "check"
    /\ ~CacheHit
    /\ exch' = exch + 1
    /\ dpc' = "host"
    /\ UNCHANGED <<rx, hdr, le, cache, reader, served>>

t0_forward ==
    /\ dpc = "check"
    /\ ~CacheHit
    /\ cache' = [cache EXCEPT !.len = 0]
    /\ exch' = exch + 1
    /\ dpc' = "host"
    /\ UNCHANGED <<rx, hdr, le, reader, served>>

\* Lines 309-333: the host answers n bytes.  A bare status word is written
\* as it is, an answer of exactly le bytes after the procedure byte, and any
\* other is cached and announced by 61 (longer) or 6C (shorter) with
\* SW2 = n - 2 as a uint8.  For a bare status word, hsw is its SW1 and the
\* reader's next P3 comes from P3s.
t0_response ==
    /\ dpc = "host"
    /\ \E n \in RespLens :
         \/ /\ n = SW_LEN
            /\ \E hsw \in {"90", "61"}, x \in P3s : GetsSw(hsw, x)
            /\ UNCHANGED cache
         \/ /\ n # SW_LEN /\ n = le
            /\ GetsData
            /\ UNCHANGED cache
         \/ /\ n \notin {SW_LEN, le}
            /\ cache' = [len |-> n % 256, full |-> n, id |-> exch]
            /\ GetsSw(IF n > le THEN "61" ELSE "6C", (n - SW_LEN) % 256)
    /\ sc_write
    /\ dpc' = "header"
    /\ UNCHANGED <<hdr, le, exch, served>>

(***************************************************************************)
(* The reader.                                                            *)
(***************************************************************************)
ReaderPps ==
    /\ rpc = "atr"
    /\ rx' = Append(rx, Run("pps", Garbled, PPS_LEN))
    /\ rpc' = "pps_wait"
    /\ UNCHANGED <<dpc, hdr, le, cache, exch, rcmd, next, sent,
                   served>>

\* PPS is optional (ISO 7816-3): a reader may go straight to its first
\* command.  Only SpecSkipsPps lets it.
ReaderSkipsPps ==
    /\ rpc = "atr"
    /\ rpc' = "idle"
    /\ UNCHANGED <<dev, rcmd, next, sent, served>>

\* After a 61xx or 6Cxx the reader sends what it was told to, otherwise
\* any command.
ReaderCommand ==
    /\ rpc = "idle"
    /\ sent < MaxCmds
    /\ \E c \in IF next = Any THEN {[ins |-> i, p3 |-> p] : i \in Ins, p \in P3s}
                ELSE {next} :
         /\ rx' = Append(rx, Run("hdr", c, HEADER_LEN))
         /\ rcmd' = c
    /\ rpc' = "wait"
    /\ sent' = sent + 1
    /\ UNCHANGED <<dpc, hdr, le, cache, exch, next, served>>

\* On the procedure byte the reader sends its P3 data bytes.
ReaderData ==
    /\ rpc = "send_data"
    /\ rx' = Append(rx, Run("data", rcmd, rcmd.p3))
    /\ rpc' = "wait"
    /\ UNCHANGED <<dpc, hdr, le, cache, exch, rcmd, next, sent,
                   served>>

Next ==
    \/ t0_pps \/ t0_header \/ t0_data \/ t0_cache_hit \/ t0_forward
    \/ t0_response
    \/ ReaderPps \/ ReaderCommand \/ ReaderData

\* Core 1 runs prot_t0 and nothing else, so each of its steps that can go
\* on is eventually taken; the host's answer is not assumed.  The reader
\* follows ISO 7816-3 and sends its data after a procedure byte.
Fairness ==
    /\ WF_vars(t0_pps) /\ WF_vars(t0_header) /\ WF_vars(t0_data)
    /\ WF_vars(t0_cache_hit) /\ WF_vars(t0_forward)
    /\ WF_vars(ReaderData)

Spec == Init /\ [][Next]_vars /\ Fairness

SpecSkipsPps == Init /\ [][Next \/ ReaderSkipsPps]_vars /\ Fairness

(***************************************************************************)
(* Properties                                                             *)
(***************************************************************************)
TypeOK ==
    /\ dpc \in {"pps", "header", "data", "check", "host"}
    /\ \A i \in 1..Len(rx) : rx[i].kind \in {"pps", "hdr", "data", "rest"}
    /\ hdr \in Cmd
    /\ le \in SW_LEN..SW_LEN + 256
    /\ cache.len \in 0..255
    /\ rpc \in {"atr", "pps_wait", "idle", "wait", "send_data"}
    /\ sent \in 0..MaxCmds

(***************************************************************************)
(* The refinement mapping to T0Apdu.  A command is in once prot_t0 has    *)
(* read it whole (dpc = "check") and at the host while it waits for the   *)
(* answer; the cache is the abstract store when len_response_cache > 0.   *)
(***************************************************************************)
Apdu == INSTANCE T0Apdu WITH
    Commands <- Cmd,
    Lens <- RespLens,
    phase <- CASE dpc = "check" -> "cmd"
               [] dpc = "host"  -> "host"
               [] OTHER         -> "idle",
    cmd <- IF dpc \in {"check", "host"} THEN hdr ELSE [ins |-> "none", p3 |-> 0],
    store <- IF cache.len > 0 THEN [id |-> cache.id, full |-> cache.full]
             ELSE [id |-> 0, full |-> 0],
    delivered <- [id |-> served.id, len |-> served.len]

\* prot_t0 implements the APDU relay of spec 4.4: a GET RESPONSE served from
\* the cache (line 297) gets the whole answer of the command forwarded last,
\* the cache is cleared by every forwarded command (line 303) and kept over
\* GET RESPONSEs, and every command read whole is eventually served or sent
\* to the host.
ApduRelay == Apdu!Spec

\* Spec section 4.4: the cache holds the whole response and GET RESPONSE
\* returns it.  len_response_cache is a uint8 (line 264), so an answer of
\* 256 bytes or more is served cut short.
GetResponseWhole ==
    [][served' # served => served'.len = served'.full]_vars

\* Every command the reader starts is answered, unless the device is
\* waiting for the host: the PPS read (line 242) and the header, data and
\* procedure byte exchange (270-290) never leave both sides waiting.
ReaderAnswered ==
    rpc \in {"wait", "send_data"} ~> (rpc = "idle" \/ dpc = "host")
=============================================================================
