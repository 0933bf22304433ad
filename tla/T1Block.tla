------------------------------ MODULE T1Block ------------------------------
(***************************************************************************)
(* The T=1 block layer as prot_t1 (src/pico-tunnel/pico_poc.c) drives it, *)
(* with the helpers of src/pico-tunnel/util/util.c: t1_read,              *)
(* check_block_kind, t1_handle_s_block, t1_classify_r_block,              *)
(* t1_adjust_sequence_bit, t1_write_complete_buffer,                       *)
(* t1_handle_response_from_write and the BWT alarm callback               *)
(* t1_timer_block_waiting_extension.                                        *)
(*                                                                         *)
(* Core 1 runs the loop; the alarm callback runs as an interrupt on the    *)
(* same core and preempts it.  The card reader is an environment that may *)
(* send any block, a corrupted block or nothing (the read times out).     *)
(* The host answers a forwarded command with a response of some length.   *)
(* Lengths and information-field sizes are counted in units of 16 bytes   *)
(* (32 bytes, the default IFS, is 2 units).  INF contents are abstracted  *)
(* to the slice of the host response they carry.                          *)
(***************************************************************************)
EXTENDS Integers, Sequences, Bitwise

CONSTANTS
  ReaderPcbs,    \* PCBs of the blocks the reader may send
  IfsValues,     \* INF[0] of an S(IFS request), in units
  DefaultIFS,    \* the 32 of accepted_size and of the resync, in units
  Responses,     \* response lengths the host may return, in units
  UndefPcbs,     \* values the uninitialised response_tpdu.pcb may hold
  MaxReads,      \* bound on blocks the reader sends
  MaxResponses,  \* bound on host responses
  MaxWtx         \* bound on alarm firings

ASSUME /\ ReaderPcbs \subseteq 0..255 /\ UndefPcbs \subseteq 0..255
       /\ IfsValues \subseteq Nat \ {0} /\ DefaultIFS \in Nat \ {0}
       /\ Responses \subseteq Nat
       /\ {MaxReads, MaxResponses, MaxWtx} \subseteq Nat

T1_I_BLOCK == 0
T1_R_BLOCK == 1
T1_S_BLOCK == 2

\* check_block_kind
check_block_kind(pcb) ==
  IF pcb < 128 THEN T1_I_BLOCK ELSE IF pcb < 128 + 64 THEN T1_R_BLOCK ELSE T1_S_BLOCK

\* t1_classify_r_block: 0 no error, 1 parity/other error, -1 malformed
t1_classify_r_block(pcb) ==
  CASE pcb \in {\h80, \h90}                         -> 0
    [] pcb \in {\h81, \h91, \h82, \h92}         -> 1
    [] OTHER                                             -> -1

\* t1_adjust_sequence_bit: bit 6 of the PCB from the counter's parity;
\* the counter itself is normalised to 0 or 1.
AdjustPcb(ctr, pcb) == IF ctr % 2 = 0 THEN pcb & \hBF ELSE pcb | \h40
AdjustCtr(ctr) == ctr % 2
\* "counter += t1_write(...)": t1_write returns 1.  Every counter of the
\* layer is read only through its parity or reset, so it is kept mod 2.
Inc(ctr) == (ctr + 1) % 2

NoSeg == [rid |-> 0, from |-> 0, len |-> 0]
Garbage == [rid |-> -1, from |-> 0, len |-> -1]   \* uninitialised len/INF
Block(pcb, seg, fresh) ==
  [kind |-> check_block_kind(pcb), pcb |-> pcb, seg |-> seg, fresh |-> fresh]
NoBlock == Block(0, NoSeg, FALSE)

\* What the reader may send: INF matters only for an S(IFS request).
ReaderBlocks ==
  {[pcb |-> p, inf |-> 0] : p \in ReaderPcbs \ {\hC1}}
  \cup {[pcb |-> \hC1, inf |-> n] : n \in IF \hC1 \in ReaderPcbs THEN IfsValues ELSE {}}

(***************************************************************************)
(* t1_handle_s_block on a received block b, with the caller's sequence    *)
(* counter and accepted size: the reply it writes (NoBlock: none) and the *)
(* new counter and size.                                                   *)
(***************************************************************************)
t1_handle_s_block(b, ctr, size) ==
  CASE b.pcb = \hC0 -> [reply |-> Block(\hE0, NoSeg, FALSE), ctr |-> 0, size |-> DefaultIFS]
    [] b.pcb = \hC1 -> [reply |-> Block(\hE1, NoSeg, FALSE), ctr |-> Inc(ctr), size |-> b.inf]
    [] b.pcb = \hC2 -> [reply |-> Block(\hE2, NoSeg, FALSE), ctr |-> Inc(ctr), size |-> size]
    [] OTHER          -> [reply |-> NoBlock, ctr |-> ctr, size |-> size]

\* num_iblocks of t1_write_complete_buffer
NumIBlocks(size, bs) == size \div bs + 1 - (IF size % bs = 0 /\ size # 0 THEN 1 ELSE 0)

VARIABLES
  wpc,            \* "read" (prot_t1 loop), "host" (waiting for the host),
                  \* "chain" / "chain_read" (inside t1_write_complete_buffer)
  seq,            \* prot_t1's seq
  accepted_size,  \* prot_t1's accepted_size
  command_pcb,    \* command_tpdu.pcb of the I-block being answered
  response_pcb,   \* response_tpdu.pcb (its len and INF are never set)
  cs,             \* locals of t1_write_complete_buffer
  recv,           \* its recv_tpdu (pcb and INF[0])
  armed,          \* the BWT alarm is scheduled
  irq,            \* "idle" or "wtx_read": the alarm callback is running
  wire,           \* ghost: the last block core 1 wrote to the reader
  last_i,         \* ghost: the last new I-block since start or resync
  ifsd,           \* ghost: the IFS the reader asked for last
  reads, rid, wtx \* bounds: reader blocks, host responses, alarm firings

vars == <<wpc, seq, accepted_size, command_pcb, response_pcb, cs, recv, armed,
          irq, wire, last_i, ifsd, reads, rid, wtx>>

\* Response lengths up to the longest the host returns.
Lens == 0..(CHOOSE m \in Responses : \A r \in Responses : r <= m)
Seg == [rid : -1..MaxResponses, from : Lens, len : -1..255]
Blocks == [kind : {0, 1, 2}, pcb : 0..255, seg : Seg, fresh : BOOLEAN]

-----------------------------------------------------------------------------
\* prot_t1 after the ATR: seq = 1, accepted_size = 32.
Init ==
  /\ wpc = "read" /\ seq = 1 /\ accepted_size = DefaultIFS
  /\ command_pcb = 0 /\ response_pcb \in UndefPcbs
  /\ cs = [size |-> 0, bs |-> DefaultIFS, num |-> 0, i |-> 0, sent |-> 0,
           pcb |-> 0, ctr |-> 0, seg |-> NoSeg]
  /\ recv = [pcb |-> 0, inf |-> 0]
  /\ armed = FALSE /\ irq = "idle"
  /\ wire = NoBlock /\ last_i = NoBlock /\ ifsd = DefaultIFS
  /\ reads = 0 /\ rid = 0 /\ wtx = 0

Core1Free == irq = "idle"
ReaderSends == reads < MaxReads /\ reads' = reads + 1

\* What an S-request of the reader asks for (ISO 7816-3): an IFS request
\* sets the IFS; a resync restores the default and restarts N(S).
ReaderAsks(b) ==
  /\ ifsd' = CASE b.pcb = \hC1 -> b.inf [] b.pcb = \hC0 -> DefaultIFS [] OTHER -> ifsd
  /\ last_i' = IF b.pcb = \hC0 THEN NoBlock ELSE last_i

Written(h) == wire' = IF h.reply = NoBlock THEN wire ELSE h.reply

-----------------------------------------------------------------------------
(* The prot_t1 loop: one action per outcome of t1_read(command_tpdu).     *)
(* A timeout (-2) changes nothing and is a stuttering step.               *)

\* -3: the reader sent a PPS; t1_read echoed it and set the baud rate.
prot_t1_pps ==
  /\ wpc = "read" /\ Core1Free /\ ReaderSends
  /\ UNCHANGED <<wpc, seq, accepted_size, command_pcb, response_pcb, cs, recv,
                 armed, irq, wire, last_i, ifsd, rid, wtx>>

\* -1: checksum mismatch; an R-block with the parity of seq, seq += 1.
prot_t1_checksum_error ==
  /\ wpc = "read" /\ Core1Free /\ ReaderSends
  /\ wire' = Block(IF seq % 2 = 0 THEN \h81 ELSE \h91, NoSeg, FALSE)
  /\ seq' = Inc(seq)
  /\ UNCHANGED <<wpc, accepted_size, command_pcb, response_pcb, cs, recv,
                 armed, irq, last_i, ifsd, rid, wtx>>

\* An S-block: t1_handle_s_block(&command_tpdu, &seq, &accepted_size).
prot_t1_s_block ==
  /\ wpc = "read" /\ Core1Free /\ ReaderSends
  /\ \E b \in ReaderBlocks :
       LET h == t1_handle_s_block(b, seq, accepted_size) IN
       /\ check_block_kind(b.pcb) = T1_S_BLOCK
       /\ seq' = h.ctr /\ accepted_size' = h.size
       /\ Written(h) /\ ReaderAsks(b)
  /\ UNCHANGED <<wpc, command_pcb, response_pcb, cs, recv, armed, irq, rid, wtx>>

\* An R-block without error: nothing.
prot_t1_r_block_ok ==
  /\ wpc = "read" /\ Core1Free /\ ReaderSends
  /\ \E b \in ReaderBlocks : t1_classify_r_block(b.pcb) = 0
                             /\ check_block_kind(b.pcb) = T1_R_BLOCK
  /\ UNCHANGED <<wpc, seq, accepted_size, command_pcb, response_pcb, cs, recv,
                 armed, irq, wire, last_i, ifsd, rid, wtx>>

\* An R-block with an error, or malformed: adjust the sequence bit of
\* response_tpdu and write it; its len and INF were never set.
prot_t1_r_block_resend ==
  /\ wpc = "read" /\ Core1Free /\ ReaderSends
  /\ \E b \in ReaderBlocks : t1_classify_r_block(b.pcb) # 0
                             /\ check_block_kind(b.pcb) = T1_R_BLOCK
  /\ response_pcb' = AdjustPcb(seq, response_pcb)
  /\ wire' = Block(response_pcb', Garbage, FALSE)
  /\ seq' = Inc(AdjustCtr(seq))
  /\ UNCHANGED <<wpc, accepted_size, command_pcb, cs, recv, armed, irq,
                 last_i, ifsd, rid, wtx>>

\* An I-block: arm the BWT alarm, forward the APDU to the host and wait.
prot_t1_i_block ==
  /\ wpc = "read" /\ Core1Free /\ ReaderSends
  /\ \E b \in ReaderBlocks : check_block_kind(b.pcb) = T1_I_BLOCK
                             /\ command_pcb' = b.pcb
  /\ armed' = TRUE /\ wpc' = "host"
  /\ UNCHANGED <<seq, accepted_size, response_pcb, cs, recv, irq, wire,
                 last_i, ifsd, rid, wtx>>

\* Mutant: the response is written without cancelling the BWT alarm.
prot_t1_host_response_alarm_kept ==
  /\ wpc = "host" /\ Core1Free /\ rid < MaxResponses
  /\ \E n \in Responses :
       LET p == AdjustPcb(seq, command_pcb) IN
       /\ UNCHANGED armed
       /\ seq' = AdjustCtr(seq)
       /\ command_pcb' = p /\ response_pcb' = p
       /\ cs' = [size |-> n, bs |-> accepted_size, num |-> NumIBlocks(n, accepted_size),
                 i |-> 0, sent |-> 0, pcb |-> p, ctr |-> 0, seg |-> NoSeg]
       /\ recv' = [pcb |-> 0, inf |-> 0]
  /\ rid' = rid + 1 /\ wpc' = "chain"
  /\ UNCHANGED <<accepted_size, irq, wire, last_i, ifsd, reads, wtx>>

\* The host's response of n units arrives: cancel the alarm, adjust the
\* command's sequence bit, copy its PCB into response_tpdu and enter
\* t1_write_complete_buffer(accepted_size, &response_tpdu, buf, n).
prot_t1_host_response ==
  /\ wpc = "host" /\ Core1Free /\ rid < MaxResponses
  /\ \E n \in Responses :
       LET p == AdjustPcb(seq, command_pcb) IN
       /\ armed' = FALSE
       /\ seq' = AdjustCtr(seq)
       /\ command_pcb' = p /\ response_pcb' = p
       /\ cs' = [size |-> n, bs |-> accepted_size, num |-> NumIBlocks(n, accepted_size),
                 i |-> 0, sent |-> 0, pcb |-> p, ctr |-> 0, seg |-> NoSeg]
       /\ recv' = [pcb |-> 0, inf |-> 0]
  /\ rid' = rid + 1 /\ wpc' = "chain"
  /\ UNCHANGED <<accepted_size, irq, wire, last_i, ifsd, reads, wtx>>

-----------------------------------------------------------------------------
(* t1_write_complete_buffer: cs holds its locals.  block_size and          *)
(* sequence_counter are its own copies; num_iblocks is fixed at entry.     *)

\* Mutant: every block is taken as block_size long, the last one too.
chain_send_full_blocks ==
  /\ wpc = "chain" /\ Core1Free /\ cs.i < cs.num
  /\ LET cur  == cs.bs
         pcbM == IF cs.sent + cur < cs.size THEN cs.pcb | \h20 ELSE cs.pcb & \hDF
         blk  == Block(pcbM, [rid |-> rid, from |-> cs.sent, len |-> cur], TRUE)
         ctr  == Inc(cs.ctr)
     IN /\ wire' = blk /\ last_i' = blk
        /\ cs' = [cs EXCEPT !.pcb = AdjustPcb(ctr, pcbM), !.ctr = AdjustCtr(ctr),
                            !.sent = cs.sent + cur, !.i = cs.i + 1, !.seg = blk.seg]
        /\ wpc' = IF cs.sent + cur = cs.size THEN "chain" ELSE "chain_read"
  /\ UNCHANGED <<seq, accepted_size, command_pcb, response_pcb, recv, armed, irq,
                 ifsd, reads, rid, wtx>>

\* One iteration of the for loop: the block of current_block_size units
\* with the M-bit set when more follows, then the sequence bit toggled by
\* the local counter.  If all is sent the read is skipped (continue).
chain_send ==
  /\ wpc = "chain" /\ Core1Free /\ cs.i < cs.num
  /\ LET cur  == IF cs.size - cs.sent > cs.bs THEN cs.bs ELSE cs.size - cs.sent
         pcbM == IF cs.sent + cur < cs.size THEN cs.pcb | \h20 ELSE cs.pcb & \hDF
         blk  == Block(pcbM, [rid |-> rid, from |-> cs.sent, len |-> cur], TRUE)
         ctr  == Inc(cs.ctr)
     IN /\ wire' = blk /\ last_i' = blk
        /\ cs' = [cs EXCEPT !.pcb = AdjustPcb(ctr, pcbM), !.ctr = AdjustCtr(ctr),
                            !.sent = cs.sent + cur, !.i = cs.i + 1, !.seg = blk.seg]
        /\ wpc' = IF cs.sent + cur = cs.size THEN "chain" ELSE "chain_read"
  /\ UNCHANGED <<seq, accepted_size, command_pcb, response_pcb, recv, armed, irq,
                 ifsd, reads, rid, wtx>>

\* The loop ends: prot_t1 adds "send_tpdu.pcb && 0x40" to seq.
chain_end ==
  /\ wpc = "chain" /\ Core1Free /\ cs.i >= cs.num
  /\ seq' = (seq + IF cs.pcb # 0 THEN 1 ELSE 0) % 2
  /\ wpc' = "read"
  /\ UNCHANGED <<accepted_size, command_pcb, response_pcb, cs, recv, armed, irq,
                 wire, last_i, ifsd, reads, rid, wtx>>

\* t1_handle_response_from_write on recv_tpdu r: an S-block is handled
\* with the local counter and block size (and rewritten in place into its
\* response); an R-block with an error, or malformed, resends send_tpdu as
\* it is now, counts it, and reads again (the recursion); anything else
\* returns to the for loop.
t1_handle_response_from_write(r) ==
  CASE check_block_kind(r.pcb) = T1_S_BLOCK ->
         LET h == t1_handle_s_block(r, cs.ctr, cs.bs) IN
         /\ cs' = [cs EXCEPT !.ctr = h.ctr, !.bs = h.size]
         /\ recv' = IF h.reply = NoBlock THEN r ELSE [r EXCEPT !.pcb = h.reply.pcb]
         /\ Written(h) /\ ReaderAsks(r)
         /\ wpc' = "chain"
    [] check_block_kind(r.pcb) = T1_R_BLOCK /\ t1_classify_r_block(r.pcb) # 0 ->
         /\ wire' = Block(cs.pcb, cs.seg, FALSE)
         /\ cs' = [cs EXCEPT !.ctr = Inc(cs.ctr)]
         /\ recv' = r /\ UNCHANGED <<last_i, ifsd>>
         /\ wpc' = "chain_read"
    [] OTHER ->
         /\ recv' = r /\ UNCHANGED <<cs, wire, last_i, ifsd>>
         /\ wpc' = "chain"

\* t1_read(&recv_tpdu) gets a block of the reader (a checksum mismatch is
\* not looked at: the content is used all the same).
chain_read_block ==
  /\ wpc = "chain_read" /\ Core1Free /\ ReaderSends
  /\ \E b \in ReaderBlocks : t1_handle_response_from_write(b)
  /\ UNCHANGED <<seq, accepted_size, command_pcb, response_pcb, armed, irq, rid, wtx>>

\* t1_read times out: recv_tpdu keeps what it held.
chain_read_timeout ==
  /\ wpc = "chain_read" /\ Core1Free
  /\ t1_handle_response_from_write(recv)
  /\ UNCHANGED <<seq, accepted_size, command_pcb, response_pcb, armed, irq,
                 reads, rid, wtx>>

-----------------------------------------------------------------------------
(* The BWT alarm fires on core 1 while it is scheduled and runs           *)
(* t1_timer_block_waiting_extension to completion, preempting prot_t1.    *)
(* The seq it increments is util.c's own copy of the static in util.h,    *)
(* not prot_t1's, so it changes nothing here.                              *)

\* Write S(WTX request) ...
wtx_send ==
  /\ armed /\ irq = "idle" /\ wtx < MaxWtx
  /\ wire' = Block(\hC3, NoSeg, FALSE)
  /\ irq' = "wtx_read" /\ wtx' = wtx + 1
  /\ UNCHANGED <<wpc, seq, accepted_size, command_pcb, response_pcb, cs, recv,
                 armed, last_i, ifsd, reads, rid>>

\* ... then read the answer, whatever it is, or time out; reschedule.
wtx_read ==
  /\ irq = "wtx_read" /\ irq' = "idle"
  /\ \/ ReaderSends
     \/ UNCHANGED reads
  /\ UNCHANGED <<wpc, seq, accepted_size, command_pcb, response_pcb, cs, recv,
                 armed, wire, last_i, ifsd, rid, wtx>>

-----------------------------------------------------------------------------
Next ==
  \/ prot_t1_pps \/ prot_t1_checksum_error \/ prot_t1_s_block
  \/ prot_t1_r_block_ok \/ prot_t1_r_block_resend \/ prot_t1_i_block
  \/ prot_t1_host_response
  \/ chain_send \/ chain_end \/ chain_read_block \/ chain_read_timeout
  \/ wtx_send \/ wtx_read

\* Core 1 is never blocked for good: the chaining loop and the alarm
\* callback always make progress, since t1_read returns after its
\* timeout.  The reader and the host need not act.
Fairness ==
  /\ WF_vars(chain_send) /\ WF_vars(chain_end) /\ WF_vars(chain_read_timeout)
  /\ WF_vars(wtx_read)

Spec == Init /\ [][Next]_vars /\ Fairness

-----------------------------------------------------------------------------
NsOf(b) == IF b.pcb & \h40 = 0 THEN 0 ELSE 1
Retransmission(b) == b.seg # NoSeg /\ ~b.fresh

TypeOK ==
  /\ wpc \in {"read", "host", "chain", "chain_read"}
  /\ seq \in {0, 1} /\ accepted_size \in {DefaultIFS} \cup IfsValues
  /\ command_pcb \in 0..255 /\ response_pcb \in 0..255
  /\ cs \in [size : Lens, bs : {DefaultIFS} \cup IfsValues, num : Nat,
             i : Nat, sent : Lens, pcb : 0..255, ctr : {0, 1}, seg : Seg]
  /\ recv \in [pcb : 0..255, inf : {0} \cup IfsValues]
  /\ armed \in BOOLEAN /\ irq \in {"idle", "wtx_read"}
  /\ wire \in Blocks /\ last_i \in Blocks /\ ifsd \in {DefaultIFS} \cup IfsValues
  /\ reads \in 0..MaxReads /\ rid \in 0..MaxResponses /\ wtx \in 0..MaxWtx

\* The BWT alarm callback writes S(WTX) and reads its answer on the same
\* UART as the worker: it may only run while prot_t1 waits for the host,
\* never while t1_write_complete_buffer is sending or reading blocks.
\* This rests on alarm_pool_cancel_alarm preceding the chained write.
WtxOnlyWhileHostWaits == irq # "idle" => wpc = "host"

\* ISO 7816-3 and spec section 8: successive new I-blocks of the device
\* alternate N(S) (bit 6 of the PCB), starting afresh after a resync.  The
\* counters involved are prot_t1's seq (set to 1, stepped by S-block and
\* checksum replies) and the local counter of t1_write_complete_buffer.
NsAlternates ==
  [][last_i' # last_i /\ last_i'.fresh /\ last_i.fresh
       => NsOf(last_i') # NsOf(last_i)]_last_i

\* An R-block reporting an error asks for the last I-block again: what the
\* device sends back is that block, same PCB and same INF.  The prot_t1
\* loop resends response_tpdu; t1_handle_response_from_write resends
\* send_tpdu after its sequence bit was already toggled.
RetransmitRepeats ==
  [][wire' # wire /\ Retransmission(wire') /\ last_i.fresh
       => wire'.pcb = last_i.pcb /\ wire'.seg = last_i.seg]_<<wire, last_i>>

\* N(S) as ISO 7816-3 numbers I-blocks: a new block toggles it and the
\* block an R-block asks for again is repeated as it was.
NsSequencing == NsAlternates /\ RetransmitRepeats

\* t1_write_complete_buffer sends the whole host response and nothing
\* else: back in the prot_t1 loop all of it was sent, and no empty I-block
\* was sent for a non-empty response.  num_iblocks is fixed on entry while
\* the block size may change with an S(IFS) request during the chain.
ChainMatchesResponse ==
  /\ wpc = "read" => cs.sent = cs.size
  /\ last_i.fresh /\ last_i.seg.len = 0 => cs.size = 0

\* No I-block carries more than the IFS the reader last asked for (the
\* default after a resync), whether it asked in the prot_t1 loop or in the
\* middle of a chain, where the new size goes to block_size, a copy.
IfsHonoured ==
  [][last_i' # last_i /\ last_i'.fresh => last_i'.seg.len <= ifsd]_<<last_i, ifsd>>

\* The response goes out whole, in I-blocks no larger than the reader's
\* IFS, whether the IFS changes before or during the chain.
ChainHonoursIfs ==
  [][ChainMatchesResponse'
     /\ (last_i' # last_i /\ last_i'.fresh => last_i'.seg.len <= ifsd)]_vars

\* Once the device starts sending a response it returns to the prot_t1
\* loop: t1_handle_response_from_write's resend-and-read recursion ends.
ChainReturns == wpc \in {"chain", "chain_read"} ~> wpc = "read"

====
