--------------------------- MODULE RelaySupervisor ---------------------------
(***************************************************************************)
(* The two-core relay supervisor of src/pico-tunnel/pico_poc.c.            *)
(*                                                                         *)
(* Core 0 runs main(): it requests the first ATR from the host (NEED_ATR), *)
(* launches core 1 in prot_waiting, then polls the reset line.  On a       *)
(* rising edge it resets core 1, drains relay_config_queue, enqueues a     *)
(* fresh session configuration and launches prot_t0 or prot_t1.  While the *)
(* line is low it applies the updates core 1 left in the three update      *)
(* queues.  Core 1 reads host frames in read_usb_uart_apdu, which parses   *)
(* new ATRs into freshly malloc'd buffers and writes the shared globals    *)
(* mode, fixed_clk and current_loglevel directly.                          *)
(*                                                                         *)
(* The UART side of prot_t0/prot_t1 is abstracted to "run"; it is modelled *)
(* in T1Block and T0Byte.  ATR bytes are abstracted to the fields parse_ATR *)
(* derives from them; heap buffers are numbered so that ownership and      *)
(* frees can be followed across the cores.                                 *)
(***************************************************************************)
EXTENDS Integers, Sequences, FiniteSets, AtrParser

CONSTANTS
  HostAtrs,     \* ATRs the host may send, as byte sequences
  LogLevels,    \* log levels a SET_LOGLEVEL frame may carry
  HostClks,     \* clock values a SET_UARTMODE frame may carry (0 = keep)
  DefaultClk,   \* initial value of fixed_clk
  MeasuredClk,  \* what get_sc_reader_clk() returns
  QueueCap,     \* capacity passed to queue_init
  MaxResets,    \* bound on rising edges of the reset line
  MaxHostMsgs   \* bound on frames the host sends

ASSUME /\ HostAtrs \subseteq Seq(0..255)
       /\ 2 \in LogLevels /\ 0 \in HostClks
       /\ DefaultClk \notin HostClks /\ MeasuredClk \notin HostClks \cup {DefaultClk}
       /\ QueueCap \in Nat \ {0} /\ MaxResets \in Nat /\ MaxHostMsgs \in Nat

UART_MODE_SYNCHRONOUS == 0
UART_MODE_ASYNCHRONOUS == 1
LOG_LEVEL_DEBUG == 2
NEED_ATR == "NEED_ATR"
RDY_TO_RELAY == "RDY_TO_RELAY"
Stack == -1   \* the VLA inv_atr of parse_ATR, dead once it returns

VARIABLES
  reset_line,        \* GPIO_RESET_PIN
  resets,            \* rising edges so far (bound only)
  hostMsgs,          \* host frames so far (bound only)
  core0,             \* where main() is
  current_state,
  ATR,               \* core 0's answer_to_reset
  mode, fixed_clk, current_loglevel,   \* globals shared by both cores
  relay_config_queue, update_atr_queue,
  update_uartmode_queue, update_loglevel_queue,
  core1,             \* which function core 1 runs, and where
  entry,             \* the relay_config_entry_t core 1 dequeued
  next_buf,          \* next heap buffer number malloc returns
  freed,             \* buffers passed to free()
  edges,             \* ghost: rising edges core 0 has handled
  host_mode, host_ll,  \* ghost: last mode the device accepted, last log level set
  state_reply        \* last REQUEST_STATE reply written to the host

vars == <<reset_line, resets, hostMsgs, core0, current_state, ATR, mode,
          fixed_clk, current_loglevel, relay_config_queue, update_atr_queue,
          update_uartmode_queue, update_loglevel_queue, core1, entry,
          next_buf, freed, edges, host_mode, host_ll, state_reply>>

Bufs == {Stack} \cup Nat
Atr == [buf : Bufs, proto : 0..2, valid : BOOLEAN, fd : BOOLEAN]
Clks == HostClks \cup {DefaultClk, MeasuredClk}
ConfigEntry == [atr : Atr, mode : {0, 1}, clk : Clks, ll : LogLevels, epoch : Nat]
NoAtr == [buf |-> 0, proto |-> 2, valid |-> FALSE, fd |-> FALSE]
NoEntry == [atr |-> NoAtr, mode |-> 0, clk |-> DefaultClk, ll |-> 2, epoch |-> 0]

(***************************************************************************)
(* parse_ATR (AtrParser) on a payload held in buffer b.  TS = 3F: the     *)
(* bytes are inverted into the stack array inv_atr, payload is pointed at *)
(* it and the parse recurses, so the payload dangles on return.  TS       *)
(* neither 3B nor 3F: parse_ATR returns before it sets any field, so      *)
(* protocol, F and D keep the uninitialised values of the caller's local  *)
(* answer_to_reset (any bytes; 0, 1 and "other" are the protocols main()  *)
(* tells apart).  fd says whether F/D differ from 372/1 (pico_poc.c 392).  *)
(***************************************************************************)
ParseATR(a, b) ==
  LET r == parse_ATR(a)
  IN IF ~r.valid
     THEN {[buf |-> b, proto |-> p, valid |-> FALSE, fd |-> f] : p \in 0..2, f \in BOOLEAN}
     ELSE {[buf |-> IF a[1] = \h3F THEN Stack ELSE b, proto |-> r.protocol,
            valid |-> TRUE, fd |-> r.F # 372 \/ r.D # 1]}

\* Mutant: the queue taken as full one entry too late.
TryAdd_off_by_one(q, e) == IF Len(q) <= QueueCap THEN Append(q, e) ELSE q

TryAdd(q, e) == IF Len(q) < QueueCap THEN Append(q, e) ELSE q

HostSends == hostMsgs < MaxHostMsgs /\ hostMsgs' = hostMsgs + 1

-----------------------------------------------------------------------------
Init ==
  /\ reset_line = FALSE /\ resets = 0 /\ hostMsgs = 0
  /\ core0 = "get_alarm_pool" /\ current_state = NEED_ATR
  /\ ATR = NoAtr
  /\ mode = UART_MODE_SYNCHRONOUS /\ fixed_clk = DefaultClk
  /\ current_loglevel = LOG_LEVEL_DEBUG
  /\ relay_config_queue = <<>> /\ update_atr_queue = <<>>
  /\ update_uartmode_queue = <<>> /\ update_loglevel_queue = <<>>
  /\ core1 = "off" /\ entry = NoEntry
  /\ next_buf = 1 /\ freed = {}
  /\ edges = 0
  /\ host_mode = UART_MODE_SYNCHRONOUS /\ host_ll = LOG_LEVEL_DEBUG
  /\ state_reply = "none"

-----------------------------------------------------------------------------
(***************************************************************************)
(* Boot: get_alarm_pool_on_core1 launches core 1 in create_alarm_pool,    *)
(* which creates the alarm pool on core 1, hands it over through          *)
(* relay_config_queue (an entry whose other fields are never set) and     *)
(* exits; core 0 takes the entry and resets core 1.                       *)
(***************************************************************************)
get_alarm_pool_on_core1 ==
  /\ core0 = "get_alarm_pool"
  /\ core1' = "create_alarm_pool"
  /\ core0' = "alarm_pool_wait"
  /\ UNCHANGED <<reset_line, resets, hostMsgs, current_state, ATR, mode,
                 fixed_clk, current_loglevel, relay_config_queue, update_atr_queue,
                 update_uartmode_queue, update_loglevel_queue, entry, next_buf,
                 freed, edges, host_mode, host_ll, state_reply>>

create_alarm_pool ==
  /\ core1 = "create_alarm_pool"
  /\ Len(relay_config_queue) < QueueCap
  /\ relay_config_queue' = Append(relay_config_queue, NoEntry)
  /\ core1' = "exited"
  /\ UNCHANGED <<reset_line, resets, hostMsgs, core0, current_state, ATR, mode,
                 fixed_clk, current_loglevel, update_atr_queue,
                 update_uartmode_queue, update_loglevel_queue, entry, next_buf,
                 freed, edges, host_mode, host_ll, state_reply>>

\* queue_remove_blocking, then multicore_reset_core1.
get_alarm_pool_remove ==
  /\ core0 = "alarm_pool_wait" /\ relay_config_queue # <<>>
  /\ relay_config_queue' = Tail(relay_config_queue)
  /\ core1' = "off"
  /\ core0' = "need_atr"
  /\ UNCHANGED <<reset_line, resets, hostMsgs, current_state, ATR, mode,
                 fixed_clk, current_loglevel, update_atr_queue,
                 update_uartmode_queue, update_loglevel_queue, entry, next_buf,
                 freed, edges, host_mode, host_ll, state_reply>>

-----------------------------------------------------------------------------
(***************************************************************************)
(* Core 0, NEED_ATR: main() writes a SENDATR request and read_usb_atr      *)
(* reads one host frame.  Any SENDATR frame ends the loop, whatever        *)
(* parse_ATR made of it; main then enqueues the boot configuration and     *)
(* launches prot_waiting.                                                  *)
(***************************************************************************)
read_usb_atr_sendatr ==
  /\ core0 = "need_atr" /\ HostSends
  /\ \E a \in HostAtrs : \E p \in ParseATR(a, 0) :
       LET boot == [atr |-> p, mode |-> mode, clk |-> fixed_clk,
                    ll |-> current_loglevel, epoch |-> 0]
       IN /\ ATR' = p
          /\ current_state' = RDY_TO_RELAY
          /\ relay_config_queue' = Append(relay_config_queue, boot)
  /\ core1' = "waiting"
  /\ core0' = "poll"
  /\ UNCHANGED <<reset_line, resets, mode, fixed_clk, current_loglevel,
                 update_atr_queue, update_uartmode_queue, update_loglevel_queue,
                 entry, next_buf, freed, edges, host_mode, host_ll,
                 state_reply>>

read_usb_atr_uartmode ==
  /\ core0 = "need_atr" /\ HostSends
  /\ \E m \in {0, 1} : mode' = m /\ host_mode' = m
  /\ UNCHANGED <<reset_line, resets, core0, current_state, ATR, fixed_clk,
                 current_loglevel, relay_config_queue, update_atr_queue,
                 update_uartmode_queue, update_loglevel_queue, core1, entry,
                 next_buf, freed, edges, host_ll, state_reply>>

read_usb_atr_loglevel ==
  /\ core0 = "need_atr" /\ HostSends
  /\ \E ll \in LogLevels : current_loglevel' = ll /\ host_ll' = ll
  /\ UNCHANGED <<reset_line, resets, core0, current_state, ATR, mode, fixed_clk,
                 relay_config_queue, update_atr_queue, update_uartmode_queue,
                 update_loglevel_queue, core1, entry, next_buf, freed, edges,
                 host_mode, state_reply>>

\* REQUEST_STATE is answered, any other opcode is ignored; both return -1
\* and main() sends the next SENDATR request.
read_usb_atr_other ==
  /\ core0 = "need_atr" /\ HostSends
  /\ state_reply' \in {state_reply, current_state}
  /\ UNCHANGED <<reset_line, resets, core0, current_state, ATR, mode, fixed_clk,
                 current_loglevel, relay_config_queue, update_atr_queue,
                 update_uartmode_queue, update_loglevel_queue, core1, entry,
                 next_buf, freed, edges, host_mode, host_ll>>

-----------------------------------------------------------------------------
(***************************************************************************)
(* Core 1, read_usb_uart_apdu: one host frame read in prot_waiting or     *)
(* while prot_t0/prot_t1 wait for a response.  Control frames re-enter the *)
(* function; an APDU frame returns to the protocol loop, whose UART work  *)
(* leaves this model's state alone.                                        *)
(***************************************************************************)
HostReader == core1 \in {"waiting", "run"}

read_usb_uart_apdu_sendatr ==
  /\ HostReader /\ HostSends
  /\ \E a \in HostAtrs : \E p \in ParseATR(a, next_buf) :
       update_atr_queue' = TryAdd(update_atr_queue, p)
  /\ next_buf' = next_buf + 1
  /\ UNCHANGED <<reset_line, resets, core0, current_state, ATR, mode, fixed_clk,
                 current_loglevel, relay_config_queue, update_uartmode_queue,
                 update_loglevel_queue, core1, entry, freed, edges, host_mode,
                 host_ll, state_reply>>

read_usb_uart_apdu_uartmode ==
  /\ HostReader /\ HostSends
  /\ \E m \in {0, 1}, clk \in HostClks :
       IF Len(update_uartmode_queue) < QueueCap
       THEN /\ update_uartmode_queue' =
                 Append(update_uartmode_queue, [m |-> m, clk |-> clk])
            /\ mode' = m
            /\ fixed_clk' = IF m = 1 /\ clk > 0 THEN clk ELSE fixed_clk
            /\ host_mode' = m
       ELSE UNCHANGED <<update_uartmode_queue, mode, fixed_clk, host_mode>>
  /\ UNCHANGED <<reset_line, resets, core0, current_state, ATR, current_loglevel,
                 relay_config_queue, update_atr_queue, update_loglevel_queue,
                 core1, entry, next_buf, freed, edges, host_ll, state_reply>>

\* The level is written to current_loglevel whether or not the queue took it,
\* so the device has taken the host's level even when the entry is dropped.
read_usb_uart_apdu_loglevel ==
  /\ HostReader /\ HostSends
  /\ \E ll \in LogLevels :
       /\ update_loglevel_queue' = TryAdd(update_loglevel_queue, ll)
       /\ current_loglevel' = ll
       /\ host_ll' = ll
  /\ UNCHANGED <<reset_line, resets, core0, current_state, ATR, mode, fixed_clk,
                 relay_config_queue, update_atr_queue, update_uartmode_queue,
                 core1, entry, next_buf, freed, edges, host_mode,
                 state_reply>>

read_usb_uart_apdu_request_state ==
  /\ HostReader /\ HostSends
  /\ state_reply' = current_state
  /\ UNCHANGED <<reset_line, resets, core0, current_state, ATR, mode, fixed_clk,
                 current_loglevel, relay_config_queue, update_atr_queue,
                 update_uartmode_queue, update_loglevel_queue, core1, entry,
                 next_buf, freed, edges, host_mode, host_ll>>

-----------------------------------------------------------------------------
(***************************************************************************)
(* Core 0, main loop.  A high reset line starts the reset handler: reset  *)
(* core 1, drain relay_config_queue, enqueue the session configuration,   *)
(* launch by ATR.protocol, spin until the line drops.  Each pass with the *)
(* line low tries the three update queues in turn.                         *)
(***************************************************************************)
main_reset_core1 ==
  /\ core0 = "poll" /\ reset_line
  /\ core1' = "off"
  /\ edges' = edges + 1
  /\ core0' = "drain"
  /\ UNCHANGED <<reset_line, resets, hostMsgs, current_state, ATR, mode,
                 fixed_clk, current_loglevel, relay_config_queue, update_atr_queue,
                 update_uartmode_queue, update_loglevel_queue, entry, next_buf,
                 freed, host_mode, host_ll, state_reply>>

\* Mutant: the queue_try_remove loop before the enqueue is left out.
main_drain_relay_config_skipped ==
  /\ core0 = "drain"
  /\ core0' = "add"
  /\ UNCHANGED <<reset_line, resets, hostMsgs, current_state, ATR, mode,
                 fixed_clk, current_loglevel, relay_config_queue, update_atr_queue,
                 update_uartmode_queue, update_loglevel_queue, core1, entry,
                 next_buf, freed, edges, host_mode, host_ll, state_reply>>

main_drain_relay_config ==
  /\ core0 = "drain"
  /\ \/ /\ relay_config_queue # <<>>
        /\ relay_config_queue' = Tail(relay_config_queue)
        /\ UNCHANGED core0
     \/ /\ relay_config_queue = <<>>
        /\ core0' = "add"
        /\ UNCHANGED relay_config_queue
  /\ UNCHANGED <<reset_line, resets, hostMsgs, current_state, ATR, mode,
                 fixed_clk, current_loglevel, update_atr_queue,
                 update_uartmode_queue, update_loglevel_queue, core1, entry,
                 next_buf, freed, edges, host_mode, host_ll, state_reply>>

SessionConfig == [atr |-> ATR, mode |-> mode, clk |-> fixed_clk,
                  ll |-> current_loglevel, epoch |-> edges]

\* Mutant: the session configuration is never enqueued.
main_add_relay_config_dropped ==
  /\ core0 = "add"
  /\ core0' = "launch"
  /\ UNCHANGED <<reset_line, resets, hostMsgs, current_state, ATR, mode,
                 fixed_clk, current_loglevel, relay_config_queue, update_atr_queue,
                 update_uartmode_queue, update_loglevel_queue, core1, entry,
                 next_buf, freed, edges, host_mode, host_ll, state_reply>>

main_add_relay_config ==
  /\ core0 = "add"
  /\ Len(relay_config_queue) < QueueCap
  /\ relay_config_queue' = Append(relay_config_queue, SessionConfig)
  /\ core0' = "launch"
  /\ UNCHANGED <<reset_line, resets, hostMsgs, current_state, ATR, mode,
                 fixed_clk, current_loglevel, update_atr_queue,
                 update_uartmode_queue, update_loglevel_queue, core1, entry,
                 next_buf, freed, edges, host_mode, host_ll, state_reply>>

main_launch ==
  /\ core0 = "launch"
  /\ core1' = CASE ATR.proto = 1 -> "t1_deq"
                [] ATR.proto = 0 -> "t0_deq"
                [] OTHER         -> "off"
  /\ core0' = "spin"
  /\ UNCHANGED <<reset_line, resets, hostMsgs, current_state, ATR, mode,
                 fixed_clk, current_loglevel, relay_config_queue, update_atr_queue,
                 update_uartmode_queue, update_loglevel_queue, entry, next_buf,
                 freed, edges, host_mode, host_ll, state_reply>>

\* Reached from the poll with the line low, or from the spin once it drops.
main_update_atr ==
  /\ core0 \in {"poll", "spin"} /\ ~reset_line
  /\ \/ /\ update_atr_queue # <<>>
        /\ freed' = freed \cup {ATR.buf}
        /\ ATR' = Head(update_atr_queue)
        /\ update_atr_queue' = Tail(update_atr_queue)
     \/ /\ update_atr_queue = <<>>
        /\ UNCHANGED <<freed, ATR, update_atr_queue>>
  /\ core0' = "upd_mode"
  /\ UNCHANGED <<reset_line, resets, hostMsgs, current_state, mode, fixed_clk,
                 current_loglevel, relay_config_queue, update_uartmode_queue,
                 update_loglevel_queue, core1, entry, next_buf, edges, host_mode,
                 host_ll, state_reply>>

main_update_uartmode ==
  /\ core0 = "upd_mode"
  /\ \/ /\ update_uartmode_queue # <<>>
        /\ LET e == Head(update_uartmode_queue)
           IN /\ mode' = e.m
              /\ fixed_clk' = IF e.m = 1 /\ e.clk > 0 THEN e.clk ELSE fixed_clk
        /\ update_uartmode_queue' = Tail(update_uartmode_queue)
     \/ /\ update_uartmode_queue = <<>>
        /\ UNCHANGED <<mode, fixed_clk, update_uartmode_queue>>
  /\ core0' = "upd_ll"
  /\ UNCHANGED <<reset_line, resets, hostMsgs, current_state, ATR,
                 current_loglevel, relay_config_queue, update_atr_queue,
                 update_loglevel_queue, core1, entry, next_buf, freed, edges,
                 host_mode, host_ll, state_reply>>

main_update_loglevel ==
  /\ core0 = "upd_ll"
  /\ \/ /\ update_loglevel_queue # <<>>
        /\ current_loglevel' = Head(update_loglevel_queue)
        /\ update_loglevel_queue' = Tail(update_loglevel_queue)
     \/ /\ update_loglevel_queue = <<>>
        /\ UNCHANGED <<current_loglevel, update_loglevel_queue>>
  /\ core0' = "poll"
  /\ UNCHANGED <<reset_line, resets, hostMsgs, current_state, ATR, mode,
                 fixed_clk, relay_config_queue, update_atr_queue,
                 update_uartmode_queue, core1, entry, next_buf, freed, edges,
                 host_mode, host_ll, state_reply>>

-----------------------------------------------------------------------------
(***************************************************************************)
(* Core 1, session start.  prot_t0 takes the configuration and copies     *)
(* mode, clock and log level into the shared globals, then sends the ATR   *)
(* from entry.atr.payload.  prot_t1 copies mode and log level, sends the   *)
(* ATR, sets fixed_clk from the measured clock (synchronous mode) or the   *)
(* configured one, and reads the payload again for the early-PPS check     *)
(* when F/D are not 372/1.                                                  *)
(***************************************************************************)
SessionStarting == {"t0_deq", "t1_deq"}
PayloadReaders == {"t0_atr", "t1_atr", "t1_clk"}

prot_t0_start ==
  /\ core1 = "t0_deq" /\ relay_config_queue # <<>>
  /\ LET e == Head(relay_config_queue)
     IN /\ entry' = e
        /\ mode' = e.mode /\ fixed_clk' = e.clk /\ current_loglevel' = e.ll
  /\ relay_config_queue' = Tail(relay_config_queue)
  /\ core1' = "t0_atr"
  /\ UNCHANGED <<reset_line, resets, hostMsgs, core0, current_state, ATR,
                 update_atr_queue, update_uartmode_queue, update_loglevel_queue,
                 next_buf, freed, edges, host_mode, host_ll, state_reply>>

prot_t0_send_atr ==
  /\ core1 = "t0_atr"
  /\ core1' = "run"
  /\ UNCHANGED <<reset_line, resets, hostMsgs, core0, current_state, ATR, mode,
                 fixed_clk, current_loglevel, relay_config_queue, update_atr_queue,
                 update_uartmode_queue, update_loglevel_queue, entry, next_buf,
                 freed, edges, host_mode, host_ll, state_reply>>

prot_t1_start ==
  /\ core1 = "t1_deq" /\ relay_config_queue # <<>>
  /\ LET e == Head(relay_config_queue)
     IN /\ entry' = e
        /\ mode' = e.mode /\ current_loglevel' = e.ll
  /\ relay_config_queue' = Tail(relay_config_queue)
  /\ core1' = "t1_atr"
  /\ UNCHANGED <<reset_line, resets, hostMsgs, core0, current_state, ATR,
                 fixed_clk, update_atr_queue, update_uartmode_queue,
                 update_loglevel_queue, next_buf, freed, edges, host_mode,
                 host_ll, state_reply>>

\* The branch reads the global mode, which core 0 may have changed since.
prot_t1_send_atr ==
  /\ core1 = "t1_atr"
  /\ fixed_clk' = IF mode = UART_MODE_SYNCHRONOUS THEN MeasuredClk ELSE entry.clk
  /\ core1' = "t1_clk"
  /\ UNCHANGED <<reset_line, resets, hostMsgs, core0, current_state, ATR, mode,
                 current_loglevel, relay_config_queue, update_atr_queue,
                 update_uartmode_queue, update_loglevel_queue, entry, next_buf,
                 freed, edges, host_mode, host_ll, state_reply>>

prot_t1_early_pps ==
  /\ core1 = "t1_clk"
  /\ core1' = "run"
  /\ UNCHANGED <<reset_line, resets, hostMsgs, core0, current_state, ATR, mode,
                 fixed_clk, current_loglevel, relay_config_queue, update_atr_queue,
                 update_uartmode_queue, update_loglevel_queue, entry, next_buf,
                 freed, edges, host_mode, host_ll, state_reply>>

-----------------------------------------------------------------------------
\* The card reader drives the reset line.
ResetRise ==
  /\ ~reset_line /\ resets < MaxResets
  /\ reset_line' = TRUE /\ resets' = resets + 1
  /\ UNCHANGED <<hostMsgs, core0, current_state, ATR, mode, fixed_clk,
                 current_loglevel, relay_config_queue, update_atr_queue,
                 update_uartmode_queue, update_loglevel_queue, core1, entry,
                 next_buf, freed, edges, host_mode, host_ll, state_reply>>

ResetFall ==
  /\ reset_line /\ reset_line' = FALSE
  /\ UNCHANGED <<resets, hostMsgs, core0, current_state, ATR, mode, fixed_clk,
                 current_loglevel, relay_config_queue, update_atr_queue,
                 update_uartmode_queue, update_loglevel_queue, core1, entry,
                 next_buf, freed, edges, host_mode, host_ll, state_reply>>

Core0 == \/ get_alarm_pool_on_core1 \/ get_alarm_pool_remove
         \/ read_usb_atr_sendatr \/ read_usb_atr_uartmode
         \/ read_usb_atr_loglevel \/ read_usb_atr_other
         \/ main_reset_core1 \/ main_drain_relay_config
         \/ main_add_relay_config \/ main_launch
         \/ main_update_atr \/ main_update_uartmode \/ main_update_loglevel

Core1 == \/ read_usb_uart_apdu_sendatr \/ read_usb_uart_apdu_uartmode
         \/ read_usb_uart_apdu_loglevel \/ read_usb_uart_apdu_request_state
         \/ prot_t0_start \/ prot_t0_send_atr
         \/ prot_t1_start \/ prot_t1_send_atr \/ prot_t1_early_pps
         \/ create_alarm_pool

Next == Core0 \/ Core1 \/ ResetRise \/ ResetFall

\* Each core runs its own loop without preemption, so every step a core
\* can take is eventually taken.  The host and the reader are not fair.
Fairness ==
  /\ WF_vars(get_alarm_pool_on_core1) /\ WF_vars(create_alarm_pool)
  /\ WF_vars(get_alarm_pool_remove)
  /\ WF_vars(main_reset_core1) /\ WF_vars(main_drain_relay_config)
  /\ WF_vars(main_add_relay_config) /\ WF_vars(main_launch)
  /\ WF_vars(main_update_atr) /\ WF_vars(main_update_uartmode)
  /\ WF_vars(main_update_loglevel)
  /\ WF_vars(prot_t0_start) /\ WF_vars(prot_t0_send_atr)
  /\ WF_vars(prot_t1_start) /\ WF_vars(prot_t1_send_atr)
  /\ WF_vars(prot_t1_early_pps)

Spec == Init /\ [][Next]_vars /\ Fairness

-----------------------------------------------------------------------------
TypeOK ==
  /\ reset_line \in BOOLEAN /\ resets \in 0..MaxResets /\ hostMsgs \in 0..MaxHostMsgs
  /\ core0 \in {"get_alarm_pool", "alarm_pool_wait", "need_atr", "poll", "drain", "add", "launch", "spin",
                "upd_mode", "upd_ll"}
  /\ current_state \in {NEED_ATR, RDY_TO_RELAY}
  /\ ATR \in Atr
  /\ mode \in {0, 1} /\ fixed_clk \in Clks /\ current_loglevel \in LogLevels
  /\ relay_config_queue \in Seq(ConfigEntry) /\ Len(relay_config_queue) <= QueueCap
  /\ update_atr_queue \in Seq(Atr) /\ Len(update_atr_queue) <= QueueCap
  /\ update_uartmode_queue \in Seq([m : {0, 1}, clk : HostClks])
  /\ Len(update_uartmode_queue) <= QueueCap
  /\ update_loglevel_queue \in Seq(LogLevels) /\ Len(update_loglevel_queue) <= QueueCap
  /\ core1 \in {"off", "create_alarm_pool", "exited", "waiting", "run"} \cup SessionStarting \cup PayloadReaders
  /\ entry \in ConfigEntry
  /\ next_buf \in Nat \ {0} /\ freed \subseteq Bufs
  /\ state_reply \in {"none", NEED_ATR, RDY_TO_RELAY}

Session == PayloadReaders \cup {"run"}

(***************************************************************************)
(* The refinement mapping to SessionSupervisor.  The worker is starting   *)
(* while prot_t0/prot_t1 wait in queue_remove_blocking and runs from the  *)
(* moment it has its entry; an edge is being handled from                 *)
(* multicore_reset_core1 to the launch; the worker's configuration is the *)
(* edge its relay_config_queue entry was made at.                         *)
(***************************************************************************)
Sup == INSTANCE SessionSupervisor WITH
    worker <- CASE core1 = "waiting"          -> "waiting"
                [] core1 \in SessionStarting -> "starting"
                [] core1 \in Session         -> "run"
                [] OTHER                     -> "off",
    cfg <- entry.epoch,
    epoch <- edges,
    pending <- core0 \in {"drain", "add", "launch"},
    proto <- ATR.proto

(***************************************************************************)
(* The reset handler of main() (pico_poc.c 540-570) with prot_t0/prot_t1  *)
(* taking their entry implements the supervisor of spec 4.6: every edge   *)
(* relaunches the worker for the current ATR, the launched worker is not  *)
(* left blocked in queue_remove_blocking, and it runs with the entry of   *)
(* its own edge, never the boot entry prot_waiting left in                *)
(* relay_config_queue or one from an earlier edge.                        *)
(***************************************************************************)
SessionsFollowResets == Sup!Spec

(***************************************************************************)
(* ATR ownership (spec section 9: copy the payload, never share it): when *)
(* core 1 sends the ATR (sc_write of entry.atr.payload) or inspects it for *)
(* the early PPS, the payload is a live heap buffer, not one core 0 has    *)
(* freed on an ATR update, nor parse_ATR's dead stack array.              *)
(***************************************************************************)
AtrPayloadLive ==
  (core1 \in {"t0_atr", "t1_atr"} \/ (core1 = "t1_clk" /\ entry.atr.fd))
    => entry.atr.buf \in Nat /\ entry.atr.buf \notin freed

(***************************************************************************)
(* Every ATR buffer malloc'd by main() or read_usb_uart_apdu is either    *)
(* freed or still owned: it is core 0's ATR or waits in update_atr_queue. *)
(***************************************************************************)
Owned == {ATR.buf} \cup {update_atr_queue[i].buf : i \in DOMAIN update_atr_queue}
NoLeakedAtrBuffer == \A b \in 0..(next_buf - 1) : b \in freed \cup Owned

(***************************************************************************)
(* ATR buffer ownership as a whole: a payload core 1 uses is live, and a  *)
(* buffer nobody owns any more has been freed.  main_update_atr frees a   *)
(* buffer a queued entry still points at; a full update_atr_queue drops   *)
(* an entry with its buffer.                                               *)
(***************************************************************************)
AtrBufferOwnership == AtrPayloadLive /\ NoLeakedAtrBuffer

(***************************************************************************)
(* Spec section 7: an ATR whose TS is neither 3B nor 3F is marked unknown *)
(* and no protocol worker is launched for it.                              *)
(***************************************************************************)
OnlyValidAtrLaunched == core1 \in Session => entry.atr.valid

(***************************************************************************)
(* Once core 0 has applied every queued update and no session is starting, *)
(* the shared mode is the last one the device accepted from the host and  *)
(* the log level the last one the host set (line 159 applies it even when *)
(* update_loglevel_queue is full); spec 4.6: updates reach core 0's state *)
(* so that the next reset picks them up.                                   *)
(***************************************************************************)
Quiescent ==
  /\ core0 = "poll" /\ core1 \in {"off", "waiting", "run"}
  /\ update_atr_queue = <<>> /\ update_uartmode_queue = <<>>
  /\ update_loglevel_queue = <<>>

ConfigConverges == Quiescent => mode = host_mode /\ current_loglevel = host_ll

====
