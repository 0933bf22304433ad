----------------------------- MODULE HostChannel -----------------------------
(***************************************************************************)
(* The device-to-host side of the USB channel (util.c 14-65) as both      *)
(* cores use it.  A frame is opcode, 4-byte length and payload, written   *)
(* by write_usb_uart as three stdio_usb.out_chars calls; each call is     *)
(* atomic (the pico-sdk stdio_usb mutex), the frame is not.  Debug text   *)
(* is formatted into the one static message_buffer and written from it.   *)
(*                                                                         *)
(* A handler of either core is the sequence of calls it makes, queued in  *)
(* todo[c] when the handler starts and carried out one chunk per step:    *)
(*   debug(l)  write_usb_debug at msglevel l                              *)
(*   raw       write_usb_uart from the caller's own buffer (APDU, state)  *)
(*   set_ll(v) current_loglevel = v                                        *)
(*   reset     multicore_reset_core1: core 1 stops wherever it is         *)
(*   measure   write_usb_measurement: formatted into message_buffer too,  *)
(*             with no level check                                         *)
(* The BWT alarm callback runs as an interrupt on core 1 ("irq1"): while  *)
(* it runs, core 1's own handler makes no step.                            *)
(* Text is abstracted to the frame it was formatted for.                  *)
(***************************************************************************)
EXTENDS Naturals, Sequences

CONSTANTS
    Levels,       \* log levels the host may set
    QueueCap,     \* capacity of update_loglevel_queue (2)
    MaxHostMsgs,  \* host frames core 1 handles
    MaxResets,    \* reset edges
    MaxWtx        \* BWT alarm firings

LOG_LEVEL_INFO == 1
LOG_LEVEL_DEBUG == 2
Cores == {"core0", "core1", "irq1"}

Debug(l) == [op |-> "debug", lvl |-> l]
Raw == [op |-> "raw", lvl |-> 0]
SetLl(v) == [op |-> "set_ll", lvl |-> v]
Reset == [op |-> "reset", lvl |-> 0]
Measure == [op |-> "measure", lvl |-> 0]

NoText == [c |-> "none", n |-> 0]

VARIABLES
    wire,              \* chunks on the USB pipe, in order
    message_buffer,    \* the frame whose text the static buffer holds
    current_loglevel,
    update_loglevel_queue,
    todo,              \* per core: calls of the running handler still to do
    step,              \* per core: "start", "op", "len" or "data"
    nframes,           \* per core: frames started
    msgs, resets, wtx  \* host frames, reset edges and alarm firings so far

vars == <<wire, message_buffer, current_loglevel, update_loglevel_queue,
          todo, step, nframes, msgs, resets, wtx>>

Frame(c) == [c |-> c, n |-> nframes[c]]

Init ==
    /\ wire = <<>>
    /\ message_buffer = NoText
    /\ current_loglevel = LOG_LEVEL_DEBUG
    /\ update_loglevel_queue = <<>>
    /\ todo = [c \in Cores |-> <<>>]
    /\ step = [c \in Cores |-> "start"]
    /\ nframes = [c \in Cores |-> 0]
    /\ msgs = 0
    /\ resets = 0
    /\ wtx = 0

Idle(c) == todo[c] = <<>>

\* Core 1's handler is preempted while the alarm callback runs.
Runs(c) == c = "core1" => Idle("irq1")

Start(c, calls) ==
    /\ Idle(c)
    /\ todo' = [todo EXCEPT ![c] = calls]

(***************************************************************************)
(* Core 1: read_usb_uart_apdu logs every host frame (line 111), then      *)
(* SET_LOGLEVEL queues the level, logs and sets it (151-160); prot_t0 and  *)
(* prot_t1 log and forward an APDU (305-307, 461-463).                    *)
(***************************************************************************)
read_usb_uart_apdu_set_loglevel ==
    /\ msgs < MaxHostMsgs
    /\ \E ll \in Levels :
         /\ Start("core1", <<Debug(LOG_LEVEL_DEBUG), Debug(LOG_LEVEL_INFO), SetLl(ll)>>)
         /\ update_loglevel_queue' =
              IF Len(update_loglevel_queue) < QueueCap
                THEN Append(update_loglevel_queue, ll)
                ELSE update_loglevel_queue
    /\ msgs' = msgs + 1
    /\ UNCHANGED <<wire, message_buffer, current_loglevel, step, nframes, resets, wtx>>

\* prot_t1 after the host's response (pico_poc.c 470-489): it logs the
\* answer and, once the response is written to the reader, sends the
\* measurement frame.
prot_t1_measurement ==
    /\ msgs < MaxHostMsgs
    /\ Start("core1", <<Debug(LOG_LEVEL_DEBUG), Measure>>)
    /\ msgs' = msgs + 1
    /\ UNCHANGED <<wire, message_buffer, current_loglevel,
                   update_loglevel_queue, step, nframes, resets, wtx>>

\* The BWT alarm callback (util.c 690-715) logs "WTE" and then the outcome
\* of its read of the reader's answer, both at DEBUG.
t1_timer_block_waiting_extension ==
    /\ wtx < MaxWtx
    /\ Start("irq1", <<Debug(LOG_LEVEL_DEBUG), Debug(LOG_LEVEL_DEBUG)>>)
    /\ wtx' = wtx + 1
    /\ UNCHANGED <<wire, message_buffer, current_loglevel,
                   update_loglevel_queue, step, nframes, msgs, resets>>

\* Also REQUEST_STATE (129-132), whose answer is a raw state frame.
forward_apdu ==
    /\ msgs < MaxHostMsgs
    /\ Start("core1", <<Debug(LOG_LEVEL_DEBUG), Raw>>)
    /\ msgs' = msgs + 1
    /\ UNCHANGED <<wire, message_buffer, current_loglevel,
                   update_loglevel_queue, step, nframes, resets, wtx>>

(***************************************************************************)
(* Core 0: on a reset edge main logs, resets core 1 and logs the launch   *)
(* (540-566); it applies a queued log level and logs it (594-598).        *)
(***************************************************************************)
main_reset ==
    /\ resets < MaxResets
    /\ Start("core0", <<Debug(LOG_LEVEL_INFO), Reset, Debug(LOG_LEVEL_INFO)>>)
    /\ resets' = resets + 1
    /\ UNCHANGED <<wire, message_buffer, current_loglevel,
                   update_loglevel_queue, step, nframes, msgs, wtx>>

main_update_loglevel ==
    /\ update_loglevel_queue # <<>>
    /\ Start("core0", <<SetLl(Head(update_loglevel_queue)), Debug(LOG_LEVEL_DEBUG)>>)
    /\ update_loglevel_queue' = Tail(update_loglevel_queue)
    /\ UNCHANGED <<wire, message_buffer, current_loglevel, step, nframes,
                   msgs, resets, wtx>>

(***************************************************************************)
(* The calls, one chunk per step.                                         *)
(***************************************************************************)
\* util.c 30: write_usb_debug returns at once below the current level.
write_usb_debug_filtered(c) ==
    /\ step[c] = "start" /\ Runs(c)
    /\ todo[c] # <<>> /\ Head(todo[c]).op = "debug"
    /\ current_loglevel < Head(todo[c]).lvl
    /\ todo' = [todo EXCEPT ![c] = Tail(@)]
    /\ UNCHANGED <<wire, message_buffer, current_loglevel,
                   update_loglevel_queue, step, nframes, msgs, resets, wtx>>

\* util.c 45-49: the text is formatted into message_buffer; write_usb_uart
\* (util.c 14) for a raw frame starts at the opcode.
format_frame(c) ==
    /\ step[c] = "start" /\ Runs(c)
    /\ todo[c] # <<>>
    /\ \/ /\ Head(todo[c]).op = "debug"
          /\ current_loglevel >= Head(todo[c]).lvl
          /\ message_buffer' = [c |-> c, n |-> nframes[c] + 1]
       \/ /\ Head(todo[c]).op = "measure"
          /\ message_buffer' = [c |-> c, n |-> nframes[c] + 1]
       \/ /\ Head(todo[c]).op = "raw"
          /\ UNCHANGED message_buffer
    /\ nframes' = [nframes EXCEPT ![c] = @ + 1]
    /\ step' = [step EXCEPT ![c] = "op"]
    /\ UNCHANGED <<wire, current_loglevel, update_loglevel_queue, todo,
                   msgs, resets, wtx>>

\* util.c 16-17: the opcode, then the length (ret_total, from this frame's
\* own formatting).
write_header(c) ==
    /\ step[c] \in {"op", "len"} /\ Runs(c)
    /\ wire' = Append(wire, [f |-> Frame(c), part |-> step[c], text |-> NoText])
    /\ step' = [step EXCEPT ![c] = IF @ = "op" THEN "len" ELSE "data"]
    /\ UNCHANGED <<message_buffer, current_loglevel, update_loglevel_queue,
                   todo, nframes, msgs, resets, wtx>>

\* util.c 18-20: the payload, which for a debug frame is whatever
\* message_buffer holds now.
write_payload(c) ==
    /\ step[c] = "data" /\ Runs(c)
    /\ wire' = Append(wire, [f |-> Frame(c), part |-> "data",
                             text |-> IF Head(todo[c]).op \in {"debug", "measure"}
                                        THEN message_buffer ELSE Frame(c)])
    /\ step' = [step EXCEPT ![c] = "start"]
    /\ todo' = [todo EXCEPT ![c] = Tail(@)]
    /\ UNCHANGED <<message_buffer, current_loglevel, update_loglevel_queue,
                   nframes, msgs, resets, wtx>>

set_loglevel(c) ==
    /\ step[c] = "start" /\ Runs(c)
    /\ todo[c] # <<>> /\ Head(todo[c]).op = "set_ll"
    /\ current_loglevel' = Head(todo[c]).lvl
    /\ todo' = [todo EXCEPT ![c] = Tail(@)]
    /\ UNCHANGED <<wire, message_buffer, update_loglevel_queue, step,
                   nframes, msgs, resets, wtx>>

\* pico_poc.c 544: core 1 stops wherever it is, mid-frame included, and
\* an alarm callback running on it with it.
multicore_reset_core1 ==
    /\ step["core0"] = "start"
    /\ todo["core0"] # <<>> /\ Head(todo["core0"]).op = "reset"
    /\ todo' = [todo EXCEPT !["core0"] = Tail(@), !["core1"] = <<>>, !["irq1"] = <<>>]
    /\ step' = [step EXCEPT !["core1"] = "start", !["irq1"] = "start"]
    /\ UNCHANGED <<wire, message_buffer, current_loglevel,
                   update_loglevel_queue, nframes, msgs, resets, wtx>>

Next ==
    \/ read_usb_uart_apdu_set_loglevel \/ forward_apdu
    \/ prot_t1_measurement \/ t1_timer_block_waiting_extension
    \/ main_reset \/ main_update_loglevel
    \/ multicore_reset_core1
    \/ \E c \in Cores :
         \/ write_usb_debug_filtered(c) \/ format_frame(c)
         \/ write_header(c) \/ write_payload(c) \/ set_loglevel(c)

Spec == Init /\ [][Next]_vars

(***************************************************************************)
(* Properties                                                             *)
(***************************************************************************)
\* The host reads the pipe as opcode, length, payload, frame after frame
\* (spec 4.5).  It reads whole frames when every length follows its own
\* opcode, every payload its own length, and every opcode a finished frame,
\* and a debug frame's payload is the text its writer formatted.  Core 0's
\* and core 1's write_usb_debug/write_usb_uart calls, the shared
\* message_buffer and multicore_reset_core1 in mid-frame all threaten it.
Follows(i, part) == i > 1 /\ wire[i - 1].part = part /\ wire[i - 1].f = wire[i].f

HostReadsFrames ==
    \A i \in 1..Len(wire) :
        /\ wire[i].part = "op" => i = 1 \/ wire[i - 1].part = "data"
        /\ wire[i].part = "len" => Follows(i, "op")
        /\ wire[i].part = "data" => Follows(i, "len") /\ wire[i].text = wire[i].f
=============================================================================
