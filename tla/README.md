# TLA+ models of the pico-tunnel firmware

These modules model the RP2040 firmware in `src/pico-tunnel`. The firmware
stands in for a SIM card: it answers the card reader on the smart-card UART
and relays each command over USB to a host, which holds the real card. The
sources are:

- `pico_poc.c`, holding `main`, the protocol workers and the host-frame readers;
- `util/util.c` and `util/util.h`, holding the T=1 helpers, the ATR parser and the UART and USB I/O;
- `test/pico_poc_test.c`, which holds unit tests.

## 1. Inventory

### Components and how they interact

| Component | Code | State | Operations |
|---|---|---|---|
| Relay supervisor (core 0) | `main` (pico_poc.c 492-599), `read_usb_atr` (166-193) | `current_state`, `ATR`, `mode`, `fixed_clk`, `current_loglevel`, and four pico-sdk queues of capacity 2 | NEED_ATR loop; boot entry plus launch of `prot_waiting`; reset handler (reset core 1, drain `relay_config_queue`, enqueue the session entry, launch by `ATR.protocol`, spin while the line is high); apply the ATR, UART-mode and log-level updates |
| Host channel | `read_usb_uart_apdu` (104-164), `read_usb_uart_blocking`, `write_usb_*` (util.c 14-75) | frames of opcode, length and payload; one static `message_buffer` | SENDATR, REQUEST_STATE, SET_UARTMODE and SET_LOGLEVEL are handled in place, then the function re-enters itself; any other frame is an APDU for the worker |
| T=1 block layer | `prot_t1` (365-490), util.c 198-310, 368-534, 595-715 | `seq`, `accepted_size`, `command_tpdu`, `response_tpdu`; the locals of `t1_write_complete_buffer`; the BWT alarm | read a block; answer S-requests; resend on an error R-block; forward an I-block to the host; send the response chained; the alarm callback sends S(WTX) |
| T=0 byte layer | `prot_t0` (210-339) | `response_cache`, `len_response_cache`, `do_pps` | PPS, 5-byte header, procedure byte, data, SW, GET RESPONSE served from the cache |
| ATR parser | `parse_ATR`, `convert_f`, `convert_d` (util.c 757-944) | the fields of `answer_to_reset` | TS convention (3F inverted), TA1 to F/D, the TD chain giving protocol, IFSC, BWI and CWI |
| Smart-card UART I/O | `sc_write`, `sc_read`, `t1_write`, `t1_read`, `calculate_baudrate` | the UART FIFO and its baud rate | byte writes with echo readback; reads with a 1.2 s timeout |

How they interact:

- Core 0 owns the four queues' producer and consumer sides as follows:
  - core 1 (`read_usb_uart_apdu`) produces the update queues, and core 0 consumes them;
  - core 0 produces `relay_config_queue`, and `prot_t0`/`prot_t1` consume it.
- Both cores write the globals `mode`, `fixed_clk` and `current_loglevel`.
- The relay entry holds `ATR.payload` by pointer, so both cores share the buffer.
- On T=1, the BWT alarm runs `t1_timer_block_waiting_extension` as an interrupt on core 1. It uses the same UART as the worker.

### The behaviours that make this code hard

- **Two cores.** They share the globals and the heap buffer of the ATR.
- **Core resets.** A reset of core 1 (`multicore_reset_core1`) can come at any time. A worker may then still hold stale state, or sit in a queue left with an old entry.
- **Bounded queues.** They drop entries silently (`queue_try_add`).
- **The BWT alarm interrupt.** It interleaves with the worker on one UART.
- **The reader's behaviour on T=1.** The reader may send any block, or a corrupted one, or stay silent (a timeout).
- **T=1 state that goes stale.** Three pieces:
  - sequence counters held in two places;
  - a block count computed once per chain;
  - a block size passed by value.

### What makes each component correct

The spec and ISO 7816-3 require:

- **Relay supervisor:**
  - every session runs with the configuration current at its reset;
  - a launched worker always gets a configuration;
  - the ATR payload is alive whenever core 1 reads it (spec section 9);
  - no buffer leaks;
  - an invalid ATR launches no worker (spec section 7);
  - settings from the host are not lost (spec 4.6).
- **T=1:**
  - new I-blocks alternate N(S) (spec section 8);
  - a retransmission repeats the block asked for;
  - a chain delivers exactly the response;
  - the reader's IFSD is honoured;
  - the chain loop returns;
  - the alarm never shares the UART with a chained write.
- **T=0:**
  - GET RESPONSE returns the whole cached response of the last forwarded command, for as long as no other command is forwarded (spec line 224 keeps the cache);
  - lengths fit their fields;
  - PPS is optional.
- **ATR parser:** the parse agrees with the ISO interpretation of the interface bytes, and reads only inside the payload.

## 2. Plan

Done:

1. **RelaySupervisor**: both cores' shared state, the alarm-pool hand-over at boot, the queues, the reset handler and the start of a session. It composes **AtrParser**: a host ATR is a byte string, and `ParseATR` calls `parse_ATR` on it.
2. **T1Block**: the T=1 loop of core 1, with the alarm interrupt and an unconstrained reader.
3. **T0Byte**: `prot_t0`'s loop against an ISO 7816-3 reader, with the host's answer lengths.
4. **AtrParser** and **SendAtr**: `parse_ATR` as RECURSIVE operators, checked against a reference parse over tens of thousands of generated ATRs.
5. **HostChannel**: the USB frames that core 0, core 1 and the BWT alarm interrupt on core 1 write through the one static `message_buffer`, including the measurement frame. `multicore_reset_core1` can stop core 1 mid-frame.
6. **Abstract specifications, with refinements checked by TLC:**
   - **SessionSupervisor**, which RelaySupervisor implements;
   - **T0Apdu**, which T0Byte implements.

Next:

- **An abstract T=1 link.** The device delivers each host response in order, as one chain, and answers each reader request. T1Block would refine it under a mapping from blocks to delivered segments. Today the refinement fails on the same traces as ChainHonoursIfs and ChainReturns.
- **Composing T1Block and T0Byte under RelaySupervisor.** The supervisor stops at "run", which is where the workers start.

## 3. Modules and how they match the code

### RelaySupervisor.tla (with MCRelaySupervisor.tla)

Variables:

- `core0` is main's program counter: `get_alarm_pool`, `alarm_pool_wait`, `need_atr`, `poll`, `drain`, `add`, `launch`, `spin`, `upd_mode` or `upd_ll`.
- `core1` is one of:
  - `off`;
  - `waiting` (`prot_waiting`);
  - a starting or payload-reading phase of `prot_t0`/`prot_t1`;
  - `run`.
- The four queues are sequences.
- `ATR` is what main() keeps of `parse_ATR`'s result: buffer id, protocol, validity, and whether F/D differ from 372/1.
- Ghost variables:
  - `edges` counts reset edges;
  - `next_buf` and `freed` track heap buffers;
  - `host_mode` records the last mode the device accepted, and `host_ll` the last log level the host set. Line 159 applies that level even when `update_loglevel_queue` is full and drops the entry.

Actions, one per handler branch:

- `get_alarm_pool_on_core1`, `create_alarm_pool` and `get_alarm_pool_remove` for the boot hand-over of the alarm pool. Core 1 is launched in `create_alarm_pool`, which passes the pool through `relay_config_queue` and exits. Core 0 takes the entry and resets core 1;
- `read_usb_atr_*` for the NEED_ATR loop;
- `read_usb_uart_apdu_*` for each control opcode;
- `main_reset_core1`, `main_drain_relay_config`, `main_add_relay_config`, `main_launch` and `main_update_*` for core 0's loop;
- `prot_t0_start`, `prot_t0_send_atr`, `prot_t1_start`, `prot_t1_send_atr` and `prot_t1_early_pps` for the start of a session;
- `ResetRise` and `ResetFall` for the reader.

`ParseATR` applies AtrParser's `parse_ATR` to the host's bytes:

- For an invalid TS, `parse_ATR` returns before it sets `protocol`. Reading it is a read of an uninitialised field, so the model chooses among 0, 1 and "other".
- For TS = 3F, the payload is the stack array `inv_atr`, which is dead after the return.

### T1Block.tla (with MCT1Block.tla)

Variables:

- `wpc` is `read` (the `prot_t1` loop), `host` (waiting for the host), or `chain`/`chain_read` (inside `t1_write_complete_buffer`).
- `seq` and `accepted_size` are `prot_t1`'s.
- `command_pcb` and `response_pcb` are the PCBs of `command_tpdu` and `response_tpdu`.
- `cs` holds the locals of `t1_write_complete_buffer`.
- `recv` is its `recv_tpdu`.
- `armed` and `irq` are the alarm.
- The ghosts are `wire`, `last_i` and `ifsd`.

Abstractions:

- Sequence counters are kept modulo 2. This is exact, because each is read only through its parity or reset.
- Sizes are kept in 16-byte units.
- An INF field is the slice of the response it carries.

Actions: one per outcome of `t1_read` in the loop, `prot_t1_host_response`, the chain steps (`chain_send`, `chain_end`, `chain_read_block`, `chain_read_timeout`), and the alarm callback (`wtx_send`, `wtx_read`). The callback preempts core 1: the worker's steps require `irq = "idle"`.

### T0Byte.tla (with MCT0Byte.tla)

`prot_t0` (pico_poc.c 236-338) against an ISO 7816-3 reader.

Device state:

- `dpc`;
- `rx`, the bytes the reader has sent that the device has not read yet;
- `hdr` and `le`;
- `cache`: `len_response_cache` as a uint8, plus the full length and the id of the exchange it came from.

Reader state:

- `rpc`, `rcmd` and `next`: a 61xx or 6Cxx status makes the next command GET RESPONSE, or the same command with P3 = xx;
- the ghost `served`.

The device steps are the PPS echo, the header with its procedure byte, the data, the cache hit, the forward to the host and the host's answer.

- `sc_write` discards unread reader bytes, so a procedure byte empties `rx`.
- A mismatched PPS makes `sc_read` consume the next four bytes whatever they are.
- Runs of bytes are tracked as runs (`Pending`, `Consume`) rather than byte by byte.
- The case of each instruction (`osim_determine_apdu_case`) is modelled from the spec, because that code is not under `src/`.

### SessionSupervisor.tla (abstract; implemented by RelaySupervisor)

This is what the supervisor promises (spec sections 2 and 4.6). The worker is `off`, `waiting`, `starting` or `run`. Every reset edge (`Reset`) tears the worker down. `Launch` relaunches it for the current ATR's protocol, or leaves it off for an unknown protocol. A started worker runs with the configuration of the latest edge (`Start` sets `cfg` to `epoch`). Weak fairness on `Launch` and `Start` says that a handled edge ends in a running worker.

RelaySupervisor's `Sup` instance maps the abstract variables as follows:

- `core1` maps to `worker`;
- `edges` maps to `epoch`;
- the session entry's epoch maps to `cfg`;
- core 0 being in `drain`, `add` or `launch` maps to `pending`;
- `ATR.proto` maps to `proto`.

The property `SessionsFollowResets == Sup!Spec` replaces the earlier FreshSessionConfig and WorkerGetsConfig.

### T0Apdu.tla (abstract; implemented by T0Byte)

This is what the T=0 relay promises, one APDU at a time (spec sections 3, 4.4 and 8). A command is one of two things:

- a GET RESPONSE served whole from the stored answer (`ServeStored`), where the store is kept;
- a command that empties the store and goes to the host (`Relay`). The host's answer is then delivered at once or stored whole (`Answer`).

T0Byte's `Apdu` instance maps the variables as follows:

- `dpc` maps to `phase`;
- `hdr` maps to `cmd`;
- `cache` maps to `store`, holding the exchange id and the full length;
- the reader's ghost `served` maps to `delivered`.

The property `ApduRelay == Apdu!Spec` replaces the earlier CacheFromLatestExchange. The stutter-invariance of the mapping hides the procedure bytes, the PPS and the data phase.

### HostChannel.tla

This module covers the device-to-host half of the USB channel (util.c 14-65).

- `write_usb_uart` writes a frame as three `stdio_usb.out_chars` calls: opcode, length and payload. Each call is atomic under the pico-sdk mutex, but the frame as a whole is not.
- `wire` is the sequence of chunks on the pipe.
- `message_buffer` records which frame's text the static buffer holds.
- `todo[c]` holds the calls that writer `c`'s running handler still has to make. The writers are:
  - core 1: the SET_LOGLEVEL branch, the APDU forward, and the answer log with the measurement frame after a T=1 response (`prot_t1_measurement`);
  - core 0: the reset handler and the log-level update;
  - `irq1`: the BWT alarm callback (`t1_timer_block_waiting_extension`), an interrupt on core 1. While it runs, core 1's own steps are disabled (`Runs`).
- Each call becomes one action per chunk:
  - `write_usb_debug_filtered`;
  - `format_frame`;
  - `write_header`;
  - `write_payload`;
  - `set_loglevel`;
  - `multicore_reset_core1`, which also ends a callback running on core 1.
- `write_usb_measurement` formats into the same `message_buffer` as `write_usb_debug`, but with no level check.
- Text is abstracted to the frame it was formatted for.

### AtrParser.tla, SendAtr.tla (with MCSendAtr.tla)

AtrParser has no variables. It holds:

- `convert_f` and `convert_d` as tables;
- `Invert` for TS = 3F;
- `ApplyTD1`;
- the RECURSIVE `TdLoop` for util.c's while loop;
- `parse_ATR`.

The reference parse `Reference` is written from spec section 4.2 and the ISO 7816-3 layout of interface-byte groups (`Groups`).

SendAtr is the SENDATR step: the host sends one ATR from `HostAtrs`, and `sendatr` parses it. MCSendAtr generates the ATRs:

- every well-formed combination of 1 to 4 groups, with TA1, TC1, TA2, TA3/TB3/TC3 present or absent;
- TDs naming T=0, T=1 or T=15;
- each in the direct and the inverse convention;
- an invalid TS.

## 4. Runs

| Run | Checks | Result |
|---|---|---|
| `supervisor` | TypeOK, SessionsFollowResets | pass: 592,858 states; RelaySupervisor refines SessionSupervisor |
| `supervisor_atr_buffer` | AtrBufferOwnership | violated: an ATR update frees the payload that a just-launched worker then sends |
| `supervisor_config` | ConfigConverges | violated: with `update_loglevel_queue` full, SET_LOGLEVEL sets the level and drops its entry, and core 0 then applies the older queued levels. The session entry taken at a reset, which writes an older level over a newer one (216-218), is a second path: TLC reaches it too with QueueCap 3, where no entry is dropped |
| `t1_wtx` | TypeOK, WtxOnlyWhileHostWaits | pass: 134,834 states |
| `t1_ns` | NsSequencing | violated: a retransmission carries the already-toggled sequence bit |
| `t1_chain` | ChainHonoursIfs | violated: a 4-unit response gets `num_iblocks` = 2 at block size 2. An S(IFS 1) request between the blocks shrinks the size, and the second block carries 1 of the 2 units left with its M-bit still set. The loop then returns with the response cut short. The cfg lets the reader only shrink the IFS; a growth instead ends the chain with an empty I-block |
| `t1_returns` | ChainReturns | violated: an error R-block followed by silence makes the resend recursion loop forever |
| `t0` | TypeOK, ApduRelay, ReaderAnswered | pass: 14,830 states; T0Byte refines T0Apdu |
| `t0_uint8` | GetResponseWhole | violated: a 258-byte answer is cached as 2 bytes and GET RESPONSE serves 2 |
| `t0_pps` | ReaderAnswered | violated: a reader that skips PPS has its header read as PPS, and both sides wait |
| `atr` | TypeOK, ParsedAsSpec | pass: 86,570 states |
| `host_frames` | HostReadsFrames | violated: the `out_chars` calls of core 0, core 1 and the alarm interrupt interleave. The host then reads one frame's chunk inside another frame, or a payload that holds another writer's text from the shared `message_buffer`. |

Merged properties:

- AtrBufferOwnership is AtrPayloadLive (no read of a freed or dead payload) together with NoLeakedAtrBuffer.
- NsSequencing is NsAlternates together with RetransmitRepeats.
- ChainHonoursIfs is ChainMatchesResponse together with "a new I-block never exceeds the reader's last IFS".

**Supplementary configs.** These are not among the runs.

- `RelaySupervisor_invalid.cfg` checks OnlyValidAtrLaunched. It is violated: a bad TS launches a worker from an uninitialised protocol.
- `RelaySupervisor_stack.cfg` checks AtrPayloadLive with a TS = 3F ATR (`MCInverseAtrs`). It is violated: the worker sends the ATR from `parse_ATR`'s dead stack array `inv_atr`.
- `RelaySupervisor_leak.cfg` checks NoLeakedAtrBuffer with four host frames, so three SENDATR frames can arrive before a reset. It is violated: the third is dropped by `queue_try_add` with its buffer (line 125). The `supervisor_atr_buffer` run stops at the use-after-free before it reaches either case.
- `SendAtr_timing.cfg` checks `TimingAsSpec`: a T=1 ATR's IFSC, BWI and CWI as ISO places them. TLC finds it violated by `3B 80 81 10 FE`. util.c 916 keeps TA3 because TD2 names T=0, which the code accepts alongside T=1.

Every property of a passing run has a mutant in PROJECT.json that TLC kills.

**Bounds.**

RelaySupervisor:

- 3 reset edges and 4 host frames. That is enough for a SENDATR, an update and a reset to interleave in every order, and for the 2-entry queues to fill. The third edge lets an edge follow a session that started from an edge's entry, not the boot entry.
- Two valid ATRs: one T=0, and one T=1 with F/D set.

T1Block:

- In `t1_wtx`: 6 reader blocks, 3 host responses and 3 alarm firings. This is enough for two WTX rounds within one host wait, and for a chain with an S-request in it followed by another command. The violation runs keep 4, 2 and 2, where TLC's counterexamples are already short.
- Responses of 1 or 3 units against an IFS of 1, 2 or 3. `t1_chain` uses responses of 1 or 4 units and an IFS request of 1 only, so a shrink can land between two blocks of one chain.

T0Byte:

- 6 commands in `t0`, from 4 instructions: one of each case, plus GET RESPONSE. Six is enough for a forward, a 61xx, two GET RESPONSEs and a fresh command followed by a GET RESPONSE that must not see the old answer.
- P3 of 0 or 8.
- Answer lengths 2, 5, 10 and 30. These give answers shorter than, equal to and longer than Le, so both 61xx and 6Cxx occur.
- `t0_uint8` adds 258, the first length the uint8 cache truncates to a small value.

**Fairness.** Each core runs its loop alone on its own CPU, so these steps get weak fairness:

- RelaySupervisor: every step of core 0's loop and of core 1's session start.
- T1Block: the chain steps, the read timeout and the end of the alarm callback. `t1_read` always returns after `UART_READ_TIMEOUT`.
- T0Byte: every step of core 1. The host's answer is excluded, since the host may never reply. The reader sends the data it announced (`ReaderData`), because ISO 7816-3 obliges it to once it has the procedure byte.

The reader and the host otherwise get no fairness. Deadlock checking is off, because the code really stops: `read_usb_atr` and `read_usb_uart_apdu` block on the host, and a silent reader leaves the workers waiting.

## 5. Not modelled, and why

- **Byte-level UART I/O**: echo readback, baud-rate computation, the baud change after a PPS, and clock measurement. Blocks and runs of bytes abstract it. One byte-level hazard is listed without a property:
  - `t1_write` does not drain the receive FIFO before each byte, although spec 4.1 says it does. A reader reply that arrives after the WTX callback's read has timed out is then taken as the echo, and the device's own echo is read as the next block.
- **work_etu, BWT and CWT**: these are arithmetic on F, D, BWI, CWI and the clock. They are right exactly when those fields are, and the parser runs check the fields.
- **USB framing below the chunk level.** HostChannel treats each `out_chars` call as atomic, which the pico-sdk mutex guarantees. It does not model an interrupt that finds the mutex held by its own core and drops its chunk after the stdio timeout. A reset inside a queue operation is finer than the models' steps.
- **Lengths of host frames and formatted text.** `read_usb_uart_apdu` trusts the host's 32-bit length for its 1024-byte buffer. `write_usb_debug` sends `vsnprintf`'s would-be length from the 1024-byte `message_buffer`. Both are listed as hazards, because frame contents are abstract in the models.
- **Interrupt state across a core reset.** The alarm pool is created on core 1, and core 1 is then reset at boot (line 89) and at every edge. That reset clears core 1's interrupt enables, so on the board the BWT callback may never run. T1Block and HostChannel let it fire whenever the alarm is armed, which includes never firing. WtxOnlyWhileHostWaits therefore holds either way, and HostReadsFrames is violated without the interrupt too. An alarm armed when core 1 is reset during a host wait is never cancelled. T1Block models one session, so both are hazards with no property.
- **`t1_read`'s blocking `uart_getc`** (util.c 635/643): once a byte has arrived, the rest of the block is read without a timeout. A reader that stops mid-block hangs core 1. T1Block reads whole blocks, so this is listed as a hazard with no property.
- **Clock convergence**: `prot_t1` writes the measured clock into `fixed_clk` by design. The spec does not say which value a later session should use, so ConfigConverges covers only mode and log level.
- **Spec scenario 3**: there, a 61xx status from the host is served without forwarding. The code forwards the 61xx to the reader, which then sends GET RESPONSE. T0Byte models the code, which is correct ISO behaviour.
- **An ATR without TD1**: it leaves the protocol unknown. Spec section 7 agrees with the code, although ISO 7816-3 implies T=0.
- **Malformed ATRs that end early**: `parse_ATR` reads past the payload. The generated ATRs are well formed, and this is listed as a hazard.
- **Division by zero** when a reader asks for IFS 0: excluded by ASSUME.
- **The test harness and the `*_faulty` helpers**: these are test code.
