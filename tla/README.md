# TLA+ models of openqti

These modules model the openqti daemon of meta-qcom: the C sources in
`src/recipes-modem/openqti/files/src/` (`proxy.c`, `audio.c`, `command.c`,
`wds_client.c`, `ims_client.c`). The other sources of the daemon are not in the
repository: the QMI frame codec, the SMS and call handlers, the client tracker
and the message queue. Where the modelled code calls one of them, the call is
modelled as a nondeterministic choice over what it can return.

## 1. Inventory

### The parts and how they interact

| Part | Code | Shared state | Runs on |
|---|---|---|---|
| RMNET proxy loop | `rmnet_proxy`, `process_packet`, `is_inject_needed`, `process_simulated_packet` (proxy.c) | `proxy_rt.rmnet_packet_stats`, the injector flags (message pending and its source, call pending, simulation mode, stuck message, CB requests) | the rmnet thread |
| USB suspend-state reader | `get_transceiver_suspend_state` (proxy.c) | `proxy_rt.is_usb_suspended` | the rmnet and GPS threads |
| GPS proxy | `gps_proxy` (proxy.c) | `proxy_rt.gps_packet_stats` | the GPS thread |
| Call audio state machine | `handle_call_pkt`, `start_audio`, `stop_audio` (audio.c) | `audio_runtime_state` (call table, profile, active call id, alerting, recording flags) | the rmnet thread, called through `process_packet` for voice indications |
| Recording thread | `incall_recording_tread` (audio.c) | `is_recording`, `record_next_call`, reads `current_call_state` | a detached pthread per recording |
| Alert-tone thread | `play_alerting_tone` (audio.c) | reads `is_alerting` | a detached pthread per alerting phase |
| Bot commands | `parse_command` cases 17 and 36-43, `schedule_call` (command.c) | recording and tone settings, `record_next_call`, the pending-call flag, the message queue | the command thread and scheduler threads |
| Command history | `add_to_history`, `find_cmd_history_match` (command.c) | `cmd_runtime.cmd_history`, `cmd_position` | the command thread |
| Call scheduler | `schedule_reminder`, `schedule_wakeup`, `suspend_call_notifications`, `delete_task`, `schedule_call` (command.c) | the scheduler's task queue (outside src/), the DND flag, the static call buffer | the command thread and a `schedule_call` thread |
| WDS client | `wds_attempt_to_connect`, `handle_incoming_wds_message`, `init_internal_networking` (wds_client.c) | `wds_runtime.mux_state` | the networking thread and the rmnet thread |
| IMS client | ims_client.c | none kept between messages | the rmnet thread |
| QMI NAS declarations | inc/nas.h | none: enums, structs and prototypes | - |

The parts interact in four ways:

- The rmnet loop feeds voice indications to the call state machine.
- The call state machine spawns the recording and tone threads. Those threads
  coordinate with it only through the unlocked flags of `audio_runtime_state`.
- The bot commands and the scheduler raise injector flags (`set_pending_call_flag`,
  `add_message_to_queue`). The rmnet loop serves those flags when `select()`
  times out.
- The rmnet and GPS threads both call the suspend-state reader.

### What is hard in this code

- **Unlocked flags between threads.** The recording and tone threads poll
  `current_call_state` and `is_alerting` between chunks. `is_recording` is tested
  and then set in two separate steps. `record_next_call` is cleared by the rmnet
  thread while the recording thread still needs it.
- **Error paths.** Several returns leave a flag set. A loop can re-run on a file
  it has already closed. `size_t` results hide the -1 that `read()` and
  `write()` return on an error.
- **Baseband-first polling.** An endpoint that reads 0 is never reopened.
- **The injector's early returns.** These decide what one idle tick sends.

The hazards are listed one by one, at their lines, in `PROJECT.json`.

## 2. Plan

| Order | Module | What it is | Status |
|---|---|---|---|
| 1 | `CallAudio` | the call state machine with its threads and the commands that steer them | done |
| 2 | `Relay` | abstract: what the rmnet loop promises per direction | done |
| 3 | `RmnetProxy` | the rmnet loop and injector; implements `Relay` under the mapping `delivered <- out` | done |
| 4 | `GpsProxy` | the GPS loop and the suspend-state reader shared with the rmnet thread | done |
| 5 | `WdsClient` | the bind / start-network exchange with failed and lost answers | done |
| 6 | `BotTasks` | the time parsers of commands 103, 104 and 106, the task queue, DND and the call scheduler, with the command history of `parse_command` | done |

The modules are composed in two places:

- The rmnet loop calls `handle_call_pkt`. Modelling them together multiplies
  two state spaces that do not otherwise interact, so the voice indications are
  the environment of `CallAudio` instead.
- The suspend-state reader is shared by two threads. It is where a composition
  earns its cost: `GpsProxy` runs the reader from both the GPS thread and the
  rmnet thread's call at proxy.c:470.

## 3. Modules

### CallAudio (audio.c, command.c)

**State.** The variables are named after the fields of `audio_runtime_state`:

- `calls` is the call table, holding state and mode per slot;
- `audio` is `current_call_state`;
- `activeCall` is `current_active_call_id`;
- `route` is the set of profiles whose voice TX/RX mixer controls are on;
- `alerting`, `recordNext` and `recording` are the three flags;
- `autoRec` and `customTone` are the user settings.

Each recording thread has:

- a program counter `recPc` over the points where it reads or writes shared
  state (`check`, `claim`, `loop`, `chunk`);
- `recFile`, which is its `file_rx` (none, open, NULL or closed);
- `recWanted`, a history variable recording that the user asked for it.

Each tone thread has a program counter `tonePc`.

**Actions.**

- `Indication` is one call-status indication. The modem environment chooses a
  legal next state and mode for one call id. `HandleCallPkt` is then the whole of
  `handle_call_pkt`:
  - it writes the slot;
  - it runs the branch of the state switch (`OnSetup`, `OnEstablished`,
    `OnHoldOrWaiting`, `OnAlerting`, `OnDisconnect`);
  - those branches use `StartAudio` and `StopAudio`, which are functions of the
    profile, the active id and the route, with a failed PCM setup as a choice.
    `start_audio` turns the route on before the PCMs open. `stop_audio` turns
    off the route of the current profile, unless it returns early on an idle
    state.
- `RecCheck`, `RecClaim`, `RecLoop` and `RecChunk` are the steps of
  `incall_recording_tread`. `Fate` is its keep / rename / remove decision.
- `ToneLoop` and `TonePlay` are the steps of `play_alerting_tone`.
- `CmdRecordNext`, `CmdRecordCurrent`, `CmdAutoRecord` and `CmdCustomTone` are
  the bot commands.

**Crashing.** A recording thread that touches a closed `FILE` reaches `fault`.
glibc aborts the process there, so every action is guarded by `~Crashed`.

**Left out.** Mixer controls, sample rates, file names and texts are left out.

### Relay

The abstract relay. For each direction it has:

- `arrived`, the frames produced;
- `rd`, how many have been taken;
- `delivered`, the frames passed on.

A frame is taken once and in order, and is either delivered or dropped. Every
frame is eventually taken (weak fairness).

### RmnetProxy (proxy.c)

**Frames.** A frame is a record of its position and its service. The service
decides its fate: a runt, a NAS signal-report request, a voice or WMS frame
(whose handler outside src/ decides), or any other.

**Serving an endpoint.** `Serve(d)` is one turn of the loop that `select()` gave
to endpoint `d`, and the baseband comes first. The read can:

- return 0 (closed);
- return -1 (held as SIZE_MAX);
- return the next frame.

The frame is classified by `Classify`, which is `process_packet`. `Act`, the
verdict switch, then writes, discards or bypasses it and counts it. `Forward` is
the write: a `size_t` result below 1 counts as failed, and -1 is not below 1.

**The injector.** `Inject` is the `select()` timeout branch:
`is_inject_needed`, then one of the early returns of `process_simulated_packet`
(`SendInternal`, `SendExternal`, `RetrieveStuck`, `StartCall`) or its
fall-through (`Heartbeat`).

**The environment.** `Arrive`, `Close`, `Suspend`, `MessageQueued` and
`FlagRaised` are the kernel, the USB state and the collaborators.

**Refinement.** `RelaySpec` instantiates `Relay` with `delivered <- out`.

### GpsProxy (proxy.c)

**State.**

- `gpc` is where `gps_proxy` is in one loop turn.
- `open` says, per side, whether `node1` (SMD_GPS) or `node2` (USB_GPS) is open.
- `arrived`, `rd` and `out` are the streams, as in `Relay`.
- `eofPend` marks a side whose next `read()` returns 0.
- `stats` is `gps_packet_stats`.
- `hostSuspended` is the sysfs value.
- `flag` is the shared `proxy_rt.is_usb_suspended`.
- For each of the two callers of the reader: `rpc` is its position inside
  the function, `seen` what its sysfs read gave, and `res` what its last call
  returned.

**Actions.**

- The reader is `SusZero` (line 61), `SusRead` (lines 62-83) and `SusReturn`
  (line 84). Each is one step, because each touches the shared flag.
- `RmnetCall` is the rmnet thread entering the reader.
- The GPS loop is `Top` (reopen SMD, then call the reader), `UsbOpen`,
  `Select`, `Fwd` and `UsbChk`.
  - `Select` holds the baseband-first `select()` and the baseband read. It
    closes SMD on a 0 read.
  - `Fwd` is the second suspend check and the write to USB, or the discard.
  - `UsbChk` is the third suspend check and the host-side read.
- `Arrive`, `Close` and `Suspend` are the kernel and the USB state.

**No refinement.** `gps_proxy` reads into a freshly cleared buffer and writes
it at most once in the same turn, keeping nothing across a reopen. Its order
and at-most-once delivery therefore hold by the shape of the loop, and
checking it against `Relay` would show nothing.

### WdsClient (wds_client.c, command.c)

**State.**

- `enabled` is the internal-connectivity setting.
- `muxState` is `wds_runtime.mux_state`.
- `cmdPc` records whether the command thread sleeps in the wait loop of
  `init_internal_networking`.
- `netReady` is `get_network_type() != 0`.
- `pending` is the queue of requests to the modem (`add_pending_message`).
- `replies` is the queue of answers.
- `modemBound` is the modem's own state.

**Actions.**

- `Cmd46` and `Cmd47` are the two bot commands.
- `InitInternalNetworking` ends the wait and runs `AttemptToConnect`, which is
  `wds_attempt_to_connect` with `wds_bind_mux_data_port`.
- `HandleIncomingWdsMessage` applies `MuxAfter`, the result switch.
- `ModemBind`, `ModemStart` and `LoseReply` are the modem and the transport:
  requests are answered in order with success, failure or no result, and an
  answer may be lost.

### BotTasks (command.c)

This module models the commands that add scheduler tasks.

**Words.** A command is a sequence of words. A word is a record that keeps
only what the parsers test:

- `probes`: the words `strstr` finds in it;
- `len`: its length;
- `colon`: whether it has a `:`;
- `pre` and `post`: the lengths on each side of the `:`;
- `hh` and `mm`: the values `atoi` reads.

The vocabulary includes the out-of-range times `24`, `99`, `100`, `25:75`,
`7:75` and `7:100`. `Cut` gives every prefix of each syntax that is at least
as long as the words `parse_command` dispatches on.

**Parsers.** `ScanReminder`, `ScanWakeup` and `ScanDnd` translate the
`strtok` loops. Each one is a `FoldLeft` over word positions, and it stops
changing its state once a step has failed. The step for each word position is
the `switch` case of that position (`ReminderStep`, `WakeupStep`, `DndStep`).
The parse state starts with the time fields undefined (`Undef`). A task built
from an undefined field holds any value of `StackValues`, because
`scheduler_task` is an uninitialised stack variable.

**State.**

- `tasks`: the scheduler's queue of `MaxTasks` slots.
- `dnd`: the DND flag.
- `pendingCall`: the pending-call flag.
- `callPc` and `buf`: the `schedule_call` thread and the static buffer it
  reads.
- `history`, `pos` and `warned`: the command history and the repeated-command
  warning.

**Actions.**

- `ScheduleReminder`, `ScheduleWakeup`, `SuspendCallNotifications`,
  `DeleteTask`, `ClearDnd` (command 48) and `SpawnScheduleCall` (command 102)
  are command-thread actions. Each one includes `ParseCommand`, which is
  `find_cmd_history_match` before the dispatch and `add_to_history` after it.
- `ScheduleCallRead` and `ScheduleCallWake` are the `schedule_call` thread.
- `TaskDue` and `CallPlaced` are the scheduler and the rmnet loop, which are
  outside src/.

## 4. Runs

| Run | Cfg | Expect | What it shows |
|---|---|---|---|
| callaudio | CallAudio.cfg | pass | `TypeOK`. `AudioFollowsCall`: a talking call has audio in its profile through holds, waits, SRVCC, the external-codec reset and the custom tone. `ToneStopsAfterAlerting`: every tone thread exits once alerting ends. |
| callaudio_rec | CallAudioRec.cfg | pass | `RecordingFlagReleased`: with no I/O failure, `is_recording` is released after the call. `RecorderStopsAfterCall`: each recorder leaves its loops when the call ends. |
| callaudio_flag_leak | CallAudioFlagLeak.cfg | violation | `RecordingFlagReleased`: a failed `pcm_open` leaves `is_recording` set for good. |
| callaudio_use_after_close | CallAudioUseAfterClose.cfg | violation | `NoRecorderUseAfterClose`: the outer loop re-runs on a closed file. |
| callaudio_requested_discard | CallAudioDiscard.cfg | violation | `RequestedRecordingKept`: in mode 2 a recording the user requested with command 42 is removed, because `record_next_call` was cleared at spawn. |
| rmnet_relay | RmnetProxy.cfg | pass | `RelaySpec`: the loop implements `Relay` while the host may close and the suspend state is unreadable. |
| rmnet_inject | RmnetInject.cfg | pass | `TypeOK`. `InjectorPriority`: an internal message is sent first and alone, and no other flag is lost. |
| rmnet_dsp_closed | RmnetDspClosed.cfg | violation | `RelaySpec`: a closed baseband endpoint starves the host for ever. The counterexample ends in stuttering only because the model caps the empty-read counter. |
| gps | GpsProxy.cfg | pass | `TypeOK`. `SmdDrained`: every baseband frame is eventually read, even while the host is suspended. |
| gps_suspend_race | GpsSuspendRace.cfg | violation | `GateFollowsSysfs`: the rmnet thread zeroes the shared flag between the GPS thread's sysfs read and its return, and an NMEA frame reaches a suspended host. With `RmnetCalls = FALSE` the property holds. |
| wds_start_unbound | WdsStartUnbound.cfg | violation | `StartNeedsBoundMux`: START_NETWORK is queued behind the bind, so after a failed bind the modem is asked to start on an unbound mux port. |
| bot_task_times | BotTasksTimes.cfg | violation | `TasksAtRealTimes`: `remind me` with no time (and with other stack contents, `remind me at 24`) queues a task at a time of day that does not exist, because the parse leaves `scheduler_task.time` uninitialised or unchecked. |

Each passing property has a mutant in `PROJECT.json`: an operator that changes
the code the way a plausible bug would, and that TLC shows breaks the property.

## 5. Bounds, and why they are enough

### CallAudio

| Bound | Value | Why it is enough |
|---|---|---|
| Call ids | 2 | gives a held call plus a talking or waiting one |
| Table slots | 3 | the indication's `calls_active` reaches 2, the threshold of the hangup rule |
| Mode codes | GSM and VOLTE | one circuit-switched code is enough, since every non-VoLTE code maps to the same profile |
| Recording threads | 2 | lets command 41 race the thread spawned on ESTABLISHED |
| Tone threads | 2 | lets a second alerting phase overlap a lingering tone |

The recording run keeps only GSM calls, and the tone run only mode 0, so that
each state space stays under a minute.

### RmnetProxy

| Bound | Value | Why it is enough |
|---|---|---|
| Frames per endpoint | 2 | shows order and interleaving |
| Services | a runt, a NAS signal request and a voice frame | these cover every verdict |
| Counter cap | 4 | the counters saturate there, which keeps the state space finite; no checked property reads them |

The injector run uses one frame and every flag, because its question is the
order of the flags.

### GpsProxy

| Bound | Value | Why it is enough |
|---|---|---|
| Frames per side | 1 | each frame can be read, held across the suspend check, written, discarded, or stranded by a close |
| Reads returning 0 | 1 | one close, and the reopen that follows it, on either side |

Both failure switches are on, and the host may suspend at any step. With two
frames per side the state space passes 1.2 million states and takes over three
minutes, and it shows no behaviour that one frame per side does not. The race
run needs no failures and no closes.

### WdsClient

Two commands, 46 and 47 in any order, are enough: a second command 46 after a
failed or lost bind answer shows the retry path, and the violation needs only
one.

### BotTasks

| Bound | Value | Why it is enough |
|---|---|---|
| Task slots | 2 | one task can replace another of the same type, and the queue can be full |
| Commands | 4 | a task can be added, deleted, and added again, or the queue filled |
| `StackValues` | {0, 200} | one in-range value and one out-of-range value for an uninitialised field |
| History entries | 8 | the ring holds more than the six entries the match window reads |

The invariant breaks after one command, so these bounds mainly show that the
other commands cannot hide the defect.

## 6. Fairness

Weak fairness is assumed only for threads the code keeps running:

- each recording and tone thread (detached pthreads that loop until their flag
  drops);
- the rmnet loop's service of each endpoint and its injector (`while (1)`
  around a `select()` with a 500 ms timeout).

The modem, the host, the kernel and the user get no fairness: a call may stay
in any state for ever, and so may the endpoints.

`GpsProxy` has weak fairness on the GPS thread (a `while (1)` loop around a
`select()` with a 500 ms timeout) and on the rmnet thread's steps inside the
reader, which it has entered and must leave. `WdsClient` assumes no fairness;
its run checks safety only.

`CallAudio` runs with `CHECK_DEADLOCK FALSE`, because an aborted daemon
(`Crashed`) takes no further step. The rmnet and GPS runs check deadlock. The WDS run does not, because the system stops there once both commands are used. `BotTasks` assumes no fairness, and its run has `CHECK_DEADLOCK FALSE` because the command budget runs out.

## 7. Not modelled

- **A property of the command history.** `BotTasks` models the history as part
  of every command. No run checks it, because a repeated command only adds a
  line to the reply. The window reads `cmd_history[cmd_position]`, one entry past
  the last one written, and it is empty for five commands after the ring wraps.
  Hazard command.c:59 records this.
- **The reply texts and `partial_commands`.** These are outside src/, and the
  dispatch is given by `CmdId`. Runs of spaces and the lowercase copy do not
  change what the parsers test, so they are abstracted away.
- **GPS write results and a failed open of SMD_GPS.** `gps_proxy` counts a failed
  write only when `write()` returns 0. This is the `size_t` defect that hazard
  proxy.c:474 records for the rmnet loop. When SMD_GPS fails to open, `FD_SET(-1)` is undefined
  behaviour; the model lets SMD_GPS always reopen.
- **The reader's `usleep` branch.** The reader zeroes the flag itself at line 61,
  so the branch at lines 79-81 runs only when another caller sets the flag in
  between. Its net effect, the flag equal to the sysfs value, is kept as one
  step.
- **`pdp_session_handle` and `get_wds_command`.** The first is never used, and
  the second only names messages for the log.
- **Four defects found without a run of their own.** These properties remain
  in the modules:
  - `AtMostOneSyntheticFramePerTick` (RmnetProxy);
  - `ActiveCallIsEstablished` (CallAudio);
  - `StatsMatchTraffic` (RmnetProxy), which the `size_t` results of `read()` and
    `write()` break once those calls can fail;
  - `RouteFollowsAudio` (CallAudio), which a failed PCM setup breaks.

  TLC breaks each of them in one or two steps; their hazards in
  `PROJECT.json` say how. With the failures switched off, the last two hold by
  the shape of the actions, so no passing run checks them either.
- **IMS client.** It keeps no state between messages: its handlers only log
  TLV values. `ims_process_active_subscription_status` loops 13 times over a
  3-entry array (hazard ims_client.c:262). That read is out of bounds in C, and
  no state of the program depends on it.
- **inc/nas.h.** It holds only declarations.
- **Mixer, PCM and codec configuration, except the voice route.** `CallAudio`
  keeps `route`: the profiles whose voice TX/RX controls `start_audio` has set
  and `stop_audio` has not yet cleared. PCM parameters, gains and the
  multimedia mixer are writes to ALSA controls; only their success or failure
  is kept. With PCM failures, `RouteFollowsAudio` breaks in one step: the
  controls are set before the PCMs open, and `stop_audio` returns early on an
  idle state (hazard audio.c:884).
- **`set_audio_mute` and `set_output_device`.** Nothing in this repository
  calls them, so the thread they run on and their inputs are unknown.
- **The configuration setters of the bot** (names, signal-tracking mode,
  service debugging, the cell-broadcast debug frames). They pass their argument
  to code outside src/ and keep no state here. Hazard command.c:207 records
  the `uint8_t` truncation in `set_new_signal_tracking_mode`.
- **The remaining bot commands.** They format replies or set configuration.
- **The code outside src/.** That is the frame codec, the SMS and call handlers,
  the client tracker and the message queue. It is modelled only as the choices
  the modelled code sees from it.
- **Out-of-range call ids.** A `call_id` larger than the call table (audio.c:543)
  is out of reach because the ids come from the decoder outside src/.
