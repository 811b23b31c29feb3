# A verification project for esphome_kfw_lib

TLA+ models of the components of this repository, TLC runs that check them on small instances, and theorems about them
that TLAPS checks for every value of the constants.

    tlc -config ModbusClientSingle.cfg MCModbusClient.tla     # a run: see "Runs" for the module and cfg of each
    tlapm ModbusClientProofs.tla                              # the proofs of a module

`PROJECT.json` maps every definition to the source lines it stands for, and lists the hazards, the runs, the
theorems, and for every property of a run a plausible bug (an operator whose comment begins with "Mutant:") that the
property catches.

## 1. Inventory of the system

The repository holds ESPHome external components (`components/`) and the device configurations that use them. A
device runs one cooperative main loop: each pass calls the scheduler's callbacks (`update()`, timers) and then
`loop()` of every component. No component blocks another except by taking long, and nothing is preempted. The
exception is espectre, which adds ESP-IDF's system event task, the WiFi task's packet callback, a task that sends
traffic and a task that calibrates. Configuration is fixed at compile time; state survives a restart only through
ESPHome preferences.

| Component | State it keeps | Operations | What is hard |
|---|---|---|---|
| Modbus TCP controller (`modbustcp_controller`) | a command queue, a response queue, skip counters per register range, online flag, time of the last command | queue a command, poll the ranges, send or retry or drop the head, take a response, dispatch responses | replies are matched to whatever command is at the head; retries, drops, backoff |
| Modbus TCP transport (`modbustcp`) | one connection, receive state, `waiting_for_response` | connect and send, send raw, receive and dispatch to every registered device | one connection shared by devices; replies that are late, split, lost or exceptions |
| Modbus TCP manager (`modbus_tcp_manager`) | connection check state machine, connection flag, watchdog counter, safe mode flag | periodic check, blocking reads and writes, watchdog, safe mode | four writers of one flag; a device that is alive, hung, refusing or away; lists of writes of which some fail |
| LED strip hub (`ws2811_cwww`) | segment boundaries, number of active LEDs, a running transition, colours, number entities with preferences | set a boundary, set the active LEDs, step the transition, paint a light, set up after a restart | boundaries constrain each other; restored values come one by one; transitions and paints overlap |
| WiFi session (`espectre`) | link flag and event counters, session flag, CSI, publish flag, retry time | event handlers; connect, disconnect and retry in the main loop | handlers run in another thread; link flaps; each start can fail half-way |
| Traffic generator (`espectre`) | running flag, exit flag, socket/ping session/ESP-NOW, task | start, stop with a bounded wait, the task's loop | a stop that times out while the task still uses the socket |
| Calibration (`espectre`) | gain lock, packet buffer, calibrating flag, pending result | collect, calibrate in a task, hand the result over, pause and resume traffic | three threads, hand-over by flags |
| Modbus TCP server (`modbus_tcp_server`) | client sockets, register tables | accept, read a request, answer, loopback for the client | framing on a non-blocking stream |
| PID thermostat (`pid_thermostat`), dummy thermostat | mode, targets, integral, valve state, sensor times, preferences | control, sensor updates, time-outs, commissioning, restore | minimal valve cycle, sensor loss, order of restoring |
| Shutter scripts (`Shutter/kfw_shutter_lib`) | relay outputs, position, scripts in progress | open, close, stop, position | scripts wait and run concurrently; the relays must never both be on |
| Motion detectors and presence (`espectre`) | window of turbulences with running statistics, votes, state; hold and stuck counters, latch, threshold | a packet, a publication in two steps, a new threshold, clearing | the WiFi task feeds what the main loop reads and clears |
| Band selection, CSI frames (`espectre`) | none that outlives a calibration or a frame | choose a band from a recording, bring a frame into its layout | buffers reused by candidate after candidate; five layouts |
| Entities of the client | ranges, offsets, the place of each sensor in a reply | cut ranges, parse, encode, loopback, serve registers | the walk rewrites starts and offsets that others use |
| SD card and file server (`sd_file_server`) | the card | list, get, put, delete by URL | paths, prefixes and separators |
| Status sensor, entities, device configurations, playground, generators | see `components` in `PROJECT.json` | | pass-through, copies or build time |

How they interact:

- A controller calls `ModbusTCP::send`/`send_raw`; `ModbusTCP::loop` calls `on_modbus_data`/`on_modbus_error` of
  every controller registered on it. Controllers share the connection and nothing else. Entities queue commands and
  receive payloads. When the server is on the same device, the transport carries a command
  out on the server's tables inside `send()` instead of using TCP.
- The hub is called by the number entities (`control`, `setup`) and lights, and calls them back: it publishes
  numbers that a change has moved, and tells lights whose segment moved to paint again.
- The event task only writes atomics; the main loop reads them, starts and stops CSI and the traffic generator. The
  generator and its task share atomics. Calibration pauses the generator and resumes it when the result is applied.
- The manager's sensors read its flag and call its blocking requests, which write the flag.

What makes each component correct:

- client: replies reach the command they answer, every command leaves the queue, every range of an online module is
  polled again and again, the backoff is undone; every entity sets the register it is configured for, and shows it where
  the whole reply is handed on, as the loopback does (the TCP path passes on nine bytes, modbustcp.cpp:211);
- server: requests are answered whole and in order, the application hears of every write, a waiting client gets in;
- manager: a dead device ends in safe mode and a healthy one out of it, safe mode reaches every output;
- hub: the segments partition the active strip, every LED shows its segment's colour, a saved value is in use after a
  restart;
- session and traffic: at most one task; the task's socket outlives it; the session follows a link that becomes stable;
- calibration: paused traffic resumes, the buffer file has one user, the switch tells the truth in the end; the band is
  the best one and comes with its own baseline;
- presence: the statistics are those of the window, the state does not flicker, a held presence runs out, a quiet room
  is shown as empty;
- thermostats: manual mode is hands off, tuning survives a restart, heating without a sensor reaches the safety output;
  a dead source is noticed and, but for one stall at a wrap of `millis()`, replaced, and a command outlasts the loop.

The hazards behind these properties are listed with their lines under `hazards` in `PROJECT.json`.

## 2. Modules

| Module | Models | Used by |
|---|---|---|
| `ModbusClient` | controllers, queues, transport | `MCModbusClient`, `ModbusClientProofs` |
| `ModbusManager` | connection check, watchdog, safe mode | `MCModbusManager`, `ModbusManagerProofs` |
| `RegisterFile`, `ModbusServer` | the promise of a Modbus server, and the server that implements it | `MCModbusServer`, `ModbusServerProofs` |
| `SegmentHub` | LED strip hub, numbers, lights | `MCSegmentHub`, `SegmentHubProofs` |
| `WifiSession` | session and traffic tasks | `MCWifiSession`, `WifiSessionProofs` |
| `Calibration` | gain lock, collection, calibration task, switch | `MCCalibration`, `CalibrationProofs` |
| `Presence` | detectors, publication, hold, latch, threshold | `MCPresence`, `PresenceProofs` |
| `PidThermostat` | the PID thermostat | `MCPidThermostat`, `ThermostatProofs` |
| `DummyThermostat` | the dummy thermostat | `MCDummyThermostat`, `ThermostatProofs` |
| `RegisterValues`, `RegisterRanges`, `Loopback`, `ModbusData` | codecs, ranges, loopback, entities of the client | `ModbusCalculations` |
| `ModbusCalculations` | a question put to the Modbus client, and its answer against a reference | `Calculations` |
| `Baseline`, `BandSelection`, `CsiFrames` | the calibration's computation, CSI layouts | `Calculations` |
| `SdFileServer` | URLs, links, requests and the card | `Calculations` |
| `Calculations` | the same for all of the above | `MCCalculations`, `ModbusClientProofs`, `CalibrationProofs` |

### ModbusClient (`MCModbusClient`, `ModbusClientProofs`)

One controller's state is `queue`, `incoming`, `skip`, `offline`, `throttled`; the transport's is `waiting` and
`request`. The main loop's order matters (a response is dispatched between the transport's `loop()` and the
controller's), so `turn` says whose `loop()` is next and each `loop()` is one action:

| Action | Code |
|---|---|
| `TransportLoop` = `ReadData`, `ReadException`, `NothingToRead` | `ModbusTCP::loop`, and through `Dispatch` every device's `on_modbus_data` |
| `ControllerLoop` = `ProcessResponse`, or `Send`, `GiveUp` or `NothingToSend` | `ModbusTCPController::loop`, `send_next_command_` |
| `Update` | `update` and `update_range_` |
| `QueueCommand` | `queue_command`, called by switches and automations |
| `ServerReplies`, `ConnectionLost`, `ThrottleElapses` | the server, the network, the clock |

Notes on faithfulness:

- Every `send` calls `client.connect()`, which replaces the connection, so at most one request is outstanding; a
  failed connect leaves the old connection or none. A request gets data, an exception or no reply.
- The TCP path never sets `waiting_for_response`, except `send_raw`, which writes nothing to the socket and sets it
  when the payload's first byte is not zero; nothing on the TCP path clears it.
- A response that finds an empty queue: `front()` of an empty `std::list` is undefined behaviour. With libstdc++ it
  yields the list's header, whose null `unique_ptr` is not used; the model takes it as no effect.
- A reply over 256 bytes is read in two pieces (`SplitKeys`), each dispatched. More than 128 entities are refused by
  `send` (`OversizeKeys`).
- `send_count_` wraps at `CountModulus` (256 in the code); properties that would break at `max_cmd_retries: 255`
  carry the assumption `MaxRetries + 1 < CountModulus`.
- Times are one flag, `throttled`. Payloads and addresses are model values.

### ModbusManager (`MCModbusManager`, `ModbusManagerProofs`)

The requests of the manager block the main loop, but the network and the device go on. An action is one request, or
the code between two: `LoopBegins` starts a due check, `NothingToCheck`/`CheckDecided`/`CleanUp` is the state
machine of `process_connection_check`, `WatchdogWrite`, `ReadAlive` and `ReadFails` are `handle_watchdog` with its
pause of 100 ms, `WriteSafeValue` is one turn of the loop in `activate_safe_mode`. Between iterations sensors read
(`SensorReads`) or ask for a check (`SensorDisconnected`), and the application writes (`Command`).

The device answers requests in time, too late or not at all (`network`), its program cycles or stands still
(`program`), it may answer watchdog writes or sensor reads with exceptions (`refuses`), and it may restart and
lose its registers. A program that cycles answers the watchdog within the pause: this is what the pause is for, and
without it the watchdog would be meaningless. Restarts and stops are not placed inside the pause, where they would
be the same as before or after it. The rate limit of 200 ms appears as the freedom of a sensor to skip an update.

What the model shows about the code beyond its properties: a refused write counts as successful (any reply of eight
bytes does), and the old value in the register then counts as a change, so a device that refuses the watchdog's
writes is alive for ever, which is why `DeadDeviceEndsInSafeMode` exempts it; safe mode entered while the device is
away counts as active although nothing was written, and is not written again when the device returns, which is why
`ActivationWritesAll` asks for an uninterrupted activation; and the application's writes go through in safe mode.

### ModbusServer and RegisterFile (`MCModbusServer`, `ModbusServerProofs`)

`RegisterFile` is what a client may rely on: tables of cells, requests carried out whole, one at a time, in the order
they were sent, each answered once. `ModbusServer` works on a stream of bytes. A pass of `loop()` either deals with the
connection (`Accept`, `TurnAway`, `Hangup`) or carries out one request (`Ignore`, `UnsupportedFunction`, `Truncated`
and the eight handlers); it is one action for the bytes that have arrived. `ImplementsPromise` is the refinement: the
cells are the table, the requests without a reply are those asked, the replies, decoded as a client decodes them, the
answers. It promises nothing to a client that has sent something the server does not serve (another protocol, unit or
function), or a request in pieces.

The two builds (`build`) differ where bytes are missing: `read_bytes_` of ESP-IDF gives up and what it has taken is
gone; Arduino's `read()` returns -1, which the handlers turn into 255 and 65535. They differ as well in how a waiting
client is treated and in what a write consumes whose byte count is not that of its quantity. Cells outside a table
would show as more addresses in `cells`: `TablesKeepTheirSize` is proved for any stream.

### SegmentHub (`MCSegmentHub`, `SegmentHubProofs`)

State: `boundaries`, `activeLeds`, `transition`, the strip's buffer (`leds`), each light's `level` and `fading`, the
saved (`pref`) and `published` value of each number, and how many numbers have been set up (`booting`); `overlapped`
remembers that a change came before the last one had finished. Actions: `ControlBoundary` and `ControlActive`
(`set_boundary`, `set_active_leds`, with the clamping, normalisation, publishing and painting inside the same call),
`FrameOnTheWay` and `LastFrame` (the hub's `loop()`), `SwitchLight`, `StartFade`, `FadeFrame`, `FadeEnds` (a light),
`SetupNumber` (one number in `SetupOrder`), and `Crash`, which keeps only preferences.

Every segment has a light; effects are off; colours are levels plus `Mixed` for a fade in progress, whose
centre-out shape is left out. A restart keeps what was saved (the flash write may really lag behind; the model
takes preferences as written). `OldPreferences` are values that an earlier firmware, with another strip, may have left.

What the model shows beyond its properties: with several saved numbers a restart may clamp one by what is restored
later, so `LoneChangeSurvives` is about one saved number; and there is one transition for all changes, so a change
that overlaps another may leave LEDs with an old colour, which is why the colour properties are about changes that
do not overlap.

### WifiSession (`MCWifiSession`, `WifiSessionProofs`)

Three kinds of threads. An action is one access to an atomic, or a stretch of code no other thread can observe. The
event task: `StoreLink`, `CountEvent`. The main loop, by `loop`: `LoadDisconnect`, `LoadConnect`,
`HandleDisconnect`, `StopTraffic`, `TaskGone`/`WaitTimesOut`, `SessionEnded`, `HandleConnect`, `EnableCsi`/
`EnableFails`, `CheckRunning`, `StartRefused`/`StartFails`/`StartTraffic`, `Connected`/`ConnectFailed`. A traffic
task: `FindGateway`, `GiveUp`, `PollRunning`, `SendPacket`, `ExitTask`.

The event counters are compared only with what was last seen, so they are booleans ("differs"). The event task
handles one event at a time. The wait in `stop` may time out at any moment, also when the task is about to leave.
All four traffic modes are covered: `ping` has no task of its own, `espnow` is initialised before CSI.

### Calibration (`MCCalibration`, `CalibrationProofs`)

Three threads again, the WiFi session being reduced to whether CSI is on. The main loop, by `loop`:
`ProcessWifiEvents`, `NoResult`/`ApplyResult`, `ClearResult`, `ProcessGainLock`, `ProcessPublish`; a `Click` comes
between two passes. The WiFi task: `ProcessPacket` (a gain sample, a packet for the buffer, or a measurement), and,
by `csiTask`, what its callback still has to do: `AnnounceLock`, `LaunchTask`, `HandOverFailure`. The calibration task:
`OpenForReading`/`OpenFails`, `FinishCalibration`, `HandOverResult`. Everything that starts a calibration goes through
`StartCalibration`, which is one step: what other threads could see of it half-done is `calibrating` without the
route of packets, and until both are set packets go to the detector.

One assumption on time is in the model, `OlderResultApplied`: a collection (ten windows of packets, seconds) is not
complete before the older result has been applied. Without it a result stored between `ApplyResult` and `ClearResult`
would be lost and traffic stay paused for ever. `calibrating_` and `calibrator_` are plain fields read by other
threads; they are modelled as read and written whole and in order.

What the model shows: a refused start publishes OFF although a calibration runs (section 5); the switch is right again
when that calibration ends, which is what `SwitchSettles` says.

### Presence (`MCPresence`, `PresenceProofs`)

Two threads. The WiFi task: `AnyPacket` (the whole of `process_packet` with the detector's `update_state` and, every
`PublishRate` packets, the hand-over). The main loop: a publication is `TakePublication` (`process_csi_publish_` up to
`publish_all`: stuck-in-motion, hold) and `PublishAll` (which looks at the detector again, a packet later perhaps);
`ChooseThreshold`, `ApplyCalibration`, `Disconnect`, `Connect`. Turbulences are small integers, the running mean is kept
whole by `Scale`, and breathing is chosen with each packet; the network's answer is chosen, too. Of `still` and `based`
one flag each stands for the several baselines behind them. The filters before the window are left out.

### PidThermostat (`MCPidThermostat`, `ThermostatProofs`)

The handlers of this component run one at a time and call each other, so an operator takes the object's state (`pid`, a
record of the class's fields) to the state after the call, and an action is one handler: `Loop`, the sensors, the two
services, `ChooseMode`, `ChooseTarget`, `PressReset`, `Commission`, `WriteNumber` for the seventeen numbers, the enabling
sensor and the hand on the switch, `Restart`. `stored` is the flash. A restart runs `setup()` and the restores in the
order of the code. Reals are integers, the dew point is a parameter, NAN a value. Timers count ticks up to `MaxAge`,
beyond every period. The three control branches, the fallback to the other sensor and to the safety output, the valve's
minimum times and the keep-alive are the code's.

### DummyThermostat (`MCDummyThermostat`, `ThermostatProofs`)

Every variable is a field of the class; `loop()` is `LoopAgain` (no time has passed) or `LoopNext` (the clock moves),
the rest are `Call`s: services, sensors, the user, restarts. `millis()` counts modulo `W` and `Age` is unsigned
subtraction, so every property holds across the wrap. A unit is the 500 ms of the hysteresis. `Installations` are the
YAML's options with, as a bound, the events considered with them.

The takeover of the valve has an exception, `Stalled`, which the code has: the hysteresis compares the clock with a
deadline (dummy_thermostat.cpp:215), not with a difference. When the commands stop within their time-out of the wrap and
the last decision lies less than 500 ms before the last command (or after it), every time that is due, from the deadline
to the wrap, is one at which the command counts as fresh, on this turn of the clock and on every later one. `Stalled`
says just that, of every reading of the clock, so it exempts no other missing takeover (section 5).

### Calculations (`MCCalculations`) and its modules

`RegisterRanges` is `create_register_ranges_`, with the 8-bit counts and offsets it computes in; `RegisterValues` is
`number_to_payload` and `payload_to_number`; `Loopback` is `ModbusTCP::send` onto the tables of the server;
`ModbusData` joins them to what a sensor, a binary sensor and a switch show or send, and to the registers a controller
serves. `Baseline` replays packets through the detector as `validate_subcarriers_` does, `BandSelection` is
`run_calibration_`, `CsiFrames` is `process_packet` up to the layout, `SdFileServer` the URL handling and the requests.
None of them interacts with anything while it computes. `Calculations`, which extends `ModbusCalculations`, asks each a
question (a configuration, a command, a recording, a frame, a visit of the pages) and the invariants compare the answer
with a definition that is not the code's: a register by its address, a field by its bits, a variance by its definition,
the best band by its score. The modules that are proved about write recursion as recursive functions; `&` is the
constant `BitAnd`, of which `AndAssumption` says what it does with a run of bits (the run computes it).

What the calculations take for granted (each is a restriction of the inputs, and each names code that goes wrong or is
ambiguous outside it):

- Configurations (`Supported` in ModbusData): a sensor that reuses an address gets its own non-zero offset twice
  (modbustcp_controller.cpp:366); a coil with an offset followed by a contiguous one, different register counts at one
  address, and a forced and an unforced range with the same start (`find_sensors_` returns the first) are left out.
  A range's count is 8 bits wide and wraps beyond 255; ranges over 128 are never polled (modbustcp.cpp:249).
  A byte's and a count's width is what `DataAssumption` speaks of: both hold the bytes of as many registers as one
  command may read.
- A switch's offset counts registers for a holding register (modbustcp_switch.h:23), although modbustcp_switch.cpp:92
  speaks of bytes.
- Served registers: a write that ends inside a wider register writes 0 to it, and a read may answer with more than was
  asked. A register's write lambda stores the number it is given or refuses it (`refused`); after a refusal the registers
  before it keep what they were given and the answer is exception 4, which is what the property says. The transport
  never calls `on_modbus_read_registers` and `on_modbus_write_registers`.
- The loopback answers an address outside the tables with zeros, or acknowledges the write, where the server gives
  exception 2: `LoopbackKeepsPromise` is about cells that are there.
- Band selection: a recording may be readable in part (`readable`), and a fallback that meets a short read hands on what
  it has collected. `min_spacing_` is 1 (another would let subcarriers in that the gate has sorted out); the low-pass
  filter is off; `Spread`, `Deviation`, `Entropy` and `Score` stand for the real-valued formulas.
- CSI: an HT40 frame uses the HT20 band once one is selected (csi_manager.cpp:247), and chips of the HE family take half
  of a wide frame.
- File server: a prefix beginning with "/" or an empty one makes links with "//", one ending in "/" a dead first
  breadcrumb. An upload in one chunk is never answered, an invalid folder is answered twice, a delete answers 204 also
  when the removal failed, an empty file is answered with 401.

## 3. Runs

Each question has one run; all cfg files give constants only.

| Run | Module, cfg | Question |
|---|---|---|
| `client_single` | MCModbusClient, ModbusClientSingle | one controller with two ranges and two write payloads: replies are for the command at the head, commands drain and ranges keep being polled |
| `client_shared` | …, ModbusClientShared | two controllers on one connection, with custom commands, writes too long to send and replies in two pieces: no duplicates, and the backoff is undone by either's replies |
| `hub` | MCSegmentHub, SegmentHub | two boundaries on four LEDs, requests and preferences out of range, restarts, fades: partition, transitions within the strip, a lone change survives, LEDs show their segment's colour |
| `wifi_session` | MCWifiSession, WifiSession | every interleaving of the threads in all modes: one task, its socket outlives it, a stable link is sensed, a lost one goes quiet |
| `manager` | MCModbusManager, ModbusManager | device and network fail and recover in every order: safe mode for the dead, trust for the healthy, all outputs written |
| `calibration` | MCCalibration, Calibration | every interleaving of loop, WiFi task, calibration task, clicks and reconnects: one user of the file, traffic resumes, the switch settles |
| `server` | MCModbusServer, ModbusServer | pipelined requests for every handler and exception, both builds, closing and waiting clients: refinement of `RegisterFile`, callbacks, admission |
| `pid` | MCPidThermostat, PidThermostat | twelve combinations of events: hands off, tuning restored, safety output |
| `dummy` | MCDummyThermostat, DummyThermostat | four installations under silence, updates, users, restarts, at every reading of the clock: dead sources noticed, the hysteresis takes over unless it is stalled, commands outlast the loop |
| `presence` | MCPresence, Presence | five scenarios of packets and publications interleaved: statistics, no flicker, bounded hold, a quiet room clears |
| `calculations` | MCCalculations, Calculations | every calculation against its definition over every small input |
| `server_split` | MCModbusServer, ModbusServerSplit | expected to fail: a request in two pieces is not answered on ESP-IDF |

`server_split` is a disagreement of code and comment: modbus_tcp_server.cpp:184 speaks of a read time-out of a second,
but the client socket does not block, so a body that arrives after its header is dropped and the stream is out of step.

Bounds, and why they are enough:

- Client: queues of 3 or 4 hold the head, what waits behind it, and a duplicate if the code let one in; one retry
  separates "first", "last" and "given up"; `CountModulus` 4 lets the counter wrap beyond the retries; two ranges
  with different skips show one being skipped while the other is polled. `MaxQueue` only cuts queues the user fills
  faster than they drain.
- Hub: four LEDs and two boundaries with minimum length 1 let a boundary be pushed by its neighbour on either side
  and by the active LEDs, and leave a segment of two LEDs to be half-way in a transition.
- Session: two task identities, so that a second task could be alive if the code allowed it; two failing calls, so
  that a retry can fail as well. Link changes and time-outs are not bounded.
- Calibration: three packets fill the buffer (empty, partly, last), two gain samples; two failing calls, so that a
  calibration can fail after one that failed. Clicks and reconnects are not bounded.
- Manager: three counter values tell a stale, the written and an answered value apart; two outputs allow an
  activation that reaches one of them. Nothing else is bounded.
- Server: tables of ten coils (a read or write crosses a byte), two inputs, three registers (a range can end in, at and
  beyond the table); two requests on a connection, both of which may be unserved at once, so that one left-over byte
  would spoil the second. A request in pieces arrives in two.
- PID: two temperatures on either side of the setpoints, gains that saturate the integral, limits that push each other;
  the events come in sets (`Scenarios`) of those that interact, every handler is in one of them.
- Dummy: a clock of five readings, time-outs of one and two, so that an age is right, one less than a wrap, or wrapped.
- Presence: a window of two, majorities of 2 and 3 of 3, a hold of 2, one raise, a clock of 3.
- Calculations: bytes of two bits, so that a word has four; up to three entities; six subcarriers of which three are
  usable, six packets of which four, five or all can be read, in chunks of four, so that a read may stop between and
  inside chunks; tables of five and six cells; two levels of folders.

Fairness, and why the code justifies it:

- Client: `WF(MainLoop)` (ESPHome calls `loop()` for ever), `WF(ThrottleElapses)` (the clock), `SF(Update)` (the
  scheduler runs at the top of every pass). The network and the server owe nothing: `QueueDrains` holds because of
  the retries, `RangesKeepBeingPolled` is conditional on the module staying online.
- Session: WF for both steps of an event handler, the main loop, the retry time and each task: FreeRTOS runs every
  ready thread. Link events owe nothing.
- Calibration: WF for the main loop, the callback's steps and the task; WF for packets *while traffic is not paused*:
  a generator that stayed paused would starve the next collection, so the properties depend on its being resumed.
- Manager: `WF(Loop)`, WF for the two timers and for the device's program while it cycles, and `SF(CheckDecided)`:
  a check may be polled undecided many times, but after 500 ms the next poll decides it.
- Server: WF for the kinds of pass of `loop()` and for the rest of a request to arrive. Clients owe nothing.
- PID and dummy: WF for `loop()` with the clock going on, nothing else.
- Presence: WF for packets (traffic flows while the link is up), for both halves of a publication and for a lost link
  to come back; `QuietRoomClears` says what follows from a room that stays quiet.
- Hub and calculations: safety only.

## 4. Proofs

Each `…Proofs` module extends the module it proves about (ThermostatProofs extends the PID thermostat and
instantiates the dummy one). The theorems hold for every value of the constants that
satisfies the named assumptions, which state what the generators validate (positive counts, ranges in order,
commands that exist).

- **ModbusClientProofs.** `TypeCorrect` is inductive by itself. `NoDuplicatesHolds` and `OnlyFrontWasSentHolds`
  reduce each action to what it does to one queue (replace a payload, append, drop the head, count a send:
  `QueueSteps`) and prove a lemma per operation. Only the *first* equal item is rewritten, which is what keeps a
  queue of custom commands free of duplicates. `OnlineSkipsAsConfiguredHolds` needs `SkipsAsConfigured`: an
  offline module without backoff keeps its counters, too. `OnlineReplyBelongsToFrontHolds` is for one controller and whole
  replies, as its runs show it must be. `IncomingBoundedHolds` needs to know whose turn it is: a controller that
  has not had its turn may hold responses, one that has had it holds none. `FrontStaysUntilSettledHolds` is an action
  property; it rests on `SendsBounded` (a head is never sent more than MaxRetries + 1 times).
  *The calculations of the client* (from `Divided` on) are theorems about `Calculations`; an answer is that to its
  question (`QuestionsAnswered`), so what has to be shown is about the operators. *Numbers*: what is packed in bytes,
  words and bits is what is taken out of them (`WordsKept`, `BitsKept`), and a mask that is a run of bits cuts out the
  field it names (`SensorShows`, from `AndAssumption`). *The walk* of `create_register_ranges_` visits the items in the
  order of their keys, which is total (`Ranks`, `EarlierTransitive`). Its invariant `Walked` says, for the set of items
  visited so far: each is in a range; the ranges differ in type or start, so that a search by these finds the right one;
  the start and offset that a member now has lead back to its own cell in its range, modulo the byte (`Holds`); the
  range being built ends where the item before ends, and no range has more cells than its members ask for. The first
  item establishes it and each of the four ways to place an item (take the cell of the one before, extend the range,
  join it, open a new one) keeps it (`FirstOpens`, `ReuseWalks`, `ExtendWalks`, `BelongsWalks`, `NextOpens`); that each
  is one of these is what `Supported` is needed for. At the end every entity has one range that `find_sensors_` finds by
  its start (`FoundByStart`, `EveryoneHasARange`), and since items of a type ask for no more cells than `CellsOf`
  counts, nothing wraps where the range can be polled (`OffsetFits`). `EverySensorReadsItsRegisterHolds` follows with
  the numbers, `SwitchReachesItsCellHolds` with the four commands a switch may send (`SwitchSets`). *The loopback*:
  reads and writes of cells that are there do to the tables, and answer, what `RegisterFile` promises (`ReadKept`,
  `WriteKept`), hence `LoopbackKeepsPromiseHolds`; `CommandAssumption` says that the commands are those the controller
  makes. *The registers served*: the loop over a request's addresses finds registers in ascending order
  (`VisitsAscend`, kept by each `Turn`), so none is visited twice and storing one cannot undo another (`VisitedOnce`,
  `StoredNumbers`); a read walks through the same ones, since only numbers have changed (`VisitedSame`). The words of a
  number are the words it was read from, with either sign and order (`NumberKept`), and joined in the order of the
  visits they are the bytes of the request (`AllKept`). A write has three outcomes (`WriteOutcomes`). In the one where a
  lambda refuses, the first of them is well-defined (`FirstRefusing`), what was stored is what the registers before it
  were given, and the rest is as it was (`RefusedWrite`). Together they are `WrittenRegistersReadBackHolds`.
  `ServedAssumption` says that the lists hold registers and the requests bytes, and that the request for one register
  names one.
- **SegmentHubProofs.** The inductive invariant `IInv` is TypeOK, `LayoutOK` (order, minimum length, active LEDs, each
  boundary in the strip) and that a running transition `Fits` the strip. The layout is needed for the type (segment bounds are
  differences of boundaries) and the type for the layout, so the parts are proved together. `PartitionHolds` and
  `TransitionInStripHolds` follow. `LoneChangeSurvivesHolds` needs `LoneInv` beside it: as long as nothing but number
  `k` is saved, every other part of the layout is the configured one, before and after a restart. So the limits that
  clamped the value when it was saved are those it meets when it is restored, and it passes them unchanged.
  `SegmentsShowTheirLightHolds` needs that segments share no LED (`OneSegment`, from `BoundariesAscend`) and, in `ColourInv`,
  that a transition which overlaps nothing ends at the levels of the segments it touches while no light fades: the LEDs a
  boundary passes belong to the segment they fade to (`PassedLedsFade`), added LEDs to the last one, because no boundary
  moves right when LEDs are added (`GrownStay`), and removed ones to none.
- **WifiSessionProofs.** `OneTask` alone is not inductive: a start relies on the exit flag, so the invariant says that
  the flag is honest (set only when no task is alive), that ping has no task, that the loop waits only after it has
  cleared `running`, and that CSI is on at the points of the loop where traffic starts. `OneTaskHolds`,
  `ResourceOutlivesTaskHolds` and `TrafficOnlyWithCsiHolds` are parts of it.
- **ModbusManagerProofs.** `ActivationWritesAll` speaks of the end of an activation; the invariant (`WrittenSoFar`)
  says what holds on the way: every register before `next` is safe and the device can be written.
- **CalibrationProofs.** `FileHasOneUser` needs to know that a calibration is in exactly one phase (`OnePhase`:
  collecting, launching, or in its task), because only `calibrating` keeps a new start off the file. `PauseHasOwner`,
  the safety half of `PausedTrafficResumes`, needs `AppliedIsResumed`: when the flag of a result is cleared, traffic
  is running. That the gain samples are not overrun needs `SamplesFit`.
  `EveryToneInItsPlaceHolds` is about `Calculations`: for any widths of frames, frames and filters (`LayoutAssumption`,
  `FramesAssumption`), a frame that is used comes from a sender the filter admits and its subcarriers are where they
  belong, layout by layout.

- **ModbusServerProofs.** `Agreed` (the tables have their addresses, the application's copy is what they hold) together
  with `BytesOnly` (only bytes are on their way) is inductive. A word that Arduino reads where nothing has come is
  65535, which is a number (`WordSeen`), and every handler compares the range it computes from such words with the
  table before it stores (`StoreKeeps` needs no more than that comparison). Hence `TablesKeepTheirSizeHolds` and
  `ApplicationIsToldHolds` for any stream whatsoever, in pieces, cut off or out of step: more than the run, whose
  requests are well formed. Of clients only `FramesAreBytes` is assumed.
  `ImplementsPromiseHolds` is the refinement, for every table and every request: the abstract `RegisterFile` answers
  whole requests, the server reads and writes bytes. It goes in three layers. *Frames*: the layout of an encoded request
  (`FrameLayout`) and what the server sees of it in the stream (`FrameSeen`), the layout of an answer and what a client
  decodes of it (`BodySeen`; `BitsDecoded` and `WordsDecoded` take coils packed eight to a byte and registers in two
  bytes apart again). *Handlers*: on a stream that begins with the frame of a request, the handler consumes that frame,
  and answers and writes what the register file would (`RequestCarried`). *Steps*: as long as everything sent is served
  and whole (`AllServed`), what is in the stream is the concatenation of the frames of the requests not yet answered, in
  their order (`Pending`); this is inductive beside `CellsTyped`, since no handler leaves part of a frame behind. A step
  then answers the first of the queue or leaves the mapped state alone (`StepRefines`). `RequestsAreMeant` says
  that a request names what it asks for in words and a write brings the values it names; `ConstantsAssumption`, that the
  application writes bits into bit tables.

- **ThermostatProofs**, for both thermostats; `Dummy!` is the dummy one, whose theorems take the assumption on its
  constants as a hypothesis. Of the dummy, `DummyTypeCorrect` has a part for each group of variables, and
  `CommandOutlastsLoopHolds` is an action property: the only write to the valve in `loop()` is guarded by the age of the
  last command, and the clock moves by one between passes; the types make the unsigned difference of times what the code
  compares.
  Of the PID thermostat, `TypeCorrect` and two action properties. Its handlers are compositions of operators on the
  object, so each proof goes through something that composes. `ManualMeansHandsOffHolds`: the relation `Careful(r, s)`,
  from `s` to `r` no number changed and, without control and without a test, the switch did not move. Each operator is
  careful, hence each handler; a setter changes its numbers and is careful with the rest (`SetNumberCareful`).
  `TuningRestoredHolds` needs to know what flash and configuration together say of a number (`Meant`), and that the
  numbers in force are that (`Remembers`): every number a setting pushes along is saved with it (`WriteRemembered`), and
  at a restart the limits each number meets on its way back leave it as it was (`RestoredRemembers`), because the lower
  limits in force are below the upper ones. The lower limit of the integral is the exception that had to be put into the
  invariant: after a restart it may be what the configured upper limit cut it to, and the invariant says only that it is
  no lower than another restart would make it. With equality there, the invariant is false, which is the disagreement in
  section 5. `TypeCorrect` is not inductive as it stands: the dew point is a number only for readings the sensors show,
  so the invariant (`TypeInv`) keeps the object's readings among them; every handler keeps the object whole (`Whole`)
  and every setter and restore the numbers lawful (`Lawful`).
- **PresenceProofs.** `HoldIsBounded` counts held publications, which the code does not; the invariant `HInv` says
  that the count is the code's counter for as long as the hold has not run out, and that the counter stays below its
  limit. A publication has four outcomes (`HoldOutcomes`).
  `RunningMatchesWindowHolds` is about arithmetic: with `n` values in the window, `n * mean` is their sum and
  `n * m2` the scaled sum of squares less the square of the sum. Filling adds a value (Welford's step), sliding replaces
  the oldest (`m2` never needs the code's cut at zero, because a sum of squares is at least the mean's share);
  every division by the running length is exact since `Scale` is a multiple of it. Sums are defined by recursion over
  the window; what an appended or dropped value does to them is shown by induction on the window's length.
  `TransitionsApartHolds` counts votes: `k` votes after a state began, at most `k` more speak against it than fit beside
  the majority that began it (`Bounded`), whatever slides out of the window of votes; the history `since` is `k`. It counts
  packets that vote, which the network does only once its window is full (`Votes`).

Theorems whose property no run lists any more (type correctness, `OnlyFrontWasSent`, `IncomingBounded`,
`FrontStaysUntilSettled`, `NoSocketLeak`, `TrafficOnlyWithCsi`, `TablesKeepTheirSize`, `PauseHasOwner`) were model-checked
before they were proved; the proofs are what keeps them.

Induction. The library's induction theorems take a predicate as a parameter, which the provers cannot instantiate. Over
*sets of numbers* induction is within reach: the order of the naturals is well-founded, so a non-empty set of them has a
least element (`LeastElement`, from `NatLessThanWellFounded` and `WFMin`), and the counterexamples of a statement are
such a set. The hub's boundaries, the sums over Presence's window and the walk over the items rest on it; that a
recursive function has the values its definition says comes from uniqueness, which is shown in the same way
(`RecursionExists`).

Only model-checked: all liveness (`QueueDrains`, `RangesKeepBeingPolled`, `StableLinkIsSensed`, `LostLinkGoesQuiet`,
`DeadDeviceEndsInSafeMode`, `HealthyDeviceIsTrusted`, `PausedTrafficResumes`, `SwitchSettles`, `WaitingClientLetIn`,
`SafetyOutputReached`, `LocalTakesOverOrStalls`, `DeadSensorsAreNoticed`, `QuietRoomClears`), which the prover does not
reach; and three invariants of `Calculations`: `BestBandIsChosen` and `BaselineDescribesBand` (folds over packets, bands and sorted
scores, and `std::sort`'s freedom among ties), and `LinksLeadBack` (paths are split and joined by recursion on
sequences).

## 5. Disagreements seen

Found while modelling and not kept as runs of their own, beside those named with the modules above:

- Two controllers: modbustcp.h:99 says a second device waits for the outstanding response; the TCP path never sets
  `waiting_for_response`, and one controller's send replaces the connection the other awaits its reply on.
- modbustcp_controller.cpp:96 says an error removes the pending command; an exception reply never gets there
  (modbustcp.cpp:207), the command is sent again until its retries are used up.
- modbustcp_controller.cpp:14-16 says the callback of the sent command handles the response; a late reply to a
  dropped command is taken by the one behind it.
- modbustcp_controller.h:470 limits the repeats because custom commands can block the queue; `send_raw` marks the
  transport as waiting and no queue of it moves again.
- With `max_cmd_retries: 255` the counter wraps before it is exceeded and an unanswered command stays for ever.
- A command on the wire may have its payload replaced; the answer to the old payload removes it. A switch publishes its
  state at once and a poll that was sent before may publish the old one afterwards.
- calibrate_switch.h:5 says the switch is ON during calibration; a start that is refused because one runs turns it OFF.
- pid_thermostat.cpp:256 says stored values replace the defaults; `i_min` is restored before `i_max` (:566) and cut at
  the configured one. A stored integral is saved as 0 by `setup` before it is restored.
- modbustcp_controller.cpp:211 checks that every register is writable "before writing to any of them"; a write lambda
  that refuses its number comes later, and the registers before it have been written when the exception is sent.
- dummy_thermostat/README.md:143-145 says that the local hysteresis takes over when no command has come for the
  time-out. In the stall described with the module it never does: with `Silence => []<>ColdRoomHeated` in place
  of `LocalTakesOverOrStalls`, TLC shows a command at the last reading of the clock beside a decision, and a cold room that
  stays cold until something outside the loop happens, a command or a restart.
- espectre.cpp:441 says the threshold is applied "if calibration produced valid data", but the code only asks whether
  there are values. When no window gives a band and a chunk cannot be read, the fallback's validation has already
  appended the values of the chunks before it to those that are handed on (nbvi_calibrator.cpp:296, 631), and a failed
  calibration replaces the threshold, unless it is set to manual, by one made of part of the recording.
  `BaselineDescribesBand` says of which part: the whole chunks before the first short one, replayed with the band that is
  handed on.
- The dummy thermostat may answer a service's command with the hysteresis's last decision, which is up to 500 ms old.
- Hub changes that overlap in time may leave LEDs with an old colour.
- A holding register's switch whose range has 128 registers before it writes 128 registers below its own: the byte
  offset is counted in 8 bits (modbustcp_controller.cpp:381) and the switch divides it by two (modbustcp_switch.cpp:92).
  A sensor there shows nothing, because its range is over 128 and never polled. `SwitchReachesItsCell` is about
  configurations that stay below.

## 6. Not modelled, and why

- In the client: lambdas and custom commands of entities, text sensors and outputs (pass-through), the queue while the
  loopback answers inside `send()`. A reply is always taken to begin at byte 9, whatever its length.
- In the manager: replies that are malformed rather than exceptions; the connection sensor, which copies the flag.
- In espectre: the UDP listener of the external traffic mode (a failed start of it is ignored and never retried,
  espectre.cpp:243), packet pacing, BLE's transport, the neural network and the features it is fed with, the low-pass
  filter, gain control's arithmetic. The result of a calibration is not part of `Calibration`, so that a start which
  clears the values an older task is still copying is not seen.
- Sockets, flash and the card are taken as working unless a module says otherwise.
- The shutter's scripts: they are ESPHome automations, whose script modes, waits and restarts are defined outside this
  repository. They are the first thing to add, with the semantics of ESPHome's scripts as an external part; stop leaves
  a positioning script running (cover.yaml:531), which is listed as a hazard.
- Device configurations, the playground's older copies, generators and build scripts: they wire or produce what is
  modelled.

## 7. Plan

1. **Shutter**: scripts as threads that wait, the interval timer, the interlock; the relays are never both on.
2. **Espectre**: the composition of WifiSession and Calibration, in which a disconnect hits a calibration and the
   traffic tasks poll `paused`.
3. **Client and loopback**: ModbusClient with `Loopback` in place of the network, for the queue that is popped inside
   `send()`.
4. Abstract specifications: a command queue as a set of wishes that are served or given up (for ModbusClient), a session
   that is on or off and follows the link (for WifiSession).
5. Theorems: the calibration's choice of a band, the links of the file server.
