--------------------------- MODULE ModbusManager ---------------------------
(***************************************************************************)
(* The Modbus TCP manager: one connection flag, kept by a periodic         *)
(* non-blocking connection check and by every blocking request, and a      *)
(* watchdog that exchanges a counter with the remote device's program and  *)
(* writes safe values to the device when the exchange fails.  Requests     *)
(* block the main loop, but the network and the device change meanwhile:   *)
(* an action is one request, or the code between two of them.              *)
(***************************************************************************)
EXTENDS Naturals

CONSTANTS
  CounterSize,  \* the watchdog counter counts modulo this; 2^16 in the code
  Outputs       \* how many safe mode registers are configured, in their order

ASSUME ConstantsAssumption == CounterSize \in Nat \ {0} /\ Outputs \in Nat

VARIABLES
  network,    \* requests are answered in time, too late for the time-out, or lost
  program,    \* the device's program: "cycling" or "stopped"
  refuses,    \* what the device answers with an exception, fixed
  register,   \* the watchdog register in the device
  pending,    \* the device's program has not yet answered the last watchdog write
  safe,       \* the outputs that stand at their safe value
  loop,       \* where the main loop is
  check,      \* connection_check_state_
  sock,       \* connection_check_sock_: none, or whether its request got out
  success,    \* connection_check_success_
  connected,  \* is_connected_
  checkDue,   \* 5 s have passed since last_connection_attempt_
  watchDue,   \* watchdog_interval_ has passed since last_watchdog_time_
  counter,    \* watchdog_counter_
  safeMode,   \* safe_mode_active_
  next,       \* the next register activate_safe_mode writes
  interrupted \* history: since that activation began the device could not be written

device == <<program, refuses, register, pending, safe>>
checkVars == <<check, sock, success>>
timers == <<checkDue, watchDue>>
watchdog == <<counter, safeMode, next>>
vars == <<network, device, loop, checkVars, connected, timers, watchdog, interrupted>>

Registers == 1..Outputs
Count == 0..(CounterSize - 1)

Init ==
  /\ network \in {"up", "slow", "down"} /\ program \in {"cycling", "stopped"}
  /\ refuses \in {"nothing", "writes", "sensors"}
  /\ register = 0 /\ pending = FALSE /\ safe = {}
  /\ loop = "idle"
  /\ check = "IDLE" /\ sock = "none" /\ success = FALSE /\ connected = FALSE
  /\ checkDue = FALSE /\ watchDue = FALSE
  /\ counter = 0 /\ safeMode = FALSE /\ next = 1 /\ interrupted = FALSE

---------------------------------------------------------------------------
(* The device and the network.                                             *)

\* A request that is answered late has still arrived.
Arrives == network # "down"
Answered == network = "up"
Writable == Arrives /\ refuses # "writes"

\* A read fails on an exception; a write takes any reply for success.
ReadSucceeds(refused) == Answered /\ ~refused
WriteSucceeds == Answered

NetworkChanges ==
  /\ network' \in {"up", "slow", "down"} \ {network}
  /\ interrupted' = (loop = "safe" /\ (interrupted \/ network' = "down"))
  /\ UNCHANGED <<device, loop, checkVars, connected, timers, watchdog>>

\* A program that stops or resumes in the short pause between the watchdog's
\* write and its read could as well have done so before or after.
ProgramChanges ==
  /\ loop # "pause"
  /\ program' \in {"cycling", "stopped"} \ {program}
  /\ UNCHANGED <<network, refuses, register, pending, safe>>
  /\ UNCHANGED <<loop, checkVars, connected, timers, watchdog, interrupted>>

\* The program answers a watchdog write by any other value.
DeviceActs ==
  /\ program = "cycling" /\ pending
  /\ register' \in Count \ {register}
  /\ pending' = FALSE
  /\ UNCHANGED <<network, program, refuses, safe>>
  /\ UNCHANGED <<loop, checkVars, connected, timers, watchdog, interrupted>>

\* The device loses its registers.  It is away for longer than the pause between
\* the watchdog's write and its read.
DeviceRestarts ==
  /\ loop # "pause"
  /\ network' = "down" /\ register' = 0 /\ pending' = FALSE /\ safe' = {}
  /\ interrupted' = (loop = "safe")
  /\ UNCHANGED <<program, refuses, loop, checkVars, connected, timers, watchdog>>

---------------------------------------------------------------------------
(* The connection check.                                                   *)

\* Nothing happens while a check is in progress.  A connection attempt is lost,
\* or under way, or decided at once.
StartCheck ==
  \/ check # "IDLE" /\ UNCHANGED checkVars
  \/ /\ check = "IDLE"
     /\ \/ ~Arrives /\ check' = "CLEANUP" /\ sock' \in {"none", "lost"} /\ success' = FALSE
        \/ ~Arrives /\ check' = "CONNECTING" /\ sock' = "lost" /\ success' = FALSE
        \/ Arrives /\ check' = "CONNECTING" /\ sock' = "out" /\ success' = FALSE
        \/ Arrives /\ check' = "CLEANUP" /\ sock' = "out" /\ success' = TRUE

LoopBegins ==
  /\ loop = "idle" /\ loop' = "check"
  /\ \/ checkDue /\ checkDue' = FALSE /\ StartCheck
     \/ ~checkDue /\ UNCHANGED <<checkDue, checkVars>>
  /\ UNCHANGED <<network, device, connected, watchDue, watchdog, interrupted>>

Processed ==
  /\ loop = "check" /\ loop' = "watchdog"
  /\ UNCHANGED <<network, device, timers, watchdog, interrupted>>

NothingToCheck ==
  /\ Processed
  /\ check \in {"IDLE", "CONNECTING"}
  /\ UNCHANGED <<checkVars, connected>>

\* The socket becomes writable, reports an error, or 500 ms pass.  A request
\* that got out is answered unless the device has gone since; a lost one is
\* repeated by the network stack, and may be in time or not.
CheckDecided ==
  /\ Processed
  /\ check = "CONNECTING" /\ check' = "CLEANUP"
  /\ success' \in BOOLEAN
  /\ success' => Arrives \/ sock = "out"
  /\ ~success' => ~Arrives \/ sock = "lost"
  /\ UNCHANGED <<sock, connected>>

\* The result may be older than what a request has found since.
CleanUp ==
  /\ Processed
  /\ check = "CLEANUP" /\ check' = "IDLE"
  /\ sock' = "none"
  /\ connected' = success
  /\ UNCHANGED success

---------------------------------------------------------------------------
(* The watchdog.                                                           *)

NextCount == (counter + 1) % CounterSize

\* Mutant: the activation starts behind the first register.
ActivateFromSecond ==
  /\ safeMode' = TRUE
  /\ \/ safeMode /\ loop' = "idle" /\ UNCHANGED <<next, interrupted>>
     \/ ~safeMode /\ loop' = "safe" /\ next' = 2 /\ interrupted' = ~Writable

\* activate_safe_mode: once active, it is not repeated.
Activate ==
  /\ safeMode' = TRUE
  /\ \/ safeMode /\ loop' = "idle" /\ UNCHANGED <<next, interrupted>>
     \/ ~safeMode /\ loop' = "safe" /\ next' = 1 /\ interrupted' = ~Writable

NotDue ==
  /\ loop = "watchdog" /\ loop' = "idle"
  /\ ~watchDue
  /\ UNCHANGED <<network, device, checkVars, connected, timers, watchdog, interrupted>>

WatchdogDisconnected ==
  /\ loop = "watchdog"
  /\ watchDue /\ watchDue' = FALSE
  /\ ~connected
  /\ Activate
  /\ UNCHANGED <<network, device, checkVars, connected, checkDue, counter>>

\* Any reply, an exception too, counts as a successful write.
WatchdogWrite ==
  /\ loop = "watchdog"
  /\ watchDue /\ watchDue' = FALSE
  /\ connected
  /\ counter' = NextCount
  /\ register' = (IF Writable THEN counter' ELSE register)
  /\ pending' = (Writable \/ pending)
  /\ connected' = WriteSucceeds
  /\ \/ WriteSucceeds /\ loop' = "pause" /\ UNCHANGED <<safeMode, next, interrupted>>
     \/ ~WriteSucceeds /\ Activate
  /\ UNCHANGED <<network, program, refuses, safe, checkVars, checkDue>>

\* A cycling program answers within the pause of 100 ms.
PauseOver == loop = "pause" /\ (program = "cycling" => ~pending)

\* Mutant: every value that can be read shows that the device is alive.
AliveAlways == TRUE

\* The device has changed what was written.
DeviceAlive == register # counter

\* Mutant: a device that is alive again does not end safe mode.
ReadAliveKeepsSafeMode ==
  /\ PauseOver /\ ReadSucceeds(FALSE) /\ DeviceAlive
  /\ loop' = "idle"
  /\ counter' = register
  /\ connected' = TRUE
  /\ UNCHANGED <<network, device, checkVars, timers, safeMode, next, interrupted>>

ReadAlive ==
  /\ PauseOver /\ ReadSucceeds(FALSE) /\ DeviceAlive
  /\ loop' = "idle"
  /\ counter' = register
  /\ safeMode' = FALSE
  /\ connected' = TRUE
  /\ UNCHANGED <<network, device, checkVars, timers, next, interrupted>>

ReadFails ==
  /\ PauseOver /\ ~(ReadSucceeds(FALSE) /\ DeviceAlive)
  /\ connected' = ReadSucceeds(FALSE)
  /\ Activate
  /\ UNCHANGED <<network, device, checkVars, timers, counter>>

\* Each safe value is written whatever became of the ones before it.
WriteSafeValue ==
  /\ loop = "safe" /\ next \in Registers
  /\ next' = next + 1
  /\ safe' = (IF Writable THEN safe \cup {next} ELSE safe)
  /\ connected' = WriteSucceeds
  /\ UNCHANGED <<network, program, refuses, register, pending, loop, checkVars>>
  /\ UNCHANGED <<timers, counter, safeMode, interrupted>>

SafeModeWritten ==
  /\ loop = "safe" /\ next > Outputs
  /\ loop' = "idle" /\ next' = 1 /\ interrupted' = FALSE
  /\ UNCHANGED <<network, device, checkVars, connected, timers, counter, safeMode>>

---------------------------------------------------------------------------
(* Between two iterations: sensors and the application.                    *)

\* A sensor that finds no connection asks for a check, whose result it cannot
\* see yet.
SensorDisconnected ==
  /\ loop = "idle" /\ ~connected
  /\ StartCheck
  /\ UNCHANGED <<network, device, loop, connected, timers, watchdog, interrupted>>

\* A sensor whose update comes up reads unless the rate limit shared by all
\* sensors makes it skip this update.  A read that fails, be it by an exception,
\* marks the connection as failed.
SensorReads ==
  /\ loop = "idle" /\ connected
  /\ connected' = ReadSucceeds(refuses = "sensors")
  /\ UNCHANGED <<network, device, loop, checkVars, timers, watchdog, interrupted>>

\* The application writes ordinary values to the outputs first .. last: safe
\* mode does not keep it from doing so.
Command(first, last) ==
  /\ loop = "idle"
  /\ safe' = (IF Writable THEN safe \ first..last ELSE safe)
  /\ connected' = WriteSucceeds
  /\ UNCHANGED <<network, program, refuses, register, pending, loop, checkVars>>
  /\ UNCHANGED <<timers, watchdog, interrupted>>

CheckElapses ==
  /\ ~checkDue /\ checkDue' = TRUE
  /\ UNCHANGED <<network, device, loop, checkVars, connected, watchDue, watchdog, interrupted>>

WatchdogElapses ==
  /\ ~watchDue /\ watchDue' = TRUE
  /\ UNCHANGED <<network, device, loop, checkVars, connected, checkDue, watchdog, interrupted>>

---------------------------------------------------------------------------
Loop ==
  \/ LoopBegins \/ NothingToCheck \/ CheckDecided \/ CleanUp
  \/ NotDue \/ WatchdogDisconnected \/ WatchdogWrite
  \/ ReadAlive \/ ReadFails \/ WriteSafeValue \/ SafeModeWritten

Next ==
  \/ NetworkChanges \/ ProgramChanges \/ DeviceActs \/ DeviceRestarts
  \/ Loop
  \/ SensorDisconnected \/ SensorReads
  \/ \E first, last \in Registers : first <= last /\ Command(first, last)
  \/ CheckElapses \/ WatchdogElapses

Spec == Init /\ [][Next]_vars

\* The main loop runs, the clock advances, a cycling program cycles; a check is
\* decided after 500 ms at the latest, however many iterations find it undecided.
Fairness ==
  /\ WF_vars(Loop) /\ WF_vars(DeviceActs)
  /\ WF_vars(CheckElapses) /\ WF_vars(WatchdogElapses)
  /\ SF_vars(CheckDecided)

FairSpec == Spec /\ Fairness

---------------------------------------------------------------------------
(* Properties.                                                             *)

DeviceTypes ==
  /\ network \in {"up", "slow", "down"}
  /\ program \in {"cycling", "stopped"}
  /\ refuses \in {"nothing", "writes", "sensors"}
  /\ register \in Count /\ pending \in BOOLEAN
  /\ safe \subseteq Registers
ManagerTypes ==
  /\ loop \in {"idle", "check", "watchdog", "pause", "safe"}
  /\ check \in {"IDLE", "CONNECTING", "CLEANUP"}
  /\ sock \in {"none", "out", "lost"} /\ success \in BOOLEAN
  /\ connected \in BOOLEAN
  /\ checkDue \in BOOLEAN /\ watchDue \in BOOLEAN
  /\ counter \in Count /\ safeMode \in BOOLEAN
  /\ next \in 1..(Outputs + 1) /\ interrupted \in BOOLEAN

\* Every variable has the type of the field it stands for; the counter wraps.
TypeOK == DeviceTypes /\ ManagerTypes

\* However checks are started (by the timer or by a sensor) and decided, no
\* socket is left open behind an idle check, none is polled without being open,
\* and a check that starts does not carry the success of the one before.
NoSocketLeak ==
  /\ check = "IDLE" => sock = "none"
  /\ check = "CONNECTING" => sock # "none" /\ ~success
  /\ check = "CLEANUP" /\ success => sock # "none"

\* When the activation of safe mode has gone through its list and the device
\* could be written all the time, be its replies late or not, every output
\* stands at its safe value.
ActivationWritesAll == loop = "safe" /\ next > Outputs /\ ~interrupted => safe = Registers

\* A device that is out of reach, or whose program has stopped, for good ends in
\* safe mode for good, whatever checks, sensor reads and lost replies do to the
\* connection flag.  A device that refuses the watchdog's writes is exempt: the
\* refusal counts as success, and the old value in the register as a change.
DeadDeviceEndsInSafeMode ==
  <>[](~Arrives \/ (program = "stopped" /\ refuses # "writes")) => <>[]safeMode

\* A device that is healthy for good is eventually connected and out of safe
\* mode for good.
Healthy == network = "up" /\ program = "cycling" /\ refuses = "nothing"
HealthyDeviceIsTrusted == <>[]Healthy => <>[](connected /\ ~safeMode)
=============================================================================
