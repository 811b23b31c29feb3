-------------------------- MODULE DummyThermostat --------------------------
(***************************************************************************)
(* The dummy thermostat: a climate entity whose temperature and valve      *)
(* position come from outside, by service calls, and which falls back on a *)
(* local sensor and on a local hysteresis when the calls stop.  Everything *)
(* runs in the main loop; time is the 32-bit millis(), here a counter that *)
(* wraps at W, one unit being the 500 ms the hysteresis waits between two  *)
(* decisions.  Timeouts are in the same unit.                              *)
(***************************************************************************)
EXTENDS Integers

CONSTANTS
  NaN,          \* no value
  Temperatures, \* what a sensor or the service may deliver
  Humidities,   \* the same for the humidity
  Modes,        \* the modes a user may choose
  Targets,      \* the setpoints a user may choose
  Deadband, Overrun, \* heating_deadband_ and heating_overrun_
  W,            \* millis() is counted modulo W
  Installations \* the configurations: the options of the YAML and, as a bound,
                \* the events considered with them

AllModes == {"off", "heat", "cool", "heat_cool"}
Events == {"valve", "temperature", "humidity", "fallback", "fallback humidity",
           "control", "enable", "use local", "switch", "restart"}

ASSUME ConstantsAssumption ==
  /\ NaN \notin Int
  /\ Temperatures \subseteq Int /\ Humidities \subseteq Int
  /\ Targets \subseteq Int /\ Targets # {} /\ Modes \subseteq AllModes /\ Modes # {}
  /\ Deadband \in Nat /\ Overrun \in Nat /\ W \in Nat \ {0}
  /\ Installations \subseteq
       [fallback_sensor : BOOLEAN, sensor_timeout : Nat, fallback_sensor_timeout : Nat,
        fallback_humidity_sensor : BOOLEAN, humidity_sensor_timeout : Nat,
        valve_update_timeout : Nat,
        valve_switch : BOOLEAN, events : SUBSET Events]

VARIABLES
  yaml,       \* the configuration; it never changes
  now,        \* millis()
  mode, target, temp, humidity, action, \* the climate entity
  shown,      \* the action last published
  valve,      \* valve_state_, the position asked for
  output,     \* last_valve_state_, what the valve was last told
  driven,     \* the state of the switch or output of the valve
  enabled, local,  \* valve_control_enabled and use_local_valve_control
  sensor, humidSensor,        \* what the fallback sensors show
  onFallback, humidOnFallback, \* using_fallback_temperature_ and ..._humidity_
  fallbackLost,  \* fallback_sensor_timed_out_
  onOwn,         \* valve_timeout_active_: the hysteresis decides
  tempAt, fallbackAt, humidAt, valveAt, decidedAt  \* the last_..._update_ times

stamps == <<tempAt, fallbackAt, humidAt, valveAt, decidedAt>>
flags == <<onFallback, humidOnFallback, fallbackLost, onOwn>>
outside == <<enabled, local, sensor, humidSensor>>
readings == <<temp, humidity>>
vars == <<yaml, now, mode, target, readings, action, shown, valve, output, driven, outside,
          flags, stamps>>

\* The time from `last` to t as unsigned 32-bit subtraction gives it.
Age(t, last) == (t - last) % W

---------------------------------------------------------------------------
(* What the handlers compute.                                              *)

\* update_temp_sensor_ and update_humidity_sensor_: a fallback in use that shows
\* something replaces the reading.
Refreshed(using, value, old) == IF using /\ value # NaN THEN value ELSE old

\* calculate_local_valve_state_ compares times and not their difference.
Due(t) == t >= (decidedAt + 1) % W

Hysteresis(m, g, degrees, v) ==
  CASE degrees = NaN -> v
    [] degrees # NaN /\ m \in {"heat", "heat_cool"} ->
         degrees < g - Deadband \/ (v /\ degrees < g + Overrun)
    [] OTHER -> FALSE

ActionOf(m, g, degrees, v) ==
  CASE m = "off" -> "off"
    [] m # "off" /\ ~v -> "idle"
    [] m = "heat" /\ v -> "heating"
    [] m = "cool" /\ v -> "cooling"
    [] m = "heat_cool" /\ v ->
         IF degrees = NaN \/ degrees = g THEN "idle"
         ELSE IF degrees < g THEN "heating" ELSE "cooling"

Gate(m, v) == enabled /\ v /\ m # "off"

---------------------------------------------------------------------------
(* Starting.  The mode and the setpoint are the ones that were saved, the  *)
(* sensors have shown nothing yet and the valve is shut.                   *)

Setup ==
  /\ now' = 0 /\ mode' = mode /\ target' = target
  /\ temp' = NaN /\ humidity' = NaN
  /\ valve' = FALSE /\ output' = FALSE /\ driven' = FALSE
  /\ action' = ActionOf(mode, target, NaN, FALSE) /\ shown' = action'
  /\ sensor' = NaN /\ humidSensor' = NaN
  /\ onFallback' = TRUE /\ humidOnFallback' = TRUE
  /\ fallbackLost' = FALSE /\ onOwn' = TRUE
  /\ tempAt' = 0 /\ fallbackAt' = 0 /\ humidAt' = 0 /\ valveAt' = 0 /\ decidedAt' = 0
  /\ UNCHANGED <<enabled, local>>

Restart == Setup

Init ==
  /\ yaml \in Installations
  /\ now = 0 /\ mode \in Modes /\ target \in Targets
  /\ temp = NaN /\ humidity = NaN /\ valve = FALSE
  /\ output = FALSE /\ driven = FALSE
  /\ action = ActionOf(mode, target, NaN, FALSE) /\ shown = action
  /\ enabled = TRUE /\ local = FALSE /\ sensor = NaN /\ humidSensor = NaN
  /\ onFallback = TRUE /\ humidOnFallback = TRUE /\ fallbackLost = FALSE /\ onOwn = TRUE
  /\ tempAt = 0 /\ fallbackAt = 0 /\ humidAt = 0 /\ valveAt = 0 /\ decidedAt = 0

---------------------------------------------------------------------------
(* loop().                                                                 *)

\* Mutant: the clock is compared with a deadline, as Due does.
LateByClock(t) == t > (tempAt + yaml.sensor_timeout) % W

\* 55-69: the main source is late, or in time again.
Late(t) == Age(t, tempAt) > yaml.sensor_timeout
Switches(t) ==
  yaml.sensor_timeout > 0 /\ yaml.fallback_sensor /\ Late(t) # onFallback

\* 71-87: the fallback, once in use, is watched too.  The switch to it has just
\* renewed its time stamp.
Watched == yaml.fallback_sensor_timeout > 0 /\ yaml.fallback_sensor /\ onFallback'
Lost(t) ==
  ~(Switches(t) /\ onFallback') /\ Age(t, fallbackAt) > yaml.fallback_sensor_timeout
LostBefore(t) == fallbackLost /\ ~(Switches(t) /\ ~Late(t))

Sources(t) ==
  /\ onFallback' = IF Switches(t) THEN Late(t) ELSE onFallback
  /\ fallbackLost' = IF Watched THEN Lost(t) ELSE LostBefore(t)
  /\ LET found == Watched /\ LostBefore(t) /\ ~Lost(t)
         gone == Watched /\ ~LostBefore(t) /\ Lost(t)
         refresh == onFallback' /\ (Switches(t) \/ found)
     IN /\ temp' = IF gone THEN NaN ELSE Refreshed(refresh, sensor, temp)
        /\ fallbackAt' = IF refresh THEN t ELSE fallbackAt
  /\ UNCHANGED tempAt

\* 89-102: taking the fallback renews the time stamp of the main source.
HumiditySources(t) ==
  LET late == Age(t, humidAt) > yaml.humidity_sensor_timeout
      switches == /\ yaml.humidity_sensor_timeout > 0 /\ yaml.fallback_humidity_sensor
                  /\ late # humidOnFallback
  IN /\ humidOnFallback' = IF switches THEN late ELSE humidOnFallback
     /\ humidity' = Refreshed(switches /\ late, humidSensor, humidity)
     /\ humidAt' = IF switches /\ late THEN t ELSE humidAt

\* Mutant: an outside command ends local control for good.
ValveSourceForGood(t) ==
  onOwn' = IF yaml.valve_update_timeout > 0
           THEN onOwn /\ Age(t, valveAt) > yaml.valve_update_timeout ELSE onOwn

\* 104-117
ValveSource(t) ==
  onOwn' = IF yaml.valve_update_timeout > 0
           THEN Age(t, valveAt) > yaml.valve_update_timeout ELSE onOwn

\* Mutant: the hysteresis runs before the time-out was looked at.
DecideEarly(asked, t) ==
  LET due == (asked \/ onOwn) /\ Due(t)
  IN /\ decidedAt' = IF due THEN t ELSE decidedAt
     /\ valve' = IF due THEN Hysteresis(mode', target', temp', valve) ELSE valve

\* The hysteresis, if it is asked and due; it publishes the position before the
\* action that goes with it is known.
Decide(asked, t) ==
  LET due == asked /\ Due(t)
  IN /\ decidedAt' = IF due THEN t ELSE decidedAt
     /\ valve' = IF due THEN Hysteresis(mode', target', temp', valve) ELSE valve

\* calculate_action_from_valve_and_mode_ and update_valve_output_: a switch that
\* somebody else moved is moved back.
Act ==
  /\ action' = ActionOf(mode', target', temp', valve')
  /\ output' = Gate(mode', valve') /\ driven' = output'

\* update_valve_output_ publishes a change of the output, if it is a switch; the
\* publications before it still say the former action.
PublishedLast == yaml.valve_switch /\ output' # output
PublishedFirst ==
  \/ readings' # readings \/ valve' # valve
  \/ fallbackLost' /\ ~fallbackLost

Shows ==
  shown' = IF PublishedLast THEN action' ELSE IF PublishedFirst THEN action ELSE shown

LoopAt(t) ==
  /\ now' = t
  /\ UNCHANGED <<mode, target, valveAt, outside>>
  /\ Sources(t) /\ HumiditySources(t) /\ ValveSource(t)
  /\ Decide(onOwn', t) /\ Act /\ Shows

\* Several passes may see the same time.
LoopAgain == LoopAt(now)
LoopNext == LoopAt((now + 1) % W)

---------------------------------------------------------------------------
(* The calls.                                                              *)

OwnDecision == local \/ onOwn

Control ==
  \E m \in Modes, g \in Targets :
    /\ mode' = m /\ target' = g
    /\ UNCHANGED <<now, readings, outside, flags, tempAt, fallbackAt, humidAt, valveAt>>
    /\ Decide(OwnDecision, now) /\ Act /\ shown' = action'

SetValveState ==
  \E v \in BOOLEAN :
    /\ valve' = v /\ valveAt' = now
    /\ UNCHANGED <<now, mode, target, readings, outside, flags,
                   tempAt, fallbackAt, humidAt, decidedAt>>
    /\ Act /\ shown' = action'

SetCurrentTemperature ==
  \E degrees \in Temperatures :
    /\ temp' = degrees /\ tempAt' = now
    /\ UNCHANGED <<now, mode, target, humidity, outside, flags,
                   fallbackAt, humidAt, valveAt>>
    /\ Decide(OwnDecision, now) /\ Act /\ shown' = action'

\* The output is left to the next pass.
SetCurrentHumidity ==
  \E h \in Humidities :
    /\ humidity' = h /\ humidAt' = now
    /\ action' = ActionOf(mode, target, temp, valve) /\ shown' = action'
    /\ UNCHANGED <<now, mode, target, temp, valve, output, driven, outside, flags,
                   tempAt, fallbackAt, valveAt, decidedAt>>

\* The callbacks of the fallback sensors.  Both renew the time stamp of the
\* source whose place the fallback takes: the humidity's is the main source.
FallbackReads ==
  /\ yaml.fallback_sensor
  /\ \E degrees \in Temperatures \cup {NaN} :
       /\ sensor' = degrees /\ fallbackAt' = now
       /\ temp' = Refreshed(onFallback, degrees, temp)
       /\ shown' = IF temp' # temp THEN action ELSE shown
       /\ UNCHANGED <<now, mode, target, humidity, action, valve, output, driven,
                      enabled, local, humidSensor, flags,
                      tempAt, humidAt, valveAt, decidedAt>>

FallbackHumidityReads ==
  /\ yaml.fallback_humidity_sensor
  /\ \E h \in Humidities \cup {NaN} :
       /\ humidSensor' = h
       /\ humidAt' = IF humidOnFallback THEN now ELSE humidAt
       /\ humidity' = Refreshed(humidOnFallback, h, humidity)
       /\ shown' = IF humidity' # humidity THEN action ELSE shown
       /\ UNCHANGED <<now, mode, target, temp, action, valve, output, driven,
                      enabled, local, sensor, flags,
                      tempAt, fallbackAt, valveAt, decidedAt>>

\* What the two lambdas say changes, or somebody turns the switch of the valve.
entity == <<now, mode, target, readings, action, shown, valve, output>>

Enable ==
  /\ enabled' = ~enabled
  /\ UNCHANGED <<entity, driven, local, sensor, humidSensor, flags, stamps>>

UseLocal ==
  /\ local' = ~local
  /\ UNCHANGED <<entity, driven, enabled, sensor, humidSensor, flags, stamps>>

TurnSwitch ==
  /\ yaml.valve_switch /\ driven' = ~driven
  /\ UNCHANGED <<entity, outside, flags, stamps>>

Happens(event, Action) == event \in yaml.events /\ Action

Call ==
  \/ Happens("valve", SetValveState)
  \/ Happens("temperature", SetCurrentTemperature)
  \/ Happens("humidity", SetCurrentHumidity)
  \/ Happens("fallback", FallbackReads)
  \/ Happens("fallback humidity", FallbackHumidityReads)
  \/ Happens("control", Control)
  \/ Happens("enable", Enable)
  \/ Happens("use local", UseLocal)
  \/ Happens("switch", TurnSwitch)
  \/ Happens("restart", Restart)

Next == UNCHANGED yaml /\ (LoopAgain \/ LoopNext \/ Call)

\* The main loop goes on.
Fairness == WF_vars(UNCHANGED yaml /\ LoopNext)

Spec == Init /\ [][Next]_vars /\ Fairness

---------------------------------------------------------------------------
(* Properties.                                                             *)

Actions == {"off", "idle", "heating", "cooling"}
Times == 0..(W - 1)

EntityTypes ==
  /\ yaml \in Installations
  /\ mode \in Modes /\ target \in Targets
  /\ temp \in Temperatures \cup {NaN} /\ humidity \in Humidities \cup {NaN}
  /\ action \in Actions /\ shown \in Actions
SourceTypes ==
  /\ sensor \in Temperatures \cup {NaN} /\ humidSensor \in Humidities \cup {NaN}
  /\ enabled \in BOOLEAN /\ local \in BOOLEAN
  /\ onFallback \in BOOLEAN /\ humidOnFallback \in BOOLEAN /\ fallbackLost \in BOOLEAN
ValveTypes ==
  /\ valve \in BOOLEAN /\ output \in BOOLEAN /\ driven \in BOOLEAN /\ onOwn \in BOOLEAN
StampTypes ==
  /\ now \in Times /\ tempAt \in Times /\ fallbackAt \in Times
  /\ humidAt \in Times /\ valveAt \in Times /\ decidedAt \in Times

\* Every variable has its type, and the time stamps are times.
TypeOK == EntityTypes /\ SourceTypes /\ ValveTypes /\ StampTypes

\* loop() leaves an outside command alone until valve_update_timeout has passed
\* without another one (104-117), across the wrap of millis().
CommandOutlastsLoop ==
  [][\/ valve' = valve \/ ~(LoopAgain \/ LoopNext)
     \/ yaml.valve_update_timeout = 0
     \/ Age(now', valveAt) > yaml.valve_update_timeout]_vars

\* From some time on only loop() runs.
Silence == <>[][LoopAgain \/ LoopNext]_vars

\* The hysteresis has opened the valve of a room that is too cold, or need not.
ColdRoomHeated ==
  valve \/ temp = NaN \/ mode # "heat" \/ temp >= target - Deadband

\* No reading of the clock lets the hysteresis decide again: from now on every time
\* that is due falls before the time-out, because the clock wraps in between.
Stalled ==
  /\ yaml.valve_update_timeout > 0
  /\ \A t \in Times : Due(t) => Age(t, valveAt) <= yaml.valve_update_timeout

\* When everything outside falls silent, the hysteresis takes over in the end and
\* heats a cold room (104-122).  It does not when the last command has not timed out
\* before millis() wraps and the last decision lies less than 500 ms before it (215).
LocalTakesOverOrStalls == Silence => []<>(ColdRoomHeated \/ Stalled)

\* When the temperatures fall silent, main source and fallback, the thermostat
\* admits again and again that it has none (55-87).
DeadSensorsAreNoticed ==
  Silence => []<>(\/ temp = NaN \/ ~yaml.fallback_sensor
                  \/ yaml.sensor_timeout = 0 \/ yaml.fallback_sensor_timeout = 0)

=============================================================================
