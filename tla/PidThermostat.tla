--------------------------- MODULE PidThermostat ---------------------------
(***************************************************************************)
(* The PID thermostat: a climate entity that turns a valve switch by pulse *)
(* width, recomputes its output once per PWM period or sampling period,    *)
(* may be overridden by hand, tested, retuned and restarted.  Its handlers *)
(* run one at a time in the main loop and call each other, so an operator  *)
(* maps the state of the object to the state after the call, and an action *)
(* is the whole handler.  Reals are integers, NAN is a value of its own.   *)
(***************************************************************************)
EXTENDS Integers

CONSTANTS
  NaN,         \* no value
  Temperatures,\* what a temperature sensor may show
  Humidities,  \* what the humidity sensors may show
  DewPoint(_, _), \* DewPoint(t, h), the dew point at t and h
  Targets,     \* the setpoints a user may choose
  Config,      \* Config[k]: number k as the setters leave it that apply the YAML
  Writes,      \* the values a user gives the numbers: records of kind and value
  MinPeriod,   \* the shortest PWM period; 10 s in the code
  LegacyTolerance, NewTolerance,  \* the former default of the tolerances and today's
  Scenarios,   \* bound: the sets of kinds of events considered together
  Delays,      \* bound: the ticks that may pass between two passes of loop()
  MaxAge       \* bound: timers stop here, beyond every period

Kinds == {"kp", "ki", "kd", "i_min", "i_max", "cold_tolerance", "hot_tolerance",
          "sampling_period", "keep_alive", "min_cycle_duration",
          "min_off_cycle_duration", "pwm_period", "pwm_min", "pwm_max",
          "dew_point_offset", "output_safety", "test_output"}
Percentages == {"pwm_min", "pwm_max", "output_safety", "test_output"}
Tolerances == {"cold_tolerance", "hot_tolerance"}

Modes == {"off", "heat", "cool"}
Events == {"sensor", "fallback", "humidity", "service", "mode", "target", "reset",
           "enable", "hand", "commission", "restart"} \cup Kinds

\* What the schema and the limits of the numbers leave possible.
Legal(k) ==
  CASE k \in {"kp", "ki", "kd", "i_min", "i_max"} -> Int
    [] k \in Percentages -> 0..100
    [] k = "pwm_period" -> {p \in Nat : p >= MinPeriod}
    [] OTHER -> Nat

ASSUME ConstantsAssumption ==
  /\ NaN \notin Int
  /\ Temperatures \subseteq Int /\ Humidities \subseteq Nat \ {0} /\ Targets \subseteq Int
  /\ Targets # {}
  /\ \A t \in Temperatures, h \in Humidities : DewPoint(t, h) \in Int
  /\ DOMAIN Config = Kinds /\ \A k \in Kinds : Config[k] \in Legal(k)
  /\ Config["i_min"] <= Config["i_max"] /\ Config["pwm_min"] <= Config["pwm_max"]
  /\ MinPeriod \in Nat \ {0} /\ LegacyTolerance \in Nat /\ NewTolerance \in Nat
  /\ \A w \in Writes : w.kind \in Kinds /\ w.value \in Legal(w.kind)
  /\ Scenarios \subseteq SUBSET Events
  /\ Delays \subseteq Nat \ {0} /\ MaxAge \in Nat

VARIABLES
  primary, fallback,  \* sensor_ and fallback_sensor_: what they show
  humid,              \* what the humidity sensors show
  enabled,            \* what valve_control_enabled says
  stored,             \* the numbers in flash
  pid,                \* the object
  scenario            \* the kinds of events that happen

environment == <<primary, fallback, humid, enabled>>
vars == <<environment, stored, pid, scenario>>

Least(a, b) == IF a < b THEN a ELSE b
Most(a, b) == IF a < b THEN b ELSE a
Clamp(v, lo, hi) == Most(lo, Least(v, hi))

\* Op(x).  TLC evaluates x once and not wherever Op uses it.
Do(Op(_), x) == CHOOSE r \in {Op(s) : s \in {x}} : TRUE

---------------------------------------------------------------------------
(* The control law.                                                        *)

\* update_temp_sensor_ and update_humidity_sensor_ first renew the time stamp of
\* every source that has a value, so no time-out elapses for one that has: only NAN
\* makes a source invalid.
Sensed(p, f) == IF p # NaN THEN p ELSE f

SenseAll(s) == [s EXCEPT !.current = Sensed(primary, fallback), !.humidity = humid]

EffectiveTarget(s) ==
  IF s.mode = "cool" /\ s.humidity # NaN /\ s.current # NaN
    THEN Most(s.target, DewPoint(s.current, s.humidity) + s.number["dew_point_offset"])
    ELSE s.target

Error(s) ==
  IF s.mode = "heat" THEN EffectiveTarget(s) - s.current ELSE s.current - EffectiveTarget(s)

CutOff(s) ==
  \/ /\ s.mode = "heat" /\ s.number["hot_tolerance"] > 0
     /\ s.current >= EffectiveTarget(s) + s.number["hot_tolerance"]
  \/ /\ s.mode # "heat" /\ s.number["cold_tolerance"] > 0
     /\ s.current <= EffectiveTarget(s) - s.number["cold_tolerance"]

Off(s) ==
  [s EXCEPT !.output = 0, !.raw = 0, !.error = 0, !.effective = s.target, !.sinceCompute = 0]

Blind(s) ==
  LET safe == IF s.mode = "heat" THEN Clamp(s.number["output_safety"], 0, 100) ELSE 0
  IN  [s EXCEPT !.output = safe, !.raw = safe, !.error = NaN, !.effective = s.target,
                !.sinceCompute = 0]

\* The derivative is rounded to an integer.
Regulate(s) ==
  LET dt == IF s.sinceCompute > 0 THEN s.sinceCompute ELSE 1
      derivative == IF s.error = NaN THEN 0
                    ELSE (s.number["kd"] * (Error(s) - s.error)) \div dt
      integral == Clamp(s.integral + s.number["ki"] * Error(s) * dt,
                        s.number["i_min"], s.number["i_max"])
      raw == s.number["kp"] * Error(s) + integral + derivative
      limited == IF raw <= 0 THEN 0 ELSE Clamp(raw, s.number["pwm_min"], s.number["pwm_max"])
  IN  [s EXCEPT !.integral = integral, !.raw = raw, !.error = Error(s),
                !.effective = EffectiveTarget(s), !.sinceCompute = 0,
                !.output = IF CutOff(s) THEN 0 ELSE Clamp(limited, 0, 100)]

\* pending_recompute_ decides nothing: every call is forced or due for a sample.
Calculate(s) ==
  CASE s.mode = "off" -> Off(s)
    [] s.mode # "off" /\ s.current = NaN -> Blind(s)
    [] OTHER -> Regulate(s)

---------------------------------------------------------------------------
(* What the entity shows, and the valve.                                   *)

ActiveOutput(s) == IF s.commissioning THEN s.number["test_output"] ELSE s.output

Reason(s) ==
  CASE s.commissioning -> "commissioning"
    [] ~s.commissioning /\ s.mode = "off" -> "mode_off"
    [] ~s.commissioning /\ s.mode # "off" /\ ~s.seen -> "manual_override"
    [] OTHER ->
         IF s.current = NaN
           THEN IF s.mode = "heat" /\ s.output > 0 THEN "safety_output" ELSE "sensor_missing"
         ELSE IF CutOff([s EXCEPT !.target = s.effective, !.humidity = NaN]) THEN "blocked"
         ELSE IF s.raw <= 0 THEN "pid_below_zero"
         ELSE IF s.output >= s.number["pwm_max"] THEN "clamped_pwm_max"
         ELSE IF s.output = 0 THEN "inactive"
         ELSE IF s.output < s.number["pwm_min"] THEN "raised_to_pwm_min" ELSE "active"

\* publish_child_states_: the diagnostic entities, of which these are modelled.
Publish(s) ==
  [s EXCEPT !.shown = [output |-> ActiveOutput(s), reason |-> Reason(s), valve |-> s.switch]]
PublishValve(s) == [s EXCEPT !.shown.valve = s.switch]

UpdateAction(s) ==
  [s EXCEPT !.action = CASE s.mode = "off" -> "off"
                         [] s.mode # "off" /\ ~s.switch -> "idle"
                         [] s.mode = "heat" /\ s.switch -> "heating"
                         [] s.mode = "cool" /\ s.switch -> "cooling"]

WantsOpen(s) ==
  /\ s.mode # "off" /\ enabled /\ ActiveOutput(s) > 0
  /\ \/ ActiveOutput(s) >= 100
     \/ s.sinceCycle < (s.number["pwm_period"] * ActiveOutput(s)) \div 100

\* The valve may not change yet, unless the call is forced.
Held(s) ==
  s.sinceChange < s.number[IF s.valve THEN "min_cycle_duration" ELSE "min_off_cycle_duration"]

Turn(s, open) ==
  [s EXCEPT !.valve = open, !.switch = open,
            !.sinceChange = IF open # s.valve THEN 0 ELSE s.sinceChange]

FollowHand(s) ==
  IF s.valve = s.switch THEN s
  ELSE Do(UpdateAction, PublishValve([s EXCEPT !.valve = s.switch, !.sinceChange = 0]))

\* Mutant: valve_control_enabled only decides what is wanted.
DriveAlways(s, force) ==
  LET open == IF WantsOpen(s) # s.valve /\ ~force /\ Held(s) THEN s.valve ELSE WantsOpen(s)
  IN  Do(UpdateAction, Do(PublishValve, Turn(s, open)))

\* update_valve_output_ after it has looked at valve_control_enabled.
Drive(s, force) ==
  IF ~enabled /\ ~s.commissioning THEN FollowHand(s)
  ELSE LET open == IF WantsOpen(s) # s.valve /\ ~force /\ Held(s) THEN s.valve ELSE WantsOpen(s)
       IN  Do(UpdateAction, Do(PublishValve, Turn(s, open)))

\* reset_controller up to its call of update_valve_output_.
Zeroed(s) ==
  [s EXCEPT !.integral = 0, !.sinceCompute = 0, !.sinceCycle = 0,
            !.error = IF s.current = NaN THEN 0 ELSE Error(s)]
Restarted(s) == Do(UpdateAction, Do(Calculate, Zeroed(s)))

HandOver(s) ==
  Do(Publish, Do(UpdateAction, [s EXCEPT !.seen = FALSE, !.integral = 0, !.output = 0, !.raw = 0,
                                         !.error = 0, !.sinceCycle = 0]))

UpdateValve(s, force) ==
  LET drive(u) == Drive(u, force)
      driveNow(u) == Drive(u, TRUE)
  IN  CASE enabled /\ ~s.seen ->
             Do(Publish, Do(driveNow, Do(Restarted, [s EXCEPT !.seen = TRUE])))
        [] ~enabled /\ s.seen -> Do(drive, Do(HandOver, s))
        [] enabled = s.seen -> Drive(s, force)

UpdateValveNow(s) == UpdateValve(s, TRUE)

ResetController(s) == Do(Publish, Do(UpdateValveNow, Do(Restarted, s)))

---------------------------------------------------------------------------
(* The numbers: what a setter keeps, what it pushes along, what it saves.  *)

Limited(s, k, v) ==
  CASE k = "i_min" -> Least(v, s.number["i_max"])
    [] k = "i_max" -> Most(v, s.number["i_min"])
    [] k \in Tolerances -> Most(0, v)
    [] k \in Percentages -> Clamp(v, 0, 100)
    [] k = "pwm_period" -> Most(v, MinPeriod)
    [] OTHER -> v

\* set_pwm_min and set_pwm_max push each other along.
Pushed(n, k) ==
  CASE k = "pwm_min" -> [n EXCEPT !["pwm_max"] = Most(@, n["pwm_min"])]
    [] k = "pwm_max" -> [n EXCEPT !["pwm_min"] = Least(@, n["pwm_max"])]
    [] OTHER -> n

Numbers(s, k, v) == Pushed([s.number EXCEPT ![k] = Limited(s, k, v)], k)

SetNumber(s, k, v) ==
  LET set == [s EXCEPT !.number = Numbers(s, k, v),
                       !.sinceCycle = IF k = "pwm_period" THEN 0 ELSE @]
  IN  CASE k \in {"i_min", "i_max"} ->
             Do(Publish, [set EXCEPT !.integral =
                            Clamp(@, set.number["i_min"], set.number["i_max"])])
        [] k = "test_output" /\ set.number = s.number -> s
        [] k = "test_output" /\ set.number # s.number ->
             Do(Publish, IF s.commissioning THEN Do(UpdateValveNow, set) ELSE set)
        [] k = "dew_point_offset" -> set
        [] OTHER -> Do(Publish, set)

\* Mutant: the number that is pushed along is not saved.
SavedAlone(s, k, v) ==
  [j \in Kinds |->
     IF j = k /\ (k # "test_output" \/ Numbers(s, k, v)[j] # s.number[j])
       THEN Numbers(s, k, v)[j] ELSE stored[j]]

Saved(s, k, v) ==
  [j \in Kinds |->
     IF (j = k /\ k # "test_output") \/ Numbers(s, k, v)[j] # s.number[j]
       THEN Numbers(s, k, v)[j] ELSE stored[j]]

\* init_and_restore: the tolerances that hold the former default are migrated.
Migrated(k) == k \in Tolerances /\ stored[k] = LegacyTolerance /\ Config[k] = NewTolerance

\* restore_number_values_ goes through the numbers in the order of their
\* registration, which puts i_min before i_max and pwm_min before pwm_max: each
\* value meets the limits of the configuration or of the values before it.
Restored ==
  LET Kept(k) == IF stored[k] = NaN \/ Migrated(k) THEN Config[k] ELSE stored[k]
      i_min == Least(Kept("i_min"), Config["i_max"])
      pwm_max == IF stored["pwm_max"] = NaN THEN Most(Config["pwm_max"], Kept("pwm_min"))
                 ELSE stored["pwm_max"]
  IN  [k \in Kinds |->
         CASE k = "i_min" -> i_min
           [] k = "i_max" -> Most(Kept("i_max"), i_min)
           [] k = "pwm_min" -> Least(Kept("pwm_min"), pwm_max)
           [] k = "pwm_max" -> pwm_max
           [] OTHER -> Kept(k)]

---------------------------------------------------------------------------
(* Start, and the pass of the main loop.                                   *)

\* The setters that apply the configuration clamp the integral, which is 0, and save
\* it, since nothing was saved before: what flash held of it is lost, and
\* restore_integral_state_ reads this 0 back and clamps it.
Fresh(mode, target, number, switch) ==
  [mode |-> mode, target |-> target, current |-> NaN, humidity |-> NaN, number |-> number,
   integral |-> Clamp(Clamp(0, Config["i_min"], Config["i_max"]),
                      number["i_min"], number["i_max"]),
   error |-> 0, raw |-> 0, output |-> 0, effective |-> target,
   valve |-> FALSE, switch |-> switch, seen |-> enabled, commissioning |-> FALSE,
   action |-> "off", shown |-> [output |-> 0, reason |-> "mode_off", valve |-> switch],
   sinceCompute |-> 0, sinceCycle |-> 0, sinceChange |-> 0, sinceKeep |-> 0]

SetUp(s) == Do(Publish, Do(UpdateValveNow, Do(UpdateAction, Do(Calculate, s))))

Init ==
  /\ scenario \in Scenarios
  /\ primary = NaN /\ fallback = NaN /\ humid = NaN /\ enabled = TRUE
  /\ stored = [k \in Kinds |-> NaN]
  /\ \E t \in Targets : pid = SetUp(Fresh("off", t, Restored, FALSE))

Aged(age, d) == Least(age + d, MaxAge)
Older(s, d) ==
  [s EXCEPT !.sinceCompute = Aged(@, d), !.sinceCycle = Aged(@, d),
            !.sinceChange = Aged(@, d), !.sinceKeep = Aged(@, d)]

KeepAliveDue(s) == s.number["keep_alive"] > 0 /\ s.sinceKeep >= s.number["keep_alive"]
SampleDue(s) ==
  s.number["sampling_period"] > 0 /\ s.sinceCompute >= s.number["sampling_period"]

\* Mutant: the calculation waits for a sensor.
RecomputedWhenSensed(s) ==
  IF s.current # NaN /\ s.sinceCycle >= s.number["pwm_period"]
    THEN Do(Publish, Do(UpdateAction, Do(Calculate, [s EXCEPT !.sinceCycle = 0]))) ELSE s

\* The calculation of a pass: once in a PWM period, else when a sample is due.
Recomputed(s) ==
  CASE s.sinceCycle >= s.number["pwm_period"] ->
         Do(Publish, Do(UpdateAction, Do(Calculate, [s EXCEPT !.sinceCycle = 0])))
    [] s.sinceCycle < s.number["pwm_period"] /\ SampleDue(s) ->
         Do(Publish, Do(UpdateAction, Do(Calculate, s)))
    [] OTHER -> s

Passed(s) ==
  LET kept == [s EXCEPT !.sinceKeep = IF KeepAliveDue(s) THEN 0 ELSE @]
      drive(u) == UpdateValve(u, KeepAliveDue(s))
  IN  Do(drive, Do(Recomputed, kept))

Loop(d) ==
  /\ pid' = Do(Passed, SenseAll(Older(pid, d)))
  /\ UNCHANGED <<environment, stored, scenario>>

---------------------------------------------------------------------------
(* What happens between two passes.                                        *)

SensorShows(t) ==
  /\ "sensor" \in scenario /\ primary' = t
  /\ pid' = [pid EXCEPT !.current = Sensed(t, fallback)]
  /\ UNCHANGED <<fallback, humid, enabled, stored, scenario>>

FallbackShows(t) ==
  /\ "fallback" \in scenario /\ fallback' = t
  /\ pid' = [pid EXCEPT !.current = Sensed(primary, t)]
  /\ UNCHANGED <<primary, humid, enabled, stored, scenario>>

HumidityShows(h) ==
  /\ "humidity" \in scenario /\ humid' = h
  /\ pid' = [pid EXCEPT !.humidity = h]
  /\ UNCHANGED <<primary, fallback, enabled, stored, scenario>>

Environmental == UNCHANGED <<environment, stored, scenario>>

\* set_current_temperature and set_current_humidity hold until the next pass, which
\* senses again.
ServiceTemperature(t) ==
  /\ "service" \in scenario /\ pid' = Publish([pid EXCEPT !.current = t]) /\ Environmental
ServiceHumidity(h) ==
  /\ "service" \in scenario /\ pid' = Publish([pid EXCEPT !.humidity = h]) /\ Environmental

\* control(call), with a mode or with a target.
ChooseMode(m) ==
  /\ "mode" \in scenario
  /\ LET call == [pid EXCEPT !.mode = m]
     IN  pid' = IF m # pid.mode \/ m = "off" THEN ResetController(call) ELSE UpdateAction(call)
  /\ Environmental

ChooseTarget(t) ==
  /\ "target" \in scenario
  /\ LET call == [pid EXCEPT !.target = t]
     IN  pid' = IF pid.mode = "off" THEN ResetController(call) ELSE UpdateAction(call)
  /\ Environmental

PressReset == "reset" \in scenario /\ pid' = ResetController(pid) /\ Environmental

Commission(on) ==
  /\ "commission" \in scenario /\ on # pid.commissioning
  /\ pid' = Do(Publish, Do(UpdateValveNow, [pid EXCEPT !.commissioning = on]))
  /\ Environmental

WriteNumber(w) ==
  /\ w.kind \in scenario
  /\ pid' = SetNumber(pid, w.kind, w.value)
  /\ stored' = Saved(pid, w.kind, w.value)
  /\ UNCHANGED <<environment, scenario>>

\* The condition valve_control_enabled, and the switch worked by hand.
EnableChanges ==
  /\ "enable" \in scenario /\ enabled' = ~enabled
  /\ UNCHANGED <<primary, fallback, humid, stored, pid, scenario>>

TurnByHand ==
  /\ "hand" \in scenario /\ pid' = [pid EXCEPT !.switch = ~@] /\ Environmental

\* Mode and target come back as they were last published, the sensors may have lost
\* their values, the switch may have fallen off.
Restart ==
  /\ "restart" \in scenario
  /\ primary' \in {NaN, primary} /\ fallback' = NaN /\ humid' = NaN
  /\ stored' = [k \in Kinds |-> IF Migrated(k) THEN Config[k] ELSE stored[k]]
  /\ \E switch \in {FALSE, pid.switch} :
       pid' = SetUp([Fresh(pid.mode, pid.target, Restored, switch) EXCEPT !.current = primary'])
  /\ UNCHANGED <<enabled, scenario>>

Next ==
  \/ \E d \in Delays : Loop(d)
  \/ \E t \in Temperatures \cup {NaN} : SensorShows(t) \/ FallbackShows(t)
  \/ \E h \in Humidities \cup {NaN} : HumidityShows(h)
  \/ \E t \in Temperatures : ServiceTemperature(t)
  \/ \E h \in Humidities : ServiceHumidity(h)
  \/ \E m \in Modes : ChooseMode(m)
  \/ \E t \in Targets : ChooseTarget(t)
  \/ PressReset
  \/ \E on \in BOOLEAN : Commission(on)
  \/ \E w \in Writes : WriteNumber(w)
  \/ EnableChanges \/ TurnByHand
  \/ Restart

Spec == Init /\ [][Next]_vars

\* loop() runs again and again.
FairSpec == Spec /\ WF_vars(\E d \in Delays : Loop(d))

---------------------------------------------------------------------------
(* Correctness.                                                            *)

Reasons == {"commissioning", "mode_off", "manual_override", "safety_output",
            "sensor_missing", "blocked", "pid_below_zero", "clamped_pwm_max", "inactive",
            "raised_to_pwm_min", "active"}

PidState ==
  [mode : Modes, target : Int, current : Int \cup {NaN}, humidity : Nat \cup {NaN},
   number : [Kinds -> Int], integral : Int, error : Int \cup {NaN}, raw : Int,
   output : Int, effective : Int, valve : BOOLEAN, switch : BOOLEAN, seen : BOOLEAN,
   commissioning : BOOLEAN, action : {"off", "idle", "heating", "cooling"},
   shown : [output : Int, reason : Reasons, valve : BOOLEAN],
   sinceCompute : Nat, sinceCycle : Nat, sinceChange : Nat, sinceKeep : Nat]

TypeOK ==
  /\ primary \in Temperatures \cup {NaN} /\ fallback \in Temperatures \cup {NaN}
  /\ humid \in Humidities \cup {NaN} /\ enabled \in BOOLEAN
  /\ \A k \in Kinds : stored[k] \in Legal(k) \cup {NaN}
  /\ pid \in PidState /\ \A k \in Kinds : pid.number[k] \in Legal(k)

\* "In manual mode the PID must stop driving the physical output" (933): while control
\* is not enabled and no test runs, only the hand moves the switch.
ManualMeansHandsOff ==
  [][~enabled /\ ~pid.commissioning /\ ~pid'.commissioning /\ pid'.switch # pid.switch
       => TurnByHand \/ Restart]_vars

\* What a user has set survives a restart, however it was pushed along by other
\* numbers since: only the lower limit of the integral and a tolerance equal to the
\* former default may come back changed (init_and_restore, save_number_value_).
TuningRestored ==
  [][\/ \A k \in Kinds \ ({"i_min"} \cup Tolerances) : pid'.number[k] = pid.number[k]
     \/ ~Restart]_vars

\* Once no sensor has a value, heating falls back to the safety output, whatever is
\* done to the controller meanwhile, unless a sensor comes back or the mode changes
\* (loop 304-330, calculate_control_ 803-814).  Only a PWM period set again and again
\* could put it off for ever: each setting restarts the cycle.
Blinded == pid.mode = "heat" /\ primary = NaN /\ fallback = NaN
SafetyOutputReached ==
  Blinded ~> (~Blinded \/ pid.output = pid.number["output_safety"])

=============================================================================
