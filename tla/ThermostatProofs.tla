-------------------------- MODULE ThermostatProofs --------------------------
(* Theorems about the two thermostats.                                      *)
(*                                                                          *)
(* The PID thermostat: type correctness, that in manual mode it keeps its   *)
(* hands off the switch, and that what a user has set survives a restart,   *)
(* for every configuration, sequence of settings and choice of sensors.     *)
(*                                                                          *)
(* The dummy thermostat, which is Dummy! here: type correctness, and that   *)
(* loop() leaves a command of the service alone until its time is over, for *)
(* every clock width, installation and set of readings.                     *)
EXTENDS PidThermostat, TLAPS

CONSTANTS Offered, Deadband, Overrun, W, Installations
VARIABLES yaml, now, mode, target, temp, humidity, action, shown, valve, output, driven,
          allowed, local, sensor, humidSensor, onFallback, humidOnFallback, fallbackLost,
          onOwn, tempAt, fallbackAt, humidAt, valveAt, decidedAt

\* The two have the names of the sensors' values in common, and nothing else.
Dummy == INSTANCE DummyThermostat WITH Modes <- Offered, enabled <- allowed

-----------------------------------------------------------------------------
(* The PID thermostat: what its handlers leave alone.                       *)

Fields == {"mode", "target", "current", "humidity", "number", "integral", "error", "raw",
           "output", "effective", "valve", "switch", "seen", "commissioning", "action",
           "shown", "sinceCompute", "sinceCycle", "sinceChange", "sinceKeep"}

\* From s to r no field is lost and neither the numbers nor the test have changed.
Tuned(r, s) ==
  /\ DOMAIN r = Fields /\ r.number = s.number /\ r.commissioning = s.commissioning
  /\ s.seen \in BOOLEAN => r.seen \in BOOLEAN

\* Nor has the switch moved.
HandsOff(r, s) == Tuned(r, s) /\ r.switch = s.switch

LEMMA HandsOffTwice ==
  ASSUME NEW q, NEW r, NEW s, HandsOff(q, r), HandsOff(r, s)
  PROVE  HandsOff(q, s)
BY DEF HandsOff, Tuned

LEMMA TunedTwice ==
  ASSUME NEW q, NEW r, NEW s, Tuned(q, r), Tuned(r, s)
  PROVE  Tuned(q, s)
BY DEF Tuned

\* The control law and what is published.
LEMMA LawHandsOff ==
  ASSUME NEW s, DOMAIN s = Fields
  PROVE  /\ HandsOff(s, s)
         /\ HandsOff(SenseAll(s), s)
         /\ \A d : HandsOff(Older(s, d), s)
         /\ HandsOff(Calculate(s), s)
         /\ HandsOff(Publish(s), s)
         /\ HandsOff(PublishValve(s), s)
         /\ HandsOff(UpdateAction(s), s)
<1>1. HandsOff(s, s)
  BY DEF HandsOff, Tuned
<1>2. HandsOff(SenseAll(s), s)
  BY DEF HandsOff, Tuned, SenseAll, Fields
<1>3. ASSUME NEW d PROVE HandsOff(Older(s, d), s)
  BY DEF HandsOff, Tuned, Older, Fields
<1>4. HandsOff(Off(s), s)
  BY DEF HandsOff, Tuned, Off, Fields
<1>5. HandsOff(Blind(s), s)
  BY DEF HandsOff, Tuned, Blind, Fields
<1>6. HandsOff(Regulate(s), s)
  BY DEF HandsOff, Tuned, Regulate, Fields
<1>7. HandsOff(Calculate(s), s)
  BY <1>4, <1>5, <1>6, Zenon DEF Calculate
<1>8. HandsOff(Publish(s), s)
  BY DEF HandsOff, Tuned, Publish, Fields
<1>9. HandsOff(PublishValve(s), s)
  BY DEF HandsOff, Tuned, PublishValve, Fields
<1>10. HandsOff(UpdateAction(s), s)
  BY DEF HandsOff, Tuned, UpdateAction, Fields
<1> QED BY <1>1, <1>2, <1>3, <1>7, <1>8, <1>9, <1>10

LEMMA PartsHandsOff ==
  ASSUME NEW s, DOMAIN s = Fields
  PROVE  HandsOff(Restarted(s), s) /\ HandsOff(HandOver(s), s) /\ HandsOff(FollowHand(s), s)
<1>1. HandsOff(Restarted(s), s)
  <2> DEFINE zero == Zeroed(s)
  <2>1. HandsOff(zero, s)
    BY DEF HandsOff, Tuned, Fields, Zeroed
  <2>2. Restarted(s) = UpdateAction(Calculate(zero))
    BY DEF Restarted, Do
  <2> HIDE DEF zero
  <2>3. HandsOff(Calculate(zero), zero)
    BY <2>1, LawHandsOff DEF HandsOff, Tuned
  <2>4. HandsOff(UpdateAction(Calculate(zero)), Calculate(zero))
    BY <2>3, LawHandsOff DEF HandsOff, Tuned
  <2> QED BY <2>1, <2>2, <2>3, <2>4, HandsOffTwice
<1>2. HandsOff(HandOver(s), s)
  <2> DEFINE left == [s EXCEPT !.seen = FALSE, !.integral = 0, !.output = 0, !.raw = 0,
                               !.error = 0, !.sinceCycle = 0]
  <2>1. HandsOff(left, s)
    BY DEF HandsOff, Tuned, Fields
  <2>2. HandOver(s) = Publish(UpdateAction(left))
    BY DEF HandOver, Do
  <2> HIDE DEF left
  <2>3. HandsOff(UpdateAction(left), left)
    BY <2>1, LawHandsOff DEF HandsOff, Tuned
  <2>4. HandsOff(Publish(UpdateAction(left)), UpdateAction(left))
    BY <2>3, LawHandsOff DEF HandsOff, Tuned
  <2> QED BY <2>1, <2>2, <2>3, <2>4, HandsOffTwice
<1>3. HandsOff(FollowHand(s), s)
  <2> DEFINE followed == [s EXCEPT !.valve = s.switch, !.sinceChange = 0]
  <2>1. HandsOff(followed, s)
    BY DEF HandsOff, Tuned, Fields
  <2>2. \/ FollowHand(s) = s
        \/ FollowHand(s) = UpdateAction(PublishValve(followed))
    BY DEF FollowHand, Do
  <2> HIDE DEF followed
  <2>3. HandsOff(PublishValve(followed), followed)
    BY <2>1, LawHandsOff DEF HandsOff, Tuned
  <2>4. HandsOff(UpdateAction(PublishValve(followed)), PublishValve(followed))
    BY <2>3, LawHandsOff DEF HandsOff, Tuned
  <2> QED BY <2>1, <2>2, <2>3, <2>4, LawHandsOff, HandsOffTwice
<1> QED BY <1>1, <1>2, <1>3

\* The valve.  Whatever else is done, neither the numbers nor the test change, and where
\* control is not enabled and no test runs, the switch is left alone.
Careful(r, s) == Tuned(r, s) /\ (~enabled /\ ~s.commissioning => r.switch = s.switch)

LEMMA HandsOffIsCareful ==
  ASSUME NEW r, NEW s, HandsOff(r, s)
  PROVE  Careful(r, s)
BY DEF HandsOff, Careful

LEMMA CarefulTwice ==
  ASSUME NEW q, NEW r, NEW s, Careful(q, r), Careful(r, s)
  PROVE  Careful(q, s)
BY DEF Careful, Tuned

LEMMA DriveCareful ==
  ASSUME NEW s, DOMAIN s = Fields, NEW force
  PROVE  Careful(Drive(s, force), s)
<1>1. CASE ~enabled /\ ~s.commissioning
  <2>1. Drive(s, force) = FollowHand(s)
    BY <1>1, Zenon DEF Drive
  <2> QED BY <2>1, PartsHandsOff, HandsOffIsCareful
<1>2. CASE enabled \/ s.commissioning
  <2>1. \A open : Tuned(Turn(s, open), s)
    BY DEF Tuned, Fields, Turn
  <2>2. PICK open : Drive(s, force) = UpdateAction(PublishValve(Turn(s, open)))
    <3>1. ~(~enabled /\ ~s.commissioning)
      BY <1>2
    <3> DEFINE o == IF WantsOpen(s) # s.valve /\ ~force /\ Held(s) THEN s.valve
                                                                          ELSE WantsOpen(s)
    <3>2. Drive(s, force) = UpdateAction(PublishValve(Turn(s, o)))
      BY <3>1 DEF Drive, Do
    <3> QED BY <3>2
  <2> DEFINE turned == Turn(s, open)
  <2>3. Tuned(turned, s)
    BY <2>1
  <2> HIDE DEF turned
  <2>4. Tuned(PublishValve(turned), turned)
    BY <2>3, LawHandsOff DEF HandsOff, Tuned
  <2>5. Tuned(UpdateAction(PublishValve(turned)), PublishValve(turned))
    BY <2>4, LawHandsOff DEF HandsOff, Tuned
  <2>6. Tuned(Drive(s, force), s)
    BY <2>2, <2>3, <2>4, <2>5, TunedTwice DEF turned
  <2> QED BY <1>2, <2>6 DEF Careful
<1> QED BY <1>1, <1>2

\* update_valve_output_ with the two hand-overs.
LEMMA UpdateValveCareful ==
  ASSUME NEW s, DOMAIN s = Fields, NEW force, enabled \in BOOLEAN, s.seen \in BOOLEAN
  PROVE  Careful(UpdateValve(s, force), s)
<1>1. CASE enabled /\ ~s.seen
  <2> DEFINE back == [s EXCEPT !.seen = TRUE]
             again == Restarted(back)
             driven_ == Drive(again, TRUE)
  <2>1. UpdateValve(s, force) = Publish(driven_)
    BY <1>1 DEF UpdateValve, Do
  <2>2. Tuned(back, s)
    BY DEF Tuned, Fields
  <2> HIDE DEF back
  <2>3. Tuned(again, back)
    BY <2>2, PartsHandsOff DEF HandsOff, Tuned
  <2> HIDE DEF again
  <2>4. Tuned(driven_, again)
    BY <2>3, DriveCareful DEF Careful, Tuned
  <2> HIDE DEF driven_
  <2>5. Tuned(Publish(driven_), driven_)
    BY <2>4, LawHandsOff DEF HandsOff, Tuned
  <2>6. Tuned(UpdateValve(s, force), s)
    BY <2>1, <2>2, <2>3, <2>4, <2>5, TunedTwice
  <2> QED BY <1>1, <2>6 DEF Careful
<1>2. CASE ~enabled /\ s.seen
  <2>1. UpdateValve(s, force) = Drive(HandOver(s), force)
    BY <1>2 DEF UpdateValve, Do
  <2> DEFINE left == HandOver(s)
  <2>2. HandsOff(left, s)
    BY PartsHandsOff
  <2> HIDE DEF left
  <2>3. Careful(Drive(left, force), left)
    BY <2>2, DriveCareful DEF HandsOff, Tuned
  <2> QED BY <2>1, <2>2, <2>3, HandsOffIsCareful, CarefulTwice DEF left
<1>3. CASE enabled = s.seen
  <2>1. UpdateValve(s, force) = Drive(s, force)
    BY <1>3, Zenon DEF UpdateValve
  <2> QED BY <2>1, DriveCareful
<1> QED BY <1>1, <1>2, <1>3

\* An object with its fields, whose flags are flags.
Sound(s) == DOMAIN s = Fields /\ s.seen \in BOOLEAN /\ s.commissioning \in BOOLEAN

LEMMA CarefulSound ==
  ASSUME NEW r, NEW s, Sound(s), Careful(r, s)
  PROVE  Sound(r)
BY DEF Sound, Careful, Tuned

LEMMA SoundSteps ==
  ASSUME NEW s, Sound(s), enabled \in BOOLEAN
  PROVE  /\ \A force : Careful(UpdateValve(s, force), s)
         /\ Careful(UpdateValveNow(s), s)
         /\ Careful(Restarted(s), s)
         /\ Careful(Calculate(s), s) /\ Careful(Publish(s), s)
         /\ Careful(UpdateAction(s), s) /\ Careful(SenseAll(s), s)
         /\ \A d : Careful(Older(s, d), s)
<1>1. \A force : Careful(UpdateValve(s, force), s)
  BY UpdateValveCareful DEF Sound
<1>2. Careful(UpdateValveNow(s), s)
  BY <1>1 DEF UpdateValveNow
<1>3. Careful(Restarted(s), s)
  BY PartsHandsOff, HandsOffIsCareful DEF Sound
<1>4. /\ HandsOff(Calculate(s), s) /\ HandsOff(Publish(s), s)
      /\ HandsOff(UpdateAction(s), s) /\ HandsOff(SenseAll(s), s)
      /\ \A d : HandsOff(Older(s, d), s)
  BY LawHandsOff DEF Sound
<1> QED BY <1>1, <1>2, <1>3, <1>4, HandsOffIsCareful

LEMMA ResetCareful ==
  ASSUME NEW s, Sound(s), enabled \in BOOLEAN
  PROVE  Careful(ResetController(s), s)
<1> DEFINE again == Restarted(s)
           driven_ == UpdateValveNow(again)
<1>1. ResetController(s) = Publish(driven_)
  BY DEF ResetController, Do
<1>2. Careful(again, s) /\ Sound(again)
  BY SoundSteps, CarefulSound
<1> HIDE DEF again
<1>3. Careful(driven_, again) /\ Sound(driven_)
  BY <1>2, SoundSteps, CarefulSound
<1> HIDE DEF driven_
<1>4. Careful(Publish(driven_), driven_)
  BY <1>3, SoundSteps
<1> QED BY <1>1, <1>2, <1>3, <1>4, CarefulTwice

LEMMA SetUpCareful ==
  ASSUME NEW s, Sound(s), enabled \in BOOLEAN
  PROVE  Careful(SetUp(s), s)
<1> DEFINE first == Calculate(s)
           second == UpdateAction(first)
           third == UpdateValveNow(second)
<1>1. SetUp(s) = Publish(third)
  BY DEF SetUp, Do
<1>2. Careful(first, s) /\ Sound(first)
  BY SoundSteps, CarefulSound
<1> HIDE DEF first
<1>3. Careful(second, first) /\ Sound(second)
  BY <1>2, SoundSteps, CarefulSound
<1> HIDE DEF second
<1>4. Careful(third, second) /\ Sound(third)
  BY <1>3, SoundSteps, CarefulSound
<1> HIDE DEF third
<1>5. Careful(Publish(third), third)
  BY <1>4, SoundSteps
<1> QED BY <1>1, <1>2, <1>3, <1>4, <1>5, CarefulTwice

\* The calculation of a pass, and the pass.
LEMMA RecomputedCareful ==
  ASSUME NEW s, Sound(s), enabled \in BOOLEAN
  PROVE  Careful(Recomputed(s), s)
<1>1. ASSUME NEW z, Sound(z)
      PROVE  Careful(Publish(UpdateAction(Calculate(z))), z)
  <2> DEFINE first == Calculate(z)
             second == UpdateAction(first)
  <2>1. Careful(first, z) /\ Sound(first)
    BY <1>1, SoundSteps, CarefulSound
  <2> HIDE DEF first
  <2>2. Careful(second, first) /\ Sound(second)
    BY <2>1, SoundSteps, CarefulSound
  <2> HIDE DEF second
  <2>3. Careful(Publish(second), second)
    BY <2>2, SoundSteps
  <2> QED BY <2>1, <2>2, <2>3, CarefulTwice DEF first, second
<1> DEFINE fresh == [s EXCEPT !.sinceCycle = 0]
<1>2. Careful(fresh, s) /\ Sound(fresh) /\ Careful(s, s)
  BY DEF Careful, Tuned, Sound, Fields
<1>3. \/ Recomputed(s) = Publish(UpdateAction(Calculate(fresh)))
      \/ Recomputed(s) = Publish(UpdateAction(Calculate(s)))
      \/ Recomputed(s) = s
  BY DEF Recomputed, Do
<1> HIDE DEF fresh
<1> QED BY <1>1, <1>2, <1>3, CarefulTwice

LEMMA PassedCareful ==
  ASSUME NEW s, Sound(s), enabled \in BOOLEAN
  PROVE  Careful(Passed(s), s)
<1> DEFINE kept == [s EXCEPT !.sinceKeep = IF KeepAliveDue(s) THEN 0 ELSE @]
           done == Recomputed(kept)
<1>1. Passed(s) = UpdateValve(done, KeepAliveDue(s))
  BY DEF Passed, Do
<1>2. Careful(kept, s) /\ Sound(kept)
  BY DEF Careful, Tuned, Sound, Fields
<1> HIDE DEF kept
<1>3. Careful(done, kept) /\ Sound(done)
  BY <1>2, RecomputedCareful, CarefulSound
<1> HIDE DEF done
<1>4. Careful(UpdateValve(done, KeepAliveDue(s)), done)
  BY <1>3, SoundSteps
<1> QED BY <1>1, <1>2, <1>3, <1>4, CarefulTwice

-----------------------------------------------------------------------------
(* The numbers.                                                             *)

LEMMA ConfigFacts ==
  /\ NaN \notin Int
  /\ \A k \in Kinds : Config[k] \in Int
  /\ Config["i_min"] <= Config["i_max"] /\ Config["pwm_min"] <= Config["pwm_max"]
  /\ \A w \in Writes : w.kind \in Kinds /\ w.value \in Int
  /\ MinPeriod \in Int
<1>1. \A k \in Kinds : Legal(k) \subseteq Int
  BY DEF Legal
<1>2. NaN \notin Int
  BY ConstantsAssumption DEF ConstantsAssumption
<1>3. DOMAIN Config = Kinds /\ \A k \in Kinds : Config[k] \in Legal(k)
  BY ConstantsAssumption DEF ConstantsAssumption
<1>4. Config["i_min"] <= Config["i_max"] /\ Config["pwm_min"] <= Config["pwm_max"]
  BY ConstantsAssumption DEF ConstantsAssumption
<1>5. \A w \in Writes : w.kind \in Kinds /\ w.value \in Legal(w.kind)
  BY ConstantsAssumption DEF ConstantsAssumption
<1>6. MinPeriod \in Int
  BY ConstantsAssumption DEF ConstantsAssumption
<1> QED BY <1>1, <1>2, <1>3, <1>4, <1>5, <1>6

\* What flash and configuration together say of number k.
Meant(st, k) == IF st[k] = NaN THEN Config[k] ELSE st[k]

Steady == Kinds \ ({"i_min"} \cup Tolerances)

\* The numbers n in force are those in flash st or configured.  The lower limit of the
\* integral, cut by a restart, is at least what a restart would make of it.
Remembers(n, st) ==
  /\ n \in [Kinds -> Int] /\ st \in [Kinds -> Int \cup {NaN}]
  /\ \A k \in Steady : n[k] = Meant(st, k)
  /\ n["i_min"] >= Least(Meant(st, "i_min"), Config["i_max"])
  /\ n["i_min"] <= n["i_max"]
  /\ n["pwm_min"] <= n["pwm_max"]

LEMMA NamedKinds ==
  /\ {"i_min", "i_max", "pwm_min", "pwm_max"} \subseteq Kinds
  /\ {"i_max", "pwm_min", "pwm_max"} \subseteq Steady /\ "i_min" \notin Steady
  /\ Steady \subseteq Kinds
BY DEF Kinds, Steady, Tolerances

LEMMA LimitedIsNumber ==
  ASSUME NEW s, s.number \in [Kinds -> Int], NEW k \in Kinds, NEW v \in Int, MinPeriod \in Int
  PROVE  /\ Limited(s, k, v) \in Int
         /\ k = "i_min" => Limited(s, k, v) <= s.number["i_max"]
         /\ k = "i_max" => Limited(s, k, v) >= s.number["i_min"]
<1> USE DEF Least, Most
<1>1. s.number["i_max"] \in Int /\ s.number["i_min"] \in Int
  BY NamedKinds
<1>2. \A a, b \in Int : Least(a, b) \in Int /\ Least(a, b) <= b
                        /\ Most(a, b) \in Int /\ Most(a, b) >= b
  OBVIOUS
<1>3. Clamp(v, 0, 100) \in Int
  BY <1>2 DEF Clamp
<1> HIDE DEF Least, Most
<1>4. CASE k = "i_min"
  <2>1. Limited(s, k, v) = Least(v, s.number["i_max"])
    BY <1>4 DEF Limited, Percentages, Tolerances
  <2> QED BY <1>1, <1>2, <1>4, <2>1
<1>5. CASE k = "i_max"
  <2>1. Limited(s, k, v) = Most(v, s.number["i_min"])
    BY <1>5 DEF Limited, Percentages, Tolerances
  <2> QED BY <1>1, <1>2, <1>5, <2>1
<1>6. CASE k \in Tolerances
  <2>1. Limited(s, k, v) = Most(0, v) /\ k # "i_min" /\ k # "i_max"
    BY <1>6 DEF Limited, Percentages, Tolerances
  <2>2. Most(0, v) \in Int
    BY <1>2
  <2> QED BY <2>1, <2>2
<1>7. CASE k \in Percentages
  BY <1>3, <1>7 DEF Limited, Percentages, Tolerances
<1>8. CASE k = "pwm_period"
  BY <1>2, <1>8 DEF Limited, Percentages, Tolerances
<1>9. CASE k \notin {"i_min", "i_max", "pwm_period"} \cup Tolerances \cup Percentages
  <2>1. Limited(s, k, v) = v
    BY <1>9 DEF Limited
  <2> QED BY <1>9, <2>1
<1> QED BY <1>4, <1>5, <1>6, <1>7, <1>8, <1>9

\* A setting changes its own number and at most the other limit of the pulse width; what
\* it changes is saved.
LEMMA WriteRemembered ==
  ASSUME Remembers(pid.number, stored),
         NEW k \in Kinds, NEW v \in Int
  PROVE  Remembers(Numbers(pid, k, v), Saved(pid, k, v))
<1> DEFINE n == pid.number
           new == Numbers(pid, k, v)
           st == Saved(pid, k, v)
           set == [n EXCEPT ![k] = Limited(pid, k, v)]
<1>1. n \in [Kinds -> Int] /\ stored \in [Kinds -> Int \cup {NaN}]
  BY DEF Remembers
<1>2. /\ Limited(pid, k, v) \in Int
      /\ k = "i_min" => Limited(pid, k, v) <= n["i_max"]
      /\ k = "i_max" => Limited(pid, k, v) >= n["i_min"]
  <2>1. MinPeriod \in Int
    BY ConfigFacts
  <2> QED BY <1>1, <2>1, LimitedIsNumber
<1>3. set \in [Kinds -> Int] /\ set[k] = Limited(pid, k, v)
      /\ \A j \in Kinds \ {k} : set[j] = n[j]
  BY <1>1, <1>2
<1>4. new = Pushed(set, k)
  BY DEF Numbers
<1> HIDE DEF set
<1>5. /\ new \in [Kinds -> Int] /\ new["i_min"] = set["i_min"] /\ new["i_max"] = set["i_max"]
      /\ new["pwm_min"] <= new["pwm_max"]
  <2>1. set["pwm_min"] \in Int /\ set["pwm_max"] \in Int
    BY <1>3, NamedKinds
  <2>2. CASE k = "pwm_min"
    <3>1. new = [set EXCEPT !["pwm_max"] = Most(set["pwm_max"], set["pwm_min"])]
      BY <1>4, <2>2 DEF Pushed
    <3>2. Most(set["pwm_max"], set["pwm_min"]) \in Int
          /\ set["pwm_min"] <= Most(set["pwm_max"], set["pwm_min"])
      BY <2>1 DEF Most
    <3> QED BY <1>3, <3>1, <3>2, NamedKinds
  <2>3. CASE k = "pwm_max"
    <3>1. new = [set EXCEPT !["pwm_min"] = Least(set["pwm_min"], set["pwm_max"])]
      BY <1>4, <2>3 DEF Pushed
    <3>2. Least(set["pwm_min"], set["pwm_max"]) \in Int
          /\ Least(set["pwm_min"], set["pwm_max"]) <= set["pwm_max"]
      BY <2>1 DEF Least
    <3> QED BY <1>3, <3>1, <3>2, NamedKinds
  <2>4. CASE k # "pwm_min" /\ k # "pwm_max"
    <3>1. new = set
      BY <1>4, <2>4 DEF Pushed
    <3>2. set["pwm_min"] = n["pwm_min"] /\ set["pwm_max"] = n["pwm_max"]
      BY <1>3, <2>4, NamedKinds
    <3> QED BY <1>3, <3>1, <3>2 DEF Remembers
  <2> QED BY <2>2, <2>3, <2>4
<1> HIDE DEF new, n
<1>6. new["i_min"] \in Int /\ new["i_max"] \in Int /\ n["i_min"] \in Int /\ n["i_max"] \in Int
  BY <1>1, <1>5, NamedKinds
<1>7. n["i_min"] <= n["i_max"]
  BY DEF Remembers, n
<1>8. new["i_min"] <= new["i_max"]
  <2>1. CASE k = "i_min"
    BY <1>2, <1>3, <1>5, <2>1, NamedKinds
  <2>2. CASE k = "i_max"
    BY <1>2, <1>3, <1>5, <2>2, NamedKinds
  <2>3. CASE k # "i_min" /\ k # "i_max"
    BY <1>3, <1>5, <1>7, <2>3, NamedKinds
  <2> QED BY <2>1, <2>2, <2>3
<1>9. st = [j \in Kinds |->
              IF (j = k /\ k # "test_output") \/ new[j] # n[j] THEN new[j] ELSE stored[j]]
  BY DEF Saved, new, n
<1> HIDE DEF st
<1>10. st \in [Kinds -> Int \cup {NaN}]
  BY <1>1, <1>5, <1>9
<1>11. ASSUME NEW j \in Kinds
       PROVE  \/ st[j] = new[j] /\ new[j] \in Int
              \/ st[j] = stored[j] /\ new[j] = n[j]
  BY <1>5, <1>9
<1>12. NaN \notin Int
  BY ConfigFacts
<1>13. \A j \in Steady : new[j] = Meant(st, j)
  <2> SUFFICES ASSUME NEW j \in Steady PROVE new[j] = Meant(st, j)
    OBVIOUS
  <2>1. n[j] = Meant(stored, j)
    BY DEF Remembers, n
  <2> QED BY <1>11, <1>12, <2>1, NamedKinds DEF Meant
<1>14. new["i_min"] >= Least(Meant(st, "i_min"), Config["i_max"])
  <2>1. n["i_min"] >= Least(Meant(stored, "i_min"), Config["i_max"])
    BY DEF Remembers, n
  <2>2. Config["i_max"] \in Int
    BY ConfigFacts, NamedKinds
  <2>3. CASE st["i_min"] = new["i_min"]
    <3>1. Meant(st, "i_min") = new["i_min"]
      BY <1>6, <1>12, <2>3 DEF Meant
    <3> QED BY <1>6, <2>2, <3>1 DEF Least
  <2>4. CASE st["i_min"] = stored["i_min"] /\ new["i_min"] = n["i_min"]
    BY <2>1, <2>4 DEF Meant
  <2> QED BY <1>11, <2>3, <2>4, NamedKinds
<1> QED BY <1>5, <1>8, <1>10, <1>13, <1>14 DEF Remembers, new, st

\* What Restart leaves in flash.
Migration == [k \in Kinds |-> IF Migrated(k) THEN Config[k] ELSE stored[k]]

\* A restart brings back what was in force, although each number is restored under the
\* limits of the configuration or of the numbers before it.
LEMMA RestoredRemembers ==
  ASSUME NEW n, Remembers(n, stored)
  PROVE  /\ \A k \in Steady : Restored[k] = n[k]
         /\ Remembers(Restored, Migration)
<1> DEFINE kept(k) == IF stored[k] = NaN \/ Migrated(k) THEN Config[k] ELSE stored[k]
           i_min == Least(kept("i_min"), Config["i_max"])
           pwm_max == IF stored["pwm_max"] = NaN THEN Most(Config["pwm_max"], kept("pwm_min"))
                      ELSE stored["pwm_max"]
           r == Restored
<1>1. /\ n \in [Kinds -> Int] /\ stored \in [Kinds -> Int \cup {NaN}]
      /\ NaN \notin Int /\ \A k \in Kinds : Config[k] \in Int
  BY ConfigFacts DEF Remembers
<1>2. \A k \in Kinds : kept(k) \in Int
  BY <1>1
<1>3. \A k \in Steady \cup {"i_min"} : kept(k) = Meant(stored, k)
  BY DEF Meant, Migrated, Steady, Tolerances
<1>4. \A k \in Steady : n[k] = kept(k)
  BY <1>3 DEF Remembers
<1>5. n["i_min"] >= i_min /\ n["i_min"] <= n["i_max"] /\ n["pwm_min"] <= n["pwm_max"]
  BY <1>3 DEF Remembers
<1>6. r = [k \in Kinds |-> CASE k = "i_min" -> i_min
                                 [] k = "i_max" -> Most(kept("i_max"), i_min)
                                 [] k = "pwm_min" -> Least(kept("pwm_min"), pwm_max)
                                 [] k = "pwm_max" -> pwm_max
                                 [] OTHER -> kept(k)]
  BY Zenon DEF Restored
<1> HIDE DEF r
<1>7. /\ r["i_min"] = i_min
      /\ r["i_max"] = Most(kept("i_max"), i_min)
      /\ r["pwm_min"] = Least(kept("pwm_min"), pwm_max)
      /\ r["pwm_max"] = pwm_max
      /\ \A k \in Kinds \ {"i_min", "i_max", "pwm_min", "pwm_max"} : r[k] = kept(k)
  <2> HIDE DEF i_min, pwm_max, kept
  <2> QED BY <1>6, NamedKinds
<1>8. kept("i_min") \in Int /\ kept("i_max") \in Int /\ kept("pwm_min") \in Int
      /\ kept("pwm_max") \in Int /\ Config["i_max"] \in Int /\ Config["pwm_max"] \in Int
  BY <1>1, <1>2, NamedKinds
<1>9. n["i_max"] = kept("i_max") /\ n["i_min"] \in Int
      /\ n["pwm_min"] = kept("pwm_min") /\ n["pwm_max"] = kept("pwm_max")
  BY <1>1, <1>4, NamedKinds
<1>10. pwm_max = kept("pwm_max")
  <2>1. kept("pwm_max") = Config["pwm_max"] \/ stored["pwm_max"] # NaN
    OBVIOUS
  <2>2. stored["pwm_max"] # NaN => kept("pwm_max") = stored["pwm_max"]
    BY DEF Migrated, Tolerances
  <2>3. stored["pwm_max"] = NaN => pwm_max = kept("pwm_max")
    <3> SUFFICES ASSUME stored["pwm_max"] = NaN PROVE pwm_max = kept("pwm_max")
      OBVIOUS
    <3>1. /\ pwm_max = Most(Config["pwm_max"], kept("pwm_min"))
          /\ kept("pwm_max") = Config["pwm_max"]
      OBVIOUS
    <3> HIDE DEF kept, pwm_max
    <3> QED BY <1>5, <1>8, <1>9, <3>1 DEF Most
  <2> QED BY <2>2, <2>3
<1> HIDE DEF pwm_max, kept
<1>11. i_min \in Int /\ i_min <= kept("i_max")
  <2>1. i_min \in Int
    BY <1>8 DEF Least
  <2> HIDE DEF i_min
  <2> QED BY <1>5, <1>8, <1>9, <2>1
<1>12. i_min = Least(Meant(stored, "i_min"), Config["i_max"])
  BY <1>3
<1> HIDE DEF i_min
<1>13. r["i_max"] = n["i_max"]
  BY <1>7, <1>8, <1>9, <1>11 DEF Most
<1>14. r["pwm_max"] = n["pwm_max"] /\ r["pwm_min"] = n["pwm_min"]
  BY <1>5, <1>7, <1>8, <1>9, <1>10 DEF Least
<1>15. \A k \in Steady : r[k] = n[k]
  BY <1>4, <1>7, <1>13, <1>14, NamedKinds
<1>16. r \in [Kinds -> Int]
  <2>1. \A k \in Kinds : r[k] \in Int
    BY <1>1, <1>2, <1>7, <1>11, <1>13, <1>14, NamedKinds
  <2> QED BY <1>6, <2>1
<1>17. Migration \in [Kinds -> Int \cup {NaN}]
  BY <1>1 DEF Migration
<1>18. \A k \in Steady \cup {"i_min"} : Meant(Migration, k) = Meant(stored, k)
  BY NamedKinds DEF Migration, Meant, Migrated, Steady, Tolerances
<1>19. \A k \in Steady : r[k] = Meant(Migration, k)
  BY <1>15, <1>18 DEF Remembers
<1>20. r["i_min"] >= Least(Meant(Migration, "i_min"), Config["i_max"])
  BY <1>7, <1>11, <1>12, <1>18
<1>21. r["i_min"] <= r["i_max"]
  BY <1>7, <1>9, <1>11, <1>13
<1>22. r["pwm_min"] <= r["pwm_max"]
  BY <1>5, <1>14
<1> QED BY <1>15, <1>16, <1>17, <1>19, <1>20, <1>21, <1>22 DEF Remembers, r

\* A setter moves its numbers and is careful with the rest.
LEMMA SetNumberCareful ==
  ASSUME NEW s, Sound(s), enabled \in BOOLEAN, NEW k, NEW v
  PROVE  /\ Sound(SetNumber(s, k, v))
         /\ SetNumber(s, k, v).number = Numbers(s, k, v)
         /\ SetNumber(s, k, v).commissioning = s.commissioning
         /\ ~enabled /\ ~s.commissioning => SetNumber(s, k, v).switch = s.switch
<1> DEFINE r == SetNumber(s, k, v)
           set == [s EXCEPT !.number = Numbers(s, k, v),
                            !.sinceCycle = IF k = "pwm_period" THEN 0 ELSE @]
           cut == [set EXCEPT !.integral =
                     Clamp(@, set.number["i_min"], set.number["i_max"])]
           turned == UpdateValveNow(set)
<1>1. /\ Sound(set) /\ set.number = Numbers(s, k, v)
      /\ set.commissioning = s.commissioning /\ set.switch = s.switch
  BY DEF Sound, Fields
<1>2. \/ r = Publish(cut)
      \/ r = s /\ set.number = s.number
      \/ r = Publish(set)
      \/ r = Publish(turned)
      \/ r = set
  BY DEF SetNumber, Do
<1>3. Careful(cut, set)
  <2> HIDE DEF set
  <2> QED BY <1>1 DEF Careful, Tuned, Sound, Fields
<1> HIDE DEF set, cut
<1>4. Careful(turned, set) /\ Careful(set, set)
  BY <1>1, SoundSteps DEF Careful, Tuned, Sound
<1>5. Sound(cut) /\ Sound(turned)
  BY <1>1, <1>3, <1>4, CarefulSound
<1> HIDE DEF turned
<1>6. Careful(Publish(cut), cut) /\ Careful(Publish(set), set)
      /\ Careful(Publish(turned), turned)
  BY <1>1, <1>5, SoundSteps
<1>7. Careful(r, set) \/ (r = s /\ set.number = s.number)
  BY <1>2, <1>3, <1>4, <1>6, CarefulTwice
<1> HIDE DEF r
<1>8. CASE Careful(r, set)
  <2>1. Sound(r)
    BY <1>1, <1>8, CarefulSound
  <2>2. /\ r.number = set.number /\ r.commissioning = set.commissioning
        /\ ~enabled /\ ~set.commissioning => r.switch = set.switch
    BY <1>8 DEF Careful, Tuned
  <2> QED BY <1>1, <2>1, <2>2 DEF r
<1>9. CASE r = s /\ set.number = s.number
  BY <1>1, <1>9 DEF r
<1> QED BY <1>7, <1>8, <1>9

\* The inductive invariant.
PidInv == Sound(pid) /\ enabled \in BOOLEAN /\ Remembers(pid.number, stored)

\* A start of the program, the first one or a later one.
Starts(f, n) == Sound(f) /\ f.number = n

LEMMA FreshStarts ==
  ASSUME enabled \in BOOLEAN
  PROVE  \A m, t, n, on : /\ Starts(Fresh(m, t, n, on), n)
                          /\ \A c : Starts([Fresh(m, t, n, on) EXCEPT !.current = c], n)
<1> TAKE m, t, n, on
<1> DEFINE f == Fresh(m, t, n, on)
<1>1. Starts(f, n)
  BY DEF Starts, Fresh, Sound, Fields
<1> HIDE DEF f
<1>2. \A c : Starts([f EXCEPT !.current = c], n)
  BY <1>1 DEF Starts, Sound, Fields
<1>3. Starts(f, n) /\ \A c : Starts([f EXCEPT !.current = c], n)
  BY <1>1, <1>2
<1> QED BY <1>3, Zenon DEF f

LEMMA InitPidInv ==
  ASSUME Init
  PROVE  PidInv /\ pid.number = Restored
<1> DEFINE n == [k \in Kinds |-> Config[k]]
<1>1. enabled = TRUE /\ stored = [k \in Kinds |-> NaN]
  BY DEF Init
<1>2. Remembers(n, stored)
  <2>1. \A k \in Kinds : stored[k] = NaN /\ n[k] = Config[k] /\ Config[k] \in Int
    BY <1>1, ConfigFacts
  <2>2. n \in [Kinds -> Int] /\ stored \in [Kinds -> Int \cup {NaN}]
    BY <1>1, <2>1
  <2>3. \A k \in Steady \cup {"i_min"} : Meant(stored, k) = n[k]
    BY <2>1, NamedKinds DEF Meant
  <2>4. n["i_min"] \in Int /\ Config["i_max"] \in Int /\ n["i_min"] <= n["i_max"]
        /\ n["pwm_min"] <= n["pwm_max"]
    BY <2>1, NamedKinds, ConfigFacts
  <2> HIDE DEF n
  <2>5. n["i_min"] >= Least(n["i_min"], Config["i_max"])
    BY <2>4 DEF Least
  <2> QED BY <2>2, <2>3, <2>4, <2>5 DEF Remembers
<1> HIDE DEF n
<1>3. Migration = stored
  <2>1. NaN # LegacyTolerance
    BY ConstantsAssumption DEF ConstantsAssumption
  <2> QED BY <1>1, <2>1 DEF Migration, Migrated
<1>4. Remembers(Restored, stored)
  BY <1>2, <1>3, RestoredRemembers
<1>5. PICK t : pid = SetUp(Fresh("off", t, Restored, FALSE))
  BY DEF Init
<1> DEFINE f == Fresh("off", t, Restored, FALSE)
<1>6. Sound(f) /\ f.number = Restored
  <2>1. enabled \in BOOLEAN
    BY <1>1
  <2>2. Starts(f, Restored)
    BY <2>1, FreshStarts, Zenon
  <2> QED BY <2>2 DEF Starts
<1> HIDE DEF f
<1>7. Careful(SetUp(f), f) /\ Sound(SetUp(f))
  BY <1>1, <1>6, SetUpCareful, CarefulSound
<1>8. pid.number = Restored
  BY <1>5, <1>6, <1>7 DEF Careful, Tuned, f
<1> QED BY <1>1, <1>4, <1>5, <1>7, <1>8 DEF PidInv, f

\* A restart brings everything back but the lower limit of the integral and the tolerances.
LEMMA RestartRemembers ==
  ASSUME PidInv, Restart
  PROVE  /\ PidInv'
         /\ \A k \in Steady : pid'.number[k] = pid.number[k]
         /\ pid'.number = Restored
<1>1. enabled' = enabled /\ stored' = Migration
  BY DEF Restart, Migration
<1>2. /\ \A k \in Steady : Restored[k] = pid.number[k]
      /\ Remembers(Restored, Migration)
  BY RestoredRemembers DEF PidInv
<1>3. PICK on \in {FALSE, pid.switch} :
        pid' = SetUp([Fresh(pid.mode, pid.target, Restored, on)
                            EXCEPT !.current = primary'])
  BY Zenon DEF Restart
<1> DEFINE f == [Fresh(pid.mode, pid.target, Restored, on) EXCEPT !.current = primary']
<1>4. Sound(f) /\ f.number = Restored
  <2>1. enabled \in BOOLEAN
    BY DEF PidInv
  <2>2. Starts(f, Restored)
    BY <2>1, FreshStarts, Zenon
  <2> HIDE DEF f
  <2> QED BY <2>2 DEF Starts
<1>5. pid' = SetUp(f)
  BY <1>3
<1> HIDE DEF f
<1>6. Careful(pid', f) /\ Sound(pid')
  BY <1>4, <1>5, SetUpCareful, CarefulSound DEF PidInv
<1>7. pid'.number = Restored
  BY <1>4, <1>6 DEF Careful, Tuned
<1> QED BY <1>1, <1>2, <1>6, <1>7 DEF PidInv

-----------------------------------------------------------------------------
(* The steps of the PID thermostat.                                         *)

Manual == ~enabled /\ ~pid.commissioning /\ ~pid'.commissioning
Obeys ==
  /\ PidInv' /\ (Manual => pid'.switch = pid.switch)
  /\ pid'.number = pid.number \/ \E w \in Writes : WriteNumber(w)

\* A handler that is careful with the object and sets no number.
LEMMA CarefulObeys ==
  ASSUME PidInv, Careful(pid', pid), enabled' \in BOOLEAN, stored' = stored
  PROVE  Obeys
<1>1. Sound(pid')
  BY CarefulSound DEF PidInv
<1>2. pid'.number = pid.number
  BY DEF Careful, Tuned
<1>3. Remembers(pid'.number, stored')
  BY <1>2 DEF PidInv
<1>4. Manual => pid'.switch = pid.switch
  BY DEF Careful, Manual
<1> QED BY <1>1, <1>2, <1>3, <1>4 DEF Obeys, PidInv

\* What is assigned before a handler calls another.
Sets(r) == Sound(r) /\ Careful(r, pid)

LEMMA Assigned ==
  ASSUME Sound(pid)
  PROVE  /\ Sets(pid)
         /\ \A v : Sets([pid EXCEPT !.current = v]) /\ Sets([pid EXCEPT !.humidity = v])
         /\ \A v : Sets([pid EXCEPT !.mode = v]) /\ Sets([pid EXCEPT !.target = v])
BY DEF Sets, Sound, Careful, Tuned, Fields

\* loop().
LEMMA LoopObeys ==
  ASSUME PidInv, NEW d, Loop(d)
  PROVE  Obeys
<1> DEFINE older == Older(pid, d)
           sensing == SenseAll(older)
<1>1. pid' = Passed(sensing) /\ enabled' = enabled /\ stored' = stored
  BY DEF Loop, Do, environment
<1>2. Sound(pid) /\ enabled \in BOOLEAN
  BY DEF PidInv
<1>3. Careful(older, pid) /\ Sound(older)
  BY <1>2, SoundSteps, CarefulSound
<1> HIDE DEF older
<1>4. Careful(sensing, older) /\ Sound(sensing)
  BY <1>2, <1>3, SoundSteps, CarefulSound
<1> HIDE DEF sensing
<1>5. Careful(Passed(sensing), sensing)
  BY <1>2, <1>4, PassedCareful
<1> QED BY <1>1, <1>2, <1>3, <1>4, <1>5, CarefulTwice, CarefulObeys

\* What the sensors and the services bring.
LEMMA ReadingObeys ==
  ASSUME PidInv, NEW t,
         \/ SensorShows(t) \/ FallbackShows(t) \/ HumidityShows(t)
         \/ ServiceTemperature(t) \/ ServiceHumidity(t)
  PROVE  Obeys
<1>1. Sound(pid) /\ enabled \in BOOLEAN
  BY DEF PidInv
<1>2. enabled' = enabled /\ stored' = stored
  BY DEF SensorShows, FallbackShows, HumidityShows, ServiceTemperature,
         ServiceHumidity, Environmental, environment
<1>3. \/ \E v : pid' = [pid EXCEPT !.current = v]
      \/ pid' = [pid EXCEPT !.humidity = t]
      \/ pid' = Publish([pid EXCEPT !.current = t])
      \/ pid' = Publish([pid EXCEPT !.humidity = t])
  BY DEF SensorShows, FallbackShows, HumidityShows, ServiceTemperature,
         ServiceHumidity
<1>4. PICK r : Sets(r) /\ pid' \in {r, Publish(r)}
  <2>1. /\ \A v : Sets([pid EXCEPT !.current = v])
        /\ \A v : Sets([pid EXCEPT !.humidity = v])
    BY <1>1, Assigned, Zenon
  <2> QED BY <1>3, <2>1
<1>5. Careful(pid', pid)
  BY <1>1, <1>4, SoundSteps, CarefulTwice DEF Sets
<1> QED BY <1>1, <1>2, <1>5, CarefulObeys

\* control() and the reset button.
LEMMA ChoiceObeys ==
  ASSUME PidInv, NEW c, ChooseMode(c) \/ ChooseTarget(c) \/ PressReset
  PROVE  Obeys
<1>1. Sound(pid) /\ enabled \in BOOLEAN
  BY DEF PidInv
<1>2. enabled' = enabled /\ stored' = stored
  BY DEF ChooseMode, ChooseTarget, PressReset, Environmental, environment
<1>3. PICK call : /\ call \in {[pid EXCEPT !.mode = c], [pid EXCEPT !.target = c], pid}
                  /\ pid' \in {ResetController(call), UpdateAction(call)}
  BY DEF ChooseMode, ChooseTarget, PressReset
<1>4. Sets(pid) /\ Sets([pid EXCEPT !.mode = c]) /\ Sets([pid EXCEPT !.target = c])
  BY <1>1, Assigned, Zenon
<1>5. Sound(call) /\ Careful(call, pid)
  BY <1>3, <1>4 DEF Sets
<1>6. Careful(pid', call)
  BY <1>1, <1>3, <1>5, ResetCareful, SoundSteps
<1> QED BY <1>1, <1>2, <1>5, <1>6, CarefulTwice, CarefulObeys

\* The test begins or ends.
LEMMA CommissionObeys ==
  ASSUME PidInv, NEW on \in BOOLEAN, Commission(on)
  PROVE  Obeys
<1> DEFINE set == [pid EXCEPT !.commissioning = on]
           turned == UpdateValveNow(set)
<1>1. /\ pid' = Publish(turned) /\ on # pid.commissioning
      /\ enabled' = enabled /\ stored' = stored
  BY DEF Commission, Do, Environmental, environment
<1>2. Sound(pid) /\ enabled \in BOOLEAN
  BY DEF PidInv
<1>3. Sound(set) /\ set.commissioning = on /\ set.number = pid.number
  BY <1>2 DEF Sound, Fields
<1> HIDE DEF set
<1>4. Careful(turned, set) /\ Sound(turned)
  BY <1>2, <1>3, SoundSteps, CarefulSound
<1> HIDE DEF turned
<1>5. Careful(Publish(turned), turned)
  BY <1>2, <1>4, SoundSteps
<1>6. Sound(pid') /\ pid'.commissioning = on /\ pid'.number = pid.number
  BY <1>1, <1>3, <1>4, <1>5, CarefulSound DEF Careful, Tuned
<1>7. ~Manual
  BY <1>1, <1>2, <1>6 DEF Manual, Sound
<1> QED BY <1>1, <1>2, <1>6, <1>7 DEF Obeys, PidInv

\* A number is set.
LEMMA WriteObeys ==
  ASSUME PidInv, NEW w \in Writes, WriteNumber(w)
  PROVE  Obeys
<1>1. Sound(pid) /\ enabled \in BOOLEAN /\ Remembers(pid.number, stored)
  BY DEF PidInv
<1>2. /\ pid' = SetNumber(pid, w.kind, w.value)
      /\ stored' = Saved(pid, w.kind, w.value) /\ enabled' = enabled
  BY DEF WriteNumber, environment
<1>3. w.kind \in Kinds /\ w.value \in Int
  <2>1. \A x \in Writes : x.kind \in Kinds /\ x.value \in Int
    BY ConfigFacts
  <2> QED BY <2>1
<1>4. Remembers(Numbers(pid, w.kind, w.value), stored')
  BY <1>1, <1>2, <1>3, WriteRemembered
<1>5. /\ Sound(pid') /\ pid'.number = Numbers(pid, w.kind, w.value)
      /\ ~enabled /\ ~pid.commissioning => pid'.switch = pid.switch
  BY <1>1, <1>2, SetNumberCareful
<1> QED BY <1>1, <1>2, <1>4, <1>5 DEF Obeys, PidInv, Manual

\* Every step but the hand's and a restart's obeys; a restart brings the numbers back.
LEMMA PidStep ==
  ASSUME PidInv, [Next]_vars
  PROVE  /\ PidInv'
         /\ Manual /\ pid'.switch # pid.switch => TurnByHand \/ Restart
         /\ Restart => \A k \in Steady : pid'.number[k] = pid.number[k]
         /\ pid'.number = pid.number \/ (\E w \in Writes : WriteNumber(w)) \/ Restart
<1>1. ASSUME NEW d \in Delays, Loop(d) PROVE Obeys
  BY <1>1, LoopObeys
<1>2. ASSUME NEW t, \/ SensorShows(t) \/ FallbackShows(t) \/ HumidityShows(t)
                    \/ ServiceTemperature(t) \/ ServiceHumidity(t)
      PROVE  Obeys
  BY <1>2, ReadingObeys
<1>3. ASSUME NEW c, ChooseMode(c) \/ ChooseTarget(c) \/ PressReset
      PROVE  Obeys
  BY <1>3, ChoiceObeys
<1>4. ASSUME NEW on \in BOOLEAN, Commission(on) PROVE Obeys
  BY <1>4, CommissionObeys
<1>5. ASSUME NEW w \in Writes, WriteNumber(w) PROVE Obeys
  BY <1>5, WriteObeys
<1>6. Sound(pid) /\ enabled \in BOOLEAN /\ Careful(pid, pid)
  BY DEF PidInv, Careful, Tuned, Sound
<1>7. ASSUME EnableChanges \/ UNCHANGED vars PROVE Obeys
  <2>1. pid' = pid /\ stored' = stored /\ enabled' \in BOOLEAN
    BY <1>6, <1>7 DEF EnableChanges, vars, environment
  <2> QED BY <1>6, <2>1, CarefulObeys
<1>8. ASSUME TurnByHand PROVE PidInv' /\ pid'.number = pid.number
  <2>1. pid' = [pid EXCEPT !.switch = ~pid.switch] /\ stored' = stored /\ enabled' = enabled
    BY <1>8 DEF TurnByHand, Environmental, environment
  <2>2. Sound(pid') /\ pid'.number = pid.number
    BY <1>6, <2>1 DEF Sound, Fields
  <2> QED BY <2>1, <2>2 DEF PidInv
<1>9. ASSUME Restart PROVE PidInv' /\ \A k \in Steady : pid'.number[k] = pid.number[k]
  BY <1>9, RestartRemembers
<1>10. Obeys \/ TurnByHand \/ Restart
  <2>1. CASE UNCHANGED vars
    BY <1>7, <2>1
  <2>2. CASE Next
    BY <1>1, <1>2, <1>3, <1>4, <1>5, <1>7, <2>2, Zenon DEF Next
  <2> QED BY <2>1, <2>2
<1>11. PidInv'
  BY <1>8, <1>9, <1>10 DEF Obeys
<1>12. Manual /\ pid'.switch # pid.switch => TurnByHand \/ Restart
  BY <1>10 DEF Obeys
<1>13. pid'.number = pid.number \/ (\E w \in Writes : WriteNumber(w)) \/ Restart
  BY <1>8, <1>10 DEF Obeys
<1> QED BY <1>9, <1>11, <1>12, <1>13

LEMMA PidInvHolds == Spec => []PidInv
<1>1. Init => PidInv
  BY InitPidInv
<1>2. PidInv /\ [Next]_vars => PidInv'
  BY PidStep
<1> QED BY <1>1, <1>2, PTL DEF Spec

\* In manual mode the PID keeps its hands off the switch, as the comment at
\* pid_thermostat.cpp:933 asks: no handler, from loop() to a number that is set, moves
\* it where valve_control_enabled says no and no test runs.  Left are the hand itself
\* and the start of the program.
THEOREM ManualMeansHandsOffHolds == Spec => ManualMeansHandsOff
<1>1. PidInv /\ [Next]_vars =>
        [~enabled /\ ~pid.commissioning /\ ~pid'.commissioning /\ pid'.switch # pid.switch
           => TurnByHand \/ Restart]_vars
  BY PidStep DEF Manual
<1> QED BY <1>1, PidInvHolds, PTL DEF Spec, ManualMeansHandsOff

\* Every number but the lower limit of the integral and the tolerances comes back from
\* a restart as it was, whatever was set before and in whatever order, although each is
\* restored under the limits of those before it (init_and_restore,
\* restore_number_values_, save_number_value_).
THEOREM TuningRestoredHolds == Spec => TuningRestored
<1>1. PidInv /\ [Next]_vars =>
        [\/ \A k \in Kinds \ ({"i_min"} \cup Tolerances) :
              pid'.number[k] = pid.number[k]
         \/ ~Restart]_vars
  BY PidStep DEF Steady
<1> QED BY <1>1, PidInvHolds, PTL DEF Spec, TuningRestored

-----------------------------------------------------------------------------
(* The types of the PID thermostat.                                         *)

\* An object whose fields have their types and whose readings are readings.
Whole(s) ==
  /\ s \in PidState
  /\ s.current \in Temperatures \cup {NaN} /\ s.humidity \in Humidities \cup {NaN}

LEMMA Quotients == \A a \in Int, b \in Nat \ {0} : a \div b \in Int
OBVIOUS

LEMMA Bounds ==
  /\ \A a, b \in Int : Least(a, b) \in Int /\ Most(a, b) \in Int
  /\ \A a, b \in Nat : Least(a, b) \in Nat
  /\ \A a, b, c \in Int : Clamp(a, b, c) \in Int
BY DEF Least, Most, Clamp

LEMMA SensorFacts ==
  /\ NaN \notin Int /\ Temperatures \subseteq Int /\ Humidities \subseteq Nat
  /\ Targets \subseteq Int /\ MaxAge \in Nat /\ Delays \subseteq Nat
  /\ \A t \in Temperatures, h \in Humidities : DewPoint(t, h) \in Int
BY ConstantsAssumption DEF ConstantsAssumption

LEMMA NumberIsInt == ASSUME NEW s, Whole(s) PROVE \A k \in Kinds : s.number[k] \in Int
BY DEF Whole, PidState

\* What the operators write, by the groups in which they write it.
Result(s, o, r, e, f, c) ==
  [s EXCEPT !.output = o, !.raw = r, !.error = e, !.effective = f, !.sinceCompute = c]

LEMMA WholeResult ==
  ASSUME NEW s, Whole(s)
  PROVE  \A o, r, f \in Int, e \in Int \cup {NaN}, c \in Nat : Whole(Result(s, o, r, e, f, c))
<1> TAKE o, r, f \in Int, e \in Int \cup {NaN}, c \in Nat
<1> QED BY Zenon DEF Whole, PidState, Result

Integrated(s, i, r, e, f, c, o) ==
  [s EXCEPT !.integral = i, !.raw = r, !.error = e, !.effective = f, !.sinceCompute = c,
            !.output = o]

LEMMA WholeIntegrated ==
  ASSUME NEW s, Whole(s)
  PROVE  \A i, r, f, o \in Int, e \in Int \cup {NaN}, c \in Nat :
           Whole(Integrated(s, i, r, e, f, c, o))
<1> TAKE i, r, f, o \in Int, e \in Int \cup {NaN}, c \in Nat
<1> QED BY Zenon DEF Whole, PidState, Integrated

LEMMA WholeAges ==
  ASSUME NEW s, Whole(s), NEW a \in Nat, NEW b \in Nat, NEW c \in Nat, NEW d \in Nat
  PROVE  Whole([s EXCEPT !.sinceCompute = a, !.sinceCycle = b, !.sinceChange = c,
                         !.sinceKeep = d])
BY Zenon DEF Whole, PidState

LEMMA WholeReadings ==
  ASSUME NEW s, Whole(s)
  PROVE  /\ \A c \in Temperatures \cup {NaN}, h \in Humidities \cup {NaN} :
              Whole([s EXCEPT !.current = c, !.humidity = h])
         /\ \A c \in Temperatures \cup {NaN} : Whole([s EXCEPT !.current = c])
         /\ \A h \in Humidities \cup {NaN} : Whole([s EXCEPT !.humidity = h])
<1>1. /\ \A c \in Temperatures \cup {NaN} : c \in Int \cup {NaN}
      /\ \A h \in Humidities \cup {NaN} : h \in Nat \cup {NaN}
  BY SensorFacts
<1>2. ASSUME NEW c \in Temperatures \cup {NaN}, NEW h \in Humidities \cup {NaN}
      PROVE  Whole([s EXCEPT !.current = c, !.humidity = h])
  BY <1>1, Zenon DEF Whole, PidState
<1>3. ASSUME NEW c \in Temperatures \cup {NaN} PROVE Whole([s EXCEPT !.current = c])
  BY <1>1, Zenon DEF Whole, PidState
<1>4. ASSUME NEW h \in Humidities \cup {NaN} PROVE Whole([s EXCEPT !.humidity = h])
  BY <1>1, Zenon DEF Whole, PidState
<1> QED BY <1>2, <1>3, <1>4

LEMMA WholeChoices ==
  ASSUME NEW s, Whole(s)
  PROVE  /\ \A m \in Modes : Whole([s EXCEPT !.mode = m])
         /\ \A t \in Int : Whole([s EXCEPT !.target = t])
         /\ \A on \in BOOLEAN : Whole([s EXCEPT !.commissioning = on])
BY DEF Whole, PidState

LEMMA WholeFields ==
  ASSUME NEW s, Whole(s)
  PROVE  /\ s.mode \in Modes /\ s.target \in Int /\ s.current \in Temperatures \cup {NaN}
         /\ s.humidity \in Humidities \cup {NaN} /\ s.number \in [Kinds -> Int]
         /\ s.integral \in Int /\ s.error \in Int \cup {NaN} /\ s.raw \in Int
         /\ s.output \in Int /\ s.effective \in Int
         /\ s.valve \in BOOLEAN /\ s.switch \in BOOLEAN /\ s.seen \in BOOLEAN
         /\ s.commissioning \in BOOLEAN
         /\ s.sinceCompute \in Nat /\ s.sinceCycle \in Nat /\ s.sinceChange \in Nat
         /\ s.sinceKeep \in Nat
BY DEF Whole, PidState

\* The control law.
LEMMA ErrorIsInt ==
  ASSUME NEW s, Whole(s), s.current # NaN
  PROVE  EffectiveTarget(s) \in Int /\ Error(s) \in Int
<1>1. s.target \in Int /\ s.current \in Temperatures /\ s.current \in Int
      /\ s.number["dew_point_offset"] \in Int
  BY WholeFields, SensorFacts DEF Kinds
<1>2. ASSUME s.humidity # NaN
      PROVE  DewPoint(s.current, s.humidity) + s.number["dew_point_offset"] \in Int
  <2>1. s.humidity \in Humidities
    BY <1>2, WholeFields
  <2>2. DewPoint(s.current, s.humidity) \in Int
    BY <1>1, <2>1, SensorFacts
  <2> QED BY <1>1, <2>2
<1>3. EffectiveTarget(s) \in Int
  BY <1>1, <1>2, Bounds DEF EffectiveTarget
<1> HIDE DEF EffectiveTarget
<1> QED BY <1>1, <1>3 DEF Error

LEMMA RegulateWhole ==
  ASSUME NEW s, Whole(s), s.current # NaN
  PROVE  Whole(Regulate(s))
<1> DEFINE n == s.number
           dt == IF s.sinceCompute > 0 THEN s.sinceCompute ELSE 1
           derivative == IF s.error = NaN THEN 0 ELSE (n["kd"] * (Error(s) - s.error)) \div dt
           grown == s.integral + n["ki"] * Error(s) * dt
           integral == Clamp(grown, n["i_min"], n["i_max"])
           raw == n["kp"] * Error(s) + integral + derivative
           limited == IF raw <= 0 THEN 0 ELSE Clamp(raw, n["pwm_min"], n["pwm_max"])
           out == IF CutOff(s) THEN 0 ELSE Clamp(limited, 0, 100)
<1>1. EffectiveTarget(s) \in Int /\ Error(s) \in Int
  BY ErrorIsInt
<1>2. n["kp"] \in Int /\ n["ki"] \in Int /\ n["kd"] \in Int /\ n["i_min"] \in Int
      /\ n["i_max"] \in Int /\ n["pwm_min"] \in Int /\ n["pwm_max"] \in Int
  BY NumberIsInt DEF Kinds
<1>3. dt \in Nat \ {0}
  BY WholeFields
<1>4. s.integral \in Int /\ s.error \in Int \cup {NaN}
  BY WholeFields
<1>5. Regulate(s) = Integrated(s, integral, raw, Error(s), EffectiveTarget(s), 0, out)
  BY Zenon DEF Regulate, Integrated
<1> HIDE DEF n, dt
<1>6. derivative \in Int
  <2>1. CASE s.error = NaN
    BY <2>1
  <2>2. CASE s.error # NaN
    <3>1. n["kd"] * (Error(s) - s.error) \in Int
      BY <1>1, <1>2, <1>4, <2>2
    <3> QED BY <1>3, <2>2, <3>1, Quotients
  <2> QED BY <2>1, <2>2
<1>7. grown \in Int
  <2>1. n["ki"] * Error(s) \in Int
    BY <1>1, <1>2
  <2>2. n["ki"] * Error(s) * dt \in Int
    BY <1>3, <2>1
  <2> QED BY <1>4, <2>2
<1> HIDE DEF derivative, grown
<1>8. integral \in Int
  BY <1>2, <1>7, Bounds
<1> HIDE DEF integral
<1>9. raw \in Int
  <2>1. n["kp"] * Error(s) \in Int
    BY <1>1, <1>2
  <2> QED BY <1>6, <1>8, <2>1
<1> HIDE DEF raw
<1>10. limited \in Int
  <2>1. Clamp(raw, n["pwm_min"], n["pwm_max"]) \in Int
    BY <1>2, <1>9, Bounds
  <2> QED BY <2>1
<1> HIDE DEF limited
<1>11. out \in Int
  BY <1>10, Bounds
<1> HIDE DEF out
<1>12. Error(s) \in Int \cup {NaN} /\ 0 \in Nat
  BY <1>1
<1> QED BY <1>1, <1>5, <1>8, <1>9, <1>11, <1>12, WholeIntegrated, ZenonT(60)

LEMMA CalculateWhole ==
  ASSUME NEW s, Whole(s)
  PROVE  Whole(Calculate(s))
<1>1. Whole(Off(s))
  <2>1. s.target \in Int /\ 0 \in Int /\ 0 \in Int \cup {NaN} /\ 0 \in Nat
    BY WholeFields
  <2>2. Off(s) = Result(s, 0, 0, 0, s.target, 0)
    BY DEF Off, Result
  <2> QED BY <2>1, <2>2, WholeResult, Zenon
<1>2. Whole(Blind(s))
  <2> DEFINE safe == IF s.mode = "heat" THEN Clamp(s.number["output_safety"], 0, 100) ELSE 0
  <2>1. safe \in Int
    <3>1. s.number["output_safety"] \in Int
      BY NumberIsInt DEF Kinds
    <3>2. Clamp(s.number["output_safety"], 0, 100) \in Int
      BY <3>1 DEF Clamp, Least, Most
    <3> QED BY <3>2
  <2>2. Blind(s) = Result(s, safe, safe, NaN, s.target, 0)
    BY DEF Blind, Result
  <2> HIDE DEF safe
  <2>3. s.target \in Int /\ NaN \in Int \cup {NaN} /\ 0 \in Nat
    BY WholeFields
  <2> QED BY <2>1, <2>2, <2>3, WholeResult, Zenon
<1>3. CASE s.mode = "off"
  BY <1>1, <1>3, Zenon DEF Calculate
<1>4. CASE s.mode # "off" /\ s.current = NaN
  BY <1>2, <1>4, Zenon DEF Calculate
<1>5. CASE s.mode # "off" /\ s.current # NaN
  BY <1>5, RegulateWhole, Zenon DEF Calculate
<1> QED BY <1>3, <1>4, <1>5

\* What is published, and the valve.
LEMMA PublishWhole ==
  ASSUME NEW s, Whole(s)
  PROVE  Whole(Publish(s)) /\ Whole(PublishValve(s)) /\ Whole(UpdateAction(s))
<1>1. Reason(s) \in Reasons
  BY Zenon DEF Reason, Reasons
<1>2. ActiveOutput(s) \in Int
  BY NumberIsInt, WholeFields DEF ActiveOutput, Kinds
<1> HIDE DEF Reason, ActiveOutput
<1>3. Whole(Publish(s))
  <2>1. ASSUME NEW w \in [output : Int, reason : Reasons, valve : BOOLEAN]
        PROVE  Whole([s EXCEPT !.shown = w])
    BY DEF Whole, PidState
  <2>2. [output |-> ActiveOutput(s), reason |-> Reason(s), valve |-> s.switch]
          \in [output : Int, reason : Reasons, valve : BOOLEAN]
    BY <1>1, <1>2, WholeFields
  <2> QED BY <2>1, <2>2 DEF Publish
<1>4. Whole(PublishValve(s))
  BY DEF Whole, PidState, PublishValve
<1>5. Whole(UpdateAction(s))
  BY DEF Whole, PidState, UpdateAction, Modes
<1> QED BY <1>3, <1>4, <1>5

LEMMA RestartedWhole ==
  ASSUME NEW s, Whole(s)
  PROVE  Whole(Restarted(s))
<1> DEFINE zero == Zeroed(s)
           computed == Calculate(zero)
<1>1. Whole(zero)
  <2> DEFINE e == IF s.current = NaN THEN 0 ELSE Error(s)
             put(i, c, v) == [s EXCEPT !.integral = i, !.sinceCompute = c, !.sinceCycle = c,
                                       !.error = v]
  <2>1. e \in Int
    BY ErrorIsInt
  <2>2. zero = put(0, 0, e)
    BY DEF Zeroed
  <2> HIDE DEF e, zero
  <2>3. \A i, v \in Int, c \in Nat : Whole(put(i, c, v))
    <3> TAKE i, v \in Int, c \in Nat
    <3> QED BY Zenon DEF Whole, PidState
  <2> HIDE DEF put
  <2> QED BY <2>1, <2>2, <2>3
<1>2. Restarted(s) = UpdateAction(computed)
  BY DEF Restarted, Do
<1> HIDE DEF zero
<1>3. Whole(computed)
  BY <1>1, CalculateWhole
<1> HIDE DEF computed
<1> QED BY <1>2, <1>3, PublishWhole

LEMMA HandOverWhole ==
  ASSUME NEW s, Whole(s)
  PROVE  Whole(HandOver(s))
<1> DEFINE left == [s EXCEPT !.seen = FALSE, !.integral = 0, !.output = 0, !.raw = 0,
                             !.error = 0, !.sinceCycle = 0]
           acted == UpdateAction(left)
<1>1. Whole(left)
  <2> DEFINE put(i, c) == [s EXCEPT !.seen = FALSE, !.integral = i, !.output = i, !.raw = i,
                                       !.error = i, !.sinceCycle = c]
  <2>1. left = put(0, 0)
    OBVIOUS
  <2>2. \A i \in Int, c \in Nat : Whole(put(i, c))
    <3> TAKE i \in Int, c \in Nat
    <3> QED BY Zenon DEF Whole, PidState
  <2> HIDE DEF put, left
  <2> QED BY <2>1, <2>2
<1>2. HandOver(s) = Publish(acted)
  BY DEF HandOver, Do
<1> HIDE DEF left
<1>3. Whole(acted)
  BY <1>1, PublishWhole
<1> HIDE DEF acted
<1> QED BY <1>2, <1>3, PublishWhole

LEMMA DriveWhole ==
  ASSUME NEW s, Whole(s), NEW force
  PROVE  Whole(Drive(s, force))
<1>1. ASSUME NEW z, Whole(z) PROVE Whole(UpdateAction(PublishValve(z)))
  <2> DEFINE y == PublishValve(z)
  <2>1. Whole(y)
    BY <1>1, PublishWhole
  <2> HIDE DEF y
  <2>2. Whole(UpdateAction(y))
    BY <2>1, PublishWhole
  <2> QED BY <2>2 DEF y
<1>2. CASE ~enabled /\ ~s.commissioning
  <2> DEFINE followed == [s EXCEPT !.valve = s.switch, !.sinceChange = 0]
  <2>1. Whole(followed)
    BY DEF Whole, PidState
  <2>2. Drive(s, force) = s \/ Drive(s, force) = UpdateAction(PublishValve(followed))
    BY <1>2 DEF Drive, FollowHand, Do
  <2> HIDE DEF followed
  <2> QED BY <1>1, <2>1, <2>2
<1>3. CASE enabled \/ s.commissioning
  <2> DEFINE open == IF WantsOpen(s) # s.valve /\ ~force /\ Held(s) THEN s.valve
                                                                    ELSE WantsOpen(s)
             turned == Turn(s, open)
  <2>1. open \in BOOLEAN
    <3>1. s.valve \in BOOLEAN
      BY WholeFields
    <3>2. WantsOpen(s) \in BOOLEAN
      BY Zenon DEF WantsOpen
    <3> QED BY <3>1, <3>2
  <2>2. Drive(s, force) = UpdateAction(PublishValve(turned))
    <3>1. ~(~enabled /\ ~s.commissioning)
      BY <1>3
    <3> QED BY <3>1 DEF Drive, Do
  <2> HIDE DEF open
  <2>3. Whole(turned)
    <3>1. \A c \in Nat : Whole([s EXCEPT !.valve = open, !.switch = open, !.sinceChange = c])
      BY <2>1, Zenon DEF Whole, PidState
    <3>2. s.sinceChange \in Nat
      BY WholeFields
    <3> QED BY <3>1, <3>2 DEF Turn
  <2> HIDE DEF turned
  <2> QED BY <1>1, <2>2, <2>3
<1> QED BY <1>2, <1>3

LEMMA UpdateValveWhole ==
  ASSUME NEW s, Whole(s), NEW force, enabled \in BOOLEAN
  PROVE  Whole(UpdateValve(s, force))
<1>1. CASE enabled /\ ~s.seen
  <2> DEFINE back == [s EXCEPT !.seen = TRUE]
             again == Restarted(back)
             driven_ == Drive(again, TRUE)
  <2>1. UpdateValve(s, force) = Publish(driven_)
    BY <1>1 DEF UpdateValve, Do
  <2>2. Whole(back)
    BY DEF Whole, PidState
  <2> HIDE DEF back
  <2>3. Whole(again)
    BY <2>2, RestartedWhole
  <2> HIDE DEF again
  <2>4. Whole(driven_)
    BY <2>3, DriveWhole
  <2> HIDE DEF driven_
  <2> QED BY <2>1, <2>4, PublishWhole
<1>2. CASE ~enabled /\ s.seen
  <2> DEFINE left == HandOver(s)
  <2>1. UpdateValve(s, force) = Drive(left, force)
    BY <1>2 DEF UpdateValve, Do
  <2>2. Whole(left)
    BY HandOverWhole
  <2> HIDE DEF left
  <2> QED BY <2>1, <2>2, DriveWhole
<1>3. CASE enabled = s.seen
  <2>1. UpdateValve(s, force) = Drive(s, force)
    BY <1>3, Zenon DEF UpdateValve
  <2> QED BY <2>1, DriveWhole
<1> QED BY <1>1, <1>2, <1>3, WholeFields

LEMMA ResetWhole ==
  ASSUME NEW s, Whole(s), enabled \in BOOLEAN
  PROVE  Whole(ResetController(s)) /\ Whole(SetUp(s)) /\ Whole(UpdateValveNow(s))
<1>1. ASSUME NEW z, Whole(z) PROVE Whole(UpdateValveNow(z))
  BY <1>1, UpdateValveWhole DEF UpdateValveNow
<1>2. ASSUME NEW z, Whole(z) PROVE Whole(Publish(UpdateValveNow(z)))
  <2> DEFINE y == UpdateValveNow(z)
  <2>1. Whole(y)
    BY <1>1, <1>2
  <2> HIDE DEF y
  <2>2. Whole(Publish(y))
    BY <2>1, PublishWhole
  <2> QED BY <2>2 DEF y
<1>3. Whole(ResetController(s))
  <2> DEFINE again == Restarted(s)
  <2>1. ResetController(s) = Publish(UpdateValveNow(again)) /\ Whole(again)
    BY RestartedWhole DEF ResetController, Do
  <2> HIDE DEF again
  <2> QED BY <1>2, <2>1
<1>4. Whole(SetUp(s))
  <2> DEFINE computed == Calculate(s)
             acted == UpdateAction(computed)
  <2>1. SetUp(s) = Publish(UpdateValveNow(acted)) /\ Whole(computed)
    BY CalculateWhole DEF SetUp, Do
  <2> HIDE DEF computed
  <2>2. Whole(acted)
    BY <2>1, PublishWhole
  <2> HIDE DEF acted
  <2> QED BY <1>2, <2>1, <2>2
<1> QED BY <1>1, <1>3, <1>4

LEMMA PassedWhole ==
  ASSUME NEW s, Whole(s), enabled \in BOOLEAN
  PROVE  Whole(Passed(s))
<1> DEFINE kept == [s EXCEPT !.sinceKeep = IF KeepAliveDue(s) THEN 0 ELSE @]
           done == Recomputed(kept)
<1>1. Passed(s) = UpdateValve(done, KeepAliveDue(s))
  BY DEF Passed, Do
<1>2. Whole(kept)
  BY DEF Whole, PidState
<1>3. ASSUME NEW z, Whole(z) PROVE Whole(Publish(UpdateAction(Calculate(z))))
  <2> DEFINE y == Calculate(z)
             x == UpdateAction(y)
  <2>1. Whole(y)
    BY <1>3, CalculateWhole
  <2> HIDE DEF y
  <2>2. Whole(x)
    BY <2>1, PublishWhole
  <2> HIDE DEF x
  <2>3. Whole(Publish(x))
    BY <2>2, PublishWhole
  <2> QED BY <2>3 DEF x, y
<1> HIDE DEF kept
<1>4. Whole(done)
  <2> DEFINE fresh == [kept EXCEPT !.sinceCycle = 0]
  <2>1. Whole(fresh)
    BY <1>2 DEF Whole, PidState
  <2>2. \/ done = Publish(UpdateAction(Calculate(fresh)))
        \/ done = Publish(UpdateAction(Calculate(kept)))
        \/ done = kept
    BY DEF Recomputed, Do
  <2> HIDE DEF fresh
  <2> QED BY <1>2, <1>3, <2>1, <2>2
<1> HIDE DEF done
<1> QED BY <1>1, <1>4, UpdateValveWhole

\* Every number stays where the schema and the limits leave it.
Lawful(n) == \A k \in Kinds : n[k] \in Legal(k)

LEMMA LegalIsInt == \A k \in Kinds : Legal(k) \subseteq Int
BY DEF Legal

LEMMA LegalKinds ==
  /\ \A k \in {"kp", "ki", "kd", "i_min", "i_max"} : Legal(k) = Int
  /\ \A k \in Percentages : Legal(k) = 0..100
  /\ Legal("pwm_period") = {p \in Nat : p >= MinPeriod}
  /\ \A k \in Tolerances : Legal(k) = Nat
BY DEF Legal, Percentages, Tolerances

LEMMA LimitedIsLegal ==
  ASSUME NEW s, s.number \in [Kinds -> Int], NEW k \in Kinds, NEW v \in Legal(k)
  PROVE  Limited(s, k, v) \in Legal(k)
<1>1. MinPeriod \in Nat
  BY ConstantsAssumption DEF ConstantsAssumption
<1>2. v \in Int
  BY LegalIsInt
<1>3. s.number["i_max"] \in Int /\ s.number["i_min"] \in Int
  BY NamedKinds
<1>4. CASE k = "i_min"
  <2>1. Limited(s, k, v) = Least(v, s.number["i_max"])
    BY <1>4 DEF Limited, Percentages, Tolerances
  <2> QED BY <1>2, <1>3, <1>4, <2>1, LegalKinds, Bounds, Zenon
<1>5. CASE k = "i_max"
  <2>1. Limited(s, k, v) = Most(v, s.number["i_min"])
    BY <1>5 DEF Limited, Percentages, Tolerances
  <2> QED BY <1>2, <1>3, <1>5, <2>1, LegalKinds, Bounds, Zenon
<1>6. CASE k \in Tolerances
  <2>1. Limited(s, k, v) = Most(0, v) /\ Legal(k) = Nat
    BY <1>6, LegalKinds DEF Limited, Percentages, Tolerances
  <2> QED BY <2>1 DEF Most
<1>7. CASE k \in Percentages
  <2>1. Limited(s, k, v) = Clamp(v, 0, 100) /\ Legal(k) = 0..100
    BY <1>7, LegalKinds DEF Limited, Percentages, Tolerances
  <2> QED BY <1>2, <2>1 DEF Clamp, Most, Least
<1>8. CASE k = "pwm_period"
  <2>1. Limited(s, k, v) = Most(v, MinPeriod) /\ Legal(k) = {p \in Nat : p >= MinPeriod}
    BY <1>8, LegalKinds DEF Limited, Percentages, Tolerances
  <2> QED BY <1>1, <2>1 DEF Most
<1>9. CASE k \notin {"i_min", "i_max", "pwm_period"} \cup Tolerances \cup Percentages
  <2>1. Limited(s, k, v) = v
    BY <1>9 DEF Limited
  <2> QED BY <2>1
<1> QED BY <1>4, <1>5, <1>6, <1>7, <1>8, <1>9

LEMMA PercentKinds ==
  /\ {"pwm_min", "pwm_max"} \subseteq Percentages
  /\ Legal("pwm_min") = 0..100 /\ Legal("pwm_max") = 0..100
  /\ \A a, b \in 0..100 : Most(a, b) \in 0..100 /\ Least(a, b) \in 0..100
BY LegalKinds DEF Percentages, Most, Least

LEMMA NumbersLawful ==
  ASSUME NEW s, s.number \in [Kinds -> Int], Lawful(s.number),
         NEW k \in Kinds, NEW v \in Legal(k)
  PROVE  Lawful(Numbers(s, k, v)) /\ Numbers(s, k, v) \in [Kinds -> Int]
<1> DEFINE set == [s.number EXCEPT ![k] = Limited(s, k, v)]
           new == Numbers(s, k, v)
<1>1. Limited(s, k, v) \in Legal(k) /\ Limited(s, k, v) \in Int
  BY LimitedIsLegal, LegalIsInt
<1>2. Lawful(set) /\ set \in [Kinds -> Int]
  BY <1>1 DEF Lawful
<1>3. new = Pushed(set, k)
  BY DEF Numbers
<1> HIDE DEF set
<1>4. set["pwm_min"] \in 0..100 /\ set["pwm_max"] \in 0..100
  BY <1>2, PercentKinds, NamedKinds, Zenon DEF Lawful
<1>5. CASE k = "pwm_min"
  <2>1. new = [set EXCEPT !["pwm_max"] = Most(set["pwm_max"], set["pwm_min"])]
    BY <1>3, <1>5 DEF Pushed
  <2>2. Most(set["pwm_max"], set["pwm_min"]) \in 0..100
    BY <1>4, PercentKinds, Zenon
  <2> HIDE DEF new
  <2>3. \A j \in Kinds : new[j] = set[j] \/ (j = "pwm_max" /\ new[j] \in 0..100)
    BY <1>2, <2>1, <2>2
  <2>4. new \in [Kinds -> Int]
    <3>1. \A x \in 0..100 : x \in Int
      OBVIOUS
    <3> QED BY <1>2, <2>1, <2>2, <3>1, Zenon
  <2> QED BY <1>2, <2>3, <2>4, PercentKinds, Zenon DEF Lawful, new
<1>6. CASE k = "pwm_max"
  <2>1. new = [set EXCEPT !["pwm_min"] = Least(set["pwm_min"], set["pwm_max"])]
    BY <1>3, <1>6 DEF Pushed
  <2>2. Least(set["pwm_min"], set["pwm_max"]) \in 0..100
    BY <1>4, PercentKinds, Zenon
  <2> HIDE DEF new
  <2>3. \A j \in Kinds : new[j] = set[j] \/ (j = "pwm_min" /\ new[j] \in 0..100)
    BY <1>2, <2>1, <2>2
  <2>4. new \in [Kinds -> Int]
    <3>1. \A x \in 0..100 : x \in Int
      OBVIOUS
    <3> QED BY <1>2, <2>1, <2>2, <3>1, Zenon
  <2> QED BY <1>2, <2>3, <2>4, PercentKinds, Zenon DEF Lawful, new
<1>7. CASE k # "pwm_min" /\ k # "pwm_max"
  <2>1. new = set
    BY <1>3, <1>7 DEF Pushed
  <2> QED BY <1>2, <2>1
<1> QED BY <1>5, <1>6, <1>7

\* Flash holds lawful numbers or none, hence so does what is restored from it.
Flash(st) == \A k \in Kinds : st[k] \in Legal(k) \cup {NaN}

LEMMA RestoredLawful ==
  ASSUME Flash(stored)
  PROVE  Lawful(Restored) /\ Flash(Migration)
<1> DEFINE kept(k) == IF stored[k] = NaN \/ Migrated(k) THEN Config[k] ELSE stored[k]
           i_min == Least(kept("i_min"), Config["i_max"])
           pwm_max == IF stored["pwm_max"] = NaN THEN Most(Config["pwm_max"], kept("pwm_min"))
                      ELSE stored["pwm_max"]
<1>1. \A k \in Kinds : Config[k] \in Legal(k)
  BY ConstantsAssumption DEF ConstantsAssumption
<1>2. Flash(Migration)
  BY <1>1 DEF Flash, Migration
<1>3. \A k \in Kinds : kept(k) \in Legal(k)
  BY <1>1 DEF Flash
<1>4. \A k \in Kinds : Restored[k] =
        CASE k = "i_min" -> i_min
          [] k = "i_max" -> Most(kept("i_max"), i_min)
          [] k = "pwm_min" -> Least(kept("pwm_min"), pwm_max)
          [] k = "pwm_max" -> pwm_max
          [] OTHER -> kept(k)
  BY Zenon DEF Restored
<1>5. kept("pwm_min") \in 0..100 /\ Config["pwm_max"] \in 0..100
      /\ stored["pwm_max"] \in 0..100 \cup {NaN}
  BY <1>1, <1>3, PercentKinds, NamedKinds, Zenon DEF Flash
<1>6. kept("i_min") \in Int /\ kept("i_max") \in Int /\ Config["i_max"] \in Int
  BY <1>1, <1>3, LegalIsInt, NamedKinds
<1> HIDE DEF kept
<1>7. pwm_max \in 0..100
  BY <1>5, PercentKinds, Zenon
<1>8. i_min \in Int
  BY <1>6, Bounds
<1> HIDE DEF pwm_max, i_min
<1>9. Most(kept("i_max"), i_min) \in Int /\ Least(kept("pwm_min"), pwm_max) \in 0..100
  BY <1>5, <1>6, <1>7, <1>8, Bounds, PercentKinds, Zenon
<1>10. Legal("i_min") = Int /\ Legal("i_max") = Int
  BY LegalKinds
<1>11. ASSUME NEW k \in Kinds PROVE Restored[k] \in Legal(k)
  <2>1. CASE k = "i_min"
    BY <1>4, <1>8, <1>10, <2>1
  <2>2. CASE k = "i_max"
    BY <1>4, <1>9, <1>10, <2>2
  <2>3. CASE k = "pwm_min"
    BY <1>4, <1>9, <2>3, PercentKinds, Zenon
  <2>4. CASE k = "pwm_max"
    BY <1>4, <1>7, <2>4, PercentKinds, Zenon
  <2>5. CASE k \notin {"i_min", "i_max", "pwm_min", "pwm_max"}
    BY <1>3, <1>4, <2>5
  <2> QED BY <2>1, <2>2, <2>3, <2>4, <2>5
<1> QED BY <1>2, <1>11 DEF Lawful

LEMMA FreshWhole ==
  ASSUME NEW m \in Modes, NEW t \in Int, NEW n \in [Kinds -> Int], NEW on \in BOOLEAN,
         enabled \in BOOLEAN, NEW c \in Temperatures \cup {NaN}
  PROVE  /\ Whole(Fresh(m, t, n, on))
         /\ Whole([Fresh(m, t, n, on) EXCEPT !.current = c])
<1> DEFINE i == Clamp(Clamp(0, Config["i_min"], Config["i_max"]), n["i_min"], n["i_max"])
           w == [output |-> 0, reason |-> "mode_off", valve |-> on]
           f == Fresh(m, t, n, on)
<1>1. i \in Int
  <2>1. Config["i_min"] \in Int /\ Config["i_max"] \in Int /\ n["i_min"] \in Int
        /\ n["i_max"] \in Int
    BY ConfigFacts, NamedKinds
  <2>2. Clamp(0, Config["i_min"], Config["i_max"]) \in Int
    BY <2>1 DEF Clamp, Least, Most
  <2> QED BY <2>1, <2>2, Bounds
<1>2. w \in [output : Int, reason : Reasons, valve : BOOLEAN]
  BY DEF Reasons
<1>3. f = [mode |-> m, target |-> t, current |-> NaN, humidity |-> NaN, number |-> n,
           integral |-> i, error |-> 0, raw |-> 0, output |-> 0, effective |-> t,
           valve |-> FALSE, switch |-> on, seen |-> enabled, commissioning |-> FALSE,
           action |-> "off", shown |-> w,
           sinceCompute |-> 0, sinceCycle |-> 0, sinceChange |-> 0, sinceKeep |-> 0]
  BY DEF Fresh
<1> HIDE DEF i, w, f
<1>4. Whole(f)
  BY <1>1, <1>2, <1>3 DEF Whole, PidState
<1>5. Whole([f EXCEPT !.current = c])
  BY <1>4, SensorFacts DEF Whole, PidState
<1> QED BY <1>4, <1>5 DEF f

LEMMA SetNumberWhole ==
  ASSUME NEW s, Whole(s), enabled \in BOOLEAN, NEW k \in Kinds, NEW v,
         Numbers(s, k, v) \in [Kinds -> Int]
  PROVE  Whole(SetNumber(s, k, v))
<1> DEFINE r == SetNumber(s, k, v)
           n == Numbers(s, k, v)
           set == [s EXCEPT !.number = n, !.sinceCycle = IF k = "pwm_period" THEN 0 ELSE @]
           cut == [set EXCEPT !.integral = Clamp(@, set.number["i_min"], set.number["i_max"])]
           turned == UpdateValveNow(set)
<1>1. Whole(set)
  <2> HIDE DEF n
  <2>1. n \in [Kinds -> Int]
    BY DEF n
  <2> QED BY <2>1, Zenon DEF Whole, PidState
<1>2. r \in {s, set, Publish(set), Publish(cut), Publish(turned)}
  BY DEF SetNumber, Do
<1> HIDE DEF set, r
<1>3. Whole(cut)
  <2> DEFINE i == Clamp(set.integral, set.number["i_min"], set.number["i_max"])
  <2>1. i \in Int
    BY <1>1, WholeFields, NumberIsInt, NamedKinds, Bounds
  <2> HIDE DEF i
  <2>2. Whole([set EXCEPT !.integral = i])
    BY <1>1, <2>1 DEF Whole, PidState
  <2> QED BY <2>2 DEF i
<1> HIDE DEF cut
<1>4. Whole(turned)
  BY <1>1, ResetWhole
<1> HIDE DEF turned
<1>5. Whole(Publish(set)) /\ Whole(Publish(cut)) /\ Whole(Publish(turned))
  BY <1>1, <1>3, <1>4, PublishWhole
<1>6. Whole(r)
  BY <1>1, <1>2, <1>5
<1> QED BY <1>6 DEF r

\* The inductive invariant: what was proved above, and types that hold the readings to
\* what the sensors show, where alone the dew point is a number.
TypeInv ==
  /\ PidInv /\ Whole(pid) /\ Lawful(pid.number) /\ Flash(stored)
  /\ primary \in Temperatures \cup {NaN} /\ fallback \in Temperatures \cup {NaN}
  /\ humid \in Humidities \cup {NaN}

LEMMA TypeInvTypes == TypeInv => TypeOK
BY DEF TypeInv, TypeOK, PidInv, Whole, Lawful, Flash

LEMMA InitTypeInv == Init => TypeInv
<1> SUFFICES ASSUME Init PROVE TypeInv
  OBVIOUS
<1>1. PidInv
  BY InitPidInv
<1>2. enabled = TRUE /\ stored = [k \in Kinds |-> NaN] /\ primary = NaN /\ fallback = NaN
      /\ humid = NaN
  BY DEF Init
<1>3. Flash(stored)
  BY <1>2 DEF Flash
<1>4. PICK t \in Targets : pid = SetUp(Fresh("off", t, Restored, FALSE))
  BY DEF Init
<1>5. Lawful(Restored)
  BY <1>3, RestoredLawful
<1>6. pid.number = Restored /\ Restored \in [Kinds -> Int]
  BY InitPidInv DEF PidInv, Remembers
<1> DEFINE f == Fresh("off", t, Restored, FALSE)
<1>7. Whole(f)
  <2>1. t \in Int /\ enabled \in BOOLEAN /\ "off" \in Modes /\ NaN \in Temperatures \cup {NaN}
    BY <1>2, SensorFacts DEF Modes
  <2> QED BY <1>6, <2>1, FreshWhole
<1> HIDE DEF f
<1>8. Whole(pid)
  BY <1>2, <1>4, <1>7, ResetWhole DEF f
<1> QED BY <1>1, <1>2, <1>3, <1>5, <1>6, <1>8 DEF TypeInv

\* The handlers of the PID thermostat keep its object whole.
LEMMA HandlersWhole ==
  ASSUME TypeInv, Next
  PROVE  \/ Whole(pid')
         \/ Restart
         \/ \E w \in Writes : WriteNumber(w)
<1>1. Whole(pid) /\ enabled \in BOOLEAN
  BY DEF TypeInv, PidInv
<1>2. ASSUME NEW d \in Delays, Loop(d) PROVE Whole(pid')
  <2> DEFINE older == Older(pid, d)
             sensing == SenseAll(older)
  <2>1. pid' = Passed(sensing)
    BY <1>2 DEF Loop, Do
  <2>2. Whole(older)
    <3>1. \A a \in Nat : Aged(a, d) \in Nat
      BY SensorFacts DEF Aged, Least
    <3>2. /\ Aged(pid.sinceCompute, d) \in Nat /\ Aged(pid.sinceCycle, d) \in Nat
          /\ Aged(pid.sinceChange, d) \in Nat /\ Aged(pid.sinceKeep, d) \in Nat
      BY <1>1, <3>1, WholeFields
    <3> QED BY <1>1, <3>2, WholeAges DEF Older
  <2> HIDE DEF older
  <2>3. Whole(sensing)
    <3>1. Sensed(primary, fallback) \in Temperatures \cup {NaN} /\ humid \in Humidities \cup {NaN}
      BY DEF Sensed, TypeInv
    <3> QED BY <2>2, <3>1, WholeReadings DEF SenseAll
  <2> HIDE DEF sensing
  <2> QED BY <1>1, <2>1, <2>3, PassedWhole
<1>3. ASSUME NEW t \in Temperatures \cup {NaN}, SensorShows(t) \/ FallbackShows(t)
      PROVE  Whole(pid')
  <2>1. PICK c \in Temperatures \cup {NaN} : pid' = [pid EXCEPT !.current = c]
    BY <1>3 DEF SensorShows, FallbackShows, Sensed, TypeInv
  <2> QED BY <1>1, <2>1, WholeReadings
<1>4. ASSUME NEW h \in Humidities \cup {NaN}, HumidityShows(h) PROVE Whole(pid')
  BY <1>1, <1>4, WholeReadings DEF HumidityShows
<1>5. ASSUME NEW t \in Temperatures, ServiceTemperature(t) PROVE Whole(pid')
  <2> DEFINE set == [pid EXCEPT !.current = t]
  <2>1. Whole(set) /\ pid' = Publish(set)
    BY <1>1, <1>5, WholeReadings DEF ServiceTemperature
  <2> HIDE DEF set
  <2> QED BY <2>1, PublishWhole
<1>6. ASSUME NEW h \in Humidities, ServiceHumidity(h) PROVE Whole(pid')
  <2> DEFINE set == [pid EXCEPT !.humidity = h]
  <2>1. Whole(set) /\ pid' = Publish(set)
    BY <1>1, <1>6, WholeReadings DEF ServiceHumidity
  <2> HIDE DEF set
  <2> QED BY <2>1, PublishWhole
<1>7. ASSUME NEW m \in Modes, ChooseMode(m) PROVE Whole(pid')
  <2> DEFINE call == [pid EXCEPT !.mode = m]
  <2>1. Whole(call) /\ pid' \in {ResetController(call), UpdateAction(call)}
    BY <1>1, <1>7, WholeChoices DEF ChooseMode
  <2> HIDE DEF call
  <2> QED BY <1>1, <2>1, ResetWhole, PublishWhole
<1>8. ASSUME NEW t \in Targets, ChooseTarget(t) PROVE Whole(pid')
  <2> DEFINE call == [pid EXCEPT !.target = t]
  <2>1. Whole(call) /\ pid' \in {ResetController(call), UpdateAction(call)}
    BY <1>1, <1>8, WholeChoices, SensorFacts DEF ChooseTarget
  <2> HIDE DEF call
  <2> QED BY <1>1, <2>1, ResetWhole, PublishWhole
<1>9. ASSUME PressReset PROVE Whole(pid')
  BY <1>1, <1>9, ResetWhole DEF PressReset
<1>10. ASSUME NEW on \in BOOLEAN, Commission(on) PROVE Whole(pid')
  <2> DEFINE set == [pid EXCEPT !.commissioning = on]
             turned == UpdateValveNow(set)
  <2>1. Whole(set) /\ pid' = Publish(turned)
    BY <1>1, <1>10, WholeChoices DEF Commission, Do
  <2> HIDE DEF set
  <2>2. Whole(turned)
    BY <1>1, <2>1, ResetWhole
  <2> HIDE DEF turned
  <2> QED BY <2>1, <2>2, PublishWhole
<1>11. ASSUME EnableChanges \/ TurnByHand PROVE Whole(pid')
  <2>1. pid' = pid \/ pid' = [pid EXCEPT !.switch = ~pid.switch]
    BY <1>11 DEF EnableChanges, TurnByHand
  <2>2. Whole([pid EXCEPT !.switch = ~pid.switch])
    <3> DEFINE b == ~pid.switch
    <3>1. b \in BOOLEAN
      OBVIOUS
    <3> HIDE DEF b
    <3>2. Whole([pid EXCEPT !.switch = b])
      BY <1>1, <3>1 DEF Whole, PidState
    <3> QED BY <3>2 DEF b
  <2> QED BY <1>1, <2>1, <2>2
<1> QED
  BY <1>2, <1>3, <1>4, <1>5, <1>6, <1>7, <1>8, <1>9, <1>10, <1>11, Zenon DEF Next

LEMMA WriteTypes ==
  ASSUME TypeInv, NEW w \in Writes, WriteNumber(w)
  PROVE  Whole(pid') /\ Lawful(pid'.number) /\ Flash(stored')
<1>1. Whole(pid) /\ enabled \in BOOLEAN /\ Sound(pid) /\ Lawful(pid.number) /\ Flash(stored)
  BY DEF TypeInv, PidInv
<1>2. w.kind \in Kinds /\ w.value \in Legal(w.kind)
  <2>1. \A x \in Writes : x.kind \in Kinds /\ x.value \in Legal(x.kind)
    BY ConstantsAssumption DEF ConstantsAssumption
  <2> QED BY <2>1
<1>3. pid.number \in [Kinds -> Int]
  BY <1>1, WholeFields
<1>4. Lawful(Numbers(pid, w.kind, w.value)) /\ Numbers(pid, w.kind, w.value) \in [Kinds -> Int]
  BY <1>1, <1>2, <1>3, NumbersLawful
<1>5. /\ pid' = SetNumber(pid, w.kind, w.value)
      /\ stored' = Saved(pid, w.kind, w.value)
  BY DEF WriteNumber
<1>6. Whole(pid')
  BY <1>1, <1>2, <1>4, <1>5, SetNumberWhole
<1>7. pid'.number = Numbers(pid, w.kind, w.value)
  BY <1>1, <1>5, SetNumberCareful
<1>8. \A j \in Kinds : stored'[j] \in {Numbers(pid, w.kind, w.value)[j], stored[j]}
  BY <1>5 DEF Saved
<1>9. Flash(stored')
  BY <1>1, <1>4, <1>8 DEF Flash, Lawful
<1> QED BY <1>4, <1>6, <1>7, <1>9

LEMMA RestartTypesHold ==
  ASSUME TypeInv, Restart
  PROVE  Whole(pid') /\ Lawful(pid'.number) /\ Flash(stored')
<1>1. Whole(pid) /\ enabled \in BOOLEAN /\ PidInv /\ Flash(stored)
  BY DEF TypeInv, PidInv
<1>2. stored' = Migration
  BY DEF Restart, Migration
<1>3. Lawful(Restored) /\ Flash(Migration) /\ pid'.number = Restored
  BY <1>1, RestoredLawful, RestartRemembers
<1>4. Restored \in [Kinds -> Int]
  BY <1>1, <1>3, RestartRemembers DEF PidInv, Remembers
<1>5. PICK on \in {FALSE, pid.switch} :
        pid' = SetUp([Fresh(pid.mode, pid.target, Restored, on) EXCEPT !.current = primary'])
  BY Zenon DEF Restart
<1> DEFINE f == [Fresh(pid.mode, pid.target, Restored, on) EXCEPT !.current = primary']
<1>6. Whole(f)
  <2>1. pid.mode \in Modes /\ pid.target \in Int /\ pid.switch \in BOOLEAN
    BY <1>1, WholeFields
  <2>2. on \in BOOLEAN
    BY <2>1
  <2>3. primary' \in Temperatures \cup {NaN}
    BY DEF TypeInv, Restart
  <2> QED BY <1>1, <1>4, <2>1, <2>2, <2>3, FreshWhole
<1> HIDE DEF f
<1>7. Whole(pid')
  BY <1>1, <1>5, <1>6, ResetWhole DEF f
<1> QED BY <1>2, <1>3, <1>7

LEMMA StepTypeInv == TypeInv /\ [Next]_vars => TypeInv'
<1> SUFFICES ASSUME TypeInv, [Next]_vars PROVE TypeInv'
  OBVIOUS
<1>1. PidInv'
  BY PidStep DEF TypeInv
<1>2. /\ primary' \in Temperatures \cup {NaN} /\ fallback' \in Temperatures \cup {NaN}
      /\ humid' \in Humidities \cup {NaN}
  BY DEF TypeInv, Next, vars, environment, Environmental, Loop, SensorShows, FallbackShows,
         HumidityShows, ServiceTemperature, ServiceHumidity, ChooseMode, ChooseTarget,
         PressReset, Commission, WriteNumber, EnableChanges, TurnByHand, Restart
<1>3. CASE UNCHANGED vars
  <2>1. pid' = pid /\ stored' = stored
    BY <1>3 DEF vars
  <2> QED BY <1>1, <1>2, <2>1 DEF TypeInv
<1>4. CASE Restart
  BY <1>1, <1>2, <1>4, RestartTypesHold DEF TypeInv
<1>5. CASE \E w \in Writes : WriteNumber(w)
  BY <1>1, <1>2, <1>5, WriteTypes DEF TypeInv
<1>6. CASE Next /\ ~Restart /\ ~\E w \in Writes : WriteNumber(w)
  <2>1. Whole(pid')
    BY <1>6, HandlersWhole
  <2>2. stored' = stored
    BY <1>6 DEF Next, Environmental, Loop, SensorShows, FallbackShows, HumidityShows,
           ServiceTemperature, ServiceHumidity, ChooseMode, ChooseTarget, PressReset,
           Commission, EnableChanges, TurnByHand
  <2>3. pid'.number = pid.number
    BY <1>6, PidStep DEF TypeInv
  <2> QED BY <1>1, <1>2, <2>1, <2>2, <2>3 DEF TypeInv
<1> QED BY <1>3, <1>4, <1>5, <1>6

\* Every variable of the PID thermostat keeps its type, every number the range that the
\* schema and its limits give it, in the object and in flash (the setters, save_number_value_
\* and restore_number_values_), and what the control law computes is a number although
\* readings may be missing.
THEOREM TypeCorrect == Spec => []TypeOK
<1> QED BY InitTypeInv, StepTypeInv, TypeInvTypes, PTL DEF Spec

-----------------------------------------------------------------------------
(* The dummy thermostat.                                                    *)
USE DEF Dummy!ConstantsAssumption

LEMMA ZeroIsTime ==
  ASSUME Dummy!ConstantsAssumption
  PROVE  0 \in Dummy!Times
BY DEF Dummy!Times

LEMMA NextTime ==
  ASSUME Dummy!ConstantsAssumption, now \in Dummy!Times
  PROVE  (now + 1) % W \in Dummy!Times
<1>1. now + 1 \in Nat /\ W \in Nat /\ W > 0
  BY DEF Dummy!Times
<1> QED
  BY <1>1 DEF Dummy!Times

LEMMA ActionOfIsAction ==
  ASSUME Dummy!ConstantsAssumption,
         NEW m \in Dummy!AllModes, NEW v \in BOOLEAN, NEW g, NEW d
  PROVE  Dummy!ActionOf(m, g, d, v) \in Dummy!Actions
BY DEF Dummy!ActionOf, Dummy!Actions, Dummy!AllModes

\* The hysteresis answers yes or no, also without a temperature.
LEMMA HysteresisDecides ==
  ASSUME Dummy!ConstantsAssumption, NEW m, NEW g, NEW d, NEW v \in BOOLEAN
  PROVE  Dummy!Hysteresis(m, g, d, v) \in BOOLEAN
BY Zenon DEF Dummy!Hysteresis

LEMMA InitTypes ==
  ASSUME Dummy!ConstantsAssumption
  PROVE  Dummy!Init => Dummy!TypeOK
<1> SUFFICES ASSUME Dummy!Init PROVE Dummy!TypeOK
  OBVIOUS
<1>1. action \in Dummy!Actions
  BY ActionOfIsAction DEF Dummy!Init
<1>2. Dummy!EntityTypes
  BY <1>1 DEF Dummy!Init, Dummy!EntityTypes
<1>3. Dummy!SourceTypes
  BY DEF Dummy!Init, Dummy!SourceTypes
<1>4. Dummy!ValveTypes
  BY DEF Dummy!Init, Dummy!ValveTypes
<1>5. Dummy!StampTypes
  BY ZeroIsTime DEF Dummy!Init, Dummy!StampTypes
<1> QED
  BY <1>2, <1>3, <1>4, <1>5 DEF Dummy!TypeOK

---------------------------------------------------------------------------
(* What the parts of a handler leave behind.                               *)

LEMMA ActTypes ==
  ASSUME Dummy!ConstantsAssumption,
         Dummy!Act, mode' \in Offered, valve' \in BOOLEAN, allowed \in BOOLEAN
  PROVE  action' \in Dummy!Actions /\ output' \in BOOLEAN /\ driven' \in BOOLEAN
<1>1. action' \in Dummy!Actions
  BY ActionOfIsAction DEF Dummy!Act
<1>2. Dummy!Gate(mode', valve') \in BOOLEAN
  BY Zenon DEF Dummy!Gate
<1> QED
  BY <1>1, <1>2 DEF Dummy!Act

LEMMA DecideTypes ==
  ASSUME Dummy!ConstantsAssumption,
         NEW asked, NEW t \in Dummy!Times, Dummy!Decide(asked, t),
         valve \in BOOLEAN, decidedAt \in Dummy!Times
  PROVE  valve' \in BOOLEAN /\ decidedAt' \in Dummy!Times
<1>1. Dummy!Hysteresis(mode', target', temp', valve) \in BOOLEAN
  BY HysteresisDecides
<1> QED
  BY <1>1 DEF Dummy!Decide

LEMMA RefreshedTypes ==
  ASSUME Dummy!ConstantsAssumption,
         NEW using, NEW S, NEW value \in S \cup {NaN}, NEW old \in S \cup {NaN}
  PROVE  Dummy!Refreshed(using, value, old) \in S \cup {NaN}
BY DEF Dummy!Refreshed

LEMMA SourcesTypes ==
  ASSUME Dummy!ConstantsAssumption,
         NEW t \in Dummy!Times, Dummy!Sources(t),
         Dummy!EntityTypes, Dummy!SourceTypes, Dummy!StampTypes
  PROVE  /\ temp' \in Temperatures \cup {NaN}
         /\ onFallback' \in BOOLEAN /\ fallbackLost' \in BOOLEAN
         /\ fallbackAt' \in Dummy!Times /\ tempAt' \in Dummy!Times
<1>1. onFallback' \in BOOLEAN
  <2>1. Dummy!Late(t) \in BOOLEAN
    BY DEF Dummy!Late
  <2> QED
    BY <2>1, Zenon DEF Dummy!Sources, Dummy!SourceTypes
<1>2. Dummy!Lost(t) \in BOOLEAN /\ Dummy!LostBefore(t) \in BOOLEAN
  BY Zenon DEF Dummy!Lost, Dummy!LostBefore, Dummy!SourceTypes
<1>3. fallbackLost' \in BOOLEAN
  BY <1>2 DEF Dummy!Sources
<1>4. \A using : Dummy!Refreshed(using, sensor, temp) \in Temperatures \cup {NaN}
  BY RefreshedTypes DEF Dummy!EntityTypes, Dummy!SourceTypes
<1>5. temp' \in Temperatures \cup {NaN}
  BY <1>4 DEF Dummy!Sources
<1>6. fallbackAt' \in Dummy!Times /\ tempAt' \in Dummy!Times
  BY DEF Dummy!Sources, Dummy!StampTypes
<1> QED
  BY <1>1, <1>3, <1>5, <1>6

LEMMA HumiditySourcesTypes ==
  ASSUME Dummy!ConstantsAssumption,
         NEW t \in Dummy!Times, Dummy!HumiditySources(t),
         Dummy!EntityTypes, Dummy!SourceTypes, Dummy!StampTypes
  PROVE  /\ humidity' \in Humidities \cup {NaN}
         /\ humidOnFallback' \in BOOLEAN /\ humidAt' \in Dummy!Times
<1>1. humidOnFallback' \in BOOLEAN
  <2>1. (Dummy!Age(t, humidAt) > yaml.humidity_sensor_timeout) \in BOOLEAN
    OBVIOUS
  <2> QED
    BY <2>1, Zenon DEF Dummy!HumiditySources, Dummy!SourceTypes
<1>2. \A using : Dummy!Refreshed(using, humidSensor, humidity) \in Humidities \cup {NaN}
  BY RefreshedTypes DEF Dummy!EntityTypes, Dummy!SourceTypes
<1>3. humidity' \in Humidities \cup {NaN}
  BY <1>2 DEF Dummy!HumiditySources
<1>4. humidAt' \in Dummy!Times
  BY DEF Dummy!HumiditySources, Dummy!StampTypes
<1> QED
  BY <1>1, <1>3, <1>4

---------------------------------------------------------------------------
(* A pass of loop().                                                       *)

LEMMA LoopTypes ==
  ASSUME Dummy!ConstantsAssumption,
         Dummy!TypeOK, UNCHANGED yaml, NEW t \in Dummy!Times, Dummy!LoopAt(t)
  PROVE  Dummy!TypeOK'
<1> USE DEF Dummy!TypeOK
<1>1. /\ UNCHANGED <<mode, target, valveAt, allowed, local, sensor, humidSensor>>
      /\ now' = t
  BY DEF Dummy!LoopAt, Dummy!outside
<1>2. /\ temp' \in Temperatures \cup {NaN}
      /\ onFallback' \in BOOLEAN /\ fallbackLost' \in BOOLEAN
      /\ fallbackAt' \in Dummy!Times /\ tempAt' \in Dummy!Times
  BY SourcesTypes DEF Dummy!LoopAt
<1>3. /\ humidity' \in Humidities \cup {NaN}
      /\ humidOnFallback' \in BOOLEAN /\ humidAt' \in Dummy!Times
  BY HumiditySourcesTypes DEF Dummy!LoopAt
<1>4. onOwn' \in BOOLEAN
  <2>1. (Dummy!Age(t, valveAt) > yaml.valve_update_timeout) \in BOOLEAN
    OBVIOUS
  <2> QED
    BY <2>1, Zenon DEF Dummy!LoopAt, Dummy!ValveSource, Dummy!ValveTypes
<1>5. valve' \in BOOLEAN /\ decidedAt' \in Dummy!Times
  BY DecideTypes DEF Dummy!LoopAt, Dummy!ValveTypes, Dummy!StampTypes
<1>6. action' \in Dummy!Actions /\ output' \in BOOLEAN /\ driven' \in BOOLEAN
  BY <1>1, <1>5, ActTypes DEF Dummy!LoopAt, Dummy!EntityTypes, Dummy!SourceTypes
<1>7. shown' \in Dummy!Actions
  BY <1>6 DEF Dummy!LoopAt, Dummy!Shows, Dummy!EntityTypes
<1>8. Dummy!EntityTypes'
  BY <1>1, <1>2, <1>3, <1>6, <1>7 DEF Dummy!EntityTypes
<1>9. Dummy!SourceTypes'
  BY <1>1, <1>2, <1>3 DEF Dummy!SourceTypes
<1>10. Dummy!ValveTypes'
  BY <1>4, <1>5, <1>6 DEF Dummy!ValveTypes
<1>11. Dummy!StampTypes'
  BY <1>1, <1>2, <1>3, <1>5 DEF Dummy!StampTypes
<1> QED
  BY <1>8, <1>9, <1>10, <1>11

---------------------------------------------------------------------------
(* The calls.                                                              *)

LEMMA ControlTypes ==
  ASSUME Dummy!ConstantsAssumption, Dummy!TypeOK, UNCHANGED yaml, Dummy!Control
  PROVE  Dummy!TypeOK'
<1> USE DEF Dummy!TypeOK
<1>1. PICK m \in Offered, g \in Targets :
        /\ mode' = m /\ target' = g
        /\ UNCHANGED <<now, Dummy!readings, Dummy!outside, Dummy!flags,
                       tempAt, fallbackAt, humidAt, valveAt>>
        /\ Dummy!Decide(Dummy!OwnDecision, now) /\ Dummy!Act /\ shown' = action'
  BY Zenon DEF Dummy!Control
<1>2. valve' \in BOOLEAN /\ decidedAt' \in Dummy!Times
  BY <1>1, DecideTypes DEF Dummy!ValveTypes, Dummy!StampTypes
<1>3. action' \in Dummy!Actions /\ output' \in BOOLEAN /\ driven' \in BOOLEAN
  BY <1>1, <1>2, ActTypes DEF Dummy!SourceTypes
<1>4. Dummy!EntityTypes'
  BY <1>1, <1>3 DEF Dummy!EntityTypes, Dummy!readings
<1>5. Dummy!SourceTypes'
  BY <1>1 DEF Dummy!SourceTypes, Dummy!outside, Dummy!flags
<1>6. Dummy!ValveTypes'
  BY <1>1, <1>2, <1>3 DEF Dummy!ValveTypes, Dummy!flags
<1>7. Dummy!StampTypes'
  BY <1>1, <1>2 DEF Dummy!StampTypes
<1> QED
  BY <1>4, <1>5, <1>6, <1>7

LEMMA SetValveStateTypes ==
  ASSUME Dummy!ConstantsAssumption, Dummy!TypeOK, UNCHANGED yaml, Dummy!SetValveState
  PROVE  Dummy!TypeOK'
<1> USE DEF Dummy!TypeOK
<1>1. PICK v \in BOOLEAN :
        /\ valve' = v /\ valveAt' = now
        /\ UNCHANGED <<now, mode, target, Dummy!readings, Dummy!outside, Dummy!flags,
                       tempAt, fallbackAt, humidAt, decidedAt>>
        /\ Dummy!Act /\ shown' = action'
  BY Zenon DEF Dummy!SetValveState
<1>2. action' \in Dummy!Actions /\ output' \in BOOLEAN /\ driven' \in BOOLEAN
  BY <1>1, ActTypes DEF Dummy!EntityTypes, Dummy!SourceTypes
<1>3. Dummy!EntityTypes'
  BY <1>1, <1>2 DEF Dummy!EntityTypes, Dummy!readings
<1>4. Dummy!SourceTypes'
  BY <1>1 DEF Dummy!SourceTypes, Dummy!outside, Dummy!flags
<1>5. Dummy!ValveTypes'
  BY <1>1, <1>2 DEF Dummy!ValveTypes, Dummy!flags
<1>6. Dummy!StampTypes'
  BY <1>1 DEF Dummy!StampTypes
<1> QED
  BY <1>3, <1>4, <1>5, <1>6

LEMMA SetCurrentTemperatureTypes ==
  ASSUME Dummy!ConstantsAssumption,
         Dummy!TypeOK, UNCHANGED yaml, Dummy!SetCurrentTemperature
  PROVE  Dummy!TypeOK'
<1> USE DEF Dummy!TypeOK
<1>1. PICK degrees \in Temperatures :
        /\ temp' = degrees /\ tempAt' = now
        /\ UNCHANGED <<now, mode, target, humidity, Dummy!outside, Dummy!flags,
                       fallbackAt, humidAt, valveAt>>
        /\ Dummy!Decide(Dummy!OwnDecision, now) /\ Dummy!Act /\ shown' = action'
  BY Zenon DEF Dummy!SetCurrentTemperature
<1>2. valve' \in BOOLEAN /\ decidedAt' \in Dummy!Times
  BY <1>1, DecideTypes DEF Dummy!ValveTypes, Dummy!StampTypes
<1>3. action' \in Dummy!Actions /\ output' \in BOOLEAN /\ driven' \in BOOLEAN
  BY <1>1, <1>2, ActTypes DEF Dummy!EntityTypes, Dummy!SourceTypes
<1>4. Dummy!EntityTypes'
  BY <1>1, <1>3 DEF Dummy!EntityTypes
<1>5. Dummy!SourceTypes'
  BY <1>1 DEF Dummy!SourceTypes, Dummy!outside, Dummy!flags
<1>6. Dummy!ValveTypes'
  BY <1>1, <1>2, <1>3 DEF Dummy!ValveTypes, Dummy!flags
<1>7. Dummy!StampTypes'
  BY <1>1, <1>2 DEF Dummy!StampTypes
<1> QED
  BY <1>4, <1>5, <1>6, <1>7

LEMMA SetCurrentHumidityTypes ==
  ASSUME Dummy!ConstantsAssumption,
         Dummy!TypeOK, UNCHANGED yaml, Dummy!SetCurrentHumidity
  PROVE  Dummy!TypeOK'
<1> USE DEF Dummy!TypeOK
<1>1. PICK h \in Humidities :
        /\ humidity' = h /\ humidAt' = now
        /\ action' = Dummy!ActionOf(mode, target, temp, valve) /\ shown' = action'
        /\ UNCHANGED <<now, mode, target, temp, valve, output, driven,
                       Dummy!outside, Dummy!flags,
                       tempAt, fallbackAt, valveAt, decidedAt>>
  BY Zenon DEF Dummy!SetCurrentHumidity
<1>2. action' \in Dummy!Actions
  BY <1>1, ActionOfIsAction DEF Dummy!EntityTypes, Dummy!ValveTypes
<1>3. Dummy!EntityTypes'
  BY <1>1, <1>2 DEF Dummy!EntityTypes
<1>4. Dummy!SourceTypes'
  BY <1>1 DEF Dummy!SourceTypes, Dummy!outside, Dummy!flags
<1>5. Dummy!ValveTypes'
  BY <1>1 DEF Dummy!ValveTypes, Dummy!flags
<1>6. Dummy!StampTypes'
  BY <1>1 DEF Dummy!StampTypes
<1> QED
  BY <1>3, <1>4, <1>5, <1>6

LEMMA FallbackReadsTypes ==
  ASSUME Dummy!ConstantsAssumption, Dummy!TypeOK, UNCHANGED yaml, Dummy!FallbackReads
  PROVE  Dummy!TypeOK'
<1> USE DEF Dummy!TypeOK
<1>1. PICK degrees \in Temperatures \cup {NaN} :
        /\ sensor' = degrees /\ fallbackAt' = now
        /\ temp' = Dummy!Refreshed(onFallback, degrees, temp)
        /\ shown' = IF temp' # temp THEN action ELSE shown
        /\ UNCHANGED <<now, mode, target, humidity, action, valve, output, driven,
                       allowed, local, humidSensor, Dummy!flags,
                       tempAt, humidAt, valveAt, decidedAt>>
  BY Zenon DEF Dummy!FallbackReads
<1>2. temp' \in Temperatures \cup {NaN}
  BY <1>1, RefreshedTypes DEF Dummy!EntityTypes
<1>3. Dummy!EntityTypes'
  BY <1>1, <1>2 DEF Dummy!EntityTypes
<1>4. Dummy!SourceTypes'
  BY <1>1 DEF Dummy!SourceTypes, Dummy!flags
<1>5. Dummy!ValveTypes'
  BY <1>1 DEF Dummy!ValveTypes, Dummy!flags
<1>6. Dummy!StampTypes'
  BY <1>1 DEF Dummy!StampTypes
<1> QED
  BY <1>3, <1>4, <1>5, <1>6

LEMMA FallbackHumidityReadsTypes ==
  ASSUME Dummy!ConstantsAssumption,
         Dummy!TypeOK, UNCHANGED yaml, Dummy!FallbackHumidityReads
  PROVE  Dummy!TypeOK'
<1> USE DEF Dummy!TypeOK
<1>1. PICK h \in Humidities \cup {NaN} :
        /\ humidSensor' = h
        /\ humidAt' = IF humidOnFallback THEN now ELSE humidAt
        /\ humidity' = Dummy!Refreshed(humidOnFallback, h, humidity)
        /\ shown' = IF humidity' # humidity THEN action ELSE shown
        /\ UNCHANGED <<now, mode, target, temp, action, valve, output, driven,
                       allowed, local, sensor, Dummy!flags,
                       tempAt, fallbackAt, valveAt, decidedAt>>
  BY Zenon DEF Dummy!FallbackHumidityReads
<1>2. humidity' \in Humidities \cup {NaN}
  BY <1>1, RefreshedTypes DEF Dummy!EntityTypes
<1>3. Dummy!EntityTypes'
  BY <1>1, <1>2 DEF Dummy!EntityTypes
<1>4. Dummy!SourceTypes'
  BY <1>1 DEF Dummy!SourceTypes, Dummy!flags
<1>5. Dummy!ValveTypes'
  BY <1>1 DEF Dummy!ValveTypes, Dummy!flags
<1>6. Dummy!StampTypes'
  BY <1>1 DEF Dummy!StampTypes
<1> QED
  BY <1>3, <1>4, <1>5, <1>6

\* The master switch, the choice of local control and a hand on the valve's switch.
LEMMA FlipTypes ==
  ASSUME Dummy!ConstantsAssumption,
         Dummy!TypeOK, UNCHANGED yaml, Dummy!Enable \/ Dummy!UseLocal \/ Dummy!TurnSwitch
  PROVE  Dummy!TypeOK'
<1> USE DEF Dummy!TypeOK
<1>1. UNCHANGED <<now, mode, target, temp, humidity, action, shown, valve, output,
                  sensor, humidSensor, onFallback, humidOnFallback, fallbackLost, onOwn,
                  tempAt, fallbackAt, humidAt, valveAt, decidedAt>>
  BY DEF Dummy!Enable, Dummy!UseLocal, Dummy!TurnSwitch, Dummy!entity, Dummy!readings,
         Dummy!outside, Dummy!flags, Dummy!stamps
<1>2. allowed' \in BOOLEAN /\ local' \in BOOLEAN /\ driven' \in BOOLEAN
  BY DEF Dummy!Enable, Dummy!UseLocal, Dummy!TurnSwitch, Dummy!outside, Dummy!SourceTypes,
         Dummy!ValveTypes
<1>3. Dummy!EntityTypes'
  BY <1>1 DEF Dummy!EntityTypes
<1>4. Dummy!SourceTypes'
  BY <1>1, <1>2 DEF Dummy!SourceTypes
<1>5. Dummy!ValveTypes'
  BY <1>1, <1>2 DEF Dummy!ValveTypes
<1>6. Dummy!StampTypes'
  BY <1>1 DEF Dummy!StampTypes
<1> QED
  BY <1>3, <1>4, <1>5, <1>6

LEMMA RestartTypes ==
  ASSUME Dummy!ConstantsAssumption, Dummy!TypeOK, UNCHANGED yaml, Dummy!Restart
  PROVE  Dummy!TypeOK'
<1> USE DEF Dummy!TypeOK, Dummy!Restart
<1>1. action' \in Dummy!Actions
  BY ActionOfIsAction DEF Dummy!Setup, Dummy!EntityTypes
<1>2. Dummy!EntityTypes'
  BY <1>1 DEF Dummy!Setup, Dummy!EntityTypes
<1>3. Dummy!SourceTypes'
  BY DEF Dummy!Setup, Dummy!SourceTypes
<1>4. Dummy!ValveTypes'
  BY DEF Dummy!Setup, Dummy!ValveTypes
<1>5. Dummy!StampTypes'
  BY ZeroIsTime DEF Dummy!Setup, Dummy!StampTypes
<1> QED
  BY <1>2, <1>3, <1>4, <1>5

---------------------------------------------------------------------------
LEMMA StepTypes ==
  ASSUME Dummy!ConstantsAssumption
  PROVE  Dummy!TypeOK /\ [Dummy!Next]_(Dummy!vars) => Dummy!TypeOK'
<1> SUFFICES ASSUME Dummy!TypeOK, [Dummy!Next]_(Dummy!vars) PROVE Dummy!TypeOK'
  OBVIOUS
<1>1. CASE UNCHANGED yaml /\ Dummy!LoopAgain
  BY <1>1, LoopTypes DEF Dummy!LoopAgain, Dummy!TypeOK, Dummy!StampTypes
<1>2. CASE UNCHANGED yaml /\ Dummy!LoopNext
  BY <1>2, LoopTypes, NextTime DEF Dummy!LoopNext, Dummy!TypeOK, Dummy!StampTypes
<1>3. CASE UNCHANGED yaml /\ Dummy!Call
  BY <1>3, ControlTypes, SetValveStateTypes, SetCurrentTemperatureTypes,
     SetCurrentHumidityTypes, FallbackReadsTypes, FallbackHumidityReadsTypes,
     FlipTypes, RestartTypes DEF Dummy!Call, Dummy!Happens
<1>4. CASE UNCHANGED Dummy!vars
  BY <1>4 DEF Dummy!vars, Dummy!readings, Dummy!outside, Dummy!flags, Dummy!stamps,
         Dummy!TypeOK, Dummy!EntityTypes, Dummy!SourceTypes,
         Dummy!ValveTypes, Dummy!StampTypes
<1> QED
  BY <1>1, <1>2, <1>3, <1>4 DEF Dummy!Next

\* Every variable keeps its type and every time stamp stays a time of the clock that
\* wraps (setup, loop and the service calls of dummy_thermostat.cpp).
THEOREM DummyTypeCorrect ==
  ASSUME Dummy!ConstantsAssumption
  PROVE  Dummy!Spec => []Dummy!TypeOK
<1> QED
  BY InitTypes, StepTypes, PTL DEF Dummy!Spec

\* loop() changes the valve only on the decision of the hysteresis, which it asks only
\* when the command has run out (104-122); nothing else in it touches the valve, and
\* the difference of times is right on both sides of a wrap of the clock.
THEOREM CommandOutlastsLoopHolds ==
  ASSUME Dummy!ConstantsAssumption
  PROVE  Dummy!Spec => Dummy!CommandOutlastsLoop
<1>1. ASSUME Dummy!TypeOK, Dummy!LoopAgain \/ Dummy!LoopNext, yaml.valve_update_timeout # 0,
             ~(Dummy!Age(now', valveAt) > yaml.valve_update_timeout)
      PROVE  valve' = valve
  <2>1. PICK t : Dummy!LoopAt(t)
    BY <1>1 DEF Dummy!LoopAgain, Dummy!LoopNext
  <2>2. yaml.valve_update_timeout > 0
    BY <1>1 DEF Dummy!TypeOK, Dummy!EntityTypes
  <2>3. ~onOwn'
    <3>1. ~(Dummy!Age(t, valveAt) > yaml.valve_update_timeout)
      BY <1>1, <2>1 DEF Dummy!LoopAt
    <3> QED
      BY <2>1, <2>2, <3>1, Zenon DEF Dummy!LoopAt, Dummy!ValveSource
  <2> QED
    BY <2>1, <2>3, Zenon DEF Dummy!LoopAt, Dummy!Decide
<1>2. Dummy!TypeOK /\ [Dummy!Next]_(Dummy!vars) =>
        [\/ valve' = valve \/ ~(Dummy!LoopAgain \/ Dummy!LoopNext)
         \/ yaml.valve_update_timeout = 0
         \/ Dummy!Age(now', valveAt) > yaml.valve_update_timeout]_(Dummy!vars)
  BY <1>1
<1> QED
  BY <1>2, DummyTypeCorrect, PTL DEF Dummy!Spec, Dummy!CommandOutlastsLoop

=============================================================================
