----------------------------- MODULE Presence -----------------------------
(***************************************************************************)
(* Motion and presence (espectre).  The WiFi task feeds every CSI packet   *)
(* to the detector, which keeps a window of turbulences, votes and hands   *)
(* its state over every publish_rate_ packets.  The main loop turns what   *)
(* was handed over into the motion and the presence sensor: it holds       *)
(* motion for a still person, delays the end of presence and raises a      *)
(* threshold that motion never falls below.  The two tasks interleave; a   *)
(* packet is one step, a publication two.                                  *)
(*                                                                         *)
(* Turbulences, variances and thresholds are integers.  Whether breathing  *)
(* and phase stand out against their baselines is chosen with the packet.  *)
(***************************************************************************)
EXTENDS Integers, Sequences, SequencesExt, FiniteSets

CONSTANTS
  Window,       \* window_size_
  Scale,        \* a common multiple of 1..Window, to keep the running mean whole
  Unit,         \* the variance of the window times Window^2 is compared in this unit
  SmoothWindow, SmoothEnter, SmoothExit,
  WarmUp,       \* updates until the breathing baseline is seeded
  PublishRate,  \* publish_rate_
  MaxOf,        \* the largest threshold of a kind of detector
  HoldMax,      \* PRESENCE_HOLD_MAX
  StuckLimit, StuckRaiseMax,
  OffDelay,     \* presence_off_delay_ms_
  Wrap,         \* milliseconds are counted modulo Wrap
  Scenarios     \* detector, threshold and, as a bound, the events considered

Kinds == {"mvs", "ml"}

ASSUME ConstantsAssumption ==
  /\ {Window, Scale, Unit, WarmUp, PublishRate, HoldMax, StuckLimit, Wrap} \subseteq Nat \ {0}
  /\ \A n \in 1..Window : Scale % n = 0
  /\ {SmoothWindow, SmoothEnter, SmoothExit} \subseteq Nat
  /\ 1 < SmoothEnter /\ SmoothEnter <= SmoothWindow /\ SmoothExit <= SmoothWindow
  /\ SmoothEnter + SmoothExit > SmoothWindow
  /\ StuckRaiseMax \in Nat /\ OffDelay \in 0..(Wrap - 1) /\ MaxOf \in [Kinds -> Nat]
  /\ Scenarios \subseteq
       [kind : Kinds, threshold : Nat, mode : {"auto", "manual", "none"},
        turbulences : SUBSET Nat, still : SUBSET BOOLEAN, channels : SUBSET Nat,
        thresholds : SUBSET Nat, publishing : BOOLEAN, link : BOOLEAN]

VARIABLES
  scenario,   \* never changes
  detector,   \* the detector: window, mean, m2, votes, state, warm, based, still
  inForce,    \* its threshold
  clearAsked, \* PENDING_CLEAR
  processed, channel,    \* packets_processed_ and current_channel_
  pending, pendingState, \* publish_pending_ and pending_state_
  ready, republished,    \* ready_to_publish_ and threshold_republished_
  threshold, number,     \* segmentation_threshold_ and what the number shows
  stuck, raises,         \* stuck_motion_count_ and stuck_raise_count_
  hold, expired,         \* presence_hold_count_ and presence_hold_expired_
  decided,    \* what the main loop is about to publish, or "nothing"
  motion, presence,      \* the two binary sensors; presence is the latch, too
  lastSeen, now,         \* last_presence_detected_ms_ and the clock
  since,      \* history: votes since the last change of state or clearing
  held        \* history: publications held since the last motion or calm

csi == <<detector, inForce, clearAsked, processed, channel, pending, pendingState, since>>
settings == <<threshold, number, stuck, raises>>
shown == <<hold, expired, motion, presence, lastSeen, now, held>>
vars == <<scenario, csi, ready, republished, settings, shown, decided>>

---------------------------------------------------------------------------
(* The detector.                                                           *)

\* The votes the two majorities have in common.
Overlap == SmoothEnter + SmoothExit - SmoothWindow

Blank == [window |-> <<>>, mean |-> 0, m2 |-> 0, votes |-> <<>>, state |-> "IDLE",
          warm |-> 0, based |-> FALSE, still |-> FALSE]

SumOf(s) == LET sum[i \in 0..Len(s)] == IF i = 0 THEN 0 ELSE s[i] + sum[i - 1] IN sum[Len(s)]
SumOfSquares(s) == SumOf([i \in 1..Len(s) |-> s[i] * s[i]])
Full(d) == Len(d.window) >= Window

\* Mutant: the votes outlive the window.
ClearedVotesKept(d) == [Blank EXCEPT !.votes = d.votes, !.based = d.based, !.still = d.still]

\* clear_buffer: the idle baselines stay, breathing's is seeded anew.
Cleared(d) == [Blank EXCEPT !.based = d.based, !.still = d.still]

\* Mutant: the mean moves before the oldest value is taken out.
AddedMeanFirst(d, t) ==
  LET x == Scale * t
      n == Len(d.window) + 1
      old == Scale * d.window[1]
      grown == d.mean + (x - d.mean) \div n
      slid == d.mean + (x - old) \div Window
  IN IF Full(d)
     THEN [d EXCEPT !.window = Append(Tail(@), t), !.mean = slid,
                    !.m2 = @ + (x - old) * (x - slid + old - slid)]
     ELSE [d EXCEPT !.window = Append(@, t), !.mean = grown,
                    !.m2 = @ + (x - d.mean) * (x - grown)]

\* add_turbulence_to_buffer: mean and sum of squared deviations are carried along, by
\* Welford's method while the window fills and by replacement afterwards.
Added(d, t) ==
  LET x == Scale * t
      n == Len(d.window) + 1
      old == Scale * d.window[1]
      grown == d.mean + (x - d.mean) \div n
      slid == d.mean + (x - old) \div Window
      m2 == d.m2 + (x - old) * (x - slid + old - d.mean)
  IN IF Full(d)
     THEN [d EXCEPT !.window = Append(Tail(@), t), !.mean = slid,
                    !.m2 = IF m2 < 0 THEN 0 ELSE m2]
     ELSE [d EXCEPT !.window = Append(@, t), !.mean = grown,
                    !.m2 = @ + (x - d.mean) * (x - grown)]

\* calculate_moving_variance
MovingVariance(d) ==
  IF Full(d) THEN Unit * (Window * SumOfSquares(d.window) - SumOf(d.window) * SumOf(d.window))
  ELSE 0

\* The level must exceed the threshold to begin and fall below 0.7 of it to end.
Raw(d, level) ==
  IF d.state = "IDLE" THEN level > inForce ELSE 10 * level >= 7 * inForce

\* apply_temporal_smoothing
Voted(d, raw) ==
  LET all == Append(d.votes, raw)
      votes == IF Len(all) > SmoothWindow THEN Tail(all) ELSE all
      for == Cardinality({i \in 1..Len(votes) : votes[i]})
      against == Len(votes) - for
  IN [d EXCEPT !.votes = votes,
               !.state = CASE @ = "IDLE" /\ for >= SmoothEnter -> "MOTION"
                           [] @ = "MOTION" /\ against >= SmoothExit -> "IDLE"
                           [] OTHER -> @]

\* update_idle_baselines
Based(d) ==
  IF d.state # "IDLE" \/ ~Full(d) THEN d
  ELSE [d EXCEPT !.based = TRUE, !.warm = IF @ < WarmUp THEN @ + 1 ELSE @]

\* update_state; the network does not vote before its window is full.
Votes(d) == scenario.kind = "mvs" \/ Full(d)
Evaluated(d, probability) ==
  IF ~Votes(d) THEN d
  ELSE Based(Voted(d, Raw(d, IF scenario.kind = "mvs" THEN MovingVariance(d) ELSE probability)))

\* What both the hold and the presence sensor look for.
StillPerson(d) == Full(d) /\ d.based /\ d.warm = WarmUp /\ d.still

---------------------------------------------------------------------------
(* The WiFi task.                                                          *)

HandOver(d) ==
  /\ pending' = TRUE /\ pendingState' = d.state /\ processed' = 0

\* process_packet; for the network the turbulence stands for its answer, too.
Packet(t, still, c) ==
  LET publish == processed + 1 >= PublishRate
      moved == publish /\ channel # 0 /\ c # channel
      first == IF clearAsked THEN Cleared(detector) ELSE detector
      votes == IF clearAsked THEN 0 ELSE since
  IN \E added \in {[Added(first, t) EXCEPT !.still = still]} :
     \E voted \in {Evaluated(added, t)} :
     \E last \in {IF moved THEN Cleared(voted) ELSE voted} :
       /\ detector' = last /\ clearAsked' = FALSE
       /\ channel' = IF publish THEN c ELSE channel
       /\ IF publish THEN HandOver(last)
          ELSE processed' = processed + 1 /\ UNCHANGED <<pending, pendingState>>
       /\ since' = IF moved \/ voted.state # first.state THEN 0
                   ELSE IF Votes(added) /\ votes < Overlap THEN votes + 1 ELSE votes

AnyPacket ==
  /\ ready
  /\ \E t \in scenario.turbulences, still \in scenario.still, c \in scenario.channels :
       Packet(t, still, c)
  /\ UNCHANGED <<scenario, inForce, ready, republished, settings, shown, decided>>

---------------------------------------------------------------------------
(* The main loop.                                                          *)

\* set_threshold_runtime: the detector refuses what is out of its range.
SetThresholdRuntime(v) ==
  /\ threshold' = v /\ number' = v
  /\ inForce' = IF v <= MaxOf[scenario.kind] THEN v ELSE inForce

Raised == (3 * threshold) \div 2
RaiseDue == stuck + 1 >= StuckLimit /\ raises < StuckRaiseMax /\ Raised <= MaxOf["mvs"]

\* 353-373: motion that never ends.
StuckInMotion ==
  IF pendingState # "MOTION"
  THEN /\ stuck' = 0
       /\ number' = IF republished THEN number ELSE threshold
       /\ UNCHANGED <<threshold, inForce, raises, clearAsked>>
  ELSE IF RaiseDue
  THEN /\ SetThresholdRuntime(Raised)
       /\ clearAsked' = TRUE /\ raises' = raises + 1 /\ stuck' = 0
  ELSE /\ stuck' = IF stuck < StuckLimit THEN stuck + 1 ELSE stuck
       /\ number' = IF republished THEN number ELSE threshold
       /\ UNCHANGED <<threshold, inForce, raises, clearAsked>>

\* Mutant: nothing remembers that the hold has run out.
PresenceHoldRearmed ==
  IF pendingState = "MOTION" \/ (Full(detector) /\ detector.based /\ ~StillPerson(detector))
  THEN hold' = 0 /\ expired' = FALSE /\ held' = 0 /\ decided' = pendingState
  ELSE IF ~StillPerson(detector)
  THEN decided' = pendingState /\ UNCHANGED <<hold, expired, held>>
  ELSE /\ UNCHANGED expired
       /\ hold' = IF hold + 1 < HoldMax THEN hold + 1 ELSE 0
       /\ decided' = IF hold + 1 < HoldMax THEN "MOTION" ELSE "IDLE"
       /\ held' = IF hold + 1 < HoldMax THEN held + 1 ELSE held

\* 375-421: a still person is shown as motion, for a while.  Without a full window
\* nothing is known and the count stays.
PresenceHold ==
  CASE pendingState = "MOTION" \/ (Full(detector) /\ detector.based /\ ~StillPerson(detector)) ->
         hold' = 0 /\ expired' = FALSE /\ held' = 0 /\ decided' = pendingState
    [] pendingState = "IDLE" /\ StillPerson(detector) /\ ~expired /\ hold + 1 < HoldMax ->
         hold' = hold + 1 /\ held' = held + 1 /\ decided' = "MOTION" /\ UNCHANGED expired
    [] pendingState = "IDLE" /\ StillPerson(detector) /\ ~expired /\ hold + 1 >= HoldMax ->
         hold' = 0 /\ expired' = TRUE /\ decided' = "IDLE" /\ UNCHANGED held
    [] OTHER -> decided' = "IDLE" /\ UNCHANGED <<hold, expired, held>>

\* loop() and process_csi_publish_ up to publish_all.
TakePublication ==
  /\ scenario.publishing /\ decided = "nothing" /\ pending
  /\ pending' = FALSE
  /\ IF ready THEN StuckInMotion /\ PresenceHold /\ republished' = TRUE
     ELSE UNCHANGED <<settings, inForce, clearAsked, hold, expired, held, decided, republished>>
  /\ UNCHANGED <<scenario, detector, processed, channel, pendingState, since, ready,
                 motion, presence, lastSeen, now>>

\* Mutant: as long as presence is shown its time is renewed.
LatchRenewed(seen, t) ==
  /\ presence' = (seen \/ (presence /\ (t - lastSeen) % Wrap < OffDelay))
  /\ lastSeen' = IF seen \/ presence THEN t ELSE lastSeen

\* publish_all: presence ends when nobody was seen for the delay.
Latch(seen, t) ==
  /\ presence' = (seen \/ (presence /\ (t - lastSeen) % Wrap < OffDelay))
  /\ lastSeen' = IF seen THEN t ELSE lastSeen

\* The detector is looked at again, a packet later perhaps.  One unit of time passes
\* from one publication to the next.
PublishAll ==
  /\ decided # "nothing"
  /\ now' = (now + 1) % Wrap
  /\ Latch(decided = "MOTION" \/ StillPerson(detector), now')
  /\ motion' = (decided = "MOTION") /\ decided' = "nothing"
  /\ UNCHANGED <<scenario, csi, ready, republished, settings, hold, expired, held>>

\* The number and the BLE channel.
ChooseThreshold ==
  /\ decided = "nothing"
  /\ \E v \in scenario.thresholds : SetThresholdRuntime(v)
  /\ UNCHANGED <<scenario, detector, clearAsked, processed, channel, pending, pendingState,
                 since, ready, republished, stuck, raises, shown, decided>>

\* process_calibration_result_
ApplyCalibration ==
  /\ decided = "nothing" /\ scenario.kind = "mvs" /\ scenario.mode # "none"
  /\ clearAsked' = TRUE
  /\ IF scenario.mode = "manual" THEN UNCHANGED <<threshold, number, inForce>>
     ELSE \E v \in scenario.thresholds : SetThresholdRuntime(v)
  /\ UNCHANGED <<scenario, detector, processed, channel, pending, pendingState,
                 since, ready, republished, stuck, raises, shown, decided>>

\* The link goes, and comes back at any later time; the sensors stay as they are.
Disconnect ==
  /\ scenario.link /\ decided = "nothing" /\ ready
  /\ ready' = FALSE /\ pending' = FALSE
  /\ UNCHANGED <<scenario, detector, inForce, clearAsked, processed, channel, pendingState,
                 since, republished, settings, shown, decided>>

Connect ==
  /\ ~ready /\ decided = "nothing"
  /\ ready' = TRUE /\ republished' = FALSE /\ now' \in 0..(Wrap - 1)
  /\ UNCHANGED <<scenario, csi, settings, hold, expired, held, motion, presence, lastSeen,
                 decided>>

---------------------------------------------------------------------------
Init ==
  /\ scenario \in Scenarios
  /\ detector = Blank /\ inForce = scenario.threshold
  /\ clearAsked = FALSE /\ processed = 0 /\ channel = 0
  /\ pending = FALSE /\ pendingState = "IDLE"
  /\ ready = FALSE /\ republished = FALSE
  /\ threshold = scenario.threshold /\ number = 0
  /\ stuck = 0 /\ raises = 0 /\ hold = 0 /\ expired = FALSE /\ decided = "nothing"
  /\ motion = FALSE /\ presence = FALSE /\ lastSeen = 0 /\ now = 0
  /\ since = 0 /\ held = 0

LoopStep ==
  \/ TakePublication
  \/ PublishAll
  \/ ChooseThreshold
  \/ ApplyCalibration
  \/ Disconnect
  \/ Connect

Next == AnyPacket \/ LoopStep

\* Traffic flows while the link is up, and the main loop runs.
Fairness ==
  /\ WF_vars(AnyPacket)
  /\ WF_vars(TakePublication) /\ WF_vars(PublishAll) /\ WF_vars(Connect)

Spec == Init /\ [][Next]_vars /\ Fairness

---------------------------------------------------------------------------
(* Properties.                                                             *)

\* Every variable has its type.
TypeOK ==
  /\ scenario \in Scenarios
  /\ detector.state \in {"IDLE", "MOTION"} /\ Len(detector.window) <= Window
  /\ Len(detector.votes) <= SmoothWindow /\ detector.warm \in 0..WarmUp
  /\ {inForce, threshold, number} \subseteq Nat
  /\ {clearAsked, pending, ready, republished, expired, motion, presence,
      detector.based, detector.still} \subseteq BOOLEAN
  /\ processed \in 0..(PublishRate - 1) /\ pendingState \in {"IDLE", "MOTION"}
  /\ stuck \in 0..StuckLimit /\ raises \in 0..StuckRaiseMax
  /\ hold \in 0..(HoldMax - 1) /\ decided \in {"nothing", "IDLE", "MOTION"}
  /\ {lastSeen, now} \subseteq 0..(Wrap - 1)

\* The mean and the sum of squares that are carried along (base_detector.cpp:413-431),
\* through filling, sliding and clearing, are those of the window: the automatic
\* calibration decides by them.
RunningMatchesWindow ==
  LET n == Len(detector.window)
      sum == Scale * SumOf(detector.window)
  IN /\ n * detector.mean = sum
     /\ n * detector.m2 = n * Scale * Scale * SumOfSquares(detector.window) - sum * sum

\* The detector does not flicker: a vote turns its state only after as many votes as
\* the two majorities have in common (base_detector.cpp:441-466), whatever the threshold
\* does meanwhile and however the window is cleared.
TransitionsApart ==
  [][ \/ detector'.state = detector.state
      \/ detector'.votes = <<>> \/ (clearAsked /\ detector'.state = "IDLE")
      \/ (IF clearAsked THEN 0 ELSE since) >= Overlap - 1 ]_vars

\* A person who only breathes is shown as motion for fewer than PRESENCE_HOLD_MAX
\* publications, and then not again before something moves or the signals fall
\* (espectre.cpp:375-421).
HoldIsBounded == held < HoldMax

\* Nothing moves in front of a detector that is fed.
Quiet ==
  /\ ready /\ inForce > 0 /\ ~detector.still
  /\ \A i \in 1..Len(detector.window) : detector.window[i] = 0

\* A room that stays quiet is shown to be empty in the end, by both sensors, whatever
\* was held, latched or handed over before, with calibrations and new thresholds going
\* on, and across a wrap of the clock.  A threshold of 0 (espectre.cpp:716) is exempt:
\* nothing falls below it.
QuietRoomClears ==
  scenario.publishing /\ <>[]Quiet => <>[](~motion /\ ~presence)

=============================================================================
