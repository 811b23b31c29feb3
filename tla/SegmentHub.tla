----------------------------- MODULE SegmentHub -----------------------------
(***************************************************************************)
(* The ws2811_cwww component: one LED strip cut into segments by movable   *)
(* boundaries, a light on every segment, and number entities that move the *)
(* boundaries and the end of the strip (components/ws2811_cwww).           *)
(*                                                                         *)
(* Every control call and every loop() is one step of the main loop.  A    *)
(* crash may come between any two steps; after it the numbers are set up   *)
(* one by one and restore what they saved.  Colours are abstracted to the  *)
(* levels of a light, and every colour between two levels to Mixed.  Every *)
(* segment has a light and no effect is running.                           *)
(***************************************************************************)
EXTENDS Integers, FiniteSets

CONSTANTS
  NumLeds,          \* num_leds_
  NumBoundaries,    \* boundaries_.size()
  MinLength,        \* min_segment_length_
  InitBoundaries,   \* configured boundaries
  InitActive,       \* configured active_leds
  BoundaryFade,     \* boundary_transition_length_ is not zero
  ActiveFade,       \* active_leds_transition_length_ is not zero
  Levels,           \* cold and warm white levels of a light
  Dark,             \* both levels zero
  Mixed,            \* a colour on the way from one level to another
  Requests,         \* values asked of the number entities
  OldPreferences,   \* values an earlier firmware may have saved
  SetupOrder,       \* the number entities in the order of their setup()
  Unset             \* no saved value; no fade

Indices == 0..(NumBoundaries - 1)
Segments == 0..NumBoundaries
Leds == 0..(NumLeds - 1)
Colours == Levels \cup {Mixed}
ActiveControl == -1                       \* the number for the active LEDs
Numbers == {ActiveControl} \cup Indices
LastSetup == NumBoundaries + 1

\* What _validate_boundaries and _final_validate accept.
ASSUME ConfigAssumption ==
  /\ NumLeds \in Nat /\ NumBoundaries \in Nat \ {0} /\ MinLength \in Nat
  /\ InitActive \in (NumBoundaries + 1) * MinLength..NumLeds
  /\ InitBoundaries \in [Indices -> Nat]
  /\ \A i \in Indices :
       /\ InitBoundaries[i] >= (IF i = 0 THEN -1 ELSE InitBoundaries[i - 1]) + MinLength
       /\ InitBoundaries[i] <= InitActive - (NumBoundaries - i) * MinLength - 1
  /\ BoundaryFade \in BOOLEAN /\ ActiveFade \in BOOLEAN
  /\ Dark \in Levels /\ Mixed \notin Levels /\ Unset \notin Levels
  /\ SetupOrder \in [1..LastSetup -> Numbers]
  /\ \A k \in Numbers : \E n \in 1..LastSetup : SetupOrder[n] = k
  /\ Requests \subseteq Int /\ OldPreferences \subseteq Int /\ Unset \notin Int

VARIABLES
  boundaries,   \* boundaries_
  activeLeds,   \* active_leds_
  transition,   \* boundary_transition_
  leds,         \* the colours in the strip's buffer
  level,        \* the current level of each segment's light
  fading,       \* the level a segment's light is fading to
  pref,         \* the saved value of each number
  published,    \* the published state of each number
  booting,      \* how many numbers have been set up
  overlapped    \* history: a change came before the last one had finished

hub == <<boundaries, activeLeds, transition>>
vars == <<boundaries, activeLeds, transition, leds, level, fading, pref, published,
          booting, overlapped>>
-----------------------------------------------------------------------------
AtMost(a, b) == IF a <= b THEN a ELSE b
AtLeast(a, b) == IF a >= b THEN a ELSE b

\* boundary_transition_ while it is not active.
NoTransition == [active |-> FALSE]

TypeOK ==
  /\ boundaries \in [Indices -> Int]
  /\ activeLeds \in Int
  /\ transition = NoTransition \/
       /\ DOMAIN transition = {"active", "start", "end", "source", "target"}
       /\ transition.active = TRUE /\ transition.start \in Int /\ transition.end \in Int
       /\ transition.source \in [transition.start..transition.end -> Colours]
       /\ transition.target \in [transition.start..transition.end -> Colours]
  /\ leds \in [Leds -> Colours]
  /\ level \in [Segments -> Levels]
  /\ fading \in [Segments -> Levels \cup {Unset}]
  /\ pref \in [Numbers -> Int \cup {Unset}]
  /\ published \in [Numbers -> Int \cup {Unset}]
  /\ booting \in 0..LastSetup
  /\ overlapped \in BOOLEAN
-----------------------------------------------------------------------------
(* The layout of the strip.                                                *)

\* get_segment_range, for boundaries b and n active LEDs.
Range(b, n, s) ==
  (IF s = 0 THEN 0 ELSE b[s - 1] + 1)..(IF s = NumBoundaries THEN n - 1 ELSE b[s])

\* on_segment_bounds_changed of every light: each paints its range of a strip
\* coloured c with its level in l.
Painted(c, b, n, l) ==
  [i \in Leds |-> IF \E s \in Segments : i \in Range(b, n, s)
                    THEN l[CHOOSE s \in Segments : i \in Range(b, n, s)]
                    ELSE c[i]]

LowestBoundary(b, i) == IF i = 0 THEN MinLength - 1 ELSE b[i - 1] + MinLength

HighestBoundary(b, n, i) ==
  IF i + 1 < NumBoundaries THEN b[i + 1] - MinLength ELSE n - MinLength - 1

\* Mutant: following segments get no room.
NormalizedNoRoom(b, n) ==
  {f \in [Indices -> -1..NumLeds] :
     \A i \in Indices :
       f[i] = AtMost(AtLeast(b[i], (IF i = 0 THEN -1 ELSE f[i - 1]) + MinLength), n - 1)}

\* normalize_boundaries_for_active_leds_: the boundaries (there is one such
\* function) clamped from left to right, leaving room for what follows.
Normalized(b, n) ==
  {f \in [Indices -> -1..NumLeds] :
     \A i \in Indices :
       f[i] = AtMost(AtLeast(b[i], (IF i = 0 THEN -1 ELSE f[i - 1]) + MinLength),
                     n - (NumBoundaries - i) * MinLength - 1)}
-----------------------------------------------------------------------------
(* Transitions.                                                            *)

Blend(a, b) == IF a = b THEN a ELSE Mixed

\* apply_transition_frame_, at the start, on the way, at the end.
Frame(c, t, at) ==
  IF ~t.active THEN c
  ELSE [i \in Leds |->
          IF i \notin t.start..t.end THEN c[i]
          ELSE CASE at = "start"  -> t.source[i]
                 [] at = "middle" -> Blend(t.source[i], t.target[i])
                 [] at = "end"    -> t.target[i]]

\* start_uniform_transition_ and start_mapped_transition_
Uniform(first, last, from, to) ==
  [active |-> TRUE, start |-> first, end |-> last,
   source |-> [i \in first..last |-> from], target |-> [i \in first..last |-> to]]

\* Mutant: source and target are swapped.
BoundaryTransitionSwapped(i, old, new) ==
  IF ~BoundaryFade THEN transition
  ELSE IF new < old THEN Uniform(new + 1, old, level[i + 1], level[i])
                    ELSE Uniform(old + 1, new, level[i], level[i + 1])

\* start_boundary_transition_: the LEDs that change segment fade.
BoundaryTransition(i, old, new) ==
  IF ~BoundaryFade THEN transition
  ELSE IF new < old THEN Uniform(new + 1, old, level[i], level[i + 1])
                    ELSE Uniform(old + 1, new, level[i + 1], level[i])

\* Mutant: one LED too many fades in.
ActiveTransitionOneMore(old, new) ==
  IF ActiveFade /\ new > old THEN Uniform(old, new, Dark, level[NumBoundaries])
                             ELSE transition

\* start_active_leds_transition_: added LEDs fade in, removed ones fade out.
ActiveTransition(old, new) ==
  IF ~ActiveFade THEN transition
  ELSE IF new > old THEN Uniform(old, new - 1, Dark, level[NumBoundaries])
  ELSE [active |-> TRUE, start |-> new, end |-> old - 1,
        source |-> [i \in new..(old - 1) |-> leds[i]],
        target |-> [i \in new..(old - 1) |-> Dark]]

\* clear_inactive_leds_, without a transition.
Cleared(old, new) ==
  [i \in Leds |-> IF ~ActiveFade /\ new < old /\ i >= new THEN Dark ELSE leds[i]]

Busy == transition.active \/ \E s \in Segments : fading[s] # Unset
-----------------------------------------------------------------------------
(* The number entities.                                                    *)

Clamp(v, low, high) == AtMost(AtLeast(v, low), high)

\* set_boundary.  A boundary that does not move is published again.
SetBoundary(i, v) ==
  LET applied == Clamp(v, LowestBoundary(boundaries, i),
                          HighestBoundary(boundaries, activeLeds, i))
  IN
  /\ boundaries' = [boundaries EXCEPT ![i] = applied]
  /\ \/ /\ applied = boundaries[i]
        /\ UNCHANGED <<transition, leds, overlapped>>
     \/ /\ applied # boundaries[i]
        /\ transition' = BoundaryTransition(i, boundaries[i], applied)
        /\ leds' = Painted(leds, boundaries', activeLeds, level)
        /\ overlapped' = (overlapped \/ Busy)
  /\ published' = [published EXCEPT ![i] = applied]
  /\ UNCHANGED <<activeLeds, level, fading>>

\* set_active_leds_runtime publishes every boundary number.
PublishBoundaries(b) == [k \in Numbers |-> IF k \in Indices THEN b[k] ELSE published[k]]

\* set_active_leds_runtime
SetActiveLeds(v) ==
  LET applied == Clamp(v, (NumBoundaries + 1) * MinLength, NumLeds) IN
  /\ activeLeds' = applied
  /\ \/ /\ applied = activeLeds
        /\ published' = [published EXCEPT ![ActiveControl] = applied]
        /\ UNCHANGED <<boundaries, transition, leds, overlapped>>
     \/ /\ applied # activeLeds
        /\ transition' = ActiveTransition(activeLeds, applied)
        /\ boundaries' \in Normalized(boundaries, applied)
        /\ leds' = Frame(Painted(Cleared(activeLeds, applied), boundaries', applied, level),
                         transition', "start")
        /\ published' = [PublishBoundaries(boundaries') EXCEPT ![ActiveControl] = applied]
        /\ overlapped' = (overlapped \/ Busy)
  /\ UNCHANGED <<level, fading>>

Booted == booting = LastSetup

\* control() of a boundary, and of the active LEDs, within the number's limits.
ControlBoundary(i, v) ==
  /\ Booted /\ v \in 0..(NumLeds - 2)
  /\ SetBoundary(i, v)
  /\ pref' = IF boundaries'[i] >= 0 THEN [pref EXCEPT ![i] = boundaries'[i]] ELSE pref
  /\ UNCHANGED booting

ControlActive(v) ==
  /\ Booted /\ v \in (NumBoundaries + 1)..NumLeds
  /\ SetActiveLeds(v)
  /\ pref' = [pref EXCEPT ![ActiveControl] = activeLeds']
  /\ UNCHANGED booting

\* Mutant: nothing is restored.
SetupNumberPublishOnly ==
  /\ ~Booted
  /\ booting' = booting + 1
  /\ LET k == SetupOrder[booting + 1] IN
     published' = [published EXCEPT
       ![k] = IF k = ActiveControl THEN activeLeds ELSE boundaries[k]]
  /\ UNCHANGED <<hub, leds, level, fading, overlapped, pref>>

\* setup() of the next number: restore the saved value and publish.
SetupNumber ==
  /\ ~Booted
  /\ booting' = booting + 1
  /\ LET k == SetupOrder[booting + 1] IN
     \/ /\ pref[k] = Unset
        /\ published' = [published EXCEPT
             ![k] = IF k = ActiveControl THEN activeLeds ELSE boundaries[k]]
        /\ UNCHANGED <<boundaries, activeLeds, transition, leds, level, fading, overlapped>>
     \/ /\ pref[k] # Unset /\ k = ActiveControl
        /\ SetActiveLeds(pref[k])
     \/ /\ pref[k] # Unset /\ k # ActiveControl
        /\ SetBoundary(k, pref[k])
  /\ UNCHANGED pref
-----------------------------------------------------------------------------
(* loop() of the hub, and the lights.                                      *)

\* A frame before the duration has passed, and the one after it.
FrameOnTheWay ==
  /\ Booted /\ transition.active
  /\ leds' = Frame(leds, transition, "middle")
  /\ UNCHANGED <<hub, level, fading, pref, published, booting, overlapped>>

LastFrame ==
  /\ Booted /\ transition.active
  /\ leds' = Frame(leds, transition, "end")
  /\ transition' = NoTransition
  /\ UNCHANGED <<boundaries, activeLeds, level, fading, pref, published, booting, overlapped>>

PaintSegment(s, colour) ==
  [i \in Leds |-> IF i \in Range(boundaries, activeLeds, s) THEN colour ELSE leds[i]]

\* A light is switched at once (update_state).
SwitchLight(s, l) ==
  /\ Booted /\ l # level[s]
  /\ level' = [level EXCEPT ![s] = l]
  /\ fading' = [fading EXCEPT ![s] = Unset]
  /\ leds' = PaintSegment(s, l)
  /\ overlapped' = (overlapped \/ transition.active)
  /\ UNCHANGED <<hub, pref, published, booting>>

\* A light fades (WS2811CWWWLightTransformer): the frames are painted directly
\* and the light's level changes at the end.
StartFade(s, l) ==
  /\ Booted /\ l # level[s]
  /\ fading' = [fading EXCEPT ![s] = l]
  /\ overlapped' = (overlapped \/ transition.active)
  /\ UNCHANGED <<hub, leds, level, pref, published, booting>>

FadeFrame(s) ==
  /\ Booted /\ fading[s] # Unset
  /\ leds' = PaintSegment(s, Blend(level[s], fading[s]))
  /\ UNCHANGED <<hub, level, fading, pref, published, booting, overlapped>>

FadeEnds(s) ==
  /\ Booted /\ fading[s] # Unset
  /\ leds' = PaintSegment(s, fading[s])
  /\ level' = [level EXCEPT ![s] = fading[s]]
  /\ fading' = [fading EXCEPT ![s] = Unset]
  /\ UNCHANGED <<hub, pref, published, booting, overlapped>>
-----------------------------------------------------------------------------
(* Boot.  The lights are set up, and paint, before the numbers.            *)

Init ==
  /\ boundaries = InitBoundaries
  /\ activeLeds = InitActive
  /\ transition = NoTransition
  /\ level \in [Segments -> Levels]
  /\ leds = Painted([i \in Leds |-> Dark], InitBoundaries, InitActive, level)
  /\ fading = [s \in Segments |-> Unset]
  /\ published = [k \in Numbers |-> Unset]
  /\ booting = 0
  /\ overlapped = FALSE
  /\ pref \in [Numbers -> OldPreferences \cup {Unset}]

\* Only the preferences survive.
Crash ==
  /\ boundaries' = InitBoundaries
  /\ activeLeds' = InitActive
  /\ transition' = NoTransition
  /\ level' \in [Segments -> Levels]
  /\ leds' = Painted([i \in Leds |-> Dark], InitBoundaries, InitActive, level')
  /\ fading' = [s \in Segments |-> Unset]
  /\ published' = [k \in Numbers |-> Unset]
  /\ booting' = 0
  /\ overlapped' = FALSE
  /\ UNCHANGED pref

Next ==
  \/ SetupNumber \/ FrameOnTheWay \/ LastFrame \/ Crash
  \/ \E v \in Requests : ControlActive(v) \/ \E i \in Indices : ControlBoundary(i, v)
  \/ \E s \in Segments :
       \/ \E l \in Levels : SwitchLight(s, l) \/ StartFade(s, l)
       \/ FadeFrame(s) \/ FadeEnds(s)

Spec == Init /\ [][Next]_vars
-----------------------------------------------------------------------------
(* Properties.                                                             *)

\* The boundaries leave every segment at least MinLength LEDs and the active
\* LEDs fit the strip, whatever is asked for or restored, in any order.
Ordered(b, n) ==
  /\ b[0] >= MinLength - 1
  /\ \A i \in Indices : i > 0 => b[i] >= b[i - 1] + MinLength
  /\ n - 1 >= b[NumBoundaries - 1] + MinLength

Partition ==
  /\ Ordered(boundaries, activeLeds)
  /\ activeLeds >= (NumBoundaries + 1) * MinLength
  /\ activeLeds <= NumLeds

\* A transition, which outlives changes of the layout, only touches LEDs of the
\* strip: loop() indexes the strip with it unchecked.
TransitionInStrip ==
  transition.active => transition.start >= 0 /\ transition.end < NumLeds

\* A value saved for one number only, by this firmware, is in use again after a
\* restart.  With several saved values this may fail: each is clamped by what is
\* restored later.
LoneChangeSurvives ==
  Booted =>
    \A k \in Numbers :
      (pref[k] \notin OldPreferences \cup {Unset} /\ \A j \in Numbers \ {k} : pref[j] = Unset) =>
        pref[k] = (IF k = ActiveControl THEN activeLeds ELSE boundaries[k])

FadesTo(i, colour) ==
  transition.active /\ i \in transition.start..transition.end /\ transition.target[i] = colour

\* Unless changes overlap, every LED of a segment whose light is not fading shows
\* the light's level or is fading to it.
SegmentsShowTheirLight ==
  ~overlapped =>
    \A s \in Segments : fading[s] = Unset =>
      \A i \in Range(boundaries, activeLeds, s) : leds[i] = level[s] \/ FadesTo(i, level[s])
=============================================================================
