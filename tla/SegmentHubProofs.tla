-------------------------- MODULE SegmentHubProofs --------------------------
(***************************************************************************)
(* Theorems about SegmentHub, for every strip, number of boundaries and    *)
(* minimal length.                                                         *)
(***************************************************************************)
EXTENDS SegmentHub, WellFoundedInduction, TLAPS

USE DEF Indices, Segments, Leds

\* A transition with a level for each of its LEDs, all of them in the strip.
Fits(t) ==
  t = NoTransition \/
    /\ DOMAIN t = {"active", "start", "end", "source", "target"}
    /\ t.active = TRUE /\ t.start \in Int /\ t.end \in Int
    /\ t.source \in [t.start..t.end -> Colours]
    /\ t.target \in [t.start..t.end -> Colours]
    /\ t.start >= 0 /\ t.end < NumLeds

\* What the steps need to know of boundaries b and n active LEDs.  Ordered speaks
\* of neighbours only, so that every boundary lies in the strip is said too.
LayoutOK(b, n) ==
  /\ b \in [Indices -> Int] /\ n \in Int
  /\ Ordered(b, n)
  /\ n >= (NumBoundaries + 1) * MinLength /\ n <= NumLeds
  /\ \A i \in Indices : b[i] >= -1 /\ b[i] < n

IInv == TypeOK /\ LayoutOK(boundaries, activeLeds) /\ Fits(transition)

LEMMA ConfigFacts ==
  /\ NumLeds \in Nat /\ NumBoundaries \in Nat /\ NumBoundaries >= 1 /\ MinLength \in Nat
  /\ (NumBoundaries + 1) * MinLength \in Nat
  /\ (NumBoundaries + 1) * MinLength <= NumLeds
  /\ InitActive \in Int /\ (NumBoundaries + 1) * MinLength <= InitActive /\ InitActive <= NumLeds
BY ConfigAssumption

\* Room for n + 1 segments is room for n segments and for one more.
LEMMA RoomForOneMore ==
  ASSUME NEW n \in Int
  PROVE  (n + 1) * MinLength = n * MinLength + MinLength /\ n * MinLength \in Int
BY ConfigFacts

LEMMA Bounds ==
  ASSUME NEW a \in Int, NEW b \in Int
  PROVE  /\ AtMost(a, b) \in Int /\ AtMost(a, b) <= a /\ AtMost(a, b) <= b
         /\ AtLeast(a, b) \in Int /\ AtLeast(a, b) >= a /\ AtLeast(a, b) >= b
BY DEF AtMost, AtLeast

\* normalize_boundaries_for_active_leds_ orders the boundaries: what is left for
\* the following segments never pushes a boundary below the one before it.
LEMMA NormalizedOrdered ==
  ASSUME NEW b \in [Indices -> Int], NEW n \in Int, (NumBoundaries + 1) * MinLength <= n,
         NEW f \in Normalized(b, n)
  PROVE  f \in [Indices -> Int] /\ Ordered(f, n)
<1> DEFINE below(i) == IF i = 0 THEN -1 ELSE f[i - 1]
           above(i) == n - (NumBoundaries - i) * MinLength - 1
<1>1. f \in [Indices -> -1..NumLeds]
  BY DEF Normalized
<1>2. \A i \in Indices : f[i] = AtMost(AtLeast(b[i], below(i) + MinLength), above(i))
  BY DEF Normalized
<1>3. \A i \in Indices : below(i) \in Int /\ above(i) \in Int /\ b[i] \in Int
  <2> SUFFICES ASSUME NEW i \in Indices PROVE below(i) \in Int /\ above(i) \in Int /\ b[i] \in Int
    OBVIOUS
  <2>1. NumBoundaries - i \in Int
    BY ConfigFacts
  <2>2. (NumBoundaries - i) * MinLength \in Int
    BY <2>1, RoomForOneMore
  <2>3. i # 0 => i - 1 \in Indices
    BY ConfigFacts
  <2> QED BY <1>1, <2>2, <2>3, ConfigFacts
<1>4. \A i \in Indices : f[i] <= above(i)
  <2> SUFFICES ASSUME NEW i \in Indices PROVE f[i] <= above(i)
    OBVIOUS
  <2> HIDE DEF below, above
  <2>1. below(i) + MinLength \in Int /\ b[i] \in Int /\ above(i) \in Int
    BY <1>3, ConfigFacts
  <2>2. AtLeast(b[i], below(i) + MinLength) \in Int
    BY <2>1, Bounds
  <2>3. f[i] = AtMost(AtLeast(b[i], below(i) + MinLength), above(i))
    BY <1>2
  <2> QED BY <2>1, <2>2, <2>3, Bounds
<1>5. \A i \in Indices : below(i) + MinLength <= above(i)
  <2> SUFFICES ASSUME NEW i \in Indices PROVE below(i) + MinLength <= above(i)
    OBVIOUS
  <2> DEFINE k == NumBoundaries - i
  <2>1. k \in Int /\ (k + 1) * MinLength = k * MinLength + MinLength /\ k * MinLength \in Int
    BY ConfigFacts, RoomForOneMore
  <2>2. CASE i = 0
    BY <2>1, <2>2, ConfigFacts
  <2>3. CASE i # 0
    <3>1. i - 1 \in Indices /\ NumBoundaries - (i - 1) = k + 1
      BY <2>3, ConfigFacts
    <3>2. f[i - 1] <= n - (k + 1) * MinLength - 1
      BY <1>4, <3>1
    <3>3. f[i - 1] \in Int
      BY <1>1, <3>1
    <3> QED BY <2>1, <2>3, <3>2, <3>3, ConfigFacts
  <2> QED BY <2>2, <2>3
<1>6. \A i \in Indices : f[i] >= below(i) + MinLength
  <2> HIDE DEF below, above
  <2> QED BY <1>2, <1>3, <1>5, ConfigFacts DEF AtMost, AtLeast
<1>7. f[0] >= MinLength - 1
  <2>1. 0 \in Indices /\ f[0] \in Int
    BY <1>1, ConfigFacts
  <2> QED BY <1>6, <2>1, ConfigFacts
<1>8. n - 1 >= f[NumBoundaries - 1] + MinLength
  <2>1. NumBoundaries - 1 \in Indices /\ NumBoundaries - (NumBoundaries - 1) = 1
    BY ConfigFacts
  <2>2. f[NumBoundaries - 1] <= n - 1 * MinLength - 1 /\ f[NumBoundaries - 1] \in Int
    BY <1>1, <1>4, <2>1
  <2> QED BY <2>2, ConfigFacts
<1>9. \A i \in Indices : i > 0 => f[i] >= f[i - 1] + MinLength
  BY <1>6
<1> QED BY <1>1, <1>7, <1>8, <1>9 DEF Ordered

\* set_boundary keeps the order: its limits leave room on both sides.
LEMMA SetBoundaryOrdered ==
  ASSUME NEW b \in [Indices -> Int], NEW n \in Int, Ordered(b, n), NEW i \in Indices, NEW v \in Int
  PROVE  LET applied == Clamp(v, LowestBoundary(b, i), HighestBoundary(b, n, i)) IN
         /\ applied \in Int
         /\ Ordered([b EXCEPT ![i] = applied], n)
<1> DEFINE low == LowestBoundary(b, i)
           high == HighestBoundary(b, n, i)
           applied == Clamp(v, low, high)
           new == [b EXCEPT ![i] = applied]
<1>1. /\ i > 0 => i - 1 \in Indices /\ b[i - 1] \in Int /\ b[i] >= b[i - 1] + MinLength
      /\ i + 1 < NumBoundaries => i + 1 \in Indices /\ b[i + 1] \in Int /\ b[i + 1] >= b[i] + MinLength
      /\ b[i] \in Int /\ (i = 0 => b[i] >= MinLength - 1)
  BY ConfigFacts DEF Ordered
<1>2. i + 1 >= NumBoundaries => i = NumBoundaries - 1 /\ n - 1 >= b[i] + MinLength
  <2>1. i + 1 >= NumBoundaries => i = NumBoundaries - 1
    BY ConfigFacts
  <2> QED BY <2>1 DEF Ordered
<1>3. low \in Int /\ high \in Int /\ low <= b[i] /\ b[i] <= high
  BY <1>1, <1>2, ConfigFacts DEF LowestBoundary, HighestBoundary
<1>4. applied \in Int /\ low <= applied /\ applied <= high
  <2> HIDE DEF low, high
  <2> QED BY <1>3 DEF Clamp, AtMost, AtLeast
<1>5. /\ i > 0 => applied >= b[i - 1] + MinLength
      /\ i = 0 => applied >= MinLength - 1
      /\ i + 1 < NumBoundaries => b[i + 1] >= applied + MinLength
      /\ i + 1 >= NumBoundaries => n - 1 >= applied + MinLength
  <2> HIDE DEF applied
  <2> QED BY <1>1, <1>2, <1>4, ConfigFacts DEF LowestBoundary, HighestBoundary
<1> HIDE DEF applied
<1>6. new[0] >= MinLength - 1
  BY <1>5, ConfigFacts DEF Ordered
<1>7. n - 1 >= new[NumBoundaries - 1] + MinLength
  BY <1>5, ConfigFacts DEF Ordered
<1>8. ASSUME NEW k \in Indices, k > 0
      PROVE  new[k] >= new[k - 1] + MinLength
  <2>1. k - 1 \in Indices /\ b[k] >= b[k - 1] + MinLength
    BY <1>8, ConfigFacts DEF Ordered
  <2>2. CASE k = i
    BY <1>5, <1>8, <2>1, <2>2
  <2>3. CASE k - 1 = i
    BY <1>5, <1>8, <2>1, <2>3, ConfigFacts
  <2>4. CASE k # i /\ k - 1 # i
    BY <2>1, <2>4
  <2> QED BY <2>2, <2>3, <2>4
<1> QED BY <1>4, <1>6, <1>7, <1>8 DEF Ordered, applied, low, high
-----------------------------------------------------------------------------
(* The layout.                                                             *)

LEMMA InitLayout == LayoutOK(InitBoundaries, InitActive)
<1>1. /\ InitBoundaries \in [Indices -> Nat]
      /\ \A i \in Indices :
           /\ InitBoundaries[i] >= (IF i = 0 THEN -1 ELSE InitBoundaries[i - 1]) + MinLength
           /\ InitBoundaries[i] <= InitActive - (NumBoundaries - i) * MinLength - 1
  BY ConfigAssumption
<1>2. \A i \in Indices : InitBoundaries[i] < InitActive
  <2> SUFFICES ASSUME NEW i \in Indices PROVE InitBoundaries[i] < InitActive
    OBVIOUS
  <2>1. (NumBoundaries - i) * MinLength \in Nat
    <3>1. NumBoundaries - i \in Nat
      BY ConfigFacts
    <3> QED BY <3>1, ConfigFacts
  <2> DEFINE room == (NumBoundaries - i) * MinLength
  <2>2. InitBoundaries[i] \in Nat /\ InitBoundaries[i] <= InitActive - room - 1
    BY <1>1
  <2> HIDE DEF room
  <2>3. room \in Nat
    BY <2>1 DEF room
  <2> QED BY <2>2, <2>3, ConfigFacts
<1>3. InitBoundaries[0] >= MinLength - 1
  BY <1>1, ConfigFacts
<1>4. InitActive - 1 >= InitBoundaries[NumBoundaries - 1] + MinLength
  <2>1. NumBoundaries - 1 \in Indices /\ NumBoundaries - (NumBoundaries - 1) = 1
    BY ConfigFacts
  <2> QED BY <1>1, <2>1, ConfigFacts
<1>5. \A i \in Indices : i > 0 => InitBoundaries[i] >= InitBoundaries[i - 1] + MinLength
  BY <1>1
<1>6. InitBoundaries \in [Indices -> Int] /\ \A i \in Indices : InitBoundaries[i] >= -1
  BY <1>1
<1> QED BY <1>2, <1>3, <1>4, <1>5, <1>6, ConfigFacts DEF LayoutOK, Ordered

\* A boundary between its limits stays in the strip.
LEMMA SetBoundaryLayout ==
  ASSUME NEW b, NEW n, LayoutOK(b, n), NEW i \in Indices, NEW v \in Int
  PROVE  LET applied == Clamp(v, LowestBoundary(b, i), HighestBoundary(b, n, i)) IN
         applied \in Int /\ LayoutOK([b EXCEPT ![i] = applied], n)
<1> DEFINE low == LowestBoundary(b, i)
           high == HighestBoundary(b, n, i)
           applied == Clamp(v, low, high)
<1>1. b \in [Indices -> Int] /\ n \in Int /\ Ordered(b, n)
  BY DEF LayoutOK
<1>2. applied \in Int /\ Ordered([b EXCEPT ![i] = applied], n)
  BY <1>1, SetBoundaryOrdered
<1>3. /\ i > 0 => i - 1 \in Indices /\ b[i - 1] >= -1 /\ b[i - 1] \in Int
      /\ i + 1 < NumBoundaries => i + 1 \in Indices /\ b[i + 1] < n /\ b[i + 1] \in Int
  BY <1>1, ConfigFacts DEF LayoutOK
<1>4. low \in Int /\ high \in Int /\ low >= -1 /\ high < n
  BY <1>1, <1>3, ConfigFacts DEF LowestBoundary, HighestBoundary
<1>5. low <= high
  <2>1. b[i] \in Int /\ low <= b[i]
    BY <1>1, <1>3, ConfigFacts DEF LowestBoundary, Ordered
  <2>2. b[i] <= high
    <3>1. CASE i + 1 < NumBoundaries
      BY <1>1, <1>3, <2>1, <3>1, ConfigFacts DEF HighestBoundary, Ordered
    <3>2. CASE ~(i + 1 < NumBoundaries)
      <4>1. i = NumBoundaries - 1
        BY <3>2, ConfigFacts
      <4> QED BY <1>1, <2>1, <3>2, <4>1, ConfigFacts DEF HighestBoundary, Ordered
    <3> QED BY <3>1, <3>2
  <2> QED BY <1>4, <2>1, <2>2
<1>6. applied >= -1 /\ applied < n
  <2> HIDE DEF low, high
  <2> QED BY <1>1, <1>4, <1>5 DEF Clamp, AtMost, AtLeast
<1> HIDE DEF applied
<1> QED BY <1>1, <1>2, <1>6 DEF LayoutOK, applied, low, high

LEMMA NormalizedLayout ==
  ASSUME NEW b \in [Indices -> Int], NEW n \in Int,
         n >= (NumBoundaries + 1) * MinLength, n <= NumLeds,
         NEW f \in Normalized(b, n)
  PROVE  LayoutOK(f, n)
<1>1. f \in [Indices -> Int] /\ Ordered(f, n)
  BY NormalizedOrdered, ConfigFacts
<1>2. f \in [Indices -> -1..NumLeds]
  BY DEF Normalized
<1>3. ASSUME NEW i \in Indices
      PROVE  f[i] >= -1 /\ f[i] < n
  <2> DEFINE below == IF i = 0 THEN -1 ELSE f[i - 1]
             above == n - (NumBoundaries - i) * MinLength - 1
  <2>1. f[i] = AtMost(AtLeast(b[i], below + MinLength), above)
    BY DEF Normalized
  <2>2. (NumBoundaries - i) * MinLength \in Nat
    <3>1. NumBoundaries - i \in Nat
      BY ConfigFacts
    <3> QED BY <3>1, ConfigFacts
  <2>3. above \in Int /\ above < n
    BY <2>2
  <2>4. below \in Int /\ b[i] \in Int
    BY <1>1, ConfigFacts
  <2> HIDE DEF below, above
  <2>5. AtLeast(b[i], below + MinLength) \in Int
    BY <2>4, Bounds, ConfigFacts
  <2>6. f[i] <= above /\ f[i] \in Int
    BY <2>1, <2>3, <2>5, Bounds
  <2> QED BY <1>2, <2>3, <2>6
<1> QED BY <1>1, <1>3 DEF LayoutOK
-----------------------------------------------------------------------------
(* The strip and the transition.                                           *)

LEMMA PaintedType ==
  ASSUME NEW c \in [Leds -> Colours], NEW b, NEW n, NEW l \in [Segments -> Levels]
  PROVE  Painted(c, b, n, l) \in [Leds -> Colours]
BY DEF Painted, Colours

LEMMA FrameType ==
  ASSUME NEW c \in [Leds -> Colours], NEW t, Fits(t), NEW at \in {"start", "middle", "end"}
  PROVE  Frame(c, t, at) \in [Leds -> Colours]
BY DEF Frame, Fits, NoTransition, Blend, Colours

LEMMA UniformFits ==
  ASSUME NEW first \in Int, NEW last \in Int, NEW from \in Colours, NEW to \in Colours,
         first >= 0, last < NumLeds
  PROVE  Fits(Uniform(first, last, from, to))
BY DEF Fits, Uniform

LEMMA BoundaryTransitionFits ==
  ASSUME IInv, NEW i \in Indices, NEW new \in Int, new >= -1, new < activeLeds,
         new # boundaries[i]
  PROVE  Fits(BoundaryTransition(i, boundaries[i], new))
<1>1. /\ level[i] \in Colours /\ level[i + 1] \in Colours
      /\ boundaries[i] \in Int /\ boundaries[i] >= -1 /\ boundaries[i] < activeLeds
      /\ activeLeds \in Int /\ activeLeds <= NumLeds /\ NumLeds \in Int
  BY ConfigFacts DEF IInv, TypeOK, LayoutOK, Colours
<1>2. CASE ~BoundaryFade
  BY <1>2 DEF IInv, BoundaryTransition
<1>3. CASE BoundaryFade /\ new < boundaries[i]
  BY <1>1, <1>3, UniformFits DEF BoundaryTransition
<1>4. CASE BoundaryFade /\ new > boundaries[i]
  BY <1>1, <1>4, UniformFits DEF BoundaryTransition
<1> QED BY <1>1, <1>2, <1>3, <1>4

LEMMA ActiveTransitionFits ==
  ASSUME IInv, NEW new \in Int, new >= 0, new <= NumLeds, new # activeLeds
  PROVE  Fits(ActiveTransition(activeLeds, new))
<1>1. /\ level[NumBoundaries] \in Colours /\ Dark \in Colours /\ leds \in [Leds -> Colours]
      /\ activeLeds \in Int /\ activeLeds <= NumLeds /\ NumLeds \in Int /\ activeLeds >= 0
  BY ConfigFacts, ConfigAssumption DEF IInv, TypeOK, LayoutOK, Colours
<1>2. CASE ~ActiveFade
  BY <1>2 DEF IInv, ActiveTransition
<1>3. CASE ActiveFade /\ new > activeLeds
  BY <1>1, <1>3, UniformFits DEF ActiveTransition
<1>4. CASE ActiveFade /\ new < activeLeds
  BY <1>1, <1>4 DEF ActiveTransition, Fits
<1> QED BY <1>1, <1>2, <1>3, <1>4
-----------------------------------------------------------------------------
(* The operations.                                                         *)

LEMMA SetBoundaryKeeps ==
  ASSUME IInv, NEW i \in Indices, NEW v \in Int, SetBoundary(i, v)
  PROVE  /\ LayoutOK(boundaries', activeLeds') /\ Fits(transition')
         /\ leds' \in [Leds -> Colours] /\ level' = level /\ fading' = fading
         /\ published' \in [Numbers -> Int \cup {Unset}] /\ overlapped' \in BOOLEAN
<1> DEFINE applied == Clamp(v, LowestBoundary(boundaries, i),
                               HighestBoundary(boundaries, activeLeds, i))
<1>1. applied \in Int /\ LayoutOK([boundaries EXCEPT ![i] = applied], activeLeds)
  BY SetBoundaryLayout DEF IInv
<1> HIDE DEF applied
<1>2. /\ boundaries' = [boundaries EXCEPT ![i] = applied] /\ activeLeds' = activeLeds
      /\ level' = level /\ fading' = fading
      /\ published' = [published EXCEPT ![i] = applied]
      /\ \/ UNCHANGED <<transition, leds, overlapped>>
         \/ /\ applied # boundaries[i]
            /\ transition' = BoundaryTransition(i, boundaries[i], applied)
            /\ leds' = Painted(leds, boundaries', activeLeds, level)
            /\ overlapped' = (overlapped \/ Busy)
  BY DEF SetBoundary, applied
<1>3. LayoutOK(boundaries', activeLeds')
  BY <1>1, <1>2
<1>4. applied >= -1 /\ applied < activeLeds
  <2>1. [boundaries EXCEPT ![i] = applied][i] = applied
    BY DEF IInv, TypeOK
  <2> QED BY <1>1, <2>1 DEF LayoutOK
<1>5. Fits(transition')
  BY <1>1, <1>2, <1>4, BoundaryTransitionFits DEF IInv
<1>6. leds' \in [Leds -> Colours]
  <2>1. leds \in [Leds -> Colours] /\ level \in [Segments -> Levels]
    BY DEF IInv, TypeOK
  <2> QED BY <1>2, <2>1, PaintedType
<1>7. published' \in [Numbers -> Int \cup {Unset}]
  BY <1>1, <1>2 DEF IInv, TypeOK, Numbers
<1>8. overlapped' \in BOOLEAN
  BY <1>2 DEF IInv, TypeOK, Busy
<1> QED BY <1>2, <1>3, <1>5, <1>6, <1>7, <1>8

LEMMA SetActiveLedsKeeps ==
  ASSUME IInv, NEW v \in Int, SetActiveLeds(v)
  PROVE  /\ LayoutOK(boundaries', activeLeds') /\ Fits(transition')
         /\ leds' \in [Leds -> Colours] /\ level' = level /\ fading' = fading
         /\ published' \in [Numbers -> Int \cup {Unset}] /\ overlapped' \in BOOLEAN
<1> DEFINE room == (NumBoundaries + 1) * MinLength
           applied == Clamp(v, room, NumLeds)
<1>1. applied \in Int /\ applied >= room /\ applied >= 0 /\ applied <= NumLeds
  <2>1. room \in Nat /\ room <= NumLeds /\ NumLeds \in Nat
    BY ConfigFacts
  <2> HIDE DEF room
  <2> QED BY <2>1 DEF Clamp, AtMost, AtLeast
<1>2. /\ activeLeds' = applied /\ level' = level /\ fading' = fading
      /\ \/ /\ applied = activeLeds
            /\ published' = [published EXCEPT ![ActiveControl] = applied]
            /\ UNCHANGED <<boundaries, transition, leds, overlapped>>
         \/ /\ applied # activeLeds
            /\ transition' = ActiveTransition(activeLeds, applied)
            /\ boundaries' \in Normalized(boundaries, applied)
            /\ leds' = Frame(Painted(Cleared(activeLeds, applied), boundaries', applied, level),
                             transition', "start")
            /\ published' = [PublishBoundaries(boundaries') EXCEPT ![ActiveControl] = applied]
            /\ overlapped' = (overlapped \/ Busy)
  BY DEF SetActiveLeds
<1> HIDE DEF applied
<1>3. CASE applied = activeLeds /\ UNCHANGED <<boundaries, transition, leds, overlapped>>
                                /\ published' = [published EXCEPT ![ActiveControl] = applied]
  BY <1>1, <1>2, <1>3 DEF IInv, TypeOK, Numbers
<1>4. CASE applied # activeLeds /\ boundaries' \in Normalized(boundaries, applied)
  <2>1. LayoutOK(boundaries', activeLeds')
    <3>1. boundaries \in [Indices -> Int]
      BY DEF IInv, TypeOK
    <3> QED BY <1>1, <1>2, <1>4, <3>1, NormalizedLayout
  <2>2. transition' = ActiveTransition(activeLeds, applied)
    BY <1>2, <1>4
  <2>3. Fits(transition')
    BY <1>1, <1>4, <2>2, ActiveTransitionFits
  <2>4. leds' \in [Leds -> Colours]
    <3>1. Cleared(activeLeds, applied) \in [Leds -> Colours] /\ level \in [Segments -> Levels]
      BY ConfigAssumption DEF IInv, TypeOK, Cleared, Colours
    <3> DEFINE painted == Painted(Cleared(activeLeds, applied), boundaries', applied, level)
    <3>2. painted \in [Leds -> Colours]
      BY <3>1, PaintedType
    <3> HIDE DEF painted
    <3>3. Frame(painted, transition', "start") \in [Leds -> Colours]
      BY <2>3, <3>2, FrameType
    <3> QED BY <1>2, <1>4, <3>3 DEF painted
  <2>5. published' \in [Numbers -> Int \cup {Unset}]
    <3>1. published' = [PublishBoundaries(boundaries') EXCEPT ![ActiveControl] = applied]
      BY <1>2, <1>4
    <3>2. PublishBoundaries(boundaries') \in [Numbers -> Int \cup {Unset}]
      BY <2>1 DEF IInv, TypeOK, LayoutOK, PublishBoundaries
    <3> QED BY <1>1, <3>1, <3>2
  <2>6. overlapped' \in BOOLEAN
    BY <1>2, <1>4 DEF IInv, TypeOK, Busy
  <2> QED BY <1>2, <2>1, <2>3, <2>4, <2>5, <2>6
<1> QED BY <1>2, <1>3, <1>4
-----------------------------------------------------------------------------
(* The specification.                                                      *)

\* A start of the program, the first one or after a crash: the configured layout
\* and a strip every light has painted.
LEMMA StartKeeps ==
  ASSUME NEW l \in [Segments -> Levels]
  PROVE  /\ LayoutOK(InitBoundaries, InitActive) /\ Fits(NoTransition)
         /\ Painted([i \in Leds |-> Dark], InitBoundaries, InitActive, l) \in [Leds -> Colours]
<1>1. [i \in Leds |-> Dark] \in [Leds -> Colours]
  BY ConfigAssumption DEF Colours
<1> QED BY <1>1, InitLayout, PaintedType DEF Fits

LEMMA FitsType ==
  ASSUME NEW t, Fits(t)
  PROVE  t = NoTransition \/
           /\ DOMAIN t = {"active", "start", "end", "source", "target"}
           /\ t.active = TRUE /\ t.start \in Int /\ t.end \in Int
           /\ t.source \in [t.start..t.end -> Colours]
           /\ t.target \in [t.start..t.end -> Colours]
BY DEF Fits

LEMMA InitIInv == Init => IInv
<1> SUFFICES ASSUME Init PROVE IInv
  OBVIOUS
<1>1. level \in [Segments -> Levels] /\ transition = NoTransition
  BY DEF Init
<1>2. LayoutOK(boundaries, activeLeds) /\ Fits(transition) /\ leds \in [Leds -> Colours]
  BY <1>1, StartKeeps DEF Init
<1>3. pref \in [Numbers -> Int \cup {Unset}] /\ published \in [Numbers -> Int \cup {Unset}]
  BY ConfigAssumption DEF Init
<1>4. fading \in [Segments -> Levels \cup {Unset}]
  BY DEF Init
<1>5. 0 \in 0..LastSetup
  BY ConfigFacts DEF LastSetup
<1>6. booting = 0 /\ overlapped = FALSE
  BY DEF Init
<1> QED BY <1>1, <1>2, <1>3, <1>4, <1>5, <1>6 DEF IInv, TypeOK, LayoutOK

LEMMA StepIInv == IInv /\ [Next]_vars => IInv'
<1> SUFFICES ASSUME IInv, [Next]_vars PROVE IInv'
  OBVIOUS
<1> USE ConfigFacts
<1>1. ASSUME SetupNumber PROVE IInv'
  <2> DEFINE k == SetupOrder[booting + 1]
  <2>1. booting + 1 \in 0..LastSetup /\ booting + 1 \in 1..LastSetup /\ k \in Numbers
    BY <1>1, ConfigAssumption DEF SetupNumber, Booted, IInv, TypeOK, LastSetup
  <2>2. booting' \in 0..LastSetup /\ pref' = pref
    BY <1>1, <2>1 DEF SetupNumber
  <2> HIDE DEF k
  <2>3. CASE /\ pref[k] = Unset
             /\ published' = [published EXCEPT
                  ![k] = IF k = ActiveControl THEN activeLeds ELSE boundaries[k]]
             /\ UNCHANGED <<boundaries, activeLeds, transition, leds, level, fading, overlapped>>
    <3>1. (IF k = ActiveControl THEN activeLeds ELSE boundaries[k]) \in Int
      BY <2>1 DEF IInv, TypeOK, Numbers
    <3>2. published' \in [Numbers -> Int \cup {Unset}]
      BY <2>3, <3>1 DEF IInv, TypeOK
    <3> QED BY <2>2, <2>3, <3>2 DEF IInv, TypeOK
  <2>4. CASE pref[k] # Unset /\ k = ActiveControl /\ SetActiveLeds(pref[k])
    <3>1. pref[k] \in Int
      BY <2>1, <2>4 DEF IInv, TypeOK
    <3>2. /\ LayoutOK(boundaries', activeLeds') /\ Fits(transition')
          /\ leds' \in [Leds -> Colours] /\ level' = level /\ fading' = fading
          /\ published' \in [Numbers -> Int \cup {Unset}] /\ overlapped' \in BOOLEAN
      BY <2>4, <3>1, SetActiveLedsKeeps
    <3> QED BY <2>2, <3>2, FitsType DEF IInv, TypeOK, LayoutOK
  <2>5. CASE pref[k] # Unset /\ k # ActiveControl /\ SetBoundary(k, pref[k])
    <3>1. pref[k] \in Int /\ k \in Indices
      BY <2>1, <2>5 DEF IInv, TypeOK, Numbers
    <3>2. /\ LayoutOK(boundaries', activeLeds') /\ Fits(transition')
          /\ leds' \in [Leds -> Colours] /\ level' = level /\ fading' = fading
          /\ published' \in [Numbers -> Int \cup {Unset}] /\ overlapped' \in BOOLEAN
      BY <2>5, <3>1, SetBoundaryKeeps
    <3> QED BY <2>2, <3>2, FitsType DEF IInv, TypeOK, LayoutOK
  <2> QED BY <1>1, <2>3, <2>4, <2>5 DEF SetupNumber, k
<1>2. ASSUME FrameOnTheWay PROVE IInv'
  <2>1. leds' \in [Leds -> Colours]
    BY <1>2, FrameType DEF FrameOnTheWay, IInv, TypeOK
  <2> QED BY <1>2, <2>1 DEF FrameOnTheWay, hub, IInv, TypeOK
<1>3. ASSUME LastFrame PROVE IInv'
  <2>1. leds' \in [Leds -> Colours]
    BY <1>3, FrameType DEF LastFrame, IInv, TypeOK
  <2>2. Fits(transition')
    BY <1>3 DEF LastFrame, Fits
  <2> QED BY <1>3, <2>1, <2>2 DEF LastFrame, IInv, TypeOK
<1>4. ASSUME Crash PROVE IInv'
  <2>1. level' \in [Segments -> Levels] /\ transition' = NoTransition
    BY <1>4 DEF Crash
  <2>2. LayoutOK(boundaries', activeLeds') /\ Fits(transition') /\ leds' \in [Leds -> Colours]
    BY <1>4, <2>1, StartKeeps DEF Crash
  <2>3. pref' \in [Numbers -> Int \cup {Unset}] /\ published' \in [Numbers -> Int \cup {Unset}]
    BY <1>4 DEF Crash, IInv, TypeOK
  <2>4. fading' \in [Segments -> Levels \cup {Unset}]
    BY <1>4 DEF Crash
  <2>5. 0 \in 0..LastSetup
    BY DEF LastSetup
  <2>6. booting' = 0 /\ overlapped' = FALSE
    BY <1>4 DEF Crash
  <2> QED BY <2>1, <2>2, <2>3, <2>4, <2>5, <2>6 DEF IInv, TypeOK, LayoutOK
<1>5. ASSUME NEW v \in Requests, ControlActive(v) PROVE IInv'
  <2>1. v \in Int
    BY ConfigAssumption
  <2>2. /\ LayoutOK(boundaries', activeLeds') /\ Fits(transition')
        /\ leds' \in [Leds -> Colours] /\ level' = level /\ fading' = fading
        /\ published' \in [Numbers -> Int \cup {Unset}] /\ overlapped' \in BOOLEAN
    BY <1>5, <2>1, SetActiveLedsKeeps DEF ControlActive
  <2>3. pref' \in [Numbers -> Int \cup {Unset}] /\ booting' = booting
    BY <1>5, <2>2 DEF ControlActive, LayoutOK, IInv, TypeOK
  <2> QED BY <2>2, <2>3, FitsType DEF IInv, TypeOK, LayoutOK
<1>6. ASSUME NEW v \in Requests, NEW i \in Indices, ControlBoundary(i, v) PROVE IInv'
  <2>1. v \in Int
    BY ConfigAssumption
  <2>2. /\ LayoutOK(boundaries', activeLeds') /\ Fits(transition')
        /\ leds' \in [Leds -> Colours] /\ level' = level /\ fading' = fading
        /\ published' \in [Numbers -> Int \cup {Unset}] /\ overlapped' \in BOOLEAN
    BY <1>6, <2>1, SetBoundaryKeeps DEF ControlBoundary
  <2>3. boundaries'[i] \in Int
    BY <2>2 DEF LayoutOK
  <2>4. pref' \in [Numbers -> Int \cup {Unset}] /\ booting' = booting
    BY <1>6, <2>3 DEF ControlBoundary, IInv, TypeOK
  <2> QED BY <2>2, <2>4, FitsType DEF IInv, TypeOK, LayoutOK
<1>7. ASSUME NEW s \in Segments, NEW colour \in Colours
      PROVE  IInv => PaintSegment(s, colour) \in [Leds -> Colours]
  BY <1>7 DEF PaintSegment, IInv, TypeOK
<1>8. ASSUME NEW s \in Segments, NEW l \in Levels, SwitchLight(s, l) PROVE IInv'
  <2>1. leds' \in [Leds -> Colours]
    BY <1>7, <1>8 DEF SwitchLight, Colours
  <2>2. level' \in [Segments -> Levels] /\ fading' \in [Segments -> Levels \cup {Unset}]
        /\ overlapped' \in BOOLEAN
    BY <1>8 DEF SwitchLight, IInv, TypeOK, Fits, NoTransition
  <2> QED BY <1>8, <2>1, <2>2 DEF SwitchLight, hub, IInv, TypeOK
<1>9. ASSUME NEW s \in Segments, NEW l \in Levels, StartFade(s, l) PROVE IInv'
  <2>1. fading' \in [Segments -> Levels \cup {Unset}] /\ overlapped' \in BOOLEAN
    BY <1>9 DEF StartFade, IInv, TypeOK, Fits, NoTransition
  <2> QED BY <1>9, <2>1 DEF StartFade, hub, IInv, TypeOK
<1>10. ASSUME NEW s \in Segments, FadeFrame(s) PROVE IInv'
  <2>1. Blend(level[s], fading[s]) \in Colours
    BY DEF IInv, TypeOK, Blend, Colours
  <2>2. leds' \in [Leds -> Colours]
    BY <1>7, <1>10, <2>1 DEF FadeFrame
  <2> QED BY <1>10, <2>2 DEF FadeFrame, hub, IInv, TypeOK
<1>11. ASSUME NEW s \in Segments, FadeEnds(s) PROVE IInv'
  <2>1. fading[s] \in Levels
    BY <1>11 DEF FadeEnds, IInv, TypeOK
  <2>2. leds' \in [Leds -> Colours]
    BY <1>7, <1>11, <2>1 DEF FadeEnds, Colours
  <2>3. level' \in [Segments -> Levels] /\ fading' \in [Segments -> Levels \cup {Unset}]
    BY <1>11, <2>1 DEF FadeEnds, IInv, TypeOK
  <2> QED BY <1>11, <2>2, <2>3 DEF FadeEnds, hub, IInv, TypeOK
<1>12. CASE UNCHANGED vars
  BY <1>12 DEF vars, IInv, TypeOK
<1> QED BY <1>1, <1>2, <1>3, <1>4, <1>5, <1>6, <1>8, <1>9, <1>10, <1>11, <1>12 DEF Next

LEMMA Inductive == Spec => []IInv
<1>1. Init => IInv
  BY InitIInv
<1>2. IInv /\ [Next]_vars => IInv'
  BY StepIInv
<1> QED BY <1>1, <1>2, PTL DEF Spec

\* Type correctness: among others, every transition has a level for each LED it
\* touches and the strip keeps its length.
THEOREM TypeCorrect == Spec => []TypeOK
<1>1. IInv => TypeOK
  BY DEF IInv
<1> QED BY <1>1, Inductive, PTL

\* Whatever is requested or restored, and in whatever order the numbers are set
\* up, the boundaries stay ordered, every segment keeps its minimal length and
\* the active LEDs fit the strip (set_boundary, set_active_leds_runtime,
\* normalize_boundaries_for_active_leds_).
THEOREM PartitionHolds == Spec => []Partition
<1>1. IInv => Partition
  BY DEF IInv, LayoutOK, Partition
<1> QED BY <1>1, Inductive, PTL

\* A transition never leaves the strip, although the layout may change while it
\* runs (start_boundary_transition_, start_active_leds_transition_).
THEOREM TransitionInStripHolds == Spec => []TransitionInStrip
<1>1. IInv => TransitionInStrip
  BY DEF IInv, Fits, NoTransition, TransitionInStrip
<1> QED BY <1>1, Inductive, PTL
-----------------------------------------------------------------------------
(* A lone change.  The other numbers have nothing saved, so that each start   *)
(* finds the configured layout for the one that has: the limits it is clamped *)
(* by when it is restored are those it was clamped by when it was saved.      *)

Room == (NumBoundaries + 1) * MinLength
Untouched(k) == \A j \in Numbers \ {k} : pref[j] = Unset
Saved(k) == pref[k] \notin OldPreferences \cup {Unset}
SetUp(k) == \E n \in 1..booting : SetupOrder[n] = k

Low(i) == LowestBoundary(InitBoundaries, i)
High(i) == HighestBoundary(InitBoundaries, InitActive, i)

BoundaryAlone(k) ==
  Untouched(k) =>
    /\ activeLeds = InitActive
    /\ \A j \in Indices \ {k} : boundaries[j] = InitBoundaries[j]
    /\ Saved(k) => /\ pref[k] \in Low(k)..High(k)
                   /\ SetUp(k) => boundaries[k] = pref[k]

ActiveAlone ==
  (Untouched(ActiveControl) /\ Saved(ActiveControl)) =>
    /\ pref[ActiveControl] \in Room..NumLeds
    /\ SetUp(ActiveControl) => activeLeds = pref[ActiveControl]

LoneInv == (\A k \in Indices : BoundaryAlone(k)) /\ ActiveAlone

LEMMA Distinct == /\ ActiveControl \in Numbers /\ ActiveControl \notin Indices
                  /\ Indices \subseteq Numbers /\ Unset \notin Int
                  /\ \A k \in Numbers : k # ActiveControl => k \in Indices
BY ConfigAssumption DEF Numbers, ActiveControl

LEMMA ClampBetween ==
  ASSUME NEW v \in Int, NEW low \in Int, NEW high \in Int, low <= high
  PROVE  /\ Clamp(v, low, high) \in low..high
         /\ v \in low..high => Clamp(v, low, high) = v
         /\ v >= 0 /\ high >= 0 => Clamp(v, low, high) >= 0
BY DEF Clamp, AtMost, AtLeast

\* A boundary lies between its limits.
LEMMA LimitsInOrder ==
  ASSUME NEW b, NEW n, LayoutOK(b, n), NEW i \in Indices
  PROVE  /\ LowestBoundary(b, i) \in Int /\ HighestBoundary(b, n, i) \in Int /\ b[i] \in Int
         /\ LowestBoundary(b, i) <= b[i] /\ b[i] <= HighestBoundary(b, n, i)
<1>1. /\ b[i] \in Int /\ n \in Int
      /\ i > 0 => i - 1 \in Indices /\ b[i - 1] \in Int /\ b[i] >= b[i - 1] + MinLength
      /\ i + 1 < NumBoundaries => i + 1 \in Indices /\ b[i + 1] \in Int /\ b[i + 1] >= b[i] + MinLength
      /\ i = 0 => b[i] >= MinLength - 1
  BY ConfigFacts DEF LayoutOK, Ordered
<1>2. i + 1 >= NumBoundaries => n - 1 >= b[i] + MinLength
  <2>1. i + 1 >= NumBoundaries => i = NumBoundaries - 1
    BY ConfigFacts
  <2> QED BY <2>1 DEF LayoutOK, Ordered
<1> QED BY <1>1, <1>2, ConfigFacts DEF LowestBoundary, HighestBoundary

LEMMA InitLimits ==
  ASSUME NEW i \in Indices
  PROVE  /\ Low(i) \in Int /\ High(i) \in Int /\ Low(i) <= High(i) /\ High(i) >= 0
         /\ InitBoundaries[i] \in Int /\ InitBoundaries[i] >= 0
<1>1. InitBoundaries[i] \in Nat
  BY ConfigAssumption
<1> QED BY <1>1, InitLayout, LimitsInOrder DEF Low, High

\* The limits of a boundary depend on its neighbours only.
LEMMA LimitsAlone ==
  ASSUME NEW k \in Indices, BoundaryAlone(k), Untouched(k)
  PROVE  /\ LowestBoundary(boundaries, k) = Low(k)
         /\ HighestBoundary(boundaries, activeLeds, k) = High(k)
<1>1. /\ k > 0 => k - 1 \in Indices \ {k}
      /\ k + 1 < NumBoundaries => k + 1 \in Indices \ {k}
  BY ConfigFacts
<1> QED BY <1>1, ConfigFacts DEF BoundaryAlone, LowestBoundary, HighestBoundary, Low, High

LEMMA NothingLone ==
  ASSUME LoneInv, UNCHANGED <<boundaries, activeLeds, pref, booting>>
  PROVE  LoneInv'
BY DEF LoneInv, BoundaryAlone, ActiveAlone, Untouched, Saved, SetUp

\* A number whose turn is over, or is now.
LEMMA SetUpNext ==
  ASSUME IInv, SetupNumber, NEW k
  PROVE  SetUp(k)' <=> (SetUp(k) \/ SetupOrder[booting + 1] = k)
<1>1. booting \in Nat /\ booting' = booting + 1
  BY DEF SetupNumber, IInv, TypeOK
<1>2. 1..booting' = 1..booting \cup {booting + 1}
  BY <1>1
<1> QED BY <1>1, <1>2 DEF SetUp

LEMMA SetupTarget ==
  ASSUME IInv, SetupNumber
  PROVE  SetupOrder[booting + 1] \in Numbers
BY ConfigAssumption, ConfigFacts DEF SetupNumber, Booted, IInv, TypeOK, LastSetup

\* What set_boundary and set_active_leds_runtime do to the layout.
LEMMA BoundarySet ==
  ASSUME IInv, NEW i \in Indices, NEW v \in Int, SetBoundary(i, v)
  PROVE  LET applied == Clamp(v, LowestBoundary(boundaries, i),
                                 HighestBoundary(boundaries, activeLeds, i))
         IN  /\ boundaries' = [boundaries EXCEPT ![i] = applied] /\ boundaries'[i] = applied
             /\ activeLeds' = activeLeds /\ applied \in Int
BY SetBoundaryLayout DEF SetBoundary, IInv, TypeOK

LEMMA ActiveSet ==
  ASSUME NEW v \in Int, SetActiveLeds(v)
  PROVE  activeLeds' \in Room..NumLeds /\ (v \in Room..NumLeds => activeLeds' = v)
<1>1. Room \in Int /\ NumLeds \in Int /\ Room <= NumLeds
  BY ConfigFacts DEF Room
<1>2. activeLeds' = Clamp(v, Room, NumLeds)
  BY DEF SetActiveLeds, Room
<1> HIDE DEF Room
<1> QED BY <1>1, <1>2, ClampBetween

\* While only k may be saved, the setup of another number changes nothing.
LEMMA SetupOfAnother ==
  ASSUME IInv, SetupNumber, NEW k, Untouched(k), SetupOrder[booting + 1] # k
  PROVE  UNCHANGED <<boundaries, activeLeds>>
<1>1. pref[SetupOrder[booting + 1]] = Unset
  BY SetupTarget DEF Untouched
<1> QED BY <1>1 DEF SetupNumber

LEMMA SetupKeepsBoundary ==
  ASSUME IInv, SetupNumber, NEW k \in Indices, BoundaryAlone(k)
  PROVE  BoundaryAlone(k)'
<1> DEFINE n == SetupOrder[booting + 1]
<1>1. pref' = pref
  BY DEF SetupNumber
<1>2. CASE ~Untouched(k)
  BY <1>1, <1>2 DEF BoundaryAlone, Untouched
<1>3. CASE Untouched(k) /\ n # k
  <2>1. UNCHANGED <<boundaries, activeLeds>>
    BY <1>3, SetupOfAnother
  <2>2. SetUp(k)' <=> SetUp(k)
    BY <1>3, SetUpNext
  <2> QED BY <1>1, <1>3, <2>1, <2>2 DEF BoundaryAlone, Untouched, Saved
<1>4. CASE Untouched(k) /\ n = k /\ pref[k] = Unset
  <2>1. UNCHANGED <<boundaries, activeLeds>>
    BY <1>4 DEF SetupNumber
  <2> QED BY <1>1, <1>4, <2>1 DEF BoundaryAlone, Untouched, Saved
<1>5. CASE Untouched(k) /\ n = k /\ pref[k] # Unset
  <2>1. k # ActiveControl /\ pref[k] \in Int
    BY <1>5, Distinct DEF IInv, TypeOK
  <2>2. SetBoundary(k, pref[k])
    BY <1>5, <2>1 DEF SetupNumber
  <2>3. /\ boundaries' = [boundaries EXCEPT ![k] = Clamp(pref[k], Low(k), High(k))]
        /\ boundaries'[k] = Clamp(pref[k], Low(k), High(k)) /\ activeLeds' = activeLeds
    BY <1>5, <2>1, <2>2, BoundarySet, LimitsAlone
  <2>4. pref[k] \in Low(k)..High(k) => Clamp(pref[k], Low(k), High(k)) = pref[k]
    BY <2>1, ClampBetween, InitLimits
  <2> QED BY <1>1, <1>5, <2>3, <2>4 DEF BoundaryAlone, Untouched, Saved, IInv, TypeOK
<1> QED BY <1>2, <1>3, <1>4, <1>5

LEMMA SetupKeepsActive ==
  ASSUME IInv, SetupNumber, ActiveAlone
  PROVE  ActiveAlone'
<1> DEFINE n == SetupOrder[booting + 1]
           lone == Untouched(ActiveControl) /\ Saved(ActiveControl)
<1>1. pref' = pref
  BY DEF SetupNumber
<1>2. CASE ~lone
  BY <1>1, <1>2 DEF ActiveAlone, Untouched, Saved
<1>3. CASE lone /\ n # ActiveControl
  <2>1. UNCHANGED <<boundaries, activeLeds>>
    BY <1>3, SetupOfAnother
  <2>2. SetUp(ActiveControl)' <=> SetUp(ActiveControl)
    BY <1>3, SetUpNext
  <2> QED BY <1>1, <1>3, <2>1, <2>2 DEF ActiveAlone, Untouched, Saved
<1>4. CASE lone /\ n = ActiveControl
  <2>1. pref[ActiveControl] # Unset /\ pref[ActiveControl] \in Int
    BY <1>4, Distinct DEF Saved, IInv, TypeOK
  <2>2. SetActiveLeds(pref[ActiveControl])
    BY <1>4, <2>1 DEF SetupNumber
  <2>3. activeLeds' = pref[ActiveControl]
    BY <1>4, <2>1, <2>2, ActiveSet DEF ActiveAlone
  <2> QED BY <1>1, <1>4, <2>3 DEF ActiveAlone, Untouched, Saved
<1> QED BY <1>2, <1>3, <1>4

\* control() of a boundary that is alone saves what it applies; a boundary that is not
\* alone gets a saved value itself.
LEMMA ControlBoundaryKeeps ==
  ASSUME IInv, LoneInv, NEW i \in Indices, NEW v \in Int, ControlBoundary(i, v)
  PROVE  LoneInv'
<1>1. v >= 0 /\ SetBoundary(i, v) /\ booting' = booting
  BY DEF ControlBoundary
<1> DEFINE low == LowestBoundary(boundaries, i)
           high == HighestBoundary(boundaries, activeLeds, i)
           applied == Clamp(v, low, high)
<1>2. /\ boundaries' = [boundaries EXCEPT ![i] = applied] /\ boundaries'[i] = applied
      /\ activeLeds' = activeLeds /\ applied \in Int
  BY <1>1, BoundarySet
<1>3. low \in Int /\ high \in Int /\ low <= boundaries[i] /\ boundaries[i] <= high /\ boundaries[i] \in Int
  BY LimitsInOrder DEF IInv
<1>4. applied \in low..high /\ (high >= 0 => applied >= 0)
  <2>1. \A a, b \in Int : a <= b => /\ Clamp(v, a, b) \in a..b
                                    /\ v >= 0 /\ b >= 0 => Clamp(v, a, b) >= 0
    BY ClampBetween
  <2> HIDE DEF low, high
  <2>2. low <= high
    BY <1>3
  <2>3. v >= 0
    BY <1>1
  <2> QED BY <1>3, <2>1, <2>2, <2>3
<1> HIDE DEF applied
<1>5. pref' = (IF applied >= 0 THEN [pref EXCEPT ![i] = applied] ELSE pref)
  BY <1>2 DEF ControlBoundary
<1>6. DOMAIN pref = Numbers
  BY DEF IInv, TypeOK
<1>7. BoundaryAlone(i)'
  <2> SUFFICES ASSUME Untouched(i)' PROVE BoundaryAlone(i)'
    BY DEF BoundaryAlone
  <2>1. Untouched(i) /\ BoundaryAlone(i)
    BY <1>5, <1>6 DEF Untouched, LoneInv
  <2>2. low = Low(i) /\ high = High(i)
    BY <2>1, LimitsAlone
  <2>3. applied >= 0 /\ applied \in Low(i)..High(i)
    BY <1>4, <2>2, InitLimits
  <2>4. pref'[i] = applied
    BY <1>5, <1>6, <2>3, Distinct
  <2> QED BY <1>2, <2>1, <2>3, <2>4 DEF BoundaryAlone
<1>8. ASSUME NEW k \in Numbers \ {i}, Untouched(k)' PROVE pref' = pref
  <2>1. pref'[i] = Unset
    BY <1>8, Distinct DEF Untouched
  <2> QED BY <1>2, <1>5, <1>6, <2>1, Distinct
<1>9. ASSUME NEW k \in Indices \ {i} PROVE BoundaryAlone(k)'
  <2> SUFFICES ASSUME Untouched(k)' PROVE FALSE
    BY DEF BoundaryAlone
  <2>1. pref' = pref
    BY <1>8, Distinct
  <2>2. boundaries[i] = InitBoundaries[i]
    BY <2>1 DEF LoneInv, BoundaryAlone, Untouched
  <2>3. high >= 0
    BY <1>3, <2>2, InitLimits
  <2>4. pref'[i] = applied /\ pref'[i] = Unset
    BY <1>4, <1>5, <1>6, <2>3, Distinct DEF Untouched
  <2> QED BY <1>2, <2>4, Distinct
<1>10. ActiveAlone'
  <2> SUFFICES ASSUME Untouched(ActiveControl)' PROVE ActiveAlone'
    BY DEF ActiveAlone
  <2>1. pref' = pref
    BY <1>8, Distinct
  <2> QED BY <1>1, <1>2, <2>1 DEF LoneInv, ActiveAlone, Untouched, Saved, SetUp
<1> QED BY <1>7, <1>9, <1>10 DEF LoneInv

LEMMA ControlActiveKeeps ==
  ASSUME IInv, LoneInv, NEW v \in Int, ControlActive(v)
  PROVE  LoneInv'
<1>1. activeLeds' \in Room..NumLeds
  BY ActiveSet DEF ControlActive
<1>2. activeLeds' \in Int
  BY <1>1
<1>3. pref' = [pref EXCEPT ![ActiveControl] = activeLeds'] /\ DOMAIN pref = Numbers
  BY DEF ControlActive, IInv, TypeOK
<1>4. pref'[ActiveControl] = activeLeds'
  BY <1>3, Distinct
<1>5. ASSUME NEW k \in Indices PROVE ~Untouched(k)'
  BY <1>2, <1>4, Distinct DEF Untouched
<1> QED BY <1>1, <1>4, <1>5 DEF LoneInv, BoundaryAlone, ActiveAlone

LEMMA CrashKeeps ==
  ASSUME LoneInv, Crash
  PROVE  LoneInv'
<1>1. /\ boundaries' = InitBoundaries /\ activeLeds' = InitActive /\ booting' = 0 /\ pref' = pref
  BY DEF Crash
<1>2. \A k : ~SetUp(k)'
  BY <1>1 DEF SetUp
<1> QED BY <1>1, <1>2 DEF LoneInv, BoundaryAlone, ActiveAlone, Untouched, Saved

LEMMA InitLoneInv == Init => LoneInv
<1> SUFFICES ASSUME Init PROVE LoneInv
  OBVIOUS
<1>1. boundaries = InitBoundaries /\ activeLeds = InitActive
  BY DEF Init
<1>2. \A k \in Numbers : ~Saved(k)
  BY DEF Init, Saved
<1> QED BY <1>1, <1>2, Distinct DEF LoneInv, BoundaryAlone, ActiveAlone

LEMMA StepLoneInv == IInv /\ LoneInv /\ [Next]_vars => LoneInv'
<1> SUFFICES ASSUME IInv, LoneInv, [Next]_vars PROVE LoneInv'
  OBVIOUS
<1>1. CASE SetupNumber
  BY <1>1, SetupKeepsBoundary, SetupKeepsActive DEF LoneInv
<1>2. CASE Crash
  BY <1>2, CrashKeeps
<1>3. ASSUME NEW v \in Requests, ControlActive(v) PROVE LoneInv'
  BY <1>3, ConfigAssumption, ControlActiveKeeps
<1>4. ASSUME NEW v \in Requests, NEW i \in Indices, ControlBoundary(i, v) PROVE LoneInv'
  BY <1>4, ConfigAssumption, ControlBoundaryKeeps
<1>5. CASE \/ FrameOnTheWay \/ LastFrame \/ UNCHANGED vars
           \/ \E s \in Segments : \/ \E l \in Levels : SwitchLight(s, l) \/ StartFade(s, l)
                                  \/ FadeFrame(s) \/ FadeEnds(s)
  <2>1. UNCHANGED <<boundaries, activeLeds, pref, booting>>
    BY <1>5 DEF FrameOnTheWay, LastFrame, SwitchLight, StartFade, FadeFrame, FadeEnds, hub, vars
  <2> QED BY <2>1, NothingLone
<1> QED BY <1>1, <1>2, <1>3, <1>4, <1>5 DEF Next

\* A value saved for one number only is in use again once all numbers have been set up,
\* whatever happened since and however often the program was restarted (setup() of
\* ws2811_cwww_boundary_number.cpp, set_boundary, set_active_leds_runtime): it was
\* clamped by the configured layout, which is the layout it is restored into.
THEOREM LoneChangeSurvivesHolds == Spec => []LoneChangeSurvives
<1>1. Spec => [](IInv /\ LoneInv)
  BY InitIInv, StepIInv, InitLoneInv, StepLoneInv, PTL DEF Spec
<1>2. IInv /\ LoneInv => LoneChangeSurvives
  <2> SUFFICES ASSUME IInv, LoneInv, Booted, NEW k \in Numbers, Saved(k), Untouched(k)
               PROVE  pref[k] = (IF k = ActiveControl THEN activeLeds ELSE boundaries[k])
    BY DEF LoneChangeSurvives, Saved, Untouched
  <2>1. SetUp(k)
    BY ConfigAssumption DEF Booted, SetUp
  <2>2. CASE k = ActiveControl
    BY <2>1, <2>2 DEF LoneInv, ActiveAlone
  <2>3. CASE k # ActiveControl
    BY <2>1, <2>3, Distinct DEF LoneInv, BoundaryAlone
  <2> QED BY <2>2, <2>3
<1> QED BY <1>1, <1>2, PTL

-----------------------------------------------------------------------------
(* The colours.  Segments do not share LEDs, so that a light paints nobody     *)
(* else's, and a transition ends at the levels of the segments it touches.     *)

LEMMA LeastElement ==
  ASSUME NEW S, S \subseteq Nat, S # {}
  PROVE  \E m \in S : \A n \in S : m <= n
<1>1. IsWellFoundedOn({p \in Nat \X Nat : p[1] < p[2]}, Nat)
  BY NatLessThanWellFounded DEF OpToRel
<1>2. PICK m \in S : \A n \in S : ~(<<n, m>> \in {p \in Nat \X Nat : p[1] < p[2]})
  BY <1>1, WFMin
<1>3. ASSUME NEW n \in S PROVE m <= n
  <2>1. m \in Nat /\ n \in Nat /\ ~(n < m)
    BY <1>2
  <2> QED BY <2>1
<1> QED BY <1>3

LEMMA BoundariesAscend ==
  ASSUME NEW b, NEW n, LayoutOK(b, n), NEW i \in Indices, NEW j \in Indices, i <= j
  PROVE  b[i] <= b[j]
<1> DEFINE Low_(k) == i <= k /\ ~(b[i] <= b[k])
           S == {k \in Indices : Low_(k)}
<1> SUFFICES ASSUME S # {} PROVE FALSE
  OBVIOUS
<1>1. b \in [Indices -> Int] /\ \A k \in Indices : k > 0 => b[k] >= b[k - 1] + MinLength
  BY DEF LayoutOK, Ordered
<1>2. PICK m \in S : \A k \in S : m <= k
  <2>1. S \subseteq Nat
    BY ConfigFacts
  <2> QED BY <2>1, LeastElement
<1>3. m \in Indices /\ i < m /\ m - 1 \in Indices
  BY <1>1, <1>2, ConfigFacts
<1>4. m - 1 \notin S
  BY <1>2, <1>3
<1>5. b[i] <= b[m - 1] /\ b[m] >= b[m - 1] + MinLength
  BY <1>1, <1>3, <1>4
<1>6. b[i] \in Int /\ b[m] \in Int /\ b[m - 1] \in Int /\ MinLength \in Nat /\ ~(b[i] <= b[m])
  BY <1>1, <1>2, <1>3, ConfigFacts
<1> HIDE DEF S
<1> QED BY <1>5, <1>6

\* Where a segment ends and the next one begins.
LEMMA RangeFacts ==
  ASSUME NEW b, NEW n, LayoutOK(b, n), NEW s \in Segments, NEW x \in Range(b, n, s)
  PROVE  /\ x \in Leds /\ x < n
         /\ s < NumBoundaries => x <= b[s]
         /\ s > 0 => s - 1 \in Indices /\ b[s - 1] < x
<1>1. /\ b \in [Indices -> Int] /\ n \in Int /\ n <= NumLeds
      /\ \A i \in Indices : b[i] >= -1 /\ b[i] < n
  BY DEF LayoutOK
<1>2. /\ s < NumBoundaries => s \in Indices
      /\ s > 0 => s - 1 \in Indices
      /\ s = 0 \/ s > 0
      /\ s = NumBoundaries \/ s < NumBoundaries
  BY ConfigFacts
<1>3. (s > 0 => b[s - 1] \in Int /\ b[s - 1] >= -1) /\ (s < NumBoundaries => b[s] \in Int /\ b[s] < n)
  BY <1>1, <1>2
<1>4. x \in (IF s = 0 THEN 0 ELSE b[s - 1] + 1)..(IF s = NumBoundaries THEN n - 1 ELSE b[s])
  BY DEF Range
<1> DEFINE first == IF s = 0 THEN 0 ELSE b[s - 1] + 1
           last == IF s = NumBoundaries THEN n - 1 ELSE b[s]
<1>5. first \in Int /\ first >= 0 /\ (s > 0 => b[s - 1] < first)
  BY <1>2, <1>3
<1>6. last \in Int /\ last < n /\ (s < NumBoundaries => last = b[s])
  BY <1>1, <1>2, <1>3, ConfigFacts
<1>7. x \in Int /\ first <= x /\ x <= last
  <2> HIDE DEF first, last
  <2> QED BY <1>4, <1>5, <1>6 DEF first, last
<1> HIDE DEF first, last
<1>8. /\ x \in Int /\ x >= 0 /\ x < n
      /\ s < NumBoundaries => x <= b[s]
      /\ s > 0 => b[s - 1] < x
  BY <1>1, <1>2, <1>3, <1>5, <1>6, <1>7
<1> QED BY <1>1, <1>2, <1>8, ConfigFacts

LEMMA OneSegment ==
  ASSUME NEW b, NEW n, LayoutOK(b, n), NEW s \in Segments, NEW t \in Segments,
         NEW x \in Range(b, n, s), x \in Range(b, n, t)
  PROVE  s = t
<1>1. ASSUME NEW p \in Segments, NEW q \in Segments, p < q,
             x \in Range(b, n, p), x \in Range(b, n, q)
      PROVE  FALSE
  <2>1. p \in Indices /\ q - 1 \in Indices /\ p <= q - 1
    BY <1>1, ConfigFacts
  <2>2. b[p] <= b[q - 1] /\ b[p] \in Int /\ b[q - 1] \in Int
    BY <2>1, BoundariesAscend DEF LayoutOK
  <2>3. x <= b[p] /\ b[q - 1] < x /\ x \in Int
    BY <1>1, <2>1, RangeFacts, ConfigFacts
  <2> QED BY <2>2, <2>3
<1> QED BY <1>1, ConfigFacts

\* In strip c every segment has its light's level.
Paints(c, b, n, l) == \A s \in Segments : \A x \in Range(b, n, s) : c[x] = l[s]

LEMMA PaintedShows ==
  ASSUME NEW b, NEW n, LayoutOK(b, n)
  PROVE  \A c, l : Paints(Painted(c, b, n, l), b, n, l)
<1> SUFFICES ASSUME NEW c, NEW l, NEW s \in Segments, NEW x \in Range(b, n, s)
             PROVE  Painted(c, b, n, l)[x] = l[s]
  BY DEF Paints
<1>1. x \in Leds
  BY RangeFacts
<1>2. (CHOOSE t \in Segments : x \in Range(b, n, t)) = s
  BY OneSegment
<1> QED BY <1>1, <1>2 DEF Painted

\* When LEDs are added, no boundary moves to the right.
LEMMA GrownStay ==
  ASSUME NEW b, NEW n, LayoutOK(b, n), NEW new \in Int, NEW f \in Normalized(b, new), LayoutOK(f, new)
  PROVE  \A i \in Indices : f[i] <= b[i]
<1> DEFINE Right(k) == ~(f[k] <= b[k])
           S == {k \in Indices : Right(k)}
<1> SUFFICES ASSUME S # {} PROVE FALSE
  OBVIOUS
<1>1. /\ b \in [Indices -> Int] /\ f \in [Indices -> Int]
      /\ \A k \in Indices : k > 0 => b[k] >= b[k - 1] + MinLength
      /\ b[0] >= MinLength - 1
  BY DEF LayoutOK, Ordered
<1>2. PICK m \in S : \A k \in S : m <= k
  <2>1. S \subseteq Nat
    BY ConfigFacts
  <2> QED BY <2>1, LeastElement
<1> DEFINE below == IF m = 0 THEN -1 ELSE f[m - 1]
           room == (NumBoundaries - m) * MinLength
<1>3. f[m] = AtMost(AtLeast(b[m], below + MinLength), new - room - 1)
  BY <1>2 DEF Normalized
<1>4. below \in Int /\ below + MinLength <= b[m]
  <2>1. CASE m = 0
    BY <1>1, <2>1, ConfigFacts
  <2>2. CASE m # 0
    <3>1. m - 1 \in Indices /\ m > 0 /\ m - 1 < m
      BY <1>2, <2>2, ConfigFacts
    <3>2. f[m - 1] <= b[m - 1]
      BY <1>2, <3>1
    <3>3. /\ f[m - 1] \in Int /\ b[m - 1] \in Int /\ b[m] \in Int /\ MinLength \in Nat
          /\ b[m] >= b[m - 1] + MinLength
      BY <1>1, <1>2, <3>1, ConfigFacts
    <3>4. below = f[m - 1]
      BY <2>2
    <3> HIDE DEF below, S
    <3> QED BY <3>2, <3>3, <3>4
  <2> QED BY <2>1, <2>2
<1>5. room \in Int
  <2>1. NumBoundaries - m \in Int
    BY <1>2, ConfigFacts
  <2> QED BY <2>1, RoomForOneMore
<1>6. ~(f[m] <= b[m]) /\ b[m] \in Int
  BY <1>1, <1>2
<1> HIDE DEF below, room
<1> QED BY <1>3, <1>4, <1>5, <1>6, ConfigFacts DEF AtMost, AtLeast

\* Strip c shows the levels l of the lights that do not fade, or is on its way there by
\* transition t; and t, while it is active, ends at the levels, with no light fading.
Shown(c, t, b, n, l, f) ==
  \A s \in Segments : f[s] = Unset =>
    \A x \in Range(b, n, s) :
      c[x] = l[s] \/ (t.active /\ x \in t.start..t.end /\ t.target[x] = l[s])

EndsAtLevels(t, b, n, l) ==
  \A s \in Segments : \A x \in Range(b, n, s) : x \in t.start..t.end => t.target[x] = l[s]

ColourInv ==
  ~overlapped =>
    /\ Shown(leds, transition, boundaries, activeLeds, level, fading)
    /\ transition.active => /\ \A s \in Segments : fading[s] = Unset
                            /\ EndsAtLevels(transition, boundaries, activeLeds, level)

\* The LEDs a boundary passes belong to the segment whose level they fade to.
LEMMA PassedLedsFade ==
  ASSUME IInv, NEW i \in Indices, NEW new \in Int, new # boundaries[i], BoundaryFade,
         NEW b, b = [boundaries EXCEPT ![i] = new], LayoutOK(b, activeLeds)
  PROVE  EndsAtLevels(BoundaryTransition(i, boundaries[i], new), b, activeLeds, level)
<1> DEFINE old == boundaries[i]
           t == BoundaryTransition(i, old, new)
<1>1. /\ boundaries \in [Indices -> Int] /\ old \in Int /\ b[i] = new
      /\ \A j \in Indices \ {i} : b[j] = boundaries[j]
  BY DEF IInv, TypeOK
<1>2. i \in Segments /\ i + 1 \in Segments /\ i \in Int
  BY ConfigFacts
<1> SUFFICES ASSUME NEW s \in Segments, NEW x \in Range(b, activeLeds, s), x \in t.start..t.end
             PROVE  t.target[x] = level[s]
  BY DEF EndsAtLevels
<1>3. x \in Int /\ x >= 0 /\ x < activeLeds /\ activeLeds \in Int
  <2>1. x \in Leds /\ x < activeLeds
    BY RangeFacts
  <2> QED BY <2>1, ConfigFacts DEF IInv, TypeOK
<1>4. CASE new < old
  <2>1. t = Uniform(new + 1, old, level[i], level[i + 1])
    BY <1>4 DEF BoundaryTransition
  <2>2. t.start = new + 1 /\ t.end = old /\ t.target = [k \in (new + 1)..old |-> level[i + 1]]
    BY <2>1 DEF Uniform
  <2>3. x \in (new + 1)..old /\ t.target[x] = level[i + 1]
    BY <2>2
  <2>4. i + 1 # NumBoundaries => i + 1 \in Indices /\ b[i + 1] \in Int /\ b[i + 1] >= old
    <3>1. SUFFICES ASSUME i + 1 # NumBoundaries PROVE i + 1 \in Indices /\ b[i + 1] \in Int /\ b[i + 1] >= old
      OBVIOUS
    <3>2. i + 1 \in Indices /\ i <= i + 1 /\ i + 1 # i
      BY <3>1, ConfigFacts
    <3>3. b[i + 1] = boundaries[i + 1] /\ boundaries[i] <= boundaries[i + 1]
      BY <1>1, <3>2, BoundariesAscend DEF IInv
    <3> QED BY <1>1, <3>2, <3>3
  <2>5. x \in Range(b, activeLeds, i + 1)
    <3>1. i + 1 # 0 /\ (i + 1) - 1 = i
      BY <1>2, ConfigFacts
    <3>2. Range(b, activeLeds, i + 1)
            = (new + 1)..(IF i + 1 = NumBoundaries THEN activeLeds - 1 ELSE b[i + 1])
      BY <1>1, <3>1 DEF Range
    <3> HIDE DEF old
    <3> QED BY <1>1, <1>3, <2>3, <2>4, <3>2
  <2>6. s = i + 1
    BY <1>2, <2>5, OneSegment
  <2> QED BY <2>3, <2>6
<1>5. CASE ~(new < old)
  <2>1. t = Uniform(old + 1, new, level[i + 1], level[i])
    BY <1>5 DEF BoundaryTransition
  <2>2. t.start = old + 1 /\ t.end = new /\ t.target = [k \in (old + 1)..new |-> level[i]]
    BY <2>1 DEF Uniform
  <2>3. x \in (old + 1)..new /\ t.target[x] = level[i]
    BY <2>2
  <2>4. i # 0 => b[i - 1] \in Int /\ b[i - 1] <= old
    <3>1. SUFFICES ASSUME i # 0 PROVE b[i - 1] \in Int /\ b[i - 1] <= old
      OBVIOUS
    <3>2. i - 1 \in Indices /\ i - 1 <= i /\ i - 1 # i
      BY <3>1, ConfigFacts
    <3>3. b[i - 1] = boundaries[i - 1] /\ boundaries[i - 1] <= boundaries[i]
      BY <1>1, <3>2, BoundariesAscend DEF IInv
    <3> QED BY <1>1, <3>2, <3>3
  <2>5. x \in Range(b, activeLeds, i)
    <3>1. i # NumBoundaries
      BY ConfigFacts
    <3>2. Range(b, activeLeds, i) = (IF i = 0 THEN 0 ELSE b[i - 1] + 1)..new
      BY <1>1, <3>1 DEF Range
    <3> HIDE DEF old
    <3> QED BY <1>1, <1>3, <2>3, <2>4, <3>2
  <2>6. s = i
    BY <1>2, <2>5, OneSegment
  <2> QED BY <2>3, <2>6
<1> QED BY <1>4, <1>5

\* Added LEDs belong to the last segment, removed ones to none.
LEMMA AddedLedsFade ==
  ASSUME IInv, NEW new \in Int, new # activeLeds, ActiveFade,
         NEW b \in Normalized(boundaries, new), LayoutOK(b, new)
  PROVE  EndsAtLevels(ActiveTransition(activeLeds, new), b, new, level)
<1> DEFINE old == activeLeds
           t == ActiveTransition(old, new)
<1>1. old \in Int /\ LayoutOK(boundaries, old) /\ b \in [Indices -> Int]
  BY DEF IInv, LayoutOK
<1> SUFFICES ASSUME NEW s \in Segments, NEW x \in Range(b, new, s), x \in t.start..t.end
             PROVE  t.target[x] = level[s]
  BY DEF EndsAtLevels
<1>2. x \in Int /\ x < new
  BY RangeFacts, ConfigFacts
<1>3. CASE new > old
  <2>1. t = Uniform(old, new - 1, Dark, level[NumBoundaries])
    BY <1>3 DEF ActiveTransition
  <2>2. t.start = old /\ t.end = new - 1
        /\ t.target = [k \in old..(new - 1) |-> level[NumBoundaries]]
    BY <2>1 DEF Uniform
  <2>3. x \in old..(new - 1) /\ t.target[x] = level[NumBoundaries]
    BY <2>2
  <2>4. NumBoundaries - 1 \in Indices /\ NumBoundaries \in Segments /\ NumBoundaries # 0
    BY ConfigFacts
  <2>5. b[NumBoundaries - 1] <= boundaries[NumBoundaries - 1]
    BY <1>1, <2>4, GrownStay
  <2>6. /\ b[NumBoundaries - 1] \in Int /\ boundaries[NumBoundaries - 1] \in Int
        /\ boundaries[NumBoundaries - 1] < old
    BY <1>1, <2>4 DEF LayoutOK
  <2>7. Range(b, new, NumBoundaries) = (b[NumBoundaries - 1] + 1)..(new - 1)
    BY <2>4 DEF Range
  <2> HIDE DEF old
  <2>8. x \in Range(b, new, NumBoundaries)
    BY <1>1, <1>2, <2>3, <2>5, <2>6, <2>7
  <2>9. s = NumBoundaries
    BY <2>4, <2>8, OneSegment
  <2> QED BY <2>3, <2>9
<1>4. CASE ~(new > old)
  <2>1. t.start = new
    BY <1>4 DEF ActiveTransition
  <2>2. new <= x
    BY <2>1, <1>2
  <2> QED BY <1>2, <2>2
<1> QED BY <1>3, <1>4

\* While changes do not overlap, one starts when nothing else is under way.
LEMMA StartsAlone ==
  ASSUME ColourInv, ~(overlapped \/ Busy)
  PROVE  ~transition.active /\ \A s \in Segments : fading[s] = Unset
BY DEF Busy

LEMMA UnchangedColours ==
  ASSUME ColourInv, UNCHANGED <<boundaries, activeLeds, transition, leds, level, fading, overlapped>>
  PROVE  ColourInv'
BY DEF ColourInv, Shown, EndsAtLevels

LEMMA SetBoundaryShows ==
  ASSUME IInv, ColourInv, NEW i \in Indices, NEW v \in Int, SetBoundary(i, v)
  PROVE  ColourInv'
<1> DEFINE applied == Clamp(v, LowestBoundary(boundaries, i),
                               HighestBoundary(boundaries, activeLeds, i))
<1>1. /\ boundaries' = [boundaries EXCEPT ![i] = applied] /\ activeLeds' = activeLeds
      /\ applied \in Int /\ level' = level /\ fading' = fading
  BY BoundarySet DEF SetBoundary
<1>2. LayoutOK(boundaries', activeLeds)
  BY <1>1, SetBoundaryKeeps
<1>3. \/ applied = boundaries[i] /\ UNCHANGED <<transition, leds, overlapped>>
      \/ /\ applied # boundaries[i]
         /\ transition' = BoundaryTransition(i, boundaries[i], applied)
         /\ leds' = Painted(leds, boundaries', activeLeds, level)
         /\ overlapped' = (overlapped \/ Busy)
  BY DEF SetBoundary
<1> HIDE DEF applied
<1>4. CASE applied = boundaries[i] /\ UNCHANGED <<transition, leds, overlapped>>
  <2>1. boundaries' = boundaries
    BY <1>1, <1>4 DEF IInv, TypeOK
  <2> QED BY <1>1, <1>4, <2>1, UnchangedColours
<1>5. CASE /\ applied # boundaries[i]
           /\ transition' = BoundaryTransition(i, boundaries[i], applied)
           /\ leds' = Painted(leds, boundaries', activeLeds, level)
           /\ overlapped' = (overlapped \/ Busy)
  <2> SUFFICES ASSUME ~overlapped' PROVE ColourInv'
    BY DEF ColourInv
  <2>1. ~transition.active /\ \A s \in Segments : fading[s] = Unset
    BY <1>5, StartsAlone
  <2>2. Shown(leds', transition', boundaries', activeLeds', level', fading')
    <3>1. Paints(leds', boundaries', activeLeds, level)
      BY <1>2, <1>5, PaintedShows
    <3> QED BY <1>1, <3>1 DEF Paints, Shown
  <2>3. CASE ~BoundaryFade
    <3>1. transition' = transition
      BY <1>5, <2>3 DEF BoundaryTransition
    <3> QED BY <2>1, <2>2, <3>1 DEF ColourInv
  <2>4. CASE BoundaryFade
    <3>1. EndsAtLevels(transition', boundaries', activeLeds', level')
      BY <1>1, <1>2, <1>5, <2>4, PassedLedsFade
    <3> QED BY <1>1, <2>1, <2>2, <3>1 DEF ColourInv
  <2> QED BY <2>3, <2>4
<1> QED BY <1>3, <1>4, <1>5

LEMMA SetActiveLedsShows ==
  ASSUME IInv, ColourInv, NEW v \in Int, SetActiveLeds(v)
  PROVE  ColourInv'
<1> DEFINE applied == Clamp(v, (NumBoundaries + 1) * MinLength, NumLeds)
<1>1. /\ activeLeds' = applied /\ level' = level /\ fading' = fading
      /\ \/ applied = activeLeds /\ UNCHANGED <<boundaries, transition, leds, overlapped>>
         \/ /\ applied # activeLeds
            /\ transition' = ActiveTransition(activeLeds, applied)
            /\ boundaries' \in Normalized(boundaries, applied)
            /\ leds' = Frame(Painted(Cleared(activeLeds, applied), boundaries', applied, level),
                             transition', "start")
            /\ overlapped' = (overlapped \/ Busy)
  BY DEF SetActiveLeds
<1> HIDE DEF applied
<1>2. LayoutOK(boundaries', applied)
  BY <1>1, SetActiveLedsKeeps
<1>3. CASE applied = activeLeds /\ UNCHANGED <<boundaries, transition, leds, overlapped>>
  BY <1>1, <1>3, UnchangedColours
<1>4. CASE /\ applied # activeLeds
           /\ transition' = ActiveTransition(activeLeds, applied)
           /\ boundaries' \in Normalized(boundaries, applied)
           /\ leds' = Frame(Painted(Cleared(activeLeds, applied), boundaries', applied, level),
                            transition', "start")
           /\ overlapped' = (overlapped \/ Busy)
  <2> SUFFICES ASSUME ~overlapped' PROVE ColourInv'
    BY DEF ColourInv
  <2> DEFINE painted == Painted(Cleared(activeLeds, applied), boundaries', applied, level)
  <2>1. ~transition.active /\ \A s \in Segments : fading[s] = Unset
    BY <1>4, StartsAlone
  <2>2. Paints(painted, boundaries', applied, level)
    BY <1>2, PaintedShows
  <2>3. applied \in Int
    BY <1>2 DEF LayoutOK
  <2> HIDE DEF painted
  <2>4. leds' = Frame(painted, transition', "start")
    BY <1>4 DEF painted
  <2>5. CASE ~ActiveFade
    <3>1. transition' = transition
      BY <1>4, <2>5 DEF ActiveTransition
    <3>2. leds' = painted
      BY <2>1, <2>4, <3>1 DEF Frame
    <3> QED BY <1>1, <2>1, <2>2, <3>1, <3>2 DEF ColourInv, Shown, Paints
  <2>6. CASE ActiveFade
    <3>1. EndsAtLevels(transition', boundaries', applied, level)
      BY <1>2, <1>4, <2>3, <2>6, AddedLedsFade
    <3>2. transition'.active
      BY <1>4, <2>6 DEF ActiveTransition, Uniform
    <3>3. ASSUME NEW s \in Segments, NEW x \in Range(boundaries', applied, s)
          PROVE  leds'[x] = level[s] \/ (x \in transition'.start..transition'.end
                                          /\ transition'.target[x] = level[s])
      <4>1. x \in Leds
        BY <1>2, RangeFacts
      <4>2. CASE x \in transition'.start..transition'.end
        BY <3>1, <4>2 DEF EndsAtLevels
      <4>3. CASE x \notin transition'.start..transition'.end
        BY <2>2, <2>4, <3>2, <4>1, <4>3 DEF Frame, Paints
      <4> QED BY <4>2, <4>3
    <3> QED BY <1>1, <2>1, <3>1, <3>2, <3>3 DEF ColourInv, Shown
  <2> QED BY <2>5, <2>6
<1> QED BY <1>1, <1>3, <1>4

\* A frame of a transition leaves every LED of a segment on its way, the last one at
\* its level.
LEMMA FrameShows ==
  ASSUME IInv, ColourInv, FrameOnTheWay \/ LastFrame
  PROVE  ColourInv'
<1>1. /\ UNCHANGED <<boundaries, activeLeds, level, fading, overlapped>> /\ transition.active
      /\ \/ leds' = Frame(leds, transition, "middle") /\ transition' = transition
         \/ leds' = Frame(leds, transition, "end") /\ transition' = NoTransition
  BY DEF FrameOnTheWay, LastFrame, hub
<1> SUFFICES ASSUME ~overlapped PROVE ColourInv'
  BY <1>1 DEF ColourInv
<1>2. /\ Shown(leds, transition, boundaries, activeLeds, level, fading)
      /\ \A s \in Segments : fading[s] = Unset
      /\ EndsAtLevels(transition, boundaries, activeLeds, level)
  BY <1>1 DEF ColourInv
<1>3. ASSUME NEW s \in Segments, NEW x \in Range(boundaries, activeLeds, s)
      PROVE  \/ leds'[x] = level[s]
             \/ transition' = transition /\ x \in transition.start..transition.end
                /\ transition.target[x] = level[s]
  <2>1. x \in Leds
    BY RangeFacts DEF IInv
  <2>2. CASE x \notin transition.start..transition.end
    <3>1. leds[x] = level[s]
      BY <1>2, <2>2 DEF Shown
    <3> QED BY <1>1, <2>1, <2>2, <3>1 DEF Frame
  <2>3. CASE x \in transition.start..transition.end
    <3>1. transition.target[x] = level[s]
      BY <1>2, <2>3 DEF EndsAtLevels
    <3>2. CASE leds' = Frame(leds, transition, "end")
      <4>1. leds'[x] = transition.target[x]
        BY <1>1, <2>1, <2>3, <3>2 DEF Frame
      <4> QED BY <3>1, <4>1
    <3> QED BY <1>1, <2>3, <3>1, <3>2
  <2> QED BY <2>2, <2>3
<1>4. Shown(leds, transition, boundaries, activeLeds, level, fading)'
  BY <1>1, <1>3 DEF Shown
<1>5. transition'.active => transition' = transition
  BY <1>1 DEF NoTransition
<1> QED BY <1>1, <1>2, <1>4, <1>5 DEF ColourInv

\* A light paints its own segment and nobody else's.
LEMMA PaintSegmentShows ==
  ASSUME IInv, NEW s \in Segments, NEW colour, leds' = PaintSegment(s, colour)
  PROVE  /\ \A x \in Range(boundaries, activeLeds, s) : leds'[x] = colour
         /\ \A t \in Segments \ {s} : \A x \in Range(boundaries, activeLeds, t) : leds'[x] = leds[x]
<1>1. LayoutOK(boundaries, activeLeds)
  BY DEF IInv
<1>2. \A t \in Segments : \A x \in Range(boundaries, activeLeds, t) : x \in Leds
  BY <1>1, RangeFacts
<1>3. \A t \in Segments \ {s} : \A x \in Range(boundaries, activeLeds, t) :
        x \notin Range(boundaries, activeLeds, s)
  BY <1>1, OneSegment
<1> QED BY <1>2, <1>3 DEF PaintSegment

LEMMA LightShows ==
  ASSUME IInv, ColourInv, NEW s \in Segments,
         (\E l \in Levels : SwitchLight(s, l) \/ StartFade(s, l)) \/ FadeFrame(s) \/ FadeEnds(s)
  PROVE  ColourInv'
<1> DEFINE shows(t) == \A x \in Range(boundaries, activeLeds, t) : leds[x] = level[t]
<1>1. UNCHANGED hub /\ (overlapped => overlapped')
  <2>1. CASE \E l \in Levels : SwitchLight(s, l) \/ StartFade(s, l)
    BY <2>1 DEF SwitchLight, StartFade
  <2>2. CASE FadeFrame(s) \/ FadeEnds(s)
    BY <2>2 DEF FadeFrame, FadeEnds
  <2> QED BY <2>1, <2>2
<1> SUFFICES ASSUME ~overlapped' PROVE ColourInv'
  BY DEF ColourInv
<1>2. ~overlapped /\ ~transition.active
  <2>1. fading[s] # Unset \/ ~transition.active
    BY DEF SwitchLight, StartFade, FadeFrame, FadeEnds
  <2> QED BY <1>1, <2>1 DEF ColourInv
<1>3. \A t \in Segments : fading[t] = Unset =>
        \A x \in Range(boundaries, activeLeds, t) : leds[x] = level[t]
  BY <1>2 DEF ColourInv, Shown
<1>4. /\ fading \in [Segments -> Levels \cup {Unset}] /\ level \in [Segments -> Levels]
      /\ Unset \notin Levels
  BY ConfigAssumption DEF IInv, TypeOK
<1>5. ASSUME NEW t \in Segments, fading'[t] = Unset
      PROVE  \A x \in Range(boundaries, activeLeds, t) : leds'[x] = level'[t]
  <2>1. CASE \E l \in Levels : SwitchLight(s, l)
    <3>1. PICK l \in Levels : SwitchLight(s, l)
      BY <2>1
    <3>2. leds' = PaintSegment(s, l) /\ level' = [level EXCEPT ![s] = l]
          /\ fading' = [fading EXCEPT ![s] = Unset]
      BY <3>1 DEF SwitchLight
    <3>3. CASE t = s
      BY <1>4, <3>2, <3>3, PaintSegmentShows
    <3>4. CASE t # s
      <4>1. fading[t] = Unset /\ level'[t] = level[t]
        BY <1>4, <1>5, <3>2, <3>4
      <4> QED BY <1>3, <3>2, <3>4, <4>1, PaintSegmentShows
    <3> QED BY <3>3, <3>4
  <2>2. CASE \E l \in Levels : StartFade(s, l)
    <3>1. PICK l \in Levels : StartFade(s, l)
      BY <2>2
    <3>2. leds' = leds /\ level' = level /\ fading' = [fading EXCEPT ![s] = l]
      BY <3>1 DEF StartFade
    <3>3. t # s /\ fading[t] = Unset
      BY <1>4, <1>5, <3>2
    <3> QED BY <1>3, <3>2, <3>3
  <2>3. CASE FadeFrame(s)
    <3>1. leds' = PaintSegment(s, Blend(level[s], fading[s])) /\ level' = level /\ fading' = fading
          /\ fading[s] # Unset
      BY <2>3 DEF FadeFrame
    <3>2. t # s /\ fading[t] = Unset
      BY <1>5, <3>1
    <3> QED BY <1>3, <3>1, <3>2, PaintSegmentShows
  <2>4. CASE FadeEnds(s)
    <3>1. /\ leds' = PaintSegment(s, fading[s]) /\ level' = [level EXCEPT ![s] = fading[s]]
          /\ fading' = [fading EXCEPT ![s] = Unset]
      BY <2>4 DEF FadeEnds
    <3>2. CASE t = s
      BY <1>4, <3>1, <3>2, PaintSegmentShows
    <3>3. CASE t # s
      <4>1. fading[t] = Unset /\ level'[t] = level[t]
        BY <1>4, <1>5, <3>1, <3>3
      <4> QED BY <1>3, <3>1, <3>3, <4>1, PaintSegmentShows
    <3> QED BY <3>2, <3>3
  <2> QED BY <2>1, <2>2, <2>3, <2>4
<1> QED BY <1>1, <1>2, <1>5 DEF ColourInv, Shown, hub

LEMMA StartShows ==
  ASSUME NEW dark, NEW l, NEW c, c = Painted(dark, InitBoundaries, InitActive, l)
  PROVE  /\ \A f : Shown(c, NoTransition, InitBoundaries, InitActive, l, f)
         /\ ~NoTransition.active
<1>1. Paints(c, InitBoundaries, InitActive, l)
  BY InitLayout, PaintedShows
<1> QED BY <1>1 DEF Paints, Shown, NoTransition

LEMMA StepColourInv == IInv /\ ColourInv /\ [Next]_vars => ColourInv'
<1> SUFFICES ASSUME IInv, ColourInv, [Next]_vars PROVE ColourInv'
  OBVIOUS
<1>1. ASSUME SetupNumber PROVE ColourInv'
  <2> DEFINE k == SetupOrder[booting + 1]
  <2>1. k \in Numbers
    BY <1>1, SetupTarget
  <2>2. pref[k] # Unset => pref[k] \in Int
    BY <2>1 DEF IInv, TypeOK
  <2>3. k # ActiveControl => k \in Indices
    BY <2>1, Distinct
  <2>4. \/ UNCHANGED <<boundaries, activeLeds, transition, leds, level, fading, overlapped>>
        \/ pref[k] # Unset /\ k = ActiveControl /\ SetActiveLeds(pref[k])
        \/ pref[k] # Unset /\ k # ActiveControl /\ SetBoundary(k, pref[k])
    BY <1>1 DEF SetupNumber
  <2> HIDE DEF k
  <2> QED BY <2>2, <2>3, <2>4, UnchangedColours, SetActiveLedsShows, SetBoundaryShows
<1>2. CASE FrameOnTheWay \/ LastFrame
  BY <1>2, FrameShows
<1>3. CASE Crash
  <2>1. /\ level' \in [Segments -> Levels] /\ transition' = NoTransition
        /\ boundaries' = InitBoundaries /\ activeLeds' = InitActive
        /\ leds' = Painted([i \in Leds |-> Dark], InitBoundaries, InitActive, level')
    BY <1>3 DEF Crash
  <2> QED BY <2>1, StartShows DEF ColourInv
<1>4. ASSUME NEW v \in Requests, ControlActive(v) PROVE ColourInv'
  BY <1>4, ConfigAssumption, SetActiveLedsShows DEF ControlActive
<1>5. ASSUME NEW v \in Requests, NEW i \in Indices, ControlBoundary(i, v) PROVE ColourInv'
  BY <1>5, ConfigAssumption, SetBoundaryShows DEF ControlBoundary
<1>6. ASSUME NEW s \in Segments,
             (\E l \in Levels : SwitchLight(s, l) \/ StartFade(s, l)) \/ FadeFrame(s) \/ FadeEnds(s)
      PROVE  ColourInv'
  BY <1>6, LightShows
<1>7. CASE UNCHANGED vars
  BY <1>7, UnchangedColours DEF vars
<1> QED BY <1>1, <1>2, <1>3, <1>4, <1>5, <1>6, <1>7 DEF Next

\* For every strip, layout and number of lights: unless two changes overlap in time,
\* every LED of a segment whose light is not fading shows the light's level or is on its
\* way there, through moved boundaries, added and removed LEDs, fades and restarts
\* (on_segment_bounds_changed, start_boundary_transition_, start_active_leds_transition_).
THEOREM SegmentsShowTheirLightHolds == Spec => []SegmentsShowTheirLight
<1>1. Init => ColourInv
  <2> SUFFICES ASSUME Init PROVE ColourInv
    OBVIOUS
  <2>1. /\ level \in [Segments -> Levels] /\ transition = NoTransition
        /\ boundaries = InitBoundaries /\ activeLeds = InitActive
        /\ leds = Painted([i \in Leds |-> Dark], InitBoundaries, InitActive, level)
    BY DEF Init
  <2> QED BY <2>1, StartShows DEF ColourInv
<1>2. ColourInv => SegmentsShowTheirLight
  BY DEF ColourInv, Shown, SegmentsShowTheirLight, FadesTo
<1> QED BY <1>1, <1>2, InitIInv, StepIInv, StepColourInv, PTL DEF Spec

=============================================================================
