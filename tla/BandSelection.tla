---------------------------- MODULE BandSelection ----------------------------
(***************************************************************************)
(* The band that the NBVI calibration chooses from a recording             *)
(* (nbvi_calibrator.cpp run_calibration_): the quietest windows, a score   *)
(* per subcarrier, the noise gate, four ways to pick a band, validation of *)
(* each, and the current band as a hint and as the fallback.               *)
(***************************************************************************)
EXTENDS Baseline, TLC

CONSTANTS
  GuardLow, GuardHigh, DC, \* HT20_GUARD_BAND_LOW, _HIGH and _DC_SUBCARRIER
  BandSize,                \* HT20_SELECTED_BAND_SIZE, 12
  TopCount,                \* subcarriers taken whatever their spacing, 5
  MinSpacing,              \* min_spacing_, 1; nothing sets another
  NullMagnitude,           \* NULL_SUBCARRIER_THRESHOLD
  WindowSize, WindowStep,  \* window_size_, window_step_
  WindowPercentile, GatePercentile,
  Slack,                   \* packets wanted beyond MvsWindow, 10
  Deviation(_),            \* the standard deviation of a list
  Entropy(_),              \* its entropy, in halves
  Score(_, _)              \* alpha * d / mean^2 + (1 - alpha) * d / mean

Infinite == 10^6
Criteria == {"entropy", "mad", "classic"}

\* std::sort orders equal scores as it will: by subcarrier, one way or the other.
Before(tie, a, b) == IF tie = "up" THEN a < b ELSE a > b

---------------------------------------------------------------------------
\* Packets start at 1 here; a window is named by its first.
FindCandidateWindows(q) ==
  LET n      == Len(q.packets)
      starts == {s \in 1..(n - WindowSize + 1) :
                   (s - 1) % WindowStep = 0 /\ Readable(q.readable, s, WindowSize)}
      variance == [s \in starts |-> ScaledVariance(
                     [k \in 1..WindowSize |-> Turbulence(q.packets[s + k - 1], q.hint, q.setting.cv)])]
      sorted == SetToSortSeq(starts, LAMBDA s, t :
                  variance[s] < variance[t] \/ (variance[s] = variance[t] /\ Before(q.tie, s, t)))
      limit  == Percentile([k \in DOMAIN sorted |-> variance[sorted[k]]], WindowPercentile)
  IN  SelectSeq(sorted, LAMBDA s : 100 * variance[s] <= limit)

\* The mean is kept times the window; the median here is the upper of the middle two.
ScoresOf(values) ==
  LET mean    == Total(values)
      upper   == Ascending(values)[Len(values) \div 2 + 1]
      mad     == Ascending([k \in DOMAIN values |-> Distance(values[k], upper)])[Len(values) \div 2 + 1]
      stddev  == Deviation(values)
      classic == Score(stddev, mean)
      factor  == IF Entropy(values) < 1 THEN 1 ELSE Entropy(values)
  IN  IF mean = 0 THEN [mean |-> 0, classic |-> Infinite, entropy |-> Infinite, mad |-> Infinite]
      ELSE [mean |-> mean, classic |-> classic, entropy |-> (2 * classic) \div factor,
            mad |-> Score(IF mad > 0 THEN (3 * mad) \div 2 ELSE stddev, mean)]

Usable(sc, mean) ==
  /\ GuardLow <= sc /\ sc <= GuardHigh /\ sc # DC
  /\ mean >= NullMagnitude * WindowSize

CalculateNbviMetrics(q, start) ==
  [i \in 1..NumSubcarriers |->
     LET sc     == i - 1
         scores == ScoresOf([k \in 1..WindowSize |-> q.packets[start + k - 1][sc]])
     IN  [subcarrier |-> sc, mean |-> scores.mean] @@
         [c \in Criteria |-> IF Usable(sc, scores.mean) THEN scores[c] ELSE Infinite]]

\* What passes comes first; the swaps leave the rest in some order, which a full band
\* of nothing but what passes never looks at.
ApplyNoiseGate(metrics) ==
  LET finite == SelectSeq(metrics, LAMBDA m : m.classic < Infinite)
      limit  == Percentile([k \in DOMAIN finite |-> finite[k].mean], GatePercentile)
      passes == SelectSeq(finite, LAMBDA m : 100 * m.mean >= limit)
  IN  [metrics |-> passes \o SelectSeq(metrics, LAMBDA m : ~Contains(passes, m)),
       count |-> Len(passes)]

SortFront(gated, criterion, tie) ==
  SortSeq(SubSeq(gated.metrics, 1, gated.count), LAMBDA a, b :
    a[criterion] < b[criterion] \/ (a[criterion] = b[criterion] /\ Before(tie, a.subcarrier, b.subcarrier)))
  \o SubSeq(gated.metrics, gated.count + 1, Len(gated.metrics))

Finite(metrics, criterion) ==
  LET kept == SelectSeq(metrics, LAMBDA m : m[criterion] < Infinite)
  IN  [k \in DOMAIN kept |-> kept[k].subcarrier]

\* One after the other until the band is full, each at least so far from those before.
Greedy(taken, candidates, spacing) ==
  LET TooClose(band, sc) == \E k \in DOMAIN band : Distance(band[k], sc) < spacing
      pick[i \in 0..Len(candidates)] ==
        IF i = 0 THEN taken
        ELSE IF Len(pick[i - 1]) >= BandSize \/ TooClose(pick[i - 1], candidates[i]) THEN pick[i - 1]
        ELSE Append(pick[i - 1], candidates[i])
  IN  pick[Len(candidates)]

FirstOf(s, n) == SubSeq(s, 1, IF Len(s) < n THEN Len(s) ELSE n)
RestAfter(s, n) == SubSeq(s, n + 1, Len(s))

SelectWithSpacingStrict(metrics, criterion) ==
  LET valid == Finite(metrics, criterion)
      tried(spacing) == Greedy(<<>>, valid, spacing)
      full == {s \in 0..MinSpacing : Len(tried(s)) >= BandSize}
  IN  Ascending(IF full = {} THEN FirstOf(valid, BandSize)
                ELSE tried(CHOOSE s \in full : \A t \in full : t <= s))

SelectWithSpacing(metrics, criterion) ==
  LET top    == FirstOf(Finite(metrics, criterion), TopCount)
      spaced == Greedy(top, Finite(RestAfter(metrics, TopCount), criterion), MinSpacing)
  IN  Ascending(Greedy(spaced, Finite(metrics, criterion), 1))

\* The candidates of one window, without repetition.
BandsOf(q, start) ==
  LET gated  == ApplyNoiseGate(CalculateNbviMetrics(q, start))
      by(c)  == SortFront(gated, c, q.tie)
      chosen == <<SelectWithSpacingStrict(by("entropy"), "entropy"), SelectWithSpacing(by("mad"), "mad"),
                  SelectWithSpacingStrict(by("classic"), "classic"), SelectWithSpacing(by("classic"), "classic")>>
      unique[k \in 0..4] ==
        IF k = 0 THEN <<>>
        ELSE IF Len(chosen[k]) # BandSize \/ Contains(unique[k - 1], chosen[k]) THEN unique[k - 1]
        ELSE Append(unique[k - 1], chosen[k])
  IN  IF gated.count < BandSize THEN <<>> ELSE unique[4]

Candidates(q) ==
  LET windows == FindCandidateWindows(q)
  IN  FlattenSeq([k \in DOMAIN windows |-> BandsOf(q, windows[k])])

---------------------------------------------------------------------------
Validated(q, band) == ValidateSubcarriers(q.packets, q.readable, band, q.setting)
Chosen(band, v) == [band |-> band, fp |-> v.fp, moving |-> v.moving]
None == [band |-> <<>>, fp |-> 0, moving |-> <<>>]

\* Mutant: among bands beyond the acceptable rate the last one wins.
OverridesAlways(v, best) == best = None \/ (Acceptable(v) => ~Acceptable(best))

\* Among acceptable bands the first wins, otherwise the one with fewest false positives.
Overrides(v, best) ==
  \/ best = None
  \/ Acceptable(v) /\ ~Acceptable(best)
  \/ ~Acceptable(v) /\ v.fp < best.fp

BestOf(q, bands) ==
  LET best[k \in 0..Len(bands)] ==
        IF k = 0 THEN None
        ELSE LET v == Validated(q, bands[k])
             IN  IF v.ok /\ Overrides(v, best[k - 1]) THEN Chosen(bands[k], v) ELSE best[k - 1]
  IN  best[Len(bands)]

\* The hint replaces a band that is not acceptable when it has fewer false positives.
UseHint(q, best) ==
  /\ Len(q.hint) = BandSize /\ Validated(q, q.hint).ok
  /\ ~Acceptable(best) /\ Validated(q, q.hint).fp < best.fp

\* A failure before there is a choice hands over no moving variances; its band is what an
\* earlier calibration left, and nobody looks at it.
Fail == [ok |-> FALSE, band |-> <<>>, moving |-> <<>>]
Success(c) == [ok |-> Len(c.band) = BandSize, band |-> c.band, moving |-> c.moving]

\* The current band and its moving variances are handed over, even those of a recording
\* that could be read in part only.
Fallback(q) ==
  LET band == FirstOf(q.hint, BandSize)
      v    == Validated(q, band)
  IN  [Success(Chosen(band, v)) EXCEPT !.ok = v.ok /\ @]

RunCalibration(q) ==
  LET best == BestOf(q, Candidates(q))
  IN  IF Len(q.packets) < MvsWindow + Slack \/ FindCandidateWindows(q) = <<>> THEN Fail
      ELSE IF best = None THEN Fallback(q)
      ELSE IF UseHint(q, best) THEN Success(Chosen(q.hint, Validated(q, q.hint)))
      ELSE Success(best)
=============================================================================
