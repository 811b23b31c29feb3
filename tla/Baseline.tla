------------------------------ MODULE Baseline ------------------------------
(***************************************************************************)
(* How the NBVI calibration replays its recording through the motion       *)
(* detector (nbvi_calibrator.cpp validate_subcarriers_): the turbulence of *)
(* a band of subcarriers in each packet, the Hampel filter, the moving     *)
(* variance from running sums, the adaptive threshold and the share of     *)
(* false positives.  Numbers are integers in scaled units, named where the *)
(* scale changes; the low-pass filter, off by default, is left out.        *)
(***************************************************************************)
EXTENDS Integers, Sequences, FiniteSets, SequencesExt

CONSTANTS
  NumSubcarriers,     \* HT20_NUM_SUBCARRIERS, 64
  MvsWindow,          \* mvs_window_size_, 75
  ChunkPackets,       \* VALIDATION_CHUNK_PACKETS, 64
  HampelThreshold,    \* hampel_threshold_, 5
  AdaptivePercentile, \* DEFAULT_ADAPTIVE_PERCENTILE, 95
  AcceptablePercent,  \* NBVI_ACCEPTABLE_FP_RATE, 5
  Spread(_, _)        \* std deviation, or its share of the mean, of a list of magnitudes

ASSUME BaselineAssumption ==
  /\ {NumSubcarriers, MvsWindow, ChunkPackets} \subseteq Nat \ {0}
  /\ {HampelThreshold, AdaptivePercentile, AcceptablePercent} \subseteq Nat

Distance(a, b) == IF a < b THEN b - a ELSE a - b
Ascending(s) == SortSeq(s, <)
Total(s) == LET sum[k \in 0..Len(s)] == IF k = 0 THEN 0 ELSE sum[k - 1] + s[k] IN sum[Len(s)]

\* A hundred times the percentile.
Percentile(values, percent) ==
  LET sorted == Ascending(values)
      k      == (Len(values) - 1) * percent
      low    == k \div 100
  IN  IF values = <<>> THEN 100
      ELSE IF low >= Len(values) - 1 THEN 100 * sorted[Len(values)]
      ELSE sorted[low + 1] * (100 - (k % 100)) + sorted[low + 2] * (k % 100)

\* Twice the median, for an even number of values the mean of the middle two.
MedianTwice(values) ==
  LET sorted == Ascending(values)
      half   == Len(values) \div 2
  IN  IF Len(values) % 2 = 0 THEN sorted[half] + sorted[half + 1] ELSE 2 * sorted[half + 1]

\* A hundred times the variance times the square of the number.
SquareTotal(s) == Total([k \in DOMAIN s |-> s[k] * s[k]])
ScaledVariance(values) == Len(values) * SquareTotal(values) - Total(values) * Total(values)

Turbulence(packet, band, cv) ==
  LET known == SelectSeq(band, LAMBDA sc : sc < NumSubcarriers)
  IN  IF known = <<>> THEN 0 ELSE Spread([k \in DOMAIN known |-> packet[known[k]]], cv)

---------------------------------------------------------------------------
(* The filter and the moving variance, packet by packet. *)

\* Twice the filtered value: the value, or the median where it stands out.
HampelOf(window, x) ==
  LET median     == MedianTwice(window)
      deviations == [k \in DOMAIN window |-> Distance(2 * window[k], median)]
  IN  IF Len(window) < 3 THEN 2 * x
      ELSE IF 20000 * Distance(2 * x, median) > HampelThreshold * 14826 * MedianTwice(deviations)
      THEN median ELSE 2 * x

HampelInit == [buffer |-> <<>>, index |-> 1]
HampelFilter(h, x, window) ==
  [buffer |-> IF Len(h.buffer) < window THEN Append(h.buffer, x) ELSE [h.buffer EXCEPT ![h.index] = x],
   index |-> (h.index % window) + 1]

RollingInit == [ring |-> <<>>, at |-> 1, sum |-> 0, squares |-> 0]

\* Mutant: the square of the value that leaves the window is not taken away.
RollingStale(r, x) ==
  IF Len(r.ring) < MvsWindow
  THEN [ring |-> Append(r.ring, x), at |-> ((Len(r.ring) + 1) % MvsWindow) + 1,
        sum |-> r.sum + x, squares |-> r.squares + x * x]
  ELSE [ring |-> [r.ring EXCEPT ![r.at] = x], at |-> (r.at % MvsWindow) + 1,
        sum |-> r.sum - r.ring[r.at] + x, squares |-> r.squares + x * x]

Rolling(r, x) ==
  IF Len(r.ring) < MvsWindow
  THEN [ring |-> Append(r.ring, x), at |-> ((Len(r.ring) + 1) % MvsWindow) + 1,
        sum |-> r.sum + x, squares |-> r.squares + x * x]
  ELSE LET old == r.ring[r.at]
       IN  [ring |-> [r.ring EXCEPT ![r.at] = x], at |-> (r.at % MvsWindow) + 1,
            sum |-> r.sum - old + x, squares |-> r.squares - old * old + x * x]

\* Scaled by the square of the window, and never below zero.
RollingVariance(r) ==
  LET v == MvsWindow * r.squares - r.sum * r.sum IN IF v < 0 THEN 0 ELSE v

\* The packets of a file of which `readable' can be read, in reads of ChunkPackets.
Readable(readable, start, count) == start + count - 1 <= readable
ChunkStarts(packets) == {s \in 1..Len(packets) : (s - 1) % ChunkPackets = 0}
ChunkSize(packets, start) ==
  IF Len(packets) - start + 1 < ChunkPackets THEN Len(packets) - start + 1 ELSE ChunkPackets
\* The packets of the chunks before the first that cannot be read in full.
PacketsRead(packets, readable) ==
  Max({0} \cup {s + ChunkSize(packets, s) - 1 :
                  s \in {s \in ChunkStarts(packets) : Readable(readable, s, ChunkSize(packets, s))}})

---------------------------------------------------------------------------
\* Positives times a thousand: how many moving variances exceed 1.1 times the percentile.
FalsePositives(moving) ==
  LET threshold == 11 * Percentile(moving, AdaptivePercentile)
  IN  Cardinality({k \in DOMAIN moving : 1000 * moving[k] > threshold})

NotValid == [ok |-> FALSE, fp |-> 0, moving |-> <<>>]

\* A setting says how turbulence is normalised (cv) and, where not zero, the filter's window.
\* A chunk that cannot be read ends it; what the chunks before it gave is left behind.
ValidateSubcarriers(packets, readable, band, setting) ==
  LET Step(s, n) ==
        LET x == Turbulence(packets[n], band, setting.cv)
            h == HampelFilter(s.hampel, x, setting.hampel)
            filtered == IF setting.hampel = 0 THEN 2 * x ELSE HampelOf(h.buffer, x)
            r == Rolling(s.rolling, filtered)
        IN  [hampel |-> IF setting.hampel = 0 THEN s.hampel ELSE h, rolling |-> r,
             moving |-> IF Len(r.ring) < MvsWindow THEN s.moving
                        ELSE Append(s.moving, RollingVariance(r))]
      state[n \in 0..Len(packets)] ==
        IF n = 0 THEN [hampel |-> HampelInit, rolling |-> RollingInit, moving |-> <<>>]
        ELSE Step(state[n - 1], n)
      read   == PacketsRead(packets, readable)
      whole  == read = Len(packets)
      moving == state[read].moving
  IN  IF band = <<>> THEN NotValid
      ELSE IF Len(packets) < MvsWindow THEN [ok |-> TRUE, fp |-> 0, moving |-> <<>>]
      ELSE [ok |-> whole, fp |-> IF whole THEN FalsePositives(moving) ELSE 0, moving |-> moving]

Acceptable(validated) == 100 * validated.fp <= AcceptablePercent * Len(validated.moving)
=============================================================================
