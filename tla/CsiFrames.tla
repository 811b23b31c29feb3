------------------------------ MODULE CsiFrames ------------------------------
(***************************************************************************)
(* The CSI frames that csi_manager.cpp process_packet lets through and the *)
(* layout it brings them to.  A frame is a list of tones, one per complex  *)
(* sample: the number of the radio's subcarrier, counted from the carrier. *)
(* Lengths are in samples, not bytes.                                      *)
(***************************************************************************)
EXTENDS Integers, Sequences, FiniteSets

CONSTANTS
  FullLength,    \* HT20: 64 samples
  ShortLength,   \* the short HT20 estimate: 57 samples
  LeftPad,       \* HT20_CSI_LEN_SHORT_LEFT_PAD, 4 samples
  LeastLength,   \* shorter frames are dropped, 5 samples
  MaxExtraPeers  \* MAX_EXTRA_PEER_MACS

\* The short estimate misses as many tones on the left as are padded there.
ASSUME LayoutAssumption ==
  /\ FullLength \in Nat /\ ShortLength \in Nat /\ LeastLength \in Nat \ {0}
  /\ LeastLength <= ShortLength /\ ShortLength < FullLength - 1
  /\ 2 * ShortLength \notin {FullLength - 1, FullLength}
  /\ LeftPad = FullLength \div 2 - ShortLength \div 2

Zero == 4 * FullLength   \* a sample of the padding: no tone
Around(n) == [i \in 1..n |-> i - 1 - n \div 2]   \* n tones with the carrier in the middle

Layouts == {"full", "short", "double", "shortDouble", "wide", "stub", "other"}

\* What the radio delivers: one or two training fields, or one of double width.
Samples(layout) ==
  CASE layout = "full" -> Around(FullLength)
    [] layout = "short" -> Around(ShortLength)
    [] layout = "double" -> Around(FullLength) \o Around(FullLength)
    [] layout = "shortDouble" -> Around(ShortLength) \o Around(ShortLength)
    [] layout = "wide" -> Around(2 * FullLength)
    [] layout = "stub" -> Around(LeastLength - 1)
    [] layout = "other" -> Around(FullLength - 1)

AddExtraPeer(filter, mac) ==
  IF Len(filter.extra) >= MaxExtraPeers THEN filter
  ELSE [filter EXCEPT !.extra = Append(@, mac)]

\* The pair filter: the peer, and those that stand for it where ESP-NOW hides its address.
PeerAccepted(filter, mac) ==
  \/ ~filter.set
  \/ mac = filter.peer
  \/ filter.broadcast /\ mac = "broadcast"
  \/ filter.accessPoint /\ mac = filter.bssid
  \/ \E k \in DOMAIN filter.extra : filter.extra[k] = mac

\* Two training fields share one layout: the first is kept.
Collapsed(samples) ==
  IF Len(samples) \in {2 * FullLength, 2 * ShortLength}
  THEN SubSeq(samples, 1, IF Len(samples) = 2 * FullLength THEN FullLength ELSE ShortLength)
  ELSE samples

\* Mutant: the guards are all padded on the left.
PaddedLeft(samples) ==
  IF Len(samples) # ShortLength THEN samples
  ELSE [i \in 1..(FullLength - ShortLength) |-> Zero] \o samples

Padded(samples) ==
  IF Len(samples) # ShortLength THEN samples
  ELSE [i \in 1..LeftPad |-> Zero] \o samples \o
       [i \in 1..(FullLength - ShortLength - LeftPad) |-> Zero]

Dropped == [to |-> "none", samples |-> <<>>]

\* A radio with HE support does not report the channel width (wide).
IsHT40(frame) == Len(Samples(frame.layout)) = 2 * FullLength /\ frame.wide

\* Who gets the frame and in which layout; the recording takes HT20 alone.
ProcessFrame(frame, filter, mode) ==
  LET samples == IF IsHT40(frame) THEN Samples(frame.layout)
                 ELSE Padded(Collapsed(Samples(frame.layout)))
  IN  IF ~PeerAccepted(filter, frame.mac) \/ Len(Samples(frame.layout)) < LeastLength THEN Dropped
      ELSE IF mode = "gain" THEN [to |-> "gain", samples |-> Samples(frame.layout)]
      ELSE IF ~IsHT40(frame) /\ Len(samples) # FullLength THEN Dropped
      ELSE IF mode = "calibration" /\ Len(samples) # FullLength THEN Dropped
      ELSE [to |-> IF mode = "calibration" THEN "recording" ELSE "detector", samples |-> samples]
=============================================================================
