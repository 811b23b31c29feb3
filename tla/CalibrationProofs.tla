------------------------- MODULE CalibrationProofs -------------------------
(***************************************************************************)
(* Safety of the calibration for every buffer size, number of gain packets *)
(* and number of failing calls.                                            *)
(***************************************************************************)
EXTENDS Calibration, Calculations, SequenceTheorems, TLAPS

USE ConstantsAssumption DEF ConstantsAssumption

\* A calibration that is on is in one of its phases: packets are collected, the
\* WiFi task is about to create the task, or the task has not yet finished.
OnePhase ==
  /\ routed => calibrating /\ file = "writing" /\ csiTask # "launch"
               /\ calTask \notin {"created", "reading"}
  /\ csiTask = "launch" => calibrating /\ ~routed /\ file = "closed" /\ calTask = "none"
  /\ calTask \in {"created", "reading"} => calibrating /\ ~routed /\ csiTask # "launch"
  /\ calTask = "reading" => file = "reading"

\* Between applying a result and clearing its flag the main loop leaves traffic
\* running, and nothing pauses it: a newer collection cannot be complete.
AppliedIsResumed == loop = "clear" => resultPending /\ ~paused

\* Samples of the gain are stored only while there is room for them.
SamplesFit == ~locked => gainCount <= GainPackets

Safe == OnePhase /\ PauseHasOwner /\ AppliedIsResumed /\ SamplesFit

IInv == TypeOK /\ Safe

LEMMA InitIInv == Init => IInv
<1> SUFFICES ASSUME Init PROVE IInv
  OBVIOUS
<1>1. FlagTypes
  <2>1. locked \in BOOLEAN
    BY DEF Init
  <2> QED
    BY <2>1 DEF Init, FlagTypes
<1>2. CounterTypes /\ PointTypes
  BY DEF Init, CounterTypes, PointTypes
<1>3. Safe
  BY DEF Init, Safe, OnePhase, PauseHasOwner, AppliedIsResumed, SamplesFit
<1> QED
  BY <1>1, <1>2, <1>3 DEF IInv, TypeOK

\* A failing call is counted within its bound.
LEMMA FaultCounted ==
  ASSUME faults \in 0..MaxFaults, Fault \/ NoFault
  PROVE  faults' \in 0..MaxFaults
  BY DEF Fault, NoFault

\* What a start of the calibration may change.
StartTypes ==
  /\ switch \in BOOLEAN /\ calibrating \in BOOLEAN /\ routed \in BOOLEAN
  /\ file \in {"closed", "writing", "reading"}
  /\ count \in 0..BufferSize /\ faults \in 0..MaxFaults

\* Whatever becomes of a start, a calibration that runs goes on in its phase, and
\* one that begins collects.
LEMMA StartKeepsPhase ==
  ASSUME IInv, StartCalibration, UNCHANGED <<csiTask, calTask>>
  PROVE  StartTypes' /\ OnePhase'
<1> USE DEF IInv, Safe, StartTypes
<1>0. StartTypes /\ OnePhase
  BY DEF TypeOK, FlagTypes, CounterTypes, PointTypes
<1>1. CASE StartSkipped
  BY <1>0, <1>1 DEF StartSkipped, calibrator, OnePhase
<1>2. CASE StartRefused
  BY <1>0, <1>2 DEF StartRefused, calibrator, OnePhase
<1>3. CASE StartFails
  <2>1. faults' \in 0..MaxFaults
    BY <1>0, <1>3, FaultCounted DEF StartFails
  <2> QED
    BY <1>0, <1>3, <2>1 DEF StartFails, calibrator, OnePhase
<1>4. CASE StartCollection
  <2>1. 0 \in 0..BufferSize
    OBVIOUS
  <2>2. StartTypes'
    BY <1>0, <1>4, <2>1 DEF StartCollection, NoFault
  <2>3. OnePhase'
    BY <1>0, <1>4 DEF StartCollection, OnePhase
  <2> QED
    BY <2>2, <2>3
<1> QED
  BY <1>1, <1>2, <1>3, <1>4 DEF StartCalibration

LEMMA NoStartKeepsPhase ==
  ASSUME IInv, UNCHANGED <<csiTask, calTask>>,
         switch' \in BOOLEAN, UNCHANGED <<calibrator, faults>>
  PROVE  StartTypes' /\ OnePhase'
  BY DEF IInv, Safe, TypeOK, FlagTypes, CounterTypes, PointTypes, StartTypes, OnePhase, calibrator

LEMMA TriggerKeepsPhase ==
  ASSUME IInv, Trigger, UNCHANGED <<csiTask, calTask>>
  PROVE  StartTypes' /\ OnePhase'
<1>1. CASE StartCalibration
  BY <1>1, StartKeepsPhase
<1>2. CASE UNCHANGED <<switch, calibrator, faults>>
  <2>1. switch' \in BOOLEAN
    BY <1>2 DEF IInv, TypeOK, FlagTypes
  <2> QED
    BY <1>2, <2>1, NoStartKeepsPhase
<1> QED
  BY <1>1, <1>2 DEF Trigger

LEMMA ClickKeepsIInv ==
  ASSUME IInv, NEW on \in BOOLEAN, Click(on)
  PROVE  IInv'
<1>1. /\ UNCHANGED <<config, csi, gain, gainPending, publishPending, autoDone>>
      /\ UNCHANGED <<csiTask, calTask, resultPending, paused, loop>>
  BY DEF Click
<1>2. StartTypes' /\ OnePhase'
  <2>1. CASE Trigger
    BY <1>1, <2>1, TriggerKeepsPhase
  <2>2. CASE switch' \in BOOLEAN /\ UNCHANGED <<calibrator, faults>>
    BY <1>1, <2>2, NoStartKeepsPhase
  <2> QED
    BY <2>1, <2>2 DEF Click
<1>3. TypeOK'
  BY <1>1, <1>2
  DEF IInv, TypeOK, FlagTypes, CounterTypes, PointTypes, StartTypes, config, gain
<1>4. PauseHasOwner' /\ AppliedIsResumed' /\ SamplesFit'
  BY <1>1 DEF IInv, Safe, PauseHasOwner, AppliedIsResumed, SamplesFit, gain
<1> QED
  BY <1>2, <1>3, <1>4 DEF IInv, Safe

LEMMA WifiEventsKeepIInv == ASSUME IInv, ProcessWifiEvents PROVE IInv'
<1>1. csi' \in BOOLEAN /\ gainPending' \in BOOLEAN /\ publishPending' \in BOOLEAN
  BY DEF ProcessWifiEvents, Disconnect, Connect, NoWifiEvent, IInv, TypeOK, FlagTypes
<1>2. faults' \in 0..MaxFaults
  <2>1. Fault \/ NoFault
    BY DEF ProcessWifiEvents, Disconnect, Connect, NoWifiEvent, NoFault
  <2> QED
    BY <2>1, FaultCounted DEF IInv, TypeOK, CounterTypes
<1>3. /\ UNCHANGED <<config, gain, autoDone, switch, calibrator, csiTask, calTask>>
      /\ UNCHANGED <<resultPending, paused>>
      /\ loop' = "result"
  BY DEF ProcessWifiEvents, Goto
<1>4. FlagTypes'
  BY <1>1, <1>3 DEF IInv, TypeOK, FlagTypes, config, gain, calibrator
<1>5. CounterTypes' /\ PointTypes'
  BY <1>2, <1>3 DEF IInv, TypeOK, CounterTypes, PointTypes, gain, calibrator
<1>6. Safe'
  BY <1>3
  DEF IInv, Safe, OnePhase, PauseHasOwner, AppliedIsResumed, SamplesFit, gain, calibrator
<1> QED
  BY <1>4, <1>5, <1>6 DEF IInv, TypeOK

LEMMA ResultKeepsIInv ==
  ASSUME IInv, NoResult \/ ApplyResult \/ ClearResult
  PROVE  IInv'
<1> USE DEF NoResult, ApplyResult, ClearResult, Goto
<1>1. FlagTypes'
  <2>1. /\ UNCHANGED <<ml, supported, csi, locked, gainPending, publishPending, autoDone>>
        /\ UNCHANGED <<calibrating, routed>>
    BY DEF config, gain, calibrator
  <2>2. switch' \in BOOLEAN /\ resultPending' \in BOOLEAN /\ paused' \in BOOLEAN
    BY Zenon DEF IInv, TypeOK, FlagTypes
  <2> QED
    BY <2>1, <2>2 DEF IInv, TypeOK, FlagTypes
<1>2. CounterTypes' /\ PointTypes'
  BY DEF IInv, TypeOK, CounterTypes, PointTypes, gain, calibrator
<1>3. OnePhase' /\ SamplesFit'
  BY DEF IInv, Safe, OnePhase, SamplesFit, gain, calibrator
<1>4. PauseHasOwner' /\ AppliedIsResumed'
  BY DEF IInv, Safe, PauseHasOwner, AppliedIsResumed
<1> QED
  BY <1>1, <1>2, <1>3, <1>4 DEF IInv, TypeOK, Safe

LEMMA GainLockKeepsIInv == ASSUME IInv, ProcessGainLock PROVE IInv'
<1>1. /\ UNCHANGED <<config, csi, gain, publishPending, autoDone, csiTask, calTask>>
      /\ UNCHANGED <<resultPending, paused>>
      /\ gainPending' = FALSE /\ loop' = "publish"
  BY DEF ProcessGainLock, Goto
<1>2. StartTypes' /\ OnePhase'
  <2>1. CASE StartCalibration
    BY <1>1, <2>1, StartKeepsPhase
  <2>2. CASE UNCHANGED <<switch, calibrator, faults>>
    <3>1. switch' \in BOOLEAN
      BY <2>2 DEF IInv, TypeOK, FlagTypes
    <3> QED
      BY <1>1, <2>2, <3>1, NoStartKeepsPhase
  <2> QED
    BY <2>1, <2>2 DEF ProcessGainLock
<1>3. FlagTypes'
  BY <1>1, <1>2, Zenon DEF IInv, TypeOK, FlagTypes, StartTypes, config, gain
<1>4. CounterTypes' /\ PointTypes'
  BY <1>1, <1>2 DEF IInv, TypeOK, CounterTypes, PointTypes, StartTypes, gain
<1>5. PauseHasOwner' /\ AppliedIsResumed' /\ SamplesFit'
  BY <1>1 DEF IInv, Safe, PauseHasOwner, AppliedIsResumed, SamplesFit, gain
<1> QED
  BY <1>2, <1>3, <1>4, <1>5 DEF IInv, TypeOK, Safe

LEMMA PublishKeepsIInv == ASSUME IInv, ProcessPublish PROVE IInv'
<1>1. /\ UNCHANGED <<config, csi, gain, gainPending, csiTask, calTask>>
      /\ UNCHANGED <<resultPending, paused>>
      /\ publishPending' = FALSE /\ loop' = "idle"
  BY DEF ProcessPublish, Goto
<1>2. StartTypes' /\ OnePhase' /\ autoDone' \in BOOLEAN
  <2>1. CASE AutoCalibrate
    BY <1>1, <2>1, TriggerKeepsPhase DEF AutoCalibrate
  <2>2. CASE UNCHANGED <<autoDone, switch, calibrator, faults>>
    <3>1. switch' \in BOOLEAN /\ autoDone' \in BOOLEAN
      BY <2>2 DEF IInv, TypeOK, FlagTypes
    <3> QED
      BY <1>1, <2>2, <3>1, NoStartKeepsPhase
  <2> QED
    BY <2>1, <2>2 DEF ProcessPublish
<1>3. FlagTypes'
  BY <1>1, <1>2, Zenon DEF IInv, TypeOK, FlagTypes, StartTypes, config, gain
<1>4. CounterTypes' /\ PointTypes'
  BY <1>1, <1>2 DEF IInv, TypeOK, CounterTypes, PointTypes, StartTypes, gain
<1>5. PauseHasOwner' /\ AppliedIsResumed' /\ SamplesFit'
  BY <1>1 DEF IInv, Safe, PauseHasOwner, AppliedIsResumed, SamplesFit, gain
<1> QED
  BY <1>2, <1>3, <1>4, <1>5 DEF IInv, TypeOK, Safe

LEMMA PacketKeepsIInv == ASSUME IInv, ProcessPacket PROVE IInv'
<1>1. /\ UNCHANGED <<config, csi, gainPending, autoDone, switch, calTask>>
      /\ UNCHANGED <<resultPending, loop>>
      /\ csiTask = "idle"
  BY DEF ProcessPacket
<1>2. FlagTypes'
  <2>1. locked' \in BOOLEAN
    BY DEF ProcessPacket, GainPacket, WriteFails, CollectPacket, CompleteCollection,
           MeasurePacket, gain, IInv, TypeOK, FlagTypes
  <2>2. publishPending' \in BOOLEAN
    BY DEF ProcessPacket, GainPacket, WriteFails, CollectPacket, CompleteCollection,
           MeasurePacket, IInv, TypeOK, FlagTypes
  <2>3. calibrating' \in BOOLEAN /\ routed' \in BOOLEAN /\ paused' \in BOOLEAN
    BY Zenon DEF ProcessPacket, GainPacket, WriteFails, CollectPacket, CompleteCollection,
           MeasurePacket, calibrator, IInv, TypeOK, FlagTypes
  <2> QED
    BY <1>1, <2>1, <2>2, <2>3, Zenon DEF IInv, TypeOK, FlagTypes, config
<1>3. faults' \in 0..MaxFaults
  <2>1. Fault \/ NoFault
    BY DEF ProcessPacket, GainPacket, WriteFails, CollectPacket, CompleteCollection,
           MeasurePacket, NoFault
  <2> QED
    BY <2>1, FaultCounted DEF IInv, TypeOK, CounterTypes
<1>4. CASE GainPacket
  <2>1. gainCount' \in 0..(GainPackets + 1) /\ SamplesFit'
    <3>1. gainCount \in Nat /\ gainCount <= GainPackets
      BY <1>4 DEF GainPacket, IInv, Safe, TypeOK, CounterTypes, SamplesFit
    <3>2. gainCount' = gainCount + 1
      BY <1>4 DEF GainPacket
    <3>3. ~locked' => gainCount # GainPackets
      BY <1>4, Zenon DEF GainPacket
    <3> QED
      BY <3>1, <3>2, <3>3 DEF SamplesFit
  <2>2. UNCHANGED <<file, count, calibrating, routed, paused, calTask, loop, resultPending>>
        /\ csiTask' \in {"idle", "locked"}
    BY <1>1, <1>4 DEF GainPacket, calibrator
  <2>3. CounterTypes' /\ PointTypes'
    BY <1>3, <2>1, <2>2 DEF IInv, TypeOK, CounterTypes, PointTypes
  <2>4. OnePhase' /\ PauseHasOwner' /\ AppliedIsResumed'
    BY <1>1, <2>2 DEF IInv, Safe, OnePhase, PauseHasOwner, AppliedIsResumed
  <2> QED
    BY <1>2, <2>1, <2>3, <2>4 DEF IInv, TypeOK, Safe
<1>5. CASE WriteFails \/ CollectPacket \/ MeasurePacket
  <2>1. UNCHANGED <<gainCount, locked, file, calibrating, routed, csiTask, paused, calTask>>
        /\ UNCHANGED <<loop, resultPending>>
    BY <1>1, <1>5 DEF WriteFails, CollectPacket, MeasurePacket, gain, calibrator
  <2>2. count' \in 0..BufferSize
    <3>1. count' = count \/ (count + 1 < BufferSize /\ count' = count + 1)
      BY <1>5, Zenon DEF WriteFails, CollectPacket, MeasurePacket, calibrator
    <3> QED
      BY <3>1 DEF IInv, TypeOK, CounterTypes
  <2>3. CounterTypes' /\ PointTypes'
    BY <1>3, <2>1, <2>2 DEF IInv, TypeOK, CounterTypes, PointTypes
  <2>4. Safe'
    BY <2>1 DEF IInv, Safe, OnePhase, PauseHasOwner, AppliedIsResumed, SamplesFit
  <2> QED
    BY <1>2, <2>3, <2>4 DEF IInv, TypeOK
<1>6. CASE CompleteCollection
  <2>1. count' \in 0..BufferSize
    BY <1>6 DEF CompleteCollection, IInv, TypeOK, CounterTypes
  <2>2. CounterTypes' /\ PointTypes'
    BY <1>1, <1>3, <1>6, <2>1
    DEF CompleteCollection, IInv, TypeOK, CounterTypes, PointTypes, gain
  <2>3. OnePhase' /\ PauseHasOwner' /\ AppliedIsResumed'
    BY <1>1, <1>6 DEF CompleteCollection, Collecting, OlderResultApplied, IInv, Safe, OnePhase,
                      PauseHasOwner, AppliedIsResumed
  <2>4. SamplesFit'
    BY <1>6 DEF CompleteCollection, IInv, Safe, SamplesFit, gain
  <2> QED
    BY <1>2, <2>2, <2>3, <2>4 DEF IInv, TypeOK, Safe
<1> QED
  BY <1>4, <1>5, <1>6 DEF ProcessPacket

LEMMA CsiTaskKeepsIInv ==
  ASSUME IInv, AnnounceLock \/ LaunchTask \/ HandOverFailure
  PROVE  IInv'
<1> USE DEF AnnounceLock, LaunchTask, LaunchFails, HandOverFailure
<1>1. FlagTypes'
  <2>1. /\ UNCHANGED <<ml, supported, csi, locked, publishPending, autoDone, switch>>
        /\ UNCHANGED <<routed, paused>>
    BY DEF config, gain, calibrator
  <2>2. gainPending' \in BOOLEAN /\ calibrating' \in BOOLEAN /\ resultPending' \in BOOLEAN
    BY Zenon DEF IInv, TypeOK, FlagTypes, calibrator
  <2> QED
    BY <2>1, <2>2 DEF IInv, TypeOK, FlagTypes
<1>2. faults' \in 0..MaxFaults
  BY FaultCounted DEF NoFault, IInv, TypeOK, CounterTypes
<1>3. CounterTypes' /\ PointTypes'
  BY <1>2 DEF IInv, TypeOK, CounterTypes, PointTypes, gain, calibrator
<1>4. OnePhase'
  BY DEF IInv, Safe, OnePhase, calibrator
<1>5. PauseHasOwner' /\ AppliedIsResumed' /\ SamplesFit'
  BY DEF IInv, Safe, PauseHasOwner, AppliedIsResumed, SamplesFit, gain
<1> QED
  BY <1>1, <1>3, <1>4, <1>5 DEF IInv, TypeOK, Safe

LEMMA CalibrationTaskKeepsIInv == ASSUME IInv, CalibrationTask PROVE IInv'
<1> USE DEF CalibrationTask, OpenForReading, OpenFails, FinishCalibration, HandOverResult, CalGoto
<1>1. FlagTypes'
  <2>1. /\ UNCHANGED <<ml, supported, csi, locked, gainPending, publishPending, autoDone>>
        /\ UNCHANGED <<switch, routed, paused>>
    BY DEF config, gain
  <2>2. calibrating' \in BOOLEAN /\ resultPending' \in BOOLEAN
    BY Zenon DEF IInv, TypeOK, FlagTypes
  <2> QED
    BY <2>1, <2>2 DEF IInv, TypeOK, FlagTypes
<1>2. faults' \in 0..MaxFaults
  BY FaultCounted DEF NoFault, IInv, TypeOK, CounterTypes
<1>3. CounterTypes' /\ PointTypes'
  BY <1>2 DEF IInv, TypeOK, CounterTypes, PointTypes, gain
<1>4. OnePhase'
  BY DEF IInv, Safe, OnePhase
<1>5. PauseHasOwner' /\ AppliedIsResumed' /\ SamplesFit'
  BY DEF IInv, Safe, PauseHasOwner, AppliedIsResumed, SamplesFit, gain
<1> QED
  BY <1>1, <1>3, <1>4, <1>5 DEF IInv, TypeOK, Safe

LEMMA StutterKeepsIInv == ASSUME IInv, UNCHANGED vars PROVE IInv'
  BY DEF IInv, TypeOK, FlagTypes, CounterTypes, PointTypes, Safe, OnePhase, PauseHasOwner,
         AppliedIsResumed, SamplesFit, vars, config, gain, calibrator

LEMMA NextKeepsIInv == IInv /\ [Next]_vars => IInv'
<1> SUFFICES ASSUME IInv, [Next]_vars PROVE IInv'
  OBVIOUS
<1>1. CASE MainLoop
  BY <1>1, WifiEventsKeepIInv, ResultKeepsIInv, GainLockKeepsIInv, PublishKeepsIInv DEF MainLoop
<1>2. CASE \E on \in BOOLEAN : Click(on)
  BY <1>2, ClickKeepsIInv
<1> QED
  BY <1>1, <1>2, PacketKeepsIInv, CsiTaskKeepsIInv, CalibrationTaskKeepsIInv, StutterKeepsIInv
  DEF Next

LEMMA IInvHolds == Spec => []IInv
  BY InitIInv, NextKeepsIInv, PTL DEF Spec

---------------------------------------------------------------------------
(* Results.                                                                *)

\* Every variable keeps its type; the counters stay within their buffers, for
\* process_packet of the gain controller and write_packet of the file buffer.
THEOREM TypeCorrect == Spec => []TypeOK
<1>1. IInv => TypeOK
  BY DEF IInv
<1> QED
  BY <1>1, IInvHolds, PTL

\* Collecting packets and the task that reads them never share the buffer file,
\* for start_calibration, on_collection_complete_ and the task in every order.
THEOREM FileHasOneUserHolds == Spec => []FileHasOneUser
<1>1. IInv => FileHasOneUser
  BY DEF IInv, Safe, OnePhase, FileHasOneUser, Collecting
<1> QED
  BY <1>1, IInvHolds, PTL

\* Paused traffic always has a task, or a result, that will have it resumed: the
\* callback that pauses it and process_calibration_result_ agree.
THEOREM PauseHasOwnerHolds == Spec => []PauseHasOwner
<1>1. IInv => PauseHasOwner
  BY DEF IInv, Safe
<1> QED
  BY <1>1, IInvHolds, PTL

-----------------------------------------------------------------------------
(* The layouts of frames, in Calculations.                                   *)

LEMMA AroundSeq ==
  ASSUME NEW n \in Nat
  PROVE  /\ Around(n) \in Seq(Int) /\ Len(Around(n)) = n /\ DOMAIN Around(n) = 1..n
         /\ \A i \in 1..n : Around(n)[i] = i - 1 - n \div 2
BY DEF Around

\* Two training fields, and the first of them.
LEMMA TwiceSeq ==
  ASSUME NEW n \in Nat, n > 0
  PROVE  /\ Len(Around(n) \o Around(n)) = 2 * n
         /\ SubSeq(Around(n) \o Around(n), 1, n) = Around(n)
<1> DEFINE a == Around(n)
<1>1. a \in Seq(Int) /\ Len(a) = n
  BY AroundSeq
<1> HIDE DEF a
<1>2. /\ a \o a \in Seq(Int) /\ Len(a \o a) = 2 * n
      /\ \A i \in 1..n : (a \o a)[i] = a[i]
  BY <1>1, ConcatProperties
<1> DEFINE b == SubSeq(a \o a, 1, n)
<1>3. \A i \in 1..n : (a \o a)[i] \in Int
  BY <1>1, <1>2, ElementOfSeq
<1>4. b \in Seq(Int) /\ Len(b) = n /\ \A i \in 1..n : b[i] = a[i]
  BY <1>2, <1>3, SubSeqProperties, Z3
<1>5. b = a
  <2> HIDE DEF b
  <2> QED BY <1>1, <1>4, SeqEqual
<1> QED BY <1>2, <1>5 DEF a, b

\* The short estimate in its place.
LEMMA ShortPadded ==
  LET p == Padded(Around(ShortLength))
  IN  /\ Len(p) = FullLength
      /\ \A i \in 1..FullLength :
           p[i] = IF i \in (LeftPad + 1)..(LeftPad + ShortLength)
                    THEN Around(ShortLength)[i - LeftPad] ELSE Zero
<1> DEFINE right == FullLength - ShortLength - LeftPad
           l == [i \in 1..LeftPad |-> Zero]
           m == Around(ShortLength)
           r == [i \in 1..right |-> Zero]
           all == l \o m \o r
<1>1. /\ LeftPad \in Nat /\ right \in Nat /\ ShortLength \in Nat /\ FullLength \in Nat /\ Zero \in Int
      /\ LeftPad + ShortLength + right = FullLength
  BY LayoutAssumption DEF Zero
<1>2. m \in Seq(Int) /\ Len(m) = ShortLength
  BY <1>1, AroundSeq
<1>3. l \in Seq(Int) /\ Len(l) = LeftPad /\ \A i \in 1..LeftPad : l[i] = Zero
  BY <1>1
<1>4. r \in Seq(Int) /\ Len(r) = right /\ \A i \in 1..right : r[i] = Zero
  BY <1>1
<1>5. Padded(m) = l \o m \o r
  BY <1>2 DEF Padded
<1> HIDE DEF l, m, r, right
<1>6. /\ l \o m \in Seq(Int) /\ Len(l \o m) = LeftPad + ShortLength
      /\ \A i \in 1..(LeftPad + ShortLength) : (l \o m)[i] = IF i <= LeftPad THEN l[i] ELSE m[i - LeftPad]
  BY <1>2, <1>3, ConcatProperties
<1>7. /\ Len(l \o m \o r) = FullLength
      /\ \A i \in 1..FullLength : (l \o m \o r)[i] =
           IF i <= LeftPad + ShortLength THEN (l \o m)[i] ELSE r[i - (LeftPad + ShortLength)]
  <2> DEFINE lm == l \o m
  <2>1. lm \in Seq(Int) /\ Len(lm) = LeftPad + ShortLength
    BY <1>6
  <2> HIDE DEF lm
  <2>2. /\ Len(lm \o r) = Len(lm) + Len(r)
        /\ \A i \in 1..(Len(lm) + Len(r)) : (lm \o r)[i] = IF i <= Len(lm) THEN lm[i] ELSE r[i - Len(lm)]
    BY <2>1, <1>4, ConcatProperties
  <2>3. /\ Len(lm \o r) = FullLength
        /\ \A i \in 1..FullLength : (lm \o r)[i] =
             IF i <= LeftPad + ShortLength THEN lm[i] ELSE r[i - (LeftPad + ShortLength)]
    BY <2>1, <2>2, <1>1, <1>4
  <2> QED BY <2>3 DEF lm
<1>9. \A i \in 1..FullLength : all[i] = IF i <= LeftPad + ShortLength THEN (l \o m)[i] ELSE r[i - (LeftPad + ShortLength)]
  BY <1>7
<1> HIDE DEF all
<1>8. ASSUME NEW i \in 1..FullLength
      PROVE  all[i] = IF i \in (LeftPad + 1)..(LeftPad + ShortLength) THEN m[i - LeftPad] ELSE Zero
  <2>1. CASE i <= LeftPad
    BY <2>1, <1>1, <1>3, <1>6, <1>9
  <2>2. CASE i > LeftPad /\ i <= LeftPad + ShortLength
    <3> DEFINE lm == l \o m
    <3>1. \A j \in 1..(LeftPad + ShortLength) : lm[j] = IF j <= LeftPad THEN l[j] ELSE m[j - LeftPad]
      BY <1>6
    <3>2. all[i] = lm[i]
      BY <2>2, <1>9
    <3> HIDE DEF lm
    <3>3. all[i] = m[i - LeftPad]
      BY <3>1, <3>2, <2>2, <1>1
    <3> QED BY <3>3, <2>2, <1>1
  <2>3. CASE i > LeftPad + ShortLength
    <3>1. i - (LeftPad + ShortLength) \in 1..right
      BY <2>3, <1>1
    <3>2. r[i - (LeftPad + ShortLength)] = Zero
      BY <3>1, <1>4
    <3>3. ~(i <= LeftPad + ShortLength)
      BY <2>3, <1>1
    <3>4. i \notin (LeftPad + 1)..(LeftPad + ShortLength)
      BY <2>3, <1>1
    <3>5. all[i] = r[i - (LeftPad + ShortLength)]
      BY <3>3, <1>9
    <3> QED BY <3>2, <3>4, <3>5
  <2> QED BY <2>1, <2>2, <2>3, <1>1
<1> QED BY <1>5, <1>7, <1>8 DEF m, all

\* What becomes of the frames that are not of double width.
LEMMA Layouted ==
  ASSUME NEW layout \in Layouts \ {"wide"}
  PROVE  LET p == Padded(Collapsed(Samples(layout)))
         IN  /\ layout \in {"full", "double"} => p = Around(FullLength)
             /\ layout \in {"short", "shortDouble"} => p = Padded(Around(ShortLength))
             /\ layout \in {"full", "short", "double", "shortDouble"} => Len(Samples(layout)) >= LeastLength
             /\ layout = "stub" => Len(Samples(layout)) < LeastLength
             /\ layout = "other" => Len(p) # FullLength
<1> DEFINE full == Around(FullLength)
           short == Around(ShortLength)
           other == Around(FullLength - 1)
           stub == Around(LeastLength - 1)
           full2 == full \o full
           short2 == short \o short
<1>1. /\ FullLength \in Nat /\ ShortLength \in Nat /\ LeastLength \in Nat /\ LeastLength > 0
      /\ FullLength - 1 \in Nat /\ LeastLength - 1 \in Nat
      /\ LeastLength <= ShortLength /\ ShortLength < FullLength - 1
      /\ 2 * ShortLength # FullLength - 1 /\ 2 * ShortLength # FullLength
  BY LayoutAssumption
<1>2. Len(full) = FullLength /\ Len(short) = ShortLength
  BY <1>1, AroundSeq
<1>3. Len(other) = FullLength - 1 /\ Len(stub) = LeastLength - 1
  BY <1>1, AroundSeq
<1>4. /\ Len(full2) = 2 * FullLength /\ SubSeq(full2, 1, FullLength) = full
      /\ Len(short2) = 2 * ShortLength /\ SubSeq(short2, 1, ShortLength) = short
  BY <1>1, TwiceSeq
<1>5. /\ Samples("full") = full /\ Samples("short") = short /\ Samples("other") = other
      /\ Samples("stub") = stub /\ Samples("double") = full2
      /\ Samples("shortDouble") = short2
  BY DEF Samples
<1> HIDE DEF full2, short2, full, short, other, stub
<1>6. CASE layout = "full"
  BY <1>1, <1>2, <1>5, <1>6 DEF Collapsed, Padded, full
<1>7. CASE layout = "short"
  BY <1>1, <1>2, <1>5, <1>7 DEF Collapsed, short
<1>8. CASE layout = "other"
  BY <1>1, <1>3, <1>5, <1>8 DEF Collapsed, Padded
<1>9. CASE layout = "stub"
  BY <1>1, <1>3, <1>5, <1>9
<1>10. CASE layout = "double"
  <2>1. Collapsed(full2) = full
    BY <1>1, <1>4 DEF Collapsed
  <2>2. Padded(full) = full
    BY <1>1, <1>2 DEF Padded
  <2>3. Padded(Collapsed(Samples("double"))) = full /\ Len(Samples("double")) >= LeastLength
    BY <2>1, <2>2, <1>1, <1>4, <1>5
  <2> QED BY <2>3, <1>10 DEF full
<1>11. CASE layout = "shortDouble"
  <2>1. Collapsed(short2) = short
    BY <1>1, <1>4 DEF Collapsed
  <2>2. Collapsed(Samples("shortDouble")) = short /\ Len(Samples("shortDouble")) >= LeastLength
    BY <2>1, <1>1, <1>4, <1>5
  <2> QED BY <2>2, <1>11 DEF short
<1> QED BY <1>6, <1>7, <1>8, <1>9, <1>10, <1>11 DEF Layouts

\* The tones of a frame that is kept, and where they are.
LEMMA TonesInPlace ==
  ASSUME NEW layout \in {"full", "short", "double", "shortDouble"}
  PROVE  LET p == Padded(Collapsed(Samples(layout)))
             tones == {Samples(layout)[i] : i \in DOMAIN Samples(layout)}
         IN  /\ Len(p) = FullLength
             /\ \A i \in 1..FullLength :
                  p[i] = IF Around(FullLength)[i] \in tones THEN Around(FullLength)[i] ELSE Zero
<1> DEFINE full == Around(FullLength)
           short == Around(ShortLength)
           tones == {Samples(layout)[i] : i \in DOMAIN Samples(layout)}
<1>1. /\ FullLength \in Nat /\ ShortLength \in Nat /\ LeftPad \in Nat /\ FullLength > 0 /\ ShortLength > 0
      /\ LeftPad = FullLength \div 2 - ShortLength \div 2
  BY LayoutAssumption
<1>2. /\ full \in Seq(Int) /\ Len(full) = FullLength /\ DOMAIN full = 1..FullLength
      /\ \A i \in 1..FullLength : full[i] = i - 1 - FullLength \div 2
  BY <1>1, AroundSeq
<1>3. /\ short \in Seq(Int) /\ Len(short) = ShortLength /\ DOMAIN short = 1..ShortLength
      /\ \A i \in 1..ShortLength : short[i] = i - 1 - ShortLength \div 2
  BY <1>1, AroundSeq
<1>4. Samples("full") = full /\ Samples("double") = full \o full
  BY DEF Samples
<1>5. Samples("short") = short /\ Samples("shortDouble") = short \o short
  BY DEF Samples
<1>6. /\ layout \in {"full", "double"} => Padded(Collapsed(Samples(layout))) = full
      /\ layout \in {"short", "shortDouble"} => Padded(Collapsed(Samples(layout))) = Padded(short)
  BY Layouted DEF Layouts
<1>7. ASSUME NEW a \in Seq(Int), DOMAIN a = 1..Len(a)
      PROVE  {(a \o a)[i] : i \in DOMAIN (a \o a)} = {a[i] : i \in DOMAIN a}
  <2>1. /\ a \o a \in Seq(Int) /\ Len(a \o a) = Len(a) + Len(a) /\ Len(a) \in Nat
        /\ \A i \in 1..(Len(a) + Len(a)) : (a \o a)[i] = IF i <= Len(a) THEN a[i] ELSE a[i - Len(a)]
    BY ConcatProperties, LenProperties
  <2> DEFINE b == a \o a
  <2> HIDE DEF b
  <2>2. DOMAIN b = 1..(Len(a) + Len(a))
    BY <2>1, LenProperties DEF b
  <2>3. \A i \in DOMAIN b : \E j \in DOMAIN a : b[i] = a[j]
    <3> TAKE i \in DOMAIN b
    <3>1. CASE i <= Len(a)
      BY <3>1, <2>1, <2>2, <1>7 DEF b
    <3>2. CASE ~(i <= Len(a))
      <4>1. i - Len(a) \in 1..Len(a) /\ b[i] = a[i - Len(a)]
        BY <3>2, <2>1, <2>2 DEF b
      <4> QED BY <4>1, <1>7
    <3> QED BY <3>1, <3>2
  <2>4. \A j \in DOMAIN a : j \in DOMAIN b /\ b[j] = a[j]
    BY <2>1, <2>2, <1>7 DEF b
  <2>5. {b[i] : i \in DOMAIN b} = {a[i] : i \in DOMAIN a}
    BY <2>3, <2>4
  <2> QED BY <2>5 DEF b
<1>8. /\ layout \in {"full", "double"} => tones = {full[i] : i \in DOMAIN full}
      /\ layout \in {"short", "shortDouble"} => tones = {short[i] : i \in DOMAIN short}
  <2>1. CASE layout = "full"
    BY <2>1, <1>4
  <2>2. CASE layout = "double"
    BY <2>2, <1>4, <1>2, <1>7
  <2>3. CASE layout = "short"
    BY <2>3, <1>5
  <2>4. CASE layout = "shortDouble"
    BY <2>4, <1>5, <1>3, <1>7
  <2> QED BY <2>1, <2>2, <2>3, <2>4
<1> HIDE DEF full, short
<1>9. CASE layout \in {"full", "double"}
  <2>1. Len(full) = FullLength /\ \A i \in 1..FullLength : full[i] \in tones
    BY <1>2, <1>8, <1>9
  <2> QED BY <2>1, <1>6, <1>9 DEF full
<1>10. CASE layout \in {"short", "shortDouble"}
  <2> DEFINE p == Padded(short)
  <2>1. /\ Len(p) = FullLength
        /\ \A i \in 1..FullLength : p[i] = IF i \in (LeftPad + 1)..(LeftPad + ShortLength)
                                             THEN short[i - LeftPad] ELSE Zero
    BY ShortPadded DEF short
  <2> HIDE DEF p
  <2>2. ASSUME NEW i \in 1..FullLength
        PROVE  p[i] = IF full[i] \in tones THEN full[i] ELSE Zero
    <3>1. CASE i \in (LeftPad + 1)..(LeftPad + ShortLength)
      <4>1. i - LeftPad \in 1..ShortLength /\ short[i - LeftPad] = full[i]
        BY <3>1, <1>1, <1>2, <1>3
      <4> QED BY <4>1, <3>1, <2>1, <1>3, <1>8, <1>10
    <3>2. CASE i \notin (LeftPad + 1)..(LeftPad + ShortLength)
      <4>1. \A k \in 1..ShortLength : short[k] # full[i]
        BY <3>2, <1>1, <1>2, <1>3
      <4>2. full[i] \notin {short[k] : k \in DOMAIN short}
        BY <4>1, <1>3
      <4> QED BY <4>2, <3>2, <2>1, <1>8, <1>10
    <3> QED BY <3>1, <3>2
  <2>3. Padded(Collapsed(Samples(layout))) = p
    BY <1>6, <1>10 DEF p
  <2> QED BY <2>1, <2>2, <2>3 DEF full
<1> QED BY <1>9, <1>10

\* An answer about a frame is what the manager makes of this frame.
FrameAnswered ==
  /\ question \in Questions
  /\ answer = NoAnswer \/ (answer.topic = "frame" =>
       /\ question.topic = "frame"
       /\ answer.result = ProcessFrame(question.frame, question.filter, question.mode))

LEMMA FramesAnswered == Calculating => []FrameAnswered
<1>1. Asked => FrameAnswered
  BY DEF Asked, FrameAnswered
<1>2. FrameAnswered /\ [Answering]_exchange => FrameAnswered'
  <2> SUFFICES ASSUME FrameAnswered, [Answering]_exchange PROVE FrameAnswered'
    OBVIOUS
  <2> USE DEF FrameAnswered
  <2>1. CASE AnswerBand
    BY <2>1 DEF AnswerBand, Answer
  <2>2. CASE AnswerFrame
    BY <2>2 DEF AnswerFrame, Answer
  <2>3. CASE AnswerFiles
    BY <2>3 DEF AnswerFiles, Answer
  <2>4. CASE ModbusAnswering
    BY <2>4 DEF ModbusAnswering, AnswerPoll, AnswerSwitch, AnswerCommand, AnswerServed, Answer
  <2>5. CASE UNCHANGED exchange
    BY <2>5 DEF exchange
  <2> QED BY <2>1, <2>2, <2>3, <2>4, <2>5 DEF Answering
<1> QED BY <1>1, <1>2, PTL DEF Calculating

LEMMA ModbusTopics ==
  question \in ModbusQuestions => question.topic \in {"poll", "switch", "command", "served"}
<1>1. ASSUME NEW c \in Configurations, question \in SwitchQuestions(c) PROVE question.topic = "switch"
  <2> DEFINE numbers == Switches(c)
  <2>1. question \in [topic : {"switch"}, configs : {c}, switch : numbers, state : BOOLEAN, multiple : BOOLEAN]
    BY <1>1 DEF SwitchQuestions
  <2> HIDE DEF numbers
  <2> QED BY <2>1
<1> DEFINE polls == [topic : {"poll"}, configs : Configurations]
           switches == UNION {SwitchQuestions(c) : c \in Configurations}
           commands == [topic : {"command"}, command : Asks]
           writes == [topic : {"served"}, server : RegisterLists, write : ServedWrites]
<1>2. question \in polls => question.topic = "poll"
  OBVIOUS
<1>3. question \in switches => question.topic = "switch"
  BY <1>1
<1>4. question \in commands => question.topic = "command"
  OBVIOUS
<1>5. question \in writes => question.topic = "served"
  OBVIOUS
<1>6. ModbusQuestions = polls \cup switches \cup commands \cup writes
  BY DEF ModbusQuestions
<1> HIDE DEF polls, switches, commands, writes
<1> QED BY <1>2, <1>3, <1>4, <1>5, <1>6

\* Who is accepted, of those that send.
LEMMA StrangersRefused ==
  ASSUME NEW filter \in PeerFilters, NEW f \in Frames
  PROVE  PeerAccepted(filter, f.mac) = ~(filter.set /\ f.mac = "stranger")
<1>1. CASE ~filter.set
  BY <1>1, FramesAssumption DEF PeerAccepted
<1>2. CASE filter.set /\ f.mac = "stranger"
  BY <1>2, FramesAssumption DEF PeerAccepted
<1>3. CASE filter.set /\ f.mac \in {"peer", "broadcast", "ap"}
  BY <1>3, FramesAssumption DEF PeerAccepted
<1>4. CASE filter.set /\ f.mac \notin {"peer", "broadcast", "ap", "stranger"}
  BY <1>4, FramesAssumption DEF PeerAccepted
<1> QED BY <1>1, <1>2, <1>3, <1>4, FramesAssumption

\* A frame of double width: only the detector takes it, as it is.
LEMMA WideFrames ==
  ASSUME NEW f \in Frames
  PROVE  /\ IsHT40(f) => f.layout = "wide"
         /\ f.layout = "wide" => IsHT40(f) /\ Len(Samples(f.layout)) # FullLength
<1>1. /\ FullLength \in Nat /\ ShortLength \in Nat /\ LeastLength \in Nat /\ LeastLength > 0
      /\ FullLength - 1 \in Nat /\ LeastLength - 1 \in Nat /\ 2 * FullLength \in Nat
      /\ LeastLength <= ShortLength /\ ShortLength < FullLength - 1
  BY LayoutAssumption
<1>2. /\ Len(Around(FullLength)) = FullLength /\ Len(Around(ShortLength)) = ShortLength
      /\ Len(Around(2 * FullLength)) = 2 * FullLength
  BY <1>1, AroundSeq
<1>3. Len(Around(FullLength - 1)) = FullLength - 1 /\ Len(Around(LeastLength - 1)) = LeastLength - 1
  BY <1>1, AroundSeq
<1>4. Len(Around(ShortLength) \o Around(ShortLength)) = 2 * ShortLength
  BY <1>1, TwiceSeq
<1>5. f.layout \in Layouts /\ (f.layout = "wide" => f.wide = TRUE) /\ (f.layout = "double" => f.wide = FALSE)
  BY FramesAssumption
<1>6. /\ Len(Samples("full")) = FullLength /\ Len(Samples("short")) = ShortLength
      /\ Len(Samples("shortDouble")) = 2 * ShortLength /\ Len(Samples("wide")) = 2 * FullLength
      /\ Len(Samples("other")) = FullLength - 1 /\ Len(Samples("stub")) = LeastLength - 1
  <2> HIDE DEF Around
  <2>1. Samples("full") = Around(FullLength) /\ Samples("short") = Around(ShortLength)
    BY DEF Samples
  <2>2. Samples("shortDouble") = Around(ShortLength) \o Around(ShortLength)
    BY DEF Samples
  <2>3. Samples("wide") = Around(2 * FullLength) /\ Samples("other") = Around(FullLength - 1)
    BY DEF Samples
  <2>4. Samples("stub") = Around(LeastLength - 1)
    BY DEF Samples
  <2> QED BY <1>2, <1>3, <1>4, <2>1, <2>2, <2>3, <2>4
<1>7. f.layout \notin {"wide", "double"} => Len(Samples(f.layout)) # 2 * FullLength
  BY <1>1, <1>5, <1>6 DEF Layouts
<1> QED BY <1>1, <1>5, <1>6, <1>7 DEF IsHT40

\* Every tone that is measured or recorded sits where an HT20 frame has it, whatever the lengths
\* of the layouts are (csi_manager.cpp:171-305).
THEOREM EveryToneInItsPlaceHolds == Calculating => []EveryToneInItsPlace
<1>1. FrameAnswered => EveryToneInItsPlace
  <2> SUFFICES ASSUME FrameAnswered, answer.topic = "frame" PROVE EveryToneInItsPlace
    BY DEF EveryToneInItsPlace
  <2> DEFINE f == question.frame
             p == question.filter
             mode == question.mode
             r == answer.result
             kept == Padded(Collapsed(Samples(f.layout)))
             tones == {Samples(f.layout)[i] : i \in DOMAIN Samples(f.layout)}
             InPlace(i) == LET t == Around(FullLength)[i]
                           IN  r.samples[i] = IF t \in tones THEN t ELSE Zero
             Right == r.to \in {"detector", "recording"} =>
                        \/ Len(r.samples) = FullLength /\ \A i \in 1..FullLength : InPlace(i)
                        \/ r.to = "detector" /\ f.layout = "wide" /\ r.samples = Samples("wide")
             Lost == r.to = "none"
  <2>1. question \in Questions /\ question.topic = "frame" /\ r = ProcessFrame(f, p, mode)
    BY DEF FrameAnswered, NoAnswer
  <2>2. f \in Frames /\ p \in PeerFilters /\ mode \in {"gain", "calibration", "motion"}
    <3>1. question \notin [topic : {"band"}, recording : Recordings]
      BY <2>1
    <3> DEFINE Visits(s, c) == [topic : {"files"}, server : {s}, card : {c}, names : Shown(s, c),
                                method : {"get", "delete", "upload"}]
    <3>2. question \notin UNION {Visits(s, c) : s \in Servers, c \in Cards}
      <4>1. ASSUME NEW s \in Servers, NEW c \in Cards, question \in Visits(s, c)
            PROVE  FALSE
        <5> DEFINE names == Shown(s, c)
        <5>1. question \in [topic : {"files"}, server : {s}, card : {c}, names : names,
                            method : {"get", "delete", "upload"}]
          BY <4>1
        <5> HIDE DEF names
        <5>2. question.topic = "files"
          BY <5>1
        <5> QED BY <5>2, <2>1
      <4> HIDE DEF Visits
      <4> QED BY <4>1
    <3>3. question \notin ModbusQuestions
      BY <2>1, ModbusTopics
    <3>4. question \in [topic : {"frame"}, frame : Frames, filter : PeerFilters,
                        mode : {"gain", "calibration", "motion"}]
      BY <2>1, <3>1, <3>2, <3>3 DEF Questions
    <3> QED BY <3>4
  <2>3. f.layout \in Layouts /\ FullLength \in Nat
    BY <2>2, FramesAssumption, LayoutAssumption
  <2>4. PeerAccepted(p, f.mac) = ~(p.set /\ f.mac = "stranger")
    BY <2>2, StrangersRefused
  <2> HIDE DEF f, p, mode, r
  <2>5. CASE f.layout = "wide"
    <3>1. IsHT40(f) /\ Len(Samples(f.layout)) # FullLength
      BY <2>2, <2>5, WideFrames
    <3>2. r \in {Dropped, [to |-> "gain", samples |-> Samples(f.layout)],
                 [to |-> "detector", samples |-> Samples(f.layout)]}
      BY <2>1, <3>1 DEF ProcessFrame
    <3>3. Right
      BY <3>2, <2>5 DEF Dropped
    <3> HIDE DEF Right
    <3> QED BY <3>3, <2>5 DEF EveryToneInItsPlace, Right, f, r, p
  <2>6. CASE f.layout \in {"stub", "other"}
    <3>1. ~IsHT40(f)
      BY <2>2, <2>6, WideFrames
    <3>2. Len(Samples(f.layout)) < LeastLength \/ Len(kept) # FullLength
      BY <2>6, Layouted DEF Layouts
    <3>3. r \in {Dropped, [to |-> "gain", samples |-> Samples(f.layout)]}
      BY <2>1, <3>1, <3>2 DEF ProcessFrame
    <3>4. Right
      BY <3>3 DEF Dropped
    <3> HIDE DEF Right
    <3> QED BY <3>4, <2>6 DEF EveryToneInItsPlace, Right, f, r, p
  <2>7. CASE f.layout \in {"full", "short", "double", "shortDouble"}
    <3>1. ~IsHT40(f) /\ Len(Samples(f.layout)) >= LeastLength
      BY <2>2, <2>7, WideFrames, Layouted DEF Layouts
    <3>2. /\ Len(kept) = FullLength
          /\ \A i \in 1..FullLength :
               kept[i] = IF Around(FullLength)[i] \in tones THEN Around(FullLength)[i] ELSE Zero
      BY <2>7, TonesInPlace
    <3>3. LeastLength \in Int /\ Len(Samples(f.layout)) \in Int
      <4>1. FullLength \in Nat /\ ShortLength \in Nat /\ FullLength > 0 /\ ShortLength > 0 /\ LeastLength \in Nat
        BY LayoutAssumption
      <4> QED BY <4>1, <2>7, AroundSeq, TwiceSeq DEF Samples
    <3> HIDE DEF kept
    <3>4. /\ ~PeerAccepted(p, f.mac) => r = Dropped
          /\ PeerAccepted(p, f.mac) => r \in {[to |-> "gain", samples |-> Samples(f.layout)],
               [to |-> "recording", samples |-> kept], [to |-> "detector", samples |-> kept]}
      BY <2>1, <3>1, <3>2, <3>3 DEF ProcessFrame, kept
    <3>5. Right
      BY <3>4, <3>2 DEF Dropped
    <3>6. Lost = ~PeerAccepted(p, f.mac)
      BY <3>4 DEF Dropped
    <3> HIDE DEF Right, Lost
    <3>7. Lost = (p.set /\ f.mac = "stranger")
      <4>1. CASE PeerAccepted(p, f.mac)
        BY <4>1, <3>6, <2>4
      <4>2. CASE ~PeerAccepted(p, f.mac)
        BY <4>2, <3>6, <2>4
      <4> QED BY <4>1, <4>2
    <3> QED BY <3>5, <3>7, <2>7 DEF EveryToneInItsPlace, Right, Lost, f, r, p
  <2> QED BY <2>3, <2>5, <2>6, <2>7 DEF Layouts
<1> QED BY <1>1, FramesAnswered, PTL
=============================================================================
