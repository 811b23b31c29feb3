---------------------------- MODULE Calibration ----------------------------
(***************************************************************************)
(* The calibration of the espectre component, across its three threads.    *)
(* The WiFi task delivers CSI packets: the first ones lock the gain, and   *)
(* while a calibration collects, packets go to a file.  When the file is   *)
(* full, traffic is paused and a task of low priority reads the file and   *)
(* computes a band; it hands its result to the main loop, which applies it *)
(* and resumes traffic.  The main loop also starts calibrations: once the  *)
(* gain is locked, when the user clicks the calibrate switch, and once     *)
(* after a quiet time.                                                     *)
(* The samples, the band and the threshold are left out; so is everything  *)
(* of the WiFi session but whether CSI is on (see WifiSession).            *)
(***************************************************************************)
EXTENDS Naturals

CONSTANTS
  GainPackets,  \* CALIBRATION_PACKETS of the gain controller
  BufferSize,   \* packets that fill the calibration buffer
  MaxFaults     \* bound: how many platform calls may fail in a behaviour

ASSUME ConstantsAssumption ==
  /\ GainPackets \in Nat
  /\ BufferSize \in Nat \ {0}
  /\ MaxFaults \in Nat

VARIABLES
  ml,              \* detection_algorithm_ is ML, fixed
  supported,       \* the chip supports the gain lock, fixed
  csi,             \* csi_manager_.enabled_
  gainCount,       \* gain_controller_.packet_count_
  locked,          \* gain_controller_.locked_
  gainPending,     \* gain_lock_pending_
  publishPending,  \* publish_pending_
  autoDone,        \* auto-calibration is off or auto_cal_done_
  switch,          \* the published state of the calibrate switch
  calibrating,     \* nbvi_calibrator_.calibrating_
  routed,          \* csi_manager_.calibrator_ is set
  file,            \* how the buffer file is open
  count,           \* file_buffer_.buffer_count_
  csiTask,         \* where the WiFi task is in its CSI callback
  calTask,         \* where the nbvi_cal task is
  resultPending,   \* cal_result_pending_
  paused,          \* traffic_generator_.paused_
  loop,            \* where the main loop is
  faults           \* platform calls that have failed so far

config == <<ml, supported>>
gain == <<gainCount, locked>>
calibrator == <<calibrating, routed, file, count>>
vars == <<config, csi, gain, gainPending, publishPending, autoDone, switch,
          calibrator, csiTask, calTask, resultPending, paused, loop, faults>>

\* On chips without gain lock the gain counts as locked from the start.
Init ==
  /\ ml \in BOOLEAN /\ supported \in BOOLEAN
  /\ csi = FALSE
  /\ gainCount = 0 /\ locked = ~supported
  /\ gainPending = FALSE /\ publishPending = FALSE
  /\ autoDone \in BOOLEAN
  /\ switch = FALSE
  /\ calibrating = FALSE /\ routed = FALSE /\ file = "closed" /\ count = 0
  /\ csiTask = "idle" /\ calTask = "none"
  /\ resultPending = FALSE /\ paused = FALSE
  /\ loop = "idle"
  /\ faults = 0

Fault == faults < MaxFaults /\ faults' = faults + 1
NoFault == UNCHANGED faults
Goto(here, there) == loop = here /\ loop' = there

---------------------------------------------------------------------------
(* Starting a calibration, on the main loop.                               *)

\* The ML detector has a fixed band and needs none.
StartSkipped ==
  /\ ml
  /\ switch' = FALSE
  /\ UNCHANGED <<calibrator, faults>>

\* The switch shows ON, the calibrator refuses because it is busy, and the
\* switch shows OFF.
StartRefused ==
  /\ ~ml /\ calibrating
  /\ switch' = FALSE
  /\ UNCHANGED <<calibrator, faults>>

\* Mutant: the switch stays ON.
StartFailsStaysOn ==
  /\ ~ml /\ ~calibrating
  /\ Fault
  /\ switch' = TRUE
  /\ UNCHANGED calibrator

\* The buffer file cannot be opened.
StartFails ==
  /\ ~ml /\ ~calibrating
  /\ Fault
  /\ switch' = FALSE
  /\ UNCHANGED calibrator

\* Mutant: a running calibration is not noticed.
StartCollectionWhileBusy ==
  /\ ~ml
  /\ switch' = TRUE
  /\ calibrating' = TRUE /\ routed' = TRUE
  /\ file' = "writing" /\ count' = 0
  /\ NoFault

\* The switch shows ON, and packets go to a new file until it is full.
StartCollection ==
  /\ ~ml /\ ~calibrating
  /\ switch' = TRUE
  /\ calibrating' = TRUE /\ routed' = TRUE
  /\ file' = "writing" /\ count' = 0
  /\ NoFault

StartCalibration == StartSkipped \/ StartRefused \/ StartFails \/ StartCollection

\* A new calibration is asked for while one runs, or before the gain is locked.
Trigger ==
  \/ ~calibrating /\ locked /\ StartCalibration
  \/ (calibrating \/ ~locked) /\ UNCHANGED <<switch, calibrator, faults>>

\* A click is rejected during a calibration, by publishing ON again.
Click(on) ==
  /\ loop = "idle"
  /\ \/ calibrating /\ switch' = TRUE /\ UNCHANGED <<calibrator, faults>>
     \/ ~calibrating /\ on /\ Trigger
     \/ ~calibrating /\ ~on /\ switch' = FALSE /\ UNCHANGED <<calibrator, faults>>
  /\ UNCHANGED <<config, csi, gain, gainPending, publishPending, autoDone,
                 csiTask, calTask, resultPending, paused, loop>>

---------------------------------------------------------------------------
(* One pass of ESpectreComponent::loop.                                    *)

\* CSI is disabled with the session; that it could not be is ignored.
Disconnect ==
  /\ publishPending' = FALSE
  /\ \/ csi' = FALSE /\ NoFault
     \/ csi /\ Fault /\ UNCHANGED csi
  /\ UNCHANGED gainPending

\* Every connect, every new address and every retry registers the gain lock
\* callback again; without gain lock it is called on the spot.
Connect ==
  /\ gainPending' = (gainPending \/ ~supported)
  /\ \/ csi' = TRUE /\ NoFault
     \/ ~csi /\ Fault /\ UNCHANGED csi
  /\ UNCHANGED publishPending

NoWifiEvent == UNCHANGED <<csi, gainPending, publishPending, faults>>

ProcessWifiEvents ==
  /\ Goto("idle", "result")
  /\ Disconnect \/ Connect \/ NoWifiEvent
  /\ UNCHANGED <<config, gain, autoDone, switch, calibrator, csiTask, calTask,
                 resultPending, paused>>

NoResult ==
  /\ Goto("result", "gain") /\ ~resultPending
  /\ UNCHANGED <<config, csi, gain, gainPending, publishPending, autoDone, switch,
                 calibrator, csiTask, calTask, resultPending, paused, faults>>

ApplyResult ==
  /\ Goto("result", "clear") /\ resultPending
  /\ paused' = FALSE /\ switch' = FALSE
  /\ UNCHANGED <<config, csi, gain, gainPending, publishPending, autoDone,
                 calibrator, csiTask, calTask, resultPending, faults>>

ClearResult ==
  /\ Goto("clear", "gain")
  /\ resultPending' = FALSE
  /\ UNCHANGED <<config, csi, gain, gainPending, publishPending, autoDone, switch,
                 calibrator, csiTask, calTask, paused, faults>>

ProcessGainLock ==
  /\ Goto("gain", "publish")
  /\ gainPending' = FALSE
  /\ IF gainPending THEN StartCalibration ELSE UNCHANGED <<switch, calibrator, faults>>
  /\ UNCHANGED <<config, csi, gain, publishPending, autoDone, csiTask, calTask,
                 resultPending, paused>>

\* Measurements are published; after a quiet time this is the moment of the
\* one automatic calibration.
AutoCalibrate ==
  /\ publishPending /\ csi
  /\ ~autoDone /\ ~calibrating
  /\ autoDone' = TRUE
  /\ Trigger

ProcessPublish ==
  /\ Goto("publish", "idle")
  /\ publishPending' = FALSE
  /\ AutoCalibrate \/ UNCHANGED <<autoDone, switch, calibrator, faults>>
  /\ UNCHANGED <<config, csi, gain, gainPending, csiTask, calTask, resultPending, paused>>

MainLoop ==
  \/ ProcessWifiEvents \/ NoResult \/ ApplyResult \/ ClearResult
  \/ ProcessGainLock \/ ProcessPublish

---------------------------------------------------------------------------
(* CSI packets, in the WiFi task.                                          *)

GainPacket ==
  /\ ~locked
  /\ gainCount' = gainCount + 1
  /\ locked' = (gainCount = GainPackets)
  /\ csiTask' = IF gainCount = GainPackets THEN "locked" ELSE "idle"
  /\ UNCHANGED <<publishPending, calibrator, paused, faults>>

\* The gain lock callback.
AnnounceLock ==
  /\ csiTask = "locked" /\ csiTask' = "idle"
  /\ gainPending' = TRUE
  /\ UNCHANGED <<config, csi, gain, publishPending, autoDone, switch, calibrator,
                 calTask, resultPending, paused, loop, faults>>

Collecting == calibrating /\ routed

\* Assumption on time: a collection takes seconds, so before it is complete the
\* task of the calibration before it has gone and its result has been applied.
OlderResultApplied == calTask = "none" /\ ~resultPending

WriteFails ==
  /\ locked /\ Collecting
  /\ Fault
  /\ UNCHANGED <<gain, publishPending, calibrator, csiTask, paused>>

CollectPacket ==
  /\ locked /\ Collecting
  /\ count + 1 < BufferSize
  /\ count' = count + 1
  /\ UNCHANGED <<gain, publishPending, calibrating, routed, file, csiTask, paused, faults>>

\* The packet that fills the buffer: traffic is paused, no more packets are
\* taken, and the file is closed.
CompleteCollection ==
  /\ locked /\ Collecting
  /\ count + 1 = BufferSize
  /\ OlderResultApplied
  /\ count' = count + 1
  /\ paused' = TRUE
  /\ routed' = FALSE /\ file' = "closed"
  /\ csiTask' = "launch"
  /\ UNCHANGED <<gain, publishPending, calibrating, faults>>

\* A measured packet may be the one that publishes.
MeasurePacket ==
  /\ locked /\ ~Collecting
  /\ publishPending' \in {publishPending, TRUE}
  /\ UNCHANGED <<gain, calibrator, csiTask, paused, faults>>

ProcessPacket ==
  /\ csi /\ csiTask = "idle"
  /\ GainPacket \/ WriteFails \/ CollectPacket \/ CompleteCollection \/ MeasurePacket
  /\ UNCHANGED <<config, csi, gainPending, autoDone, switch, calTask, resultPending, loop>>

\* Mutant: nobody is told that the calibration failed.
LaunchFailsSilently ==
  /\ Fault
  /\ calibrating' = FALSE
  /\ csiTask' = "idle"
  /\ UNCHANGED calTask

\* The calibration is over before its result is handed on.
LaunchFails ==
  /\ Fault
  /\ calibrating' = FALSE
  /\ csiTask' = "handing"
  /\ UNCHANGED calTask

LaunchTask ==
  /\ csiTask = "launch"
  /\ \/ calTask' = "created" /\ csiTask' = "idle" /\ NoFault /\ UNCHANGED calibrating
     \/ LaunchFails
  /\ UNCHANGED <<config, csi, gain, gainPending, publishPending, autoDone, switch,
                 routed, file, count, resultPending, paused, loop>>

\* The failed calibration's result, from the WiFi task itself.
HandOverFailure ==
  /\ csiTask = "handing" /\ csiTask' = "idle"
  /\ resultPending' = TRUE
  /\ UNCHANGED <<config, csi, gain, gainPending, publishPending, autoDone, switch,
                 calibrator, calTask, paused, loop, faults>>

---------------------------------------------------------------------------
(* The calibration task.                                                   *)

CalGoto(here, there) ==
  /\ calTask = here /\ calTask' = there
  /\ UNCHANGED <<config, csi, gain, gainPending, publishPending, autoDone, switch,
                 routed, count, csiTask, paused, loop>>

OpenForReading ==
  /\ CalGoto("created", "reading")
  /\ file' = "reading"
  /\ UNCHANGED <<calibrating, resultPending, faults>>

OpenFails ==
  /\ CalGoto("created", "handing")
  /\ Fault
  /\ calibrating' = FALSE
  /\ UNCHANGED <<file, resultPending>>

\* Whether it found a band or not, the task closes and removes the file and
\* declares the calibration over ...
FinishCalibration ==
  /\ CalGoto("reading", "handing")
  /\ file' = "closed"
  /\ calibrating' = FALSE
  /\ UNCHANGED <<resultPending, faults>>

\* ... before it hands its result on and ends.
HandOverResult ==
  /\ CalGoto("handing", "none")
  /\ resultPending' = TRUE
  /\ UNCHANGED <<calibrating, file, faults>>

CalibrationTask == OpenForReading \/ OpenFails \/ FinishCalibration \/ HandOverResult

---------------------------------------------------------------------------
Next ==
  \/ \E on \in BOOLEAN : Click(on)
  \/ MainLoop
  \/ ProcessPacket \/ AnnounceLock \/ LaunchTask \/ HandOverFailure
  \/ CalibrationTask

Spec == Init /\ [][Next]_vars

\* The scheduler runs every thread, and packets keep coming while CSI is on and
\* the traffic generator is not paused.
Fairness ==
  /\ WF_vars(MainLoop)
  /\ WF_vars(~paused /\ ProcessPacket)
  /\ WF_vars(AnnounceLock) /\ WF_vars(LaunchTask) /\ WF_vars(HandOverFailure)
  /\ WF_vars(CalibrationTask)

FairSpec == Spec /\ Fairness

---------------------------------------------------------------------------
(* Properties.                                                             *)

FlagTypes ==
  /\ ml \in BOOLEAN /\ supported \in BOOLEAN /\ csi \in BOOLEAN /\ locked \in BOOLEAN
  /\ gainPending \in BOOLEAN /\ publishPending \in BOOLEAN /\ autoDone \in BOOLEAN
  /\ switch \in BOOLEAN /\ calibrating \in BOOLEAN /\ routed \in BOOLEAN
  /\ resultPending \in BOOLEAN /\ paused \in BOOLEAN
CounterTypes ==
  /\ gainCount \in 0..(GainPackets + 1)
  /\ count \in 0..BufferSize
  /\ faults \in 0..MaxFaults
PointTypes ==
  /\ file \in {"closed", "writing", "reading"}
  /\ csiTask \in {"idle", "locked", "launch", "handing"}
  /\ calTask \in {"none", "created", "reading", "handing"}
  /\ loop \in {"idle", "result", "clear", "gain", "publish"}

\* Every variable has the type of the field it stands for.
TypeOK == FlagTypes /\ CounterTypes /\ PointTypes

\* The buffer file has one user: packets are written to it only while it is open
\* for writing, and a task that reads it finds it as it opened it, although
\* every thread may close or reopen it and only calibrating_ keeps them apart.
FileHasOneUser ==
  /\ Collecting => file = "writing" /\ calTask \notin {"created", "reading"}
  /\ calTask = "reading" => file = "reading" /\ calibrating

\* Paused traffic is on its way to being resumed: a task computes, or a result
\* waits for the main loop.
PauseHasOwner ==
  paused => csiTask \in {"launch", "handing"} \/ calTask # "none" \/ resultPending

\* What the WiFi task paused, the main loop resumes, whatever fails between: no
\* task, no file, no band, no link.
PausedTrafficResumes == paused ~> ~paused

\* Once no calibration runs any more, the switch shows OFF for good, also after
\* clicks that came while a result was on its way.
SwitchSettles == <>[]~calibrating => <>[]~switch
=============================================================================
