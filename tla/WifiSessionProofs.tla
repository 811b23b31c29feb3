------------------------- MODULE WifiSessionProofs -------------------------
(***************************************************************************)
(* Proofs about WifiSession, for any set of task identities, any choice of *)
(* modes and any number of failing calls.                                  *)
(*                                                                         *)
(* The exit flag is what everything hangs on: it vouches for the absence   *)
(* of a task (ExitFlagHonest), so that whoever has seen it may close the   *)
(* resource or start another task.  That CSI cannot be switched off        *)
(* between enabling it and starting traffic is a fact about the positions  *)
(* of the main loop (CsiAtStart), and that the wait is only entered with   *)
(* the running flag off another one (WaitingIsStopped).                    *)
(***************************************************************************)
EXTENDS WifiSession, TLAPS

\* A set exit flag means that no traffic task is alive.
ExitFlagHonest == exited => \A t \in Tasks : ~Alive(t)

\* The ping session has no task of ours.
PingHasNoTask == mode = "ping" => \A t \in Tasks : ~Alive(t)

\* Past enabling CSI the main loop finds it enabled.
CsiAtStart == loop \in {"traffic", "start", "started"} => csi

\* stop() waits for the task only after it has cleared the running flag.
WaitingIsStopped == loop = "wait" => ~running

Safe ==
  /\ ExitFlagHonest
  /\ PingHasNoTask
  /\ OneTask
  /\ ResourceOutlivesTask
  /\ CsiAtStart
  /\ WaitingIsStopped
  /\ TrafficOnlyWithCsi

IInv == TypeOK /\ Safe

USE DEF vars, link, sessionVars, traffic, Goto, NoFault, DisableCsi, NothingSeen, Alive

LoopType == loop \in LoopPoints
SawType == saw \in [disconnect : BOOLEAN, connect : BOOLEAN]
FaultsType == faults \in 0..MaxFaults

\* Types are kept, group by group: the event task owns the first, the main loop
\* the second, both the loop and the tasks the third.
LEMMA LinkTypesKept == LinkTypes /\ [Next]_vars => LinkTypes'
<1> SUFFICES ASSUME LinkTypes, [Next]_vars PROVE LinkTypes'
  OBVIOUS
<1> USE DEF LinkTypes
<1>1. CASE LinkEvent
  BY <1>1 DEF LinkEvent
<1>2. CASE StoreLink
  BY <1>2 DEF StoreLink
<1>3. CASE CountEvent
  BY <1>3 DEF CountEvent
<1>4. CASE MainLoop
  <2>1. CASE LoadDisconnect
    BY <2>1 DEF LoadDisconnect
  <2>2. CASE LoadConnect
    BY <2>2 DEF LoadConnect
  <2>3. CASE ~LoadDisconnect /\ ~LoadConnect
    BY <1>4, <2>3 DEF MainLoop, HandleDisconnect, StopTraffic, StopPing, StopTask, TaskGone, WaitTimesOut, SessionEnded,
       HandleConnect, EnableCsi, EnableFails, CheckRunning, StartRefused, StartFails, StartTraffic, StartPing, StartTask,
       Connected, ConnectFailed
  <2> QED BY <2>1, <2>2, <2>3
<1>5. CASE RetryDue
  BY <1>5 DEF RetryDue
<1>6. ASSUME NEW t \in Tasks, Task(t) PROVE LinkTypes'
  BY <1>6 DEF Task, TaskGoto, FindGateway, GiveUp, PollRunning, SendPacket, ExitTask
<1>7. CASE UNCHANGED vars
  BY <1>7
<1> QED BY <1>1, <1>2, <1>3, <1>4, <1>5, <1>6, <1>7 DEF Next

LEMMA SessionTypesKept == SessionTypes /\ [Next]_vars => SessionTypes'
<1> SUFFICES ASSUME SessionTypes, [Next]_vars PROVE SessionTypes'
  OBVIOUS
<1> USE DEF SessionTypes
<1>1. CASE LinkEvent \/ StoreLink \/ CountEvent \/ RetryDue
  BY <1>1 DEF LinkEvent, StoreLink, CountEvent, RetryDue
<1>2. CASE MainLoop
  <2>1. CASE HandleDisconnect
    BY <2>1 DEF HandleDisconnect, Fault
  <2>2. CASE HandleConnect
    BY <2>2 DEF HandleConnect
  <2>3. CASE EnableCsi
    BY <2>3 DEF EnableCsi
  <2>4. CASE LoadDisconnect \/ LoadConnect \/ StopTraffic \/ TaskGone \/ WaitTimesOut \/ SessionEnded
            \/ EnableFails \/ CheckRunning \/ StartRefused \/ StartFails \/ StartTraffic \/ Connected
            \/ ConnectFailed
    BY <2>4 DEF LoadDisconnect, LoadConnect, StopTraffic, StopPing, StopTask, TaskGone, WaitTimesOut, SessionEnded,
       EnableFails, CheckRunning, StartRefused, StartFails, StartTraffic, StartPing, StartTask, Connected,
       ConnectFailed
  <2> QED BY <1>2, <2>1, <2>2, <2>3, <2>4 DEF MainLoop
<1>3. ASSUME NEW t \in Tasks, Task(t) PROVE SessionTypes'
  BY <1>3 DEF Task, TaskGoto, FindGateway, GiveUp, PollRunning, SendPacket, ExitTask
<1>4. CASE UNCHANGED vars
  BY <1>4
<1> QED BY <1>1, <1>2, <1>3, <1>4 DEF Next

LEMMA TrafficTypesKept == TrafficTypes /\ [Next]_vars => TrafficTypes'
<1> SUFFICES ASSUME TrafficTypes, [Next]_vars PROVE TrafficTypes'
  OBVIOUS
<1> USE DEF TrafficTypes, TaskPoints
<1>1. CASE LinkEvent \/ StoreLink \/ CountEvent \/ RetryDue
  BY <1>1 DEF LinkEvent, StoreLink, CountEvent, RetryDue
<1>2. CASE MainLoop
  <2>1. CASE StopTraffic
    BY <2>1 DEF StopTraffic, StopPing, StopTask
  <2>2. CASE EnableCsi
    BY <2>2 DEF EnableCsi, PreInit, OpenEspNow
  <2>3. CASE StartTraffic
    BY <2>3 DEF StartTraffic, StartPing, StartTask
  <2>4. CASE LoadDisconnect \/ LoadConnect \/ HandleDisconnect \/ TaskGone \/ WaitTimesOut \/ SessionEnded
            \/ HandleConnect \/ EnableFails \/ CheckRunning \/ StartRefused \/ StartFails \/ Connected
            \/ ConnectFailed
    BY <2>4 DEF LoadDisconnect, LoadConnect, HandleDisconnect, TaskGone, WaitTimesOut, SessionEnded,
       HandleConnect, EnableFails, CheckRunning, StartRefused, StartFails, Connected,
       ConnectFailed
  <2> QED BY <1>2, <2>1, <2>2, <2>3, <2>4 DEF MainLoop
<1>3. ASSUME NEW t \in Tasks, Task(t) PROVE TrafficTypes'
  BY <1>3 DEF Task, TaskGoto, FindGateway, GiveUp, PollRunning, SendPacket, ExitTask
<1>4. CASE UNCHANGED vars
  BY <1>4
<1> QED BY <1>1, <1>2, <1>3, <1>4 DEF Next

LEMMA LoopTypeKept == LoopType /\ [Next]_vars => LoopType'
<1> SUFFICES ASSUME LoopType, [Next]_vars PROVE LoopType'
  OBVIOUS
<1> USE DEF LoopType, LoopPoints
<1>1. CASE LinkEvent \/ StoreLink \/ CountEvent \/ RetryDue
  BY <1>1 DEF LinkEvent, StoreLink, CountEvent, RetryDue
<1>2. CASE MainLoop
  <2>1. CASE LoadDisconnect \/ LoadConnect \/ HandleDisconnect \/ StopTraffic \/ TaskGone \/ WaitTimesOut
            \/ SessionEnded \/ HandleConnect \/ EnableCsi \/ EnableFails \/ CheckRunning \/ StartRefused
            \/ StartFails \/ StartTraffic \/ Connected \/ ConnectFailed
    BY <2>1 DEF LoadDisconnect, LoadConnect, HandleDisconnect, StopTraffic, StopPing, StopTask, TaskGone, WaitTimesOut,
       SessionEnded, HandleConnect, EnableCsi, EnableFails, CheckRunning, StartRefused,
       StartFails, StartTraffic, StartPing, StartTask, Connected, ConnectFailed
  <2> QED BY <1>2, <2>1 DEF MainLoop
<1>3. ASSUME NEW t \in Tasks, Task(t) PROVE LoopType'
  BY <1>3 DEF Task, TaskGoto, FindGateway, GiveUp, PollRunning, SendPacket, ExitTask
<1>4. CASE UNCHANGED vars
  BY <1>4
<1> QED BY <1>1, <1>2, <1>3, <1>4 DEF Next

LEMMA SawTypeKept == SawType /\ LinkTypes /\ [Next]_vars => SawType'
<1> SUFFICES ASSUME SawType, LinkTypes, [Next]_vars PROVE SawType'
  OBVIOUS
<1> USE DEF SawType, LinkTypes
<1>1. CASE LinkEvent \/ StoreLink \/ CountEvent \/ RetryDue
  BY <1>1 DEF LinkEvent, StoreLink, CountEvent, RetryDue
<1>2. CASE MainLoop
  <2>1. CASE LoadDisconnect
    BY <2>1 DEF LoadDisconnect
  <2>2. CASE LoadConnect
    BY <2>2 DEF LoadConnect
  <2>3. CASE HandleConnect
    BY <2>3 DEF HandleConnect
  <2>4. CASE HandleDisconnect \/ StopTraffic \/ TaskGone \/ WaitTimesOut \/ SessionEnded \/ EnableCsi
            \/ EnableFails \/ CheckRunning \/ StartRefused \/ StartFails \/ StartTraffic \/ Connected
            \/ ConnectFailed
    BY <2>4 DEF HandleDisconnect, StopTraffic, StopPing, StopTask, TaskGone, WaitTimesOut, SessionEnded, EnableCsi,
       EnableFails, CheckRunning, StartRefused, StartFails, StartTraffic, StartPing, StartTask, Connected,
       ConnectFailed
  <2> QED BY <1>2, <2>1, <2>2, <2>3, <2>4 DEF MainLoop
<1>3. ASSUME NEW t \in Tasks, Task(t) PROVE SawType'
  BY <1>3 DEF Task, TaskGoto, FindGateway, GiveUp, PollRunning, SendPacket, ExitTask
<1>4. CASE UNCHANGED vars
  BY <1>4
<1> QED BY <1>1, <1>2, <1>3, <1>4 DEF Next

LEMMA FaultsTypeKept == FaultsType /\ [Next]_vars => FaultsType'
<1> SUFFICES ASSUME FaultsType, [Next]_vars PROVE FaultsType'
  OBVIOUS
<1> USE ConstantsAssumption DEF FaultsType
<1>1. CASE LinkEvent \/ StoreLink \/ CountEvent \/ RetryDue
  BY <1>1 DEF LinkEvent, StoreLink, CountEvent, RetryDue
<1>2. CASE MainLoop
  <2>1. CASE HandleDisconnect
    BY <2>1 DEF HandleDisconnect, Fault
  <2>2. CASE EnableCsi
    BY <2>2 DEF EnableCsi, PreInit, OpenEspNow, Fault
  <2>3. CASE EnableFails
    BY <2>3 DEF EnableFails, Fault
  <2>4. CASE StartFails
    BY <2>4 DEF StartFails, Fault
  <2>5. CASE LoadDisconnect \/ LoadConnect \/ StopTraffic \/ TaskGone \/ WaitTimesOut \/ SessionEnded
            \/ HandleConnect \/ CheckRunning \/ StartRefused \/ StartTraffic \/ Connected \/ ConnectFailed
    BY <2>5 DEF LoadDisconnect, LoadConnect, StopTraffic, StopPing, StopTask, TaskGone, WaitTimesOut, SessionEnded,
       HandleConnect, CheckRunning, StartRefused, StartTraffic, StartPing, StartTask, Connected, ConnectFailed
  <2> QED BY <1>2, <2>1, <2>2, <2>3, <2>4, <2>5 DEF MainLoop
<1>3. ASSUME NEW t \in Tasks, Task(t) PROVE FaultsType'
  BY <1>3 DEF Task, TaskGoto, FindGateway, GiveUp, PollRunning, SendPacket, ExitTask
<1>4. CASE UNCHANGED vars
  BY <1>4
<1> QED BY <1>1, <1>2, <1>3, <1>4 DEF Next

LEMMA TypesKept == TypeOK /\ [Next]_vars => TypeOK'
<1>1. [Next]_vars => UNCHANGED mode
  BY DEF Next, LinkEvent, StoreLink, CountEvent, RetryDue, MainLoop, LoadDisconnect, LoadConnect, HandleDisconnect, StopTraffic, StopPing, StopTask, TaskGone,
       WaitTimesOut, SessionEnded, HandleConnect, EnableCsi, EnableFails, CheckRunning, StartRefused,
       StartFails, StartTraffic, StartPing, StartTask, Connected, ConnectFailed,
     Task, TaskGoto, FindGateway, GiveUp, PollRunning, SendPacket, ExitTask
<1> QED
  BY <1>1, LinkTypesKept, SessionTypesKept, TrafficTypesKept, LoopTypeKept, SawTypeKept,
     FaultsTypeKept DEF TypeOK, LoopType, SawType, FaultsType

\* The event task touches nothing the other conjuncts speak of.
LEMMA EventSteps ==
  IInv /\ (LinkEvent \/ StoreLink \/ CountEvent \/ RetryDue \/ UNCHANGED vars) => Safe'
<1> SUFFICES ASSUME IInv, LinkEvent \/ StoreLink \/ CountEvent \/ RetryDue \/ UNCHANGED vars
             PROVE  Safe'
  OBVIOUS
<1> USE DEF IInv, Safe
<1>2. UNCHANGED <<mode, loop, csi, running, exited, resource, tasks>>
  BY DEF LinkEvent, StoreLink, CountEvent, RetryDue
<1> QED
  BY <1>2 DEF ExitFlagHonest, PingHasNoTask, OneTask, ResourceOutlivesTask,
     CsiAtStart, WaitingIsStopped, TrafficOnlyWithCsi

\* The main loop's steps that leave traffic alone.
LEMMA SessionSteps ==
  IInv /\ (LoadDisconnect \/ LoadConnect \/ HandleDisconnect \/ SessionEnded \/ HandleConnect
             \/ CheckRunning \/ StartRefused \/ WaitTimesOut \/ Connected \/ ConnectFailed) => Safe'
<1> SUFFICES ASSUME IInv, LoadDisconnect \/ LoadConnect \/ HandleDisconnect \/ SessionEnded \/ HandleConnect
                            \/ CheckRunning \/ StartRefused \/ WaitTimesOut \/ Connected \/ ConnectFailed
             PROVE  Safe'
  OBVIOUS
<1> USE DEF IInv, Safe
<1>1. UNCHANGED <<mode, running, exited, resource, tasks>>
  BY DEF LoadDisconnect, LoadConnect, HandleDisconnect, SessionEnded, HandleConnect,
     CheckRunning, StartRefused, WaitTimesOut, Connected, ConnectFailed
<1>3. ExitFlagHonest' /\ PingHasNoTask' /\ OneTask' /\ ResourceOutlivesTask'
  BY <1>1 DEF ExitFlagHonest, PingHasNoTask, OneTask, ResourceOutlivesTask
<1>4. CsiAtStart' /\ WaitingIsStopped' /\ TrafficOnlyWithCsi'
  BY <1>1 DEF CsiAtStart, WaitingIsStopped, TrafficOnlyWithCsi, TypeOK, TrafficTypes, LoadDisconnect, LoadConnect,
     HandleDisconnect, SessionEnded, HandleConnect, CheckRunning, StartRefused, WaitTimesOut,
     Connected, ConnectFailed
<1> QED BY <1>3, <1>4

\* The main loop's steps that open or close what a task sends with.
LEMMA StopSteps ==
  IInv /\ (StopTraffic \/ TaskGone) => Safe'
<1> SUFFICES ASSUME IInv, StopTraffic \/ TaskGone PROVE Safe'
  OBVIOUS
<1> USE DEF IInv, Safe
<1>2. UNCHANGED <<mode, exited, tasks, csi>>
  BY DEF StopTraffic, StopPing, StopTask, TaskGone
<1>3. ExitFlagHonest' /\ PingHasNoTask' /\ OneTask'
  BY <1>2 DEF ExitFlagHonest, PingHasNoTask, OneTask
<1>4. ResourceOutlivesTask'
  <2>1. CASE StopTraffic
    BY <1>2, <2>1 DEF StopTraffic, StopPing, StopTask, ResourceOutlivesTask, PingHasNoTask, TypeOK, TrafficTypes
  <2>2. CASE TaskGone
    BY <1>2, <2>2 DEF TaskGone, ResourceOutlivesTask, ExitFlagHonest
  <2> QED BY <2>1, <2>2
<1>5. CsiAtStart' /\ WaitingIsStopped' /\ TrafficOnlyWithCsi'
  BY <1>2 DEF CsiAtStart, WaitingIsStopped, TrafficOnlyWithCsi, StopTraffic, StopPing, StopTask, TaskGone
<1> QED BY <1>3, <1>4, <1>5

LEMMA EnableSteps ==
  IInv /\ (EnableCsi \/ EnableFails) => Safe'
<1> SUFFICES ASSUME IInv, EnableCsi \/ EnableFails PROVE Safe'
  OBVIOUS
<1> USE DEF IInv, Safe
<1>2. UNCHANGED <<mode, running, exited, tasks>> /\ (resource => resource')
  BY DEF EnableCsi, EnableFails, PreInit, OpenEspNow
<1>3. ExitFlagHonest' /\ PingHasNoTask' /\ OneTask' /\ ResourceOutlivesTask'
  BY <1>2 DEF ExitFlagHonest, PingHasNoTask, OneTask, ResourceOutlivesTask
<1>4. CsiAtStart' /\ WaitingIsStopped' /\ TrafficOnlyWithCsi'
  BY <1>2 DEF CsiAtStart, WaitingIsStopped, TrafficOnlyWithCsi, EnableCsi, EnableFails
<1> QED BY <1>3, <1>4

\* A start has seen the exit flag, so the task it creates is the only one.
LEMMA StartSteps ==
  IInv /\ (StartFails \/ StartTraffic) => Safe'
<1> SUFFICES ASSUME IInv, StartFails \/ StartTraffic PROVE Safe'
  OBVIOUS
<1> USE DEF IInv, Safe
<1>1. \A t \in Tasks : tasks[t] = "none"
  BY DEF StartFails, StartTraffic, StartPing, StartTask, MayStart, GatewayKnown, ExitFlagHonest
<1>3. CASE StartFails
  BY <1>1, <1>3 DEF StartFails, ExitFlagHonest, PingHasNoTask, OneTask,
     ResourceOutlivesTask, CsiAtStart, WaitingIsStopped, TrafficOnlyWithCsi
<1>4. CASE StartTraffic
  <2>1. UNCHANGED <<mode, csi>> /\ resource' /\ loop' = "started" /\ loop = "start"
    BY <1>4 DEF StartTraffic, StartPing, StartTask
  <2>2. ExitFlagHonest' /\ PingHasNoTask'
    BY <1>1, <1>4 DEF StartTraffic, StartPing, StartTask, ExitFlagHonest, PingHasNoTask
  <2>3. OneTask'
    BY <1>1, <1>4 DEF StartTraffic, StartPing, StartTask, OneTask, TypeOK, TrafficTypes
  <2>4. ResourceOutlivesTask' /\ CsiAtStart' /\ WaitingIsStopped' /\ TrafficOnlyWithCsi'
    BY <2>1 DEF ResourceOutlivesTask, CsiAtStart, WaitingIsStopped, TrafficOnlyWithCsi
  <2> QED BY <2>2, <2>3, <2>4
<1> QED BY <1>3, <1>4

\* A task step keeps its identity alive until the exit, which nobody else can
\* outlive.
LEMMA TaskSteps ==
  ASSUME NEW t \in Tasks, IInv, Task(t)
  PROVE  Safe'
<1> USE DEF IInv, Safe
<1>2. UNCHANGED <<mode, loop, csi, resource>> /\ (running' => running)
  BY DEF Task, TaskGoto, FindGateway, GiveUp, PollRunning, SendPacket, ExitTask
<1>3. tasks[t] # "none" /\ ~exited /\ mode # "ping"
  BY DEF Task, TaskGoto, FindGateway, GiveUp, PollRunning, SendPacket, ExitTask,
     ExitFlagHonest, PingHasNoTask
<1>4. \A u \in Tasks : u # t => tasks[u] = "none" /\ tasks'[u] = "none"
  BY <1>3 DEF OneTask, TypeOK, TrafficTypes, Task, TaskGoto, FindGateway, GiveUp, PollRunning, SendPacket, ExitTask
<1>5. ExitFlagHonest'
  <2>1. CASE ExitTask(t)
    BY <1>4, <2>1 DEF ExitTask, TaskGoto, ExitFlagHonest, TypeOK, TrafficTypes
  <2>2. CASE ~ExitTask(t)
    <3>1. exited' = exited
      BY <2>2 DEF Task, FindGateway, GiveUp, PollRunning, SendPacket
    <3> QED BY <1>3, <3>1 DEF ExitFlagHonest
  <2> QED BY <2>1, <2>2
<1>6. PingHasNoTask' /\ OneTask'
  BY <1>2, <1>3, <1>4 DEF PingHasNoTask, OneTask
<1>7. ResourceOutlivesTask'
  <2>1. tasks'[t] \in {"created", "poll", "send"} => tasks[t] \in {"created", "poll", "send"}
    BY DEF TypeOK, TrafficTypes, Task, TaskGoto, FindGateway, GiveUp, PollRunning, SendPacket, ExitTask
  <2> QED BY <1>2, <1>4, <2>1 DEF ResourceOutlivesTask
<1>8. CsiAtStart' /\ WaitingIsStopped' /\ TrafficOnlyWithCsi'
  BY <1>2 DEF CsiAtStart, WaitingIsStopped, TrafficOnlyWithCsi
<1> QED BY <1>5, <1>6, <1>7, <1>8

LEMMA Initially == Init => IInv
<1> SUFFICES ASSUME Init PROVE IInv
  OBVIOUS
<1> USE DEF Init, NoTraffic
<1>1. LinkTypes /\ SessionTypes
  BY DEF LinkTypes, SessionTypes
<1>2. TrafficTypes
  BY DEF TrafficTypes, TaskPoints
<1>3. mode \in Modes /\ LoopType /\ SawType /\ FaultsType
  BY ConstantsAssumption DEF LoopType, LoopPoints, SawType, FaultsType
<1>4. TypeOK
  BY <1>1, <1>2, <1>3 DEF TypeOK, LoopType, SawType, FaultsType
<1>5. Safe
  BY DEF Safe, ExitFlagHonest, PingHasNoTask, OneTask, ResourceOutlivesTask, CsiAtStart,
     WaitingIsStopped, TrafficOnlyWithCsi
<1> QED BY <1>4, <1>5 DEF IInv

LEMMA Inductive == IInv /\ [Next]_vars => IInv'
<1> SUFFICES ASSUME IInv, [Next]_vars PROVE IInv'
  OBVIOUS
<1>1. TypeOK'
  BY TypesKept DEF IInv
<1>2. CASE LinkEvent \/ StoreLink \/ CountEvent \/ RetryDue \/ UNCHANGED vars
  BY <1>1, <1>2, EventSteps DEF IInv
<1>3. CASE MainLoop
  BY <1>1, <1>3, SessionSteps, StopSteps, EnableSteps, StartSteps DEF MainLoop, IInv
<1>4. ASSUME NEW t \in Tasks, Task(t) PROVE IInv'
  BY <1>1, <1>4, TaskSteps DEF IInv
<1> QED BY <1>2, <1>3, <1>4 DEF Next

LEMMA Invariant == Spec => []IInv
BY Initially, Inductive, PTL DEF Spec

\* Every variable keeps the type of its field.
THEOREM TypeCorrect == Spec => []TypeOK
<1>1. IInv => TypeOK
  BY DEF IInv
<1> QED BY <1>1, Invariant, PTL

\* Two traffic tasks are never alive together.
THEOREM OneTaskHolds == Spec => []OneTask
<1>1. IInv => OneTask
  BY DEF IInv, Safe
<1> QED BY <1>1, Invariant, PTL

\* No task that may still send finds its socket, or ESP-NOW, closed.
THEOREM ResourceOutlivesTaskHolds == Spec => []ResourceOutlivesTask
<1>1. IInv => ResourceOutlivesTask
  BY DEF IInv, Safe
<1> QED BY <1>1, Invariant, PTL

\* Outside the teardown, traffic runs only while CSI is enabled.
THEOREM TrafficOnlyWithCsiHolds == Spec => []TrafficOnlyWithCsi
<1>1. IInv => TrafficOnlyWithCsi
  BY DEF IInv, Safe
<1> QED BY <1>1, Invariant, PTL
=============================================================================
