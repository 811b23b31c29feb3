------------------------ MODULE ModbusManagerProofs ------------------------
(* Type correctness of the Modbus TCP manager, and two of its safety        *)
(* properties, for every size of the counter and every list of safe mode    *)
(* registers.                                                               *)
EXTENDS ModbusManager, TLAPS

\* While safe mode is being written and nothing has interrupted it, the device
\* can be written and the registers before the next one stand at their safe
\* value.  ActivationWritesAll says so of the last moment only.
WrittenSoFar ==
  loop = "safe" /\ ~interrupted => Writable /\ \A r \in Registers : r < next => r \in safe

IInv == TypeOK /\ NoSocketLeak /\ WrittenSoFar

USE ConstantsAssumption DEF ConstantsAssumption

LEMMA InitIInv == Init => IInv
<1> SUFFICES ASSUME Init PROVE IInv
  OBVIOUS
<1>1. 0 \in Count /\ 1 \in 1..(Outputs + 1)
  BY DEF Count
<1>2. DeviceTypes
  BY <1>1, Zenon DEF Init, DeviceTypes
<1>3. ManagerTypes
  BY <1>1, Zenon DEF Init, ManagerTypes
<1>4. NoSocketLeak
  BY Zenon DEF Init, NoSocketLeak
<1>5. WrittenSoFar
  BY Zenon DEF Init, WrittenSoFar
<1> QED
  BY <1>2, <1>3, <1>4, <1>5 DEF IInv, TypeOK

LEMMA NextCountInRange == ASSUME counter \in Count PROVE NextCount \in Count
<1>1. CounterSize \in Nat /\ CounterSize > 0 /\ counter + 1 \in Nat
  BY DEF Count
<1>2. (counter + 1) % CounterSize \in 0..(CounterSize - 1)
  BY <1>1
<1> QED
  BY <1>2 DEF NextCount, Count

LEMMA StartCheckKeeps ==
  ASSUME TypeOK, NoSocketLeak, StartCheck
  PROVE  /\ check' \in {"IDLE", "CONNECTING", "CLEANUP"}
         /\ sock' \in {"none", "out", "lost"}
         /\ success' \in BOOLEAN
         /\ NoSocketLeak'
<1>1. CASE check # "IDLE"
  BY <1>1 DEF TypeOK, ManagerTypes, NoSocketLeak, StartCheck, checkVars
<1>2. CASE check = "IDLE"
  <2>1. check' \in {"CLEANUP", "CONNECTING"} /\ success' \in BOOLEAN
    BY <1>2 DEF StartCheck
  <2>2. sock' \in {"none", "out", "lost"}
    BY <1>2 DEF StartCheck
  <2>3. check' = "CONNECTING" => sock' # "none" /\ ~success'
    BY <1>2 DEF StartCheck
  <2>4. check' = "CLEANUP" /\ success' => sock' # "none"
    BY <1>2 DEF StartCheck
  <2> QED
    BY <2>1, <2>2, <2>3, <2>4 DEF NoSocketLeak
<1> QED
  BY <1>1, <1>2

LEMMA First == 0 \in Count /\ 1 \in 1..(Outputs + 1)
BY DEF Count

\* An activation that begins uninterrupted begins at the first register of a
\* device that can be written.
LEMMA ActivateKeeps ==
  ASSUME TypeOK, Activate
  PROVE  /\ loop' \in {"idle", "safe"} /\ safeMode' \in BOOLEAN
         /\ next' \in 1..(Outputs + 1) /\ interrupted' \in BOOLEAN
         /\ loop' = "safe" /\ ~interrupted' => Writable /\ next' = 1
<1>1. loop' \in {"idle", "safe"} /\ safeMode' \in BOOLEAN
  BY Zenon DEF Activate
<1>2. next' \in 1..(Outputs + 1)
  BY First, Zenon DEF Activate, TypeOK, ManagerTypes
<1>3. interrupted' \in BOOLEAN
  BY DEF Activate, TypeOK, ManagerTypes
<1>4. loop' = "safe" /\ ~interrupted' => Writable /\ next' = 1
  BY DEF Activate
<1> QED
  BY <1>1, <1>2, <1>3, <1>4

LEMMA StepIInv == IInv /\ [Next]_vars => IInv'
<1> SUFFICES ASSUME IInv, [Next]_vars PROVE IInv'
  OBVIOUS
<1> USE DEF IInv, TypeOK
<1>1. CASE NetworkChanges
  <2>1. DeviceTypes'
    BY <1>1 DEF NetworkChanges, device, checkVars, timers, watchdog, DeviceTypes
  <2>2. ManagerTypes'
    BY <1>1 DEF NetworkChanges, device, checkVars, timers, watchdog, ManagerTypes
  <2>3. NoSocketLeak'
    BY <1>1 DEF NetworkChanges, device, checkVars, timers, watchdog, NoSocketLeak
  <2>4. WrittenSoFar'
    BY <1>1 DEF NetworkChanges, device, checkVars, timers, watchdog, WrittenSoFar, Writable, Arrives, ManagerTypes, Registers
  <2> QED
    BY <2>1, <2>2, <2>3, <2>4
<1>2. CASE ProgramChanges
  <2>1. DeviceTypes'
    BY <1>2 DEF ProgramChanges, device, checkVars, timers, watchdog, DeviceTypes
  <2>2. ManagerTypes'
    BY <1>2 DEF ProgramChanges, device, checkVars, timers, watchdog, ManagerTypes
  <2>3. NoSocketLeak'
    BY <1>2 DEF ProgramChanges, device, checkVars, timers, watchdog, NoSocketLeak
  <2>4. WrittenSoFar'
    BY <1>2 DEF ProgramChanges, device, checkVars, timers, watchdog, WrittenSoFar, Writable, Arrives, ManagerTypes, Registers
  <2> QED
    BY <2>1, <2>2, <2>3, <2>4
<1>3. CASE DeviceActs
  <2>1. DeviceTypes'
    BY <1>3 DEF DeviceActs, device, checkVars, timers, watchdog, DeviceTypes
  <2>2. ManagerTypes'
    BY <1>3 DEF DeviceActs, device, checkVars, timers, watchdog, ManagerTypes
  <2>3. NoSocketLeak'
    BY <1>3 DEF DeviceActs, device, checkVars, timers, watchdog, NoSocketLeak
  <2>4. WrittenSoFar'
    BY <1>3 DEF DeviceActs, device, checkVars, timers, watchdog, WrittenSoFar, Writable, Arrives, ManagerTypes, Registers
  <2> QED
    BY <2>1, <2>2, <2>3, <2>4
<1>4. CASE DeviceRestarts
  <2>1. DeviceTypes'
    BY <1>4, First, Zenon DEF DeviceRestarts, DeviceTypes
  <2>2. ManagerTypes'
    BY <1>4 DEF DeviceRestarts, device, checkVars, timers, watchdog, ManagerTypes
  <2>3. NoSocketLeak'
    BY <1>4 DEF DeviceRestarts, device, checkVars, timers, watchdog, NoSocketLeak
  <2>4. WrittenSoFar'
    BY <1>4 DEF DeviceRestarts, device, checkVars, timers, watchdog, WrittenSoFar
  <2> QED
    BY <2>1, <2>2, <2>3, <2>4
<1>5. CASE LoopBegins
  <2>0. check' \in {"IDLE", "CONNECTING", "CLEANUP"} /\ sock' \in {"none", "out", "lost"} /\ success' \in BOOLEAN /\ NoSocketLeak'
    BY <1>5, StartCheckKeeps DEF LoopBegins, device, checkVars, timers, watchdog, NoSocketLeak, ManagerTypes
  <2>1. DeviceTypes'
    BY <1>5, <2>0 DEF LoopBegins, device, checkVars, timers, watchdog, DeviceTypes
  <2>2. ManagerTypes'
    BY <1>5, <2>0 DEF LoopBegins, device, checkVars, timers, watchdog, ManagerTypes
  <2>3. NoSocketLeak'
    BY <1>5, <2>0 DEF LoopBegins, device, checkVars, timers, watchdog, NoSocketLeak
  <2>4. WrittenSoFar'
    BY <1>5, <2>0 DEF LoopBegins, device, checkVars, timers, watchdog, WrittenSoFar, Writable, Arrives, ManagerTypes, Registers
  <2> QED
    BY <2>1, <2>2, <2>3, <2>4
<1>6. CASE NothingToCheck
  <2>1. DeviceTypes'
    BY <1>6 DEF NothingToCheck, Processed, device, checkVars, timers, watchdog, DeviceTypes
  <2>2. ManagerTypes'
    BY <1>6 DEF NothingToCheck, Processed, device, checkVars, timers, watchdog, ManagerTypes
  <2>3. NoSocketLeak'
    BY <1>6 DEF NothingToCheck, Processed, device, checkVars, timers, watchdog, NoSocketLeak
  <2>4. WrittenSoFar'
    BY <1>6 DEF NothingToCheck, Processed, device, checkVars, timers, watchdog, WrittenSoFar, Writable, Arrives, ManagerTypes, Registers
  <2> QED
    BY <2>1, <2>2, <2>3, <2>4
<1>7. CASE CheckDecided
  <2>1. DeviceTypes'
    BY <1>7 DEF CheckDecided, Processed, device, checkVars, timers, watchdog, DeviceTypes
  <2>2. ManagerTypes'
    BY <1>7 DEF CheckDecided, Processed, device, checkVars, timers, watchdog, ManagerTypes
  <2>3. NoSocketLeak'
    BY <1>7 DEF CheckDecided, Processed, device, checkVars, timers, watchdog, NoSocketLeak
  <2>4. WrittenSoFar'
    BY <1>7 DEF CheckDecided, Processed, device, checkVars, timers, watchdog, WrittenSoFar, Writable, Arrives, ManagerTypes, Registers
  <2> QED
    BY <2>1, <2>2, <2>3, <2>4
<1>8. CASE CleanUp
  <2>1. DeviceTypes'
    BY <1>8 DEF CleanUp, Processed, device, checkVars, timers, watchdog, DeviceTypes
  <2>2. ManagerTypes'
    BY <1>8 DEF CleanUp, Processed, device, checkVars, timers, watchdog, ManagerTypes
  <2>3. NoSocketLeak'
    BY <1>8 DEF CleanUp, Processed, device, checkVars, timers, watchdog, NoSocketLeak
  <2>4. WrittenSoFar'
    BY <1>8 DEF CleanUp, Processed, device, checkVars, timers, watchdog, WrittenSoFar, Writable, Arrives, ManagerTypes, Registers
  <2> QED
    BY <2>1, <2>2, <2>3, <2>4
<1>9. CASE NotDue
  <2>1. DeviceTypes'
    BY <1>9 DEF NotDue, device, checkVars, timers, watchdog, DeviceTypes
  <2>2. ManagerTypes'
    BY <1>9 DEF NotDue, device, checkVars, timers, watchdog, ManagerTypes
  <2>3. NoSocketLeak'
    BY <1>9 DEF NotDue, device, checkVars, timers, watchdog, NoSocketLeak
  <2>4. WrittenSoFar'
    BY <1>9 DEF NotDue, device, checkVars, timers, watchdog, WrittenSoFar, Writable, Arrives, ManagerTypes, Registers
  <2> QED
    BY <2>1, <2>2, <2>3, <2>4
<1>10. CASE WatchdogDisconnected
  <2>1. DeviceTypes'
    BY <1>10 DEF WatchdogDisconnected, device, checkVars, timers, watchdog, DeviceTypes
  <2>2. ManagerTypes'
    BY <1>10, ActivateKeeps DEF WatchdogDisconnected, device, checkVars, timers, watchdog, ManagerTypes
  <2>3. NoSocketLeak'
    BY <1>10 DEF WatchdogDisconnected, device, checkVars, timers, watchdog, NoSocketLeak
  <2>4. WrittenSoFar'
    <3>1. UNCHANGED <<network, refuses>>
      BY <1>10 DEF WatchdogDisconnected, device, checkVars, timers, watchdog
    <3>2. ASSUME loop' = "safe", ~interrupted' PROVE Writable /\ next' = 1
      BY <1>10, <3>2, ActivateKeeps DEF WatchdogDisconnected
    <3> QED
      BY <3>1, <3>2 DEF WrittenSoFar, Writable, Arrives, Registers
  <2> QED
    BY <2>1, <2>2, <2>3, <2>4
<1>11. CASE WatchdogWrite
  <2>0. counter' \in Count
    BY <1>11, NextCountInRange DEF WatchdogWrite, ManagerTypes
  <2>1. DeviceTypes'
    BY <1>11, <2>0 DEF WatchdogWrite, WriteSucceeds, Answered, device, checkVars, timers, watchdog, DeviceTypes
  <2>2. ManagerTypes'
    BY <1>11, <2>0, ActivateKeeps DEF WatchdogWrite, WriteSucceeds, Answered, device, checkVars, timers, watchdog, ManagerTypes
  <2>3. NoSocketLeak'
    BY <1>11 DEF WatchdogWrite, WriteSucceeds, Answered, device, checkVars, timers, watchdog, NoSocketLeak
  <2>4. WrittenSoFar'
    <3>1. UNCHANGED <<network, refuses>>
      BY <1>11 DEF WatchdogWrite, WriteSucceeds, Answered, device, checkVars, timers, watchdog
    <3>2. ASSUME loop' = "safe", ~interrupted' PROVE Writable /\ next' = 1
      BY <1>11, <3>2, ActivateKeeps DEF WatchdogWrite
    <3> QED
      BY <3>1, <3>2 DEF WrittenSoFar, Writable, Arrives, Registers
  <2> QED
    BY <2>1, <2>2, <2>3, <2>4
<1>12. CASE ReadAlive
  <2>1. DeviceTypes'
    BY <1>12 DEF ReadAlive, PauseOver, ReadSucceeds, Answered, device, checkVars, timers, watchdog, DeviceTypes
  <2>2. ManagerTypes'
    BY <1>12 DEF ReadAlive, PauseOver, ReadSucceeds, Answered, device, checkVars, timers, watchdog, ManagerTypes, DeviceTypes
  <2>3. NoSocketLeak'
    BY <1>12 DEF ReadAlive, PauseOver, ReadSucceeds, Answered, device, checkVars, timers, watchdog, NoSocketLeak
  <2>4. WrittenSoFar'
    BY <1>12 DEF ReadAlive, PauseOver, ReadSucceeds, Answered, device, checkVars, timers, watchdog, WrittenSoFar, Writable, Arrives, ManagerTypes, Registers
  <2> QED
    BY <2>1, <2>2, <2>3, <2>4
<1>13. CASE ReadFails
  <2>1. DeviceTypes'
    BY <1>13 DEF ReadFails, PauseOver, ReadSucceeds, Answered, device, checkVars, timers, watchdog, DeviceTypes
  <2>2. ManagerTypes'
    BY <1>13, ActivateKeeps DEF ReadFails, PauseOver, ReadSucceeds, Answered, device, checkVars, timers, watchdog, ManagerTypes
  <2>3. NoSocketLeak'
    BY <1>13 DEF ReadFails, PauseOver, ReadSucceeds, Answered, device, checkVars, timers, watchdog, NoSocketLeak
  <2>4. WrittenSoFar'
    <3>1. UNCHANGED <<network, refuses>>
      BY <1>13 DEF ReadFails, PauseOver, ReadSucceeds, Answered, device, checkVars, timers, watchdog
    <3>2. ASSUME loop' = "safe", ~interrupted' PROVE Writable /\ next' = 1
      BY <1>13, <3>2, ActivateKeeps DEF ReadFails
    <3> QED
      BY <3>1, <3>2 DEF WrittenSoFar, Writable, Arrives, Registers
  <2> QED
    BY <2>1, <2>2, <2>3, <2>4
<1>14. CASE WriteSafeValue
  <2>1. DeviceTypes'
    BY <1>14 DEF WriteSafeValue, WriteSucceeds, Answered, device, checkVars, timers, watchdog, DeviceTypes
  <2>2. ManagerTypes'
    <3>1. next' \in 1..(Outputs + 1)
      BY <1>14 DEF WriteSafeValue, Registers
    <3> QED
      BY <1>14, <3>1, Zenon DEF WriteSafeValue, WriteSucceeds, Answered, checkVars, timers, ManagerTypes
  <2>3. NoSocketLeak'
    BY <1>14 DEF WriteSafeValue, WriteSucceeds, Answered, device, checkVars, timers, watchdog, NoSocketLeak
  <2>4. WrittenSoFar'
    BY <1>14 DEF WriteSafeValue, WriteSucceeds, Answered, device, checkVars, timers, watchdog, WrittenSoFar, Writable, Arrives, ManagerTypes, Registers
  <2> QED
    BY <2>1, <2>2, <2>3, <2>4
<1>15. CASE SafeModeWritten
  <2>1. DeviceTypes'
    BY <1>15 DEF SafeModeWritten, device, checkVars, timers, watchdog, DeviceTypes
  <2>2. ManagerTypes'
    BY <1>15, First, Zenon DEF SafeModeWritten, device, checkVars, timers, ManagerTypes
  <2>3. NoSocketLeak'
    BY <1>15 DEF SafeModeWritten, device, checkVars, timers, watchdog, NoSocketLeak
  <2>4. WrittenSoFar'
    BY <1>15 DEF SafeModeWritten, device, checkVars, timers, watchdog, WrittenSoFar, Writable, Arrives, ManagerTypes, Registers
  <2> QED
    BY <2>1, <2>2, <2>3, <2>4
<1>16. CASE SensorDisconnected
  <2>0. check' \in {"IDLE", "CONNECTING", "CLEANUP"} /\ sock' \in {"none", "out", "lost"} /\ success' \in BOOLEAN /\ NoSocketLeak'
    BY <1>16, StartCheckKeeps DEF SensorDisconnected, device, checkVars, timers, watchdog, NoSocketLeak, ManagerTypes
  <2>1. DeviceTypes'
    BY <1>16, <2>0 DEF SensorDisconnected, device, checkVars, timers, watchdog, DeviceTypes
  <2>2. ManagerTypes'
    BY <1>16, <2>0 DEF SensorDisconnected, device, checkVars, timers, watchdog, ManagerTypes
  <2>3. NoSocketLeak'
    BY <1>16, <2>0 DEF SensorDisconnected, device, checkVars, timers, watchdog, NoSocketLeak
  <2>4. WrittenSoFar'
    BY <1>16, <2>0 DEF SensorDisconnected, device, checkVars, timers, watchdog, WrittenSoFar, Writable, Arrives, ManagerTypes, Registers
  <2> QED
    BY <2>1, <2>2, <2>3, <2>4
<1>17. CASE SensorReads
  <2>1. DeviceTypes'
    BY <1>17 DEF SensorReads, ReadSucceeds, Answered, device, checkVars, timers, watchdog, DeviceTypes
  <2>2. ManagerTypes'
    BY <1>17 DEF SensorReads, ReadSucceeds, Answered, device, checkVars, timers, watchdog, ManagerTypes
  <2>3. NoSocketLeak'
    BY <1>17 DEF SensorReads, ReadSucceeds, Answered, device, checkVars, timers, watchdog, NoSocketLeak
  <2>4. WrittenSoFar'
    BY <1>17 DEF SensorReads, ReadSucceeds, Answered, device, checkVars, timers, watchdog, WrittenSoFar, Writable, Arrives, ManagerTypes, Registers
  <2> QED
    BY <2>1, <2>2, <2>3, <2>4
<1>18. ASSUME NEW first \in Registers, NEW last \in Registers, Command(first, last) PROVE IInv'
  <2>1. DeviceTypes'
    BY <1>18 DEF Command, WriteSucceeds, Answered, device, checkVars, timers, watchdog, DeviceTypes
  <2>2. ManagerTypes'
    BY <1>18 DEF Command, WriteSucceeds, Answered, device, checkVars, timers, watchdog, ManagerTypes
  <2>3. NoSocketLeak'
    BY <1>18 DEF Command, WriteSucceeds, Answered, device, checkVars, timers, watchdog, NoSocketLeak
  <2>4. WrittenSoFar'
    BY <1>18 DEF Command, WriteSucceeds, Answered, device, checkVars, timers, watchdog, WrittenSoFar, Writable, Arrives, ManagerTypes, Registers
  <2> QED
    BY <2>1, <2>2, <2>3, <2>4
<1>19. CASE CheckElapses
  <2>1. DeviceTypes'
    BY <1>19 DEF CheckElapses, device, checkVars, timers, watchdog, DeviceTypes
  <2>2. ManagerTypes'
    BY <1>19 DEF CheckElapses, device, checkVars, timers, watchdog, ManagerTypes
  <2>3. NoSocketLeak'
    BY <1>19 DEF CheckElapses, device, checkVars, timers, watchdog, NoSocketLeak
  <2>4. WrittenSoFar'
    BY <1>19 DEF CheckElapses, device, checkVars, timers, watchdog, WrittenSoFar, Writable, Arrives, ManagerTypes, Registers
  <2> QED
    BY <2>1, <2>2, <2>3, <2>4
<1>20. CASE WatchdogElapses
  <2>1. DeviceTypes'
    BY <1>20 DEF WatchdogElapses, device, checkVars, timers, watchdog, DeviceTypes
  <2>2. ManagerTypes'
    BY <1>20 DEF WatchdogElapses, device, checkVars, timers, watchdog, ManagerTypes
  <2>3. NoSocketLeak'
    BY <1>20 DEF WatchdogElapses, device, checkVars, timers, watchdog, NoSocketLeak
  <2>4. WrittenSoFar'
    BY <1>20 DEF WatchdogElapses, device, checkVars, timers, watchdog, WrittenSoFar, Writable, Arrives, ManagerTypes, Registers
  <2> QED
    BY <2>1, <2>2, <2>3, <2>4
<1>21. CASE UNCHANGED vars
  <2>1. DeviceTypes'
    BY <1>21 DEF vars, device, checkVars, timers, watchdog, DeviceTypes
  <2>2. ManagerTypes'
    BY <1>21 DEF vars, device, checkVars, timers, watchdog, ManagerTypes
  <2>3. NoSocketLeak'
    BY <1>21 DEF vars, device, checkVars, timers, watchdog, NoSocketLeak
  <2>4. WrittenSoFar'
    BY <1>21 DEF vars, device, checkVars, timers, watchdog, WrittenSoFar, Writable, Arrives, ManagerTypes, Registers
  <2> QED
    BY <2>1, <2>2, <2>3, <2>4
<1> QED
  BY <1>1, <1>2, <1>3, <1>4, <1>5, <1>6, <1>7, <1>8, <1>9, <1>10, <1>11, <1>12, <1>13, <1>14, <1>15, <1>16, <1>17, <1>18, <1>19, <1>20, <1>21 DEF Next, Loop

\* Every variable of the manager keeps its type; the counter wraps.
THEOREM TypeCorrect == Spec => []TypeOK
<1>1. IInv => TypeOK
  BY DEF IInv
<1> QED
  BY <1>1, InitIInv, StepIInv, PTL DEF Spec

\* Every connection check ends with its socket closed, whoever started it.
THEOREM NoSocketLeakHolds == Spec => []NoSocketLeak
<1>1. IInv => NoSocketLeak
  BY DEF IInv
<1> QED
  BY <1>1, InitIInv, StepIInv, PTL DEF Spec

\* An activation of safe mode that nothing interrupts reaches every output,
\* however many are configured.
THEOREM ActivationWritesAllHolds == Spec => []ActivationWritesAll
<1>1. IInv => ActivationWritesAll
  <2> SUFFICES ASSUME IInv, loop = "safe", next > Outputs, ~interrupted PROVE safe = Registers
    BY DEF ActivationWritesAll
  <2>1. safe \subseteq Registers /\ next \in 1..(Outputs + 1)
    BY DEF IInv, TypeOK, DeviceTypes, ManagerTypes
  <2>2. \A r \in Registers : r < next
    BY <2>1 DEF Registers
  <2>3. \A r \in Registers : r \in safe
    BY <2>2 DEF IInv, WrittenSoFar
  <2> QED
    BY <2>1, <2>3
<1> QED
  BY <1>1, InitIInv, StepIInv, PTL DEF Spec
=============================================================================
