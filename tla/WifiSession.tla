---------------------------- MODULE WifiSession ----------------------------
(***************************************************************************)
(* The sensing session of the espectre component and the traffic generator *)
(* it drives.  Three threads share the state: the system event task        *)
(* records that the WiFi link came up or went down, the main loop turns    *)
(* these records into starting and stopping CSI and traffic, and every     *)
(* traffic task polls a flag, sends, and announces its own exit.           *)
(* One action is one access to an atomic of the program, or a stretch of   *)
(* code between two such accesses that no other thread can observe.        *)
(***************************************************************************)
EXTENDS Naturals

CONSTANTS
  Tasks,      \* identities for traffic tasks; a finished one may be reused
  Modes,      \* the traffic modes a configuration may choose
  MaxFaults   \* bound: how many platform calls may fail in a behaviour

ASSUME ConstantsAssumption ==
  /\ Modes \subseteq {"dns", "udp", "espnow", "ping"}
  /\ MaxFaults \in Nat

VARIABLES
  mode,           \* the configured mode, fixed
  gateway,        \* the network interface has an address and a gateway
  handler,        \* where the event task is in its callback
  linkUp,         \* wifi_link_up_
  newDisconnect,  \* wifi_disconnect_seq_ differs from seen_disconnect_seq_
  newConnect,     \* wifi_connect_seq_ differs from seen_connect_seq_
  loop,           \* where the main loop is
  saw,            \* what process_wifi_events_ has loaded in this iteration
  session,        \* wifi_session_active_
  retryWait,      \* wifi_connect_retry_ms_ lies in the future
  csi,            \* csi_manager_.enabled_
  ready,          \* ready_to_publish_
  running,        \* traffic_generator_.running_
  exited,         \* traffic_generator_.task_exited_
  resource,       \* the socket, the ping session or ESP-NOW is open
  tasks,          \* where each traffic task is
  faults          \* platform calls that have failed so far

link == <<gateway, handler, linkUp, newDisconnect, newConnect>>
sessionVars == <<session, retryWait, csi, ready>>
traffic == <<running, exited, resource, tasks>>
vars == <<mode, link, loop, saw, sessionVars, traffic, faults>>

LoopPoints ==
  {"idle", "loadConnect", "disconnected", "stop", "wait", "ended", "connect",
   "enable", "traffic", "start", "started", "failed"}
TaskPoints == {"none", "created", "noGateway", "poll", "send", "leave"}
NothingSeen == [disconnect |-> FALSE, connect |-> FALSE]

Alive(t) == tasks[t] # "none"

\* TrafficGeneratorManager::init
NoTraffic ==
  /\ running = FALSE /\ exited = TRUE /\ resource = FALSE
  /\ tasks = [t \in Tasks |-> "none"]

Init ==
  /\ mode \in Modes
  /\ gateway = FALSE /\ handler = "idle" /\ linkUp = FALSE
  /\ newDisconnect = FALSE /\ newConnect = FALSE
  /\ loop = "idle" /\ saw = NothingSeen
  /\ session = FALSE /\ retryWait = FALSE /\ csi = FALSE /\ ready = FALSE
  /\ NoTraffic
  /\ faults = 0

---------------------------------------------------------------------------
(* The system event task.                                                  *)

\* The platform gains or loses its address and calls the registered handler.
\* It may report the same direction twice: a renewed lease, a failed attempt
\* to reconnect.
LinkEvent ==
  /\ handler = "idle"
  /\ gateway' \in BOOLEAN
  /\ handler' = "called"
  /\ UNCHANGED <<mode, linkUp, newDisconnect, newConnect, loop, saw, sessionVars, traffic, faults>>

\* Both handlers first store the link state ...
StoreLink ==
  /\ handler = "called"
  /\ linkUp' = gateway
  /\ handler' = "stored"
  /\ UNCHANGED <<mode, gateway, newDisconnect, newConnect, loop, saw, sessionVars, traffic, faults>>

\* ... and then advance the sequence number of their event.
CountEvent ==
  /\ handler = "stored"
  /\ newConnect' = (gateway \/ newConnect)
  /\ newDisconnect' = (~gateway \/ newDisconnect)
  /\ handler' = "idle"
  /\ UNCHANGED <<mode, gateway, linkUp, loop, saw, sessionVars, traffic, faults>>

---------------------------------------------------------------------------
(* The main loop: process_wifi_events_, on_wifi_connected_,                *)
(* on_wifi_disconnected_ and the start and stop calls they make.           *)

Goto(here, there) == loop = here /\ loop' = there

Fault == faults < MaxFaults /\ faults' = faults + 1
NoFault == UNCHANGED faults

LoadDisconnect ==
  /\ Goto("idle", "loadConnect")
  /\ saw' = [saw EXCEPT !.disconnect = newDisconnect]
  /\ newDisconnect' = FALSE
  /\ UNCHANGED <<mode, gateway, handler, linkUp, newConnect, sessionVars, traffic, faults>>

LoadConnect ==
  /\ Goto("loadConnect", "disconnected")
  /\ saw' = [saw EXCEPT !.connect = newConnect]
  /\ newConnect' = FALSE
  /\ UNCHANGED <<mode, gateway, handler, linkUp, newDisconnect, sessionVars, traffic, faults>>

DisableCsi ==
  \/ csi' = FALSE /\ NoFault
  \/ csi /\ Fault /\ UNCHANGED csi

\* Mutant: only an active session is torn down, not one that a new address has reset.
HandleDisconnectActiveOnly ==
  \/ /\ ~(saw.disconnect /\ session)
     /\ Goto("disconnected", "connect")
     /\ UNCHANGED <<mode, link, saw, sessionVars, traffic, faults>>
  \/ /\ saw.disconnect /\ session
     /\ Goto("disconnected", "stop")
     /\ csi' = FALSE
     /\ UNCHANGED <<mode, link, saw, session, retryWait, ready, traffic, faults>>

\* A new disconnect ends the session.  There is something to tear down when a
\* session is active or CSI is still enabled; that CSI could not be disabled is
\* ignored.
HandleDisconnect ==
  \/ /\ ~saw.disconnect
     /\ Goto("disconnected", "connect")
     /\ UNCHANGED <<mode, link, saw, sessionVars, traffic, faults>>
  \/ /\ saw.disconnect /\ ~session /\ ~csi
     /\ Goto("disconnected", "connect")
     /\ UNCHANGED <<mode, link, saw, sessionVars, traffic, faults>>
  \/ /\ saw.disconnect /\ (session \/ csi)
     /\ Goto("disconnected", "stop")
     /\ DisableCsi
     /\ UNCHANGED <<mode, link, saw, session, retryWait, ready, traffic>>

\* The ping session is deleted on the spot, every other mode waits for its task.
StopPing == mode = "ping" /\ loop' = "ended" /\ resource' = FALSE
StopTask == mode # "ping" /\ loop' = "wait" /\ UNCHANGED resource

\* stop() returns at once when nothing is left to release; it does not look at
\* ESP-NOW for that.  Otherwise it clears running_.
StopTraffic ==
  /\ loop = "stop"
  /\ IF ~running /\ exited /\ (mode = "espnow" \/ ~resource)
     THEN loop' = "ended" /\ UNCHANGED <<running, resource>>
     ELSE running' = FALSE /\ (StopPing \/ StopTask)
  /\ UNCHANGED <<mode, link, saw, sessionVars, exited, tasks, faults>>

\* The bounded wait sees the exit flag and the resource is released ...
TaskGone ==
  /\ Goto("wait", "ended") /\ exited
  /\ resource' = FALSE
  /\ UNCHANGED <<mode, link, saw, sessionVars, running, exited, tasks, faults>>

\* Mutant: the resource is released although the wait ran out.
WaitTimesOutReleases ==
  /\ Goto("wait", "ended") /\ ~exited
  /\ resource' = FALSE
  /\ UNCHANGED <<mode, link, saw, sessionVars, running, exited, tasks, faults>>

\* ... or it runs out and the resource stays with the task.
WaitTimesOut ==
  /\ Goto("wait", "ended") /\ ~exited
  /\ UNCHANGED <<mode, link, saw, sessionVars, traffic, faults>>

\* Mutant: the teardown forgets that the session is over.
SessionEndedKept ==
  /\ Goto("ended", "connect")
  /\ ready' = FALSE
  /\ UNCHANGED <<mode, link, saw, session, retryWait, csi, traffic, faults>>

SessionEnded ==
  /\ Goto("ended", "connect")
  /\ ready' = FALSE /\ session' = FALSE
  /\ UNCHANGED <<mode, link, saw, retryWait, csi, traffic, faults>>

\* A new address starts over at once; without one, connecting is attempted only
\* when no session is active and the retry time has come.
HandleConnect ==
  /\ loop = "connect"
  /\ LET active == session /\ ~saw.connect
         waiting == retryWait /\ ~saw.connect
     IN /\ session' = active
        /\ retryWait' = waiting
        /\ loop' = IF ~active /\ linkUp /\ ~waiting THEN "enable" ELSE "idle"
  /\ saw' = NothingSeen
  /\ UNCHANGED <<mode, link, csi, ready, traffic, faults>>

\* ESP-NOW and its broadcast peer, both or none.
OpenEspNow ==
  \/ resource' = TRUE /\ NoFault
  \/ Fault /\ UNCHANGED resource

\* pre_init() prepares ESP-NOW before CSI; its failure is not looked at.
PreInit ==
  \/ mode = "espnow" /\ ~resource /\ OpenEspNow
  \/ /\ ~(mode = "espnow" /\ ~resource)
     /\ NoFault /\ UNCHANGED resource

EnableCsi ==
  /\ Goto("enable", "traffic")
  /\ PreInit
  /\ csi' = TRUE
  /\ UNCHANGED <<mode, link, saw, session, retryWait, ready, running, exited, tasks>>

EnableFails ==
  /\ Goto("enable", "failed")
  /\ ~csi /\ Fault
  /\ \/ UNCHANGED resource
     \/ mode = "espnow" /\ resource' = TRUE
  /\ UNCHANGED <<mode, link, saw, sessionVars, running, exited, tasks>>

\* Traffic that is already running is left alone.
CheckRunning ==
  /\ loop = "traffic"
  /\ loop' = IF running THEN "started" ELSE "start"
  /\ UNCHANGED <<mode, link, saw, sessionVars, traffic, faults>>

\* get_gateway_ip: only these two modes ask for it.
GatewayKnown == mode \in {"dns", "ping"} => gateway

\* Mutant: start() does not look at the exit flag.
MayStartUnchecked == GatewayKnown

\* A previous task that has not announced its exit forbids a new one; DNS and
\* ping need the gateway's address.
MayStart == exited /\ GatewayKnown

StartRefused ==
  /\ Goto("start", "failed")
  /\ ~MayStart
  /\ UNCHANGED <<mode, link, saw, sessionVars, traffic, faults>>

\* Opening the socket, ESP-NOW or the ping session fails, or the task cannot be
\* created: whatever was open, also what a stop that timed out left, is closed.
\* ESP-NOW that is already initialised does not have to be opened.
StartFails ==
  /\ Goto("start", "failed")
  /\ MayStart /\ Fault
  /\ resource' = FALSE
  /\ UNCHANGED <<mode, link, saw, sessionVars, running, exited, tasks>>

StartPing == mode = "ping" /\ UNCHANGED <<exited, tasks>>
StartTask ==
  /\ mode # "ping"
  /\ exited' = FALSE
  /\ \E t \in Tasks : ~Alive(t) /\ tasks' = [tasks EXCEPT ![t] = "created"]

StartTraffic ==
  /\ Goto("start", "started")
  /\ MayStart
  /\ resource' = TRUE
  /\ running' = TRUE
  /\ StartPing \/ StartTask
  /\ UNCHANGED <<mode, link, saw, sessionVars, faults>>

Connected ==
  /\ Goto("started", "idle")
  /\ ready' = TRUE /\ session' = TRUE /\ retryWait' = FALSE
  /\ UNCHANGED <<mode, link, saw, csi, traffic, faults>>

ConnectFailed ==
  /\ Goto("failed", "idle")
  /\ retryWait' = TRUE
  /\ UNCHANGED <<mode, link, saw, session, csi, ready, traffic, faults>>

MainLoop ==
  \/ LoadDisconnect \/ LoadConnect
  \/ HandleDisconnect \/ StopTraffic \/ TaskGone \/ WaitTimesOut \/ SessionEnded
  \/ HandleConnect \/ EnableCsi \/ EnableFails \/ CheckRunning
  \/ StartRefused \/ StartFails \/ StartTraffic \/ Connected \/ ConnectFailed

\* WIFI_CONNECT_RETRY_MS passes.
RetryDue ==
  /\ retryWait /\ retryWait' = FALSE
  /\ UNCHANGED <<mode, link, loop, saw, session, csi, ready, traffic, faults>>

---------------------------------------------------------------------------
(* A traffic task.                                                         *)

TaskGoto(t, here, there) ==
  /\ tasks[t] = here
  /\ tasks' = [tasks EXCEPT ![t] = there]
  /\ UNCHANGED <<mode, link, loop, saw, sessionVars, resource, faults>>

\* The DNS task looks the gateway up again.
FindGateway(t) ==
  /\ \/ (mode = "dns" => gateway) /\ TaskGoto(t, "created", "poll")
     \/ mode = "dns" /\ ~gateway /\ TaskGoto(t, "created", "noGateway")
  /\ UNCHANGED <<running, exited>>

GiveUp(t) ==
  /\ TaskGoto(t, "noGateway", "leave")
  /\ running' = FALSE
  /\ UNCHANGED exited

PollRunning(t) ==
  /\ \/ running /\ TaskGoto(t, "poll", "send")
     \/ ~running /\ TaskGoto(t, "poll", "leave")
  /\ UNCHANGED <<running, exited>>

SendPacket(t) ==
  /\ TaskGoto(t, "send", "poll")
  /\ UNCHANGED <<running, exited>>

ExitTask(t) ==
  /\ TaskGoto(t, "leave", "none")
  /\ exited' = TRUE
  /\ UNCHANGED running

Task(t) == FindGateway(t) \/ GiveUp(t) \/ PollRunning(t) \/ SendPacket(t) \/ ExitTask(t)

Next ==
  \/ LinkEvent \/ StoreLink \/ CountEvent
  \/ MainLoop \/ RetryDue
  \/ \E t \in Tasks : Task(t)

Spec == Init /\ [][Next]_vars

\* The scheduler runs every thread and the clock advances; nothing obliges the
\* link to change.
Fairness ==
  /\ WF_vars(StoreLink) /\ WF_vars(CountEvent)
  /\ WF_vars(MainLoop) /\ WF_vars(RetryDue)
  /\ \A t \in Tasks : WF_vars(Task(t))

FairSpec == Spec /\ Fairness

---------------------------------------------------------------------------
(* Properties.                                                             *)

LinkTypes ==
  /\ handler \in {"idle", "called", "stored"}
  /\ gateway \in BOOLEAN /\ linkUp \in BOOLEAN
  /\ newDisconnect \in BOOLEAN /\ newConnect \in BOOLEAN
SessionTypes ==
  /\ session \in BOOLEAN /\ retryWait \in BOOLEAN
  /\ csi \in BOOLEAN /\ ready \in BOOLEAN
TrafficTypes ==
  /\ running \in BOOLEAN /\ exited \in BOOLEAN /\ resource \in BOOLEAN
  /\ tasks \in [Tasks -> TaskPoints]

\* Every variable has the type of the field it stands for.
TypeOK ==
  /\ mode \in Modes
  /\ loop \in LoopPoints
  /\ saw \in [disconnect : BOOLEAN, connect : BOOLEAN]
  /\ LinkTypes
  /\ SessionTypes
  /\ TrafficTypes
  /\ faults \in 0..MaxFaults

\* A link that drops and returns, a stop that times out and a retry never leave
\* two traffic tasks alive: the second would send on the first one's socket and
\* either one's exit flag would vouch for both.
OneTask == \A t, u \in Tasks : Alive(t) /\ Alive(u) => t = u

\* While a task may still send, what it sends with is open: stop() and the next
\* start() close it only once the task has announced its exit.
ResourceOutlivesTask ==
  \A t \in Tasks : tasks[t] \in {"created", "poll", "send"} => resource

\* Outside the teardown, traffic runs only while CSI is enabled: a failed
\* attempt to enable it, or a teardown that was skipped, leaves no generator
\* running that no disconnect would stop.
TrafficOnlyWithCsi == running /\ loop \notin {"stop", "wait"} => csi

\* Packets are being sent and their measurements published.
Sensing ==
  /\ csi /\ ready /\ running
  /\ mode # "ping" => \E t \in Tasks : tasks[t] \in {"poll", "send"}

\* If the link is up for good, sensing is eventually on for good, whatever
\* drops, timeouts, early task exits and failed calls came before.
StableLinkIsSensed == <>[]gateway => <>[]Sensing

\* If the link is down for good, nothing is published, the traffic flag is off
\* and every traffic task is gone.
LostLinkGoesQuiet == <>[]~gateway => <>[](~ready /\ ~running /\ \A t \in Tasks : ~Alive(t))
=============================================================================
