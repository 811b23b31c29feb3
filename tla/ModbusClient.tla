---------------------------- MODULE ModbusClient ----------------------------
(***************************************************************************)
(* The Modbus-TCP client of the repository: the command queues of the      *)
(* ModbusTCPController instances (components/modbustcp_controller) and the *)
(* transport they share, ModbusTCP (components/modbustcp), on its TCP      *)
(* path.                                                                   *)
(*                                                                         *)
(* ESPHome runs everything on one cooperative main loop.  One pass calls   *)
(* the transport's loop() and then each controller's loop(); "turn" says   *)
(* who is next, and every loop() is one step.  update() is called by the   *)
(* scheduler at the top of a pass.  Commands of switches and automations   *)
(* may be queued between any two loop() calls.  The network is not         *)
(* synchronised with the loop.                                             *)
(*                                                                         *)
(* A command is a record [key, payload].  The key stands for the function  *)
(* code, register type, address and count; a payload is a model value.     *)
(* Times are abstracted to the flag "throttled" (command_throttle_ has not *)
(* passed since the last send).  Every factory of a command installs a     *)
(* response handler, so the branch for commands without one is left out.   *)
(***************************************************************************)
EXTENDS Naturals, Sequences, FiniteSets

CONSTANTS
  NumControllers,   \* ModbusTCPController instances sharing the transport
  ReadKeys,         \* read commands
  WriteKeys,        \* write commands
  CustomKeys,       \* custom commands, transmitted with send_raw
  OversizeKeys,     \* more entities than MAX_VALUES: send() refuses them
  SplitKeys,        \* the reply takes two read() calls (over 256 bytes)
  Payloads,         \* non-empty payloads of write and custom commands
  BlockingPayloads, \* the payloads whose first byte is not zero
  NoPayload,        \* the empty payload
  UserCommands,     \* commands that switches and automations may queue
  NumRanges,        \* number of register ranges of a controller
  RangeCommand,     \* the command that polls a range
  SkipUpdates,      \* skip_updates of a range
  OfflineSkip,      \* offline_skip_updates_
  MaxRetries,       \* max_cmd_retries_
  CountModulus,     \* send_count_ wraps here (256 for its uint8_t)
  AllowDuplicates,  \* allow_duplicate_commands_
  MaxQueue,         \* bound of the model: longest command queue
  NoRequest         \* nothing is outstanding on the connection

Controllers == 1..NumControllers
Ranges == 1..NumRanges
Keys == ReadKeys \cup WriteKeys \cup CustomKeys
Commands == [key : Keys, payload : Payloads \cup {NoPayload}]

\* A request on the wire and the server's reply to it.
Requests == [ctl : Controllers, key : Keys, payload : Payloads \cup {NoPayload},
             reply : {"none", "data", "exception"}]

ASSUME ConstantsAssumption ==
  /\ NumControllers \in Nat \ {0}
  /\ NumRanges \in Nat
  /\ RangeCommand \in [Ranges -> Commands]
  /\ SkipUpdates \in [Ranges -> Nat]
  /\ OfflineSkip \in Nat
  /\ CountModulus \in Nat \ {0}
  /\ MaxRetries \in 0..(CountModulus - 1)
  /\ AllowDuplicates \in BOOLEAN
  /\ MaxQueue \in Nat
  /\ UserCommands \subseteq Commands
  /\ BlockingPayloads \subseteq Payloads

\* A command with a read key has no payload, and only custom commands match
\* a command with another key.
ASSUME CommandsAssumption ==
  /\ NoPayload \notin Payloads
  /\ NoRequest \notin Requests
  /\ CustomKeys \cap (ReadKeys \cup WriteKeys) = {}
  /\ \A cmd \in UserCommands \cup {RangeCommand[r] : r \in Ranges} :
       cmd.key \in ReadKeys => cmd.payload = NoPayload
  /\ \A r \in Ranges : RangeCommand[r].key \in ReadKeys \cup CustomKeys

VARIABLES
  queue,      \* command_queue_ of each controller
  incoming,   \* incoming_queue_ of each controller
  skip,       \* skip_updates_counter of each range
  offline,    \* module_offline_
  throttled,  \* millis() - last_command_timestamp_ <= command_throttle_
  waiting,    \* ModbusTCP::waiting_for_response is not zero
  request,    \* what is outstanding on the TCP connection
  turn        \* whose loop() is next: 0 the transport, c a controller

vars == <<queue, incoming, skip, offline, throttled, waiting, request, turn>>
-----------------------------------------------------------------------------
\* ModbusCommandItem: what was asked for, and send_count_.
Items == [key : Keys, payload : Payloads \cup {NoPayload}, sent : 0..(CountModulus - 1)]

\* The item a response was moved into, and the request the response is about:
\* controller and key, or controller 0 for the rest of a reply read in two.
Answers == [key : Keys, about : (0..NumControllers) \X Keys]

TypeOK ==
  /\ queue \in [Controllers -> Seq(Items)]
  /\ incoming \in [Controllers -> Seq(Answers)]
  /\ skip \in [Controllers -> [Ranges -> Nat]]
  /\ offline \in [Controllers -> BOOLEAN]
  /\ throttled \in [Controllers -> BOOLEAN]
  /\ waiting \in BOOLEAN
  /\ request \in Requests \cup {NoRequest}
  /\ turn \in 0..NumControllers
-----------------------------------------------------------------------------
Init ==
  /\ queue = [c \in Controllers |-> <<>>]
  /\ incoming = [c \in Controllers |-> <<>>]
  /\ skip = [c \in Controllers |-> [r \in Ranges |-> 0]]
  /\ offline = [c \in Controllers |-> FALSE]
  /\ throttled = [c \in Controllers |-> TRUE]
  /\ waiting = FALSE
  /\ request = NoRequest
  /\ turn = 0

NewItem(cmd) == [key |-> cmd.key, payload |-> cmd.payload, sent |-> 0]

\* ModbusCommandItem::is_equal, asymmetric as in the code.
IsEqual(item, cmd) ==
  IF item.key \in CustomKeys THEN item.payload = cmd.payload
                             ELSE item.key = cmd.key

Queued(c, cmd) == \E i \in DOMAIN queue[c] : IsEqual(queue[c][i], cmd)

-----------------------------------------------------------------------------
(* Commands from switches and automations.                                 *)

\* Mutant: some equal item is updated instead of the first.
ReplacePayloadAny(c, cmd) ==
  /\ ~AllowDuplicates
  /\ \E i \in DOMAIN queue[c] :
       /\ IsEqual(queue[c][i], cmd)
       /\ queue' = [queue EXCEPT ![c][i].payload = cmd.payload]

\* queue_command, first loop: the payload of the first equal item is replaced.
ReplacePayload(c, cmd) ==
  /\ ~AllowDuplicates
  /\ \E i \in DOMAIN queue[c] :
       /\ IsEqual(queue[c][i], cmd)
       /\ \A j \in 1..(i - 1) : ~IsEqual(queue[c][j], cmd)
       /\ queue' = [queue EXCEPT ![c][i].payload = cmd.payload]

\* queue_command: no equal item, or duplicates are allowed.
PushBack(c, cmd) ==
  /\ AllowDuplicates \/ ~Queued(c, cmd)
  /\ Len(queue[c]) < MaxQueue
  /\ queue' = [queue EXCEPT ![c] = Append(@, NewItem(cmd))]

QueueCommand(c, cmd) ==
  /\ ReplacePayload(c, cmd) \/ PushBack(c, cmd)
  /\ UNCHANGED <<incoming, skip, offline, throttled, waiting, request, turn>>

-----------------------------------------------------------------------------
(* update(): poll the register ranges, in order.                           *)

Due(c) == {r \in Ranges : skip[c][r] = 0}

\* The due ranges whose command really joins the queue.  A command equal to a
\* queued one, or to that of an earlier due range, only replaces a payload by
\* the same payload.
Joining(c) ==
  {r \in Due(c) :
     \/ AllowDuplicates
     \/ /\ ~Queued(c, RangeCommand[r])
        /\ \A s \in Due(c) : s < r => ~IsEqual(RangeCommand[s], RangeCommand[r])}

\* The sequences (there is one) that list a set of ranges in order.
Listings(R) ==
  {s \in UNION {[1..n -> Ranges] : n \in 0..NumRanges} :
     /\ {s[i] : i \in DOMAIN s} = R
     /\ \A i, j \in DOMAIN s : i < j => s[i] < s[j]}

\* Mutant: the counter is never counted down.
NextSkipStuck(n, r) == IF n = 0 THEN SkipUpdates[r] ELSE n

\* update_range_: reload the counter of a polled range, count down the others.
NextSkip(n, r) == IF n = 0 THEN SkipUpdates[r] ELSE n - 1

Update(c) ==
  /\ turn = 0
  /\ \E s \in Listings(Joining(c)) :
       /\ Len(queue[c]) + Len(s) <= MaxQueue
       /\ queue' = [queue EXCEPT
            ![c] = @ \o [i \in DOMAIN s |-> NewItem(RangeCommand[s[i]])]]
  /\ skip' = [skip EXCEPT ![c] = [r \in Ranges |-> NextSkip(@[r], r)]]
  /\ UNCHANGED <<incoming, offline, throttled, waiting, request, turn>>

-----------------------------------------------------------------------------
(* loop() of a controller.                                                 *)

\* loop(): hand the oldest response to its handler.
ProcessResponse(c) ==
  /\ incoming[c] # <<>>
  /\ incoming' = [incoming EXCEPT ![c] = Tail(@)]
  /\ UNCHANGED <<queue, skip, offline, throttled, waiting, request>>

\* The guard of send_next_command_.
MaySend(c) == ~throttled[c] /\ ~waiting /\ queue[c] # <<>>

ShouldRetryAlways(item) == TRUE

\* should_retry
ShouldRetry(item) == item.sent <= MaxRetries

\* ModbusTCP::send: client.connect() replaces the connection, and with it any
\* reply that has not been read; a refused connect may leave the old one open.
Transmit(c, item) ==
  IF item.key \in OversizeKeys
    THEN UNCHANGED request
    ELSE request' \in {[ctl |-> c, key |-> item.key, payload |-> item.payload,
                        reply |-> "none"],
                       request, NoRequest}

\* ModbusTCP::send_raw: nothing is written, only waiting_for_response is set.
SendRaw(item) ==
  waiting' = IF item.payload = NoPayload THEN waiting
                                         ELSE item.payload \in BlockingPayloads

\* send_next_command_: (re)send the first command.
Send(c) ==
  LET item == Head(queue[c]) IN
  /\ MaySend(c) /\ ShouldRetry(item)
  /\ \/ /\ item.key \in CustomKeys
        /\ SendRaw(item)
        /\ UNCHANGED request
     \/ /\ item.key \notin CustomKeys
        /\ Transmit(c, item)
        /\ UNCHANGED waiting
  /\ queue' = [queue EXCEPT ![c][1].sent = (@ + 1) % CountModulus]
  /\ throttled' = [throttled EXCEPT ![c] = TRUE]
  /\ UNCHANGED <<incoming, skip, offline>>

\* Mutant: only an unanswered read takes the module offline.
MarkOfflineReadsOnly(c) ==
  [offline EXCEPT ![c] = @ \/ Head(queue[c]).key \in ReadKeys]

MarkOffline(c) == [offline EXCEPT ![c] = TRUE]

\* send_next_command_: the first command was sent too often.
GiveUp(c) ==
  /\ MaySend(c) /\ ~ShouldRetry(Head(queue[c]))
  /\ queue' = [queue EXCEPT ![c] = Tail(@)]
  /\ offline' = MarkOffline(c)
  /\ skip' = IF ~offline[c] /\ OfflineSkip > 0
               THEN [skip EXCEPT ![c] = [r \in Ranges |-> OfflineSkip]]
               ELSE skip
  /\ UNCHANGED <<incoming, throttled, waiting, request>>

NothingToSend(c) ==
  /\ ~MaySend(c)
  /\ UNCHANGED <<queue, incoming, skip, offline, throttled, waiting, request>>

ControllerLoop(c) ==
  /\ turn = c
  /\ turn' = (c + 1) % (NumControllers + 1)
  /\ \/ ProcessResponse(c)
     \/ incoming[c] = <<>> /\ (Send(c) \/ GiveUp(c) \/ NothingToSend(c))

-----------------------------------------------------------------------------
(* loop() of the transport.                                                *)

\* on_modbus_data: the first command, whichever it is, takes the response.
\* With an empty list front() reads the list header's size field, zero, as a
\* null pointer, so nothing happens.
AfterData(q) == IF q = <<>> THEN q ELSE Tail(q)

TakeData(in, q, about) ==
  IF q = <<>> THEN in ELSE Append(in, [key |-> Head(q).key, about |-> about])

BackOnline(c) == offline[c] /\ queue[c] # <<>>

\* Mutant: the counters are not restored.
SkipAfterDataKept(c) == skip[c]

SkipAfterData(c) ==
  IF BackOnline(c) /\ OfflineSkip > 0 THEN [r \in Ranges |-> 0] ELSE skip[c]

\* The dispatch to every registered device, of one piece or, for a split
\* reply, of its rest as well.
Dispatch ==
  LET about == <<request.ctl, request.key>>
      rest == <<0, request.key>>
  IN
  /\ \/ /\ queue' = [c \in Controllers |-> AfterData(queue[c])]
        /\ incoming' = [c \in Controllers |->
                          TakeData(incoming[c], queue[c], about)]
     \/ /\ request.key \in SplitKeys
        /\ queue' = [c \in Controllers |-> AfterData(AfterData(queue[c]))]
        /\ incoming' = [c \in Controllers |->
                          TakeData(TakeData(incoming[c], queue[c], about),
                                   AfterData(queue[c]), rest)]
  /\ offline' = [c \in Controllers |-> offline[c] /\ ~BackOnline(c)]
  /\ skip' = [c \in Controllers |-> SkipAfterData(c)]

\* client.available()
Available == request # NoRequest /\ request.reply # "none"

ReadData ==
  /\ Available /\ request.reply = "data"
  /\ Dispatch
  /\ request' = NoRequest
  /\ UNCHANGED <<throttled, waiting>>

\* An exception reply is logged, and loop() returns.
ReadException ==
  /\ Available /\ request.reply = "exception"
  /\ request' = NoRequest
  /\ UNCHANGED <<queue, incoming, skip, offline, throttled, waiting>>

NothingToRead ==
  /\ ~Available
  /\ UNCHANGED <<queue, incoming, skip, offline, throttled, waiting, request>>

TransportLoop ==
  /\ turn = 0
  /\ turn' = 1
  /\ ReadData \/ ReadException \/ NothingToRead

-----------------------------------------------------------------------------
(* The server, the network and the clock.                                  *)

ServerReplies ==
  /\ request # NoRequest /\ request.reply = "none"
  /\ \E r \in {"data", "exception"} : request' = [request EXCEPT !.reply = r]
  /\ UNCHANGED <<queue, incoming, skip, offline, throttled, waiting, turn>>

ConnectionLost ==
  /\ request # NoRequest
  /\ request' = NoRequest
  /\ UNCHANGED <<queue, incoming, skip, offline, throttled, waiting, turn>>

ThrottleElapses(c) ==
  /\ throttled[c]
  /\ throttled' = [throttled EXCEPT ![c] = FALSE]
  /\ UNCHANGED <<queue, incoming, skip, offline, waiting, request, turn>>

-----------------------------------------------------------------------------
MainLoop == TransportLoop \/ \E c \in Controllers : ControllerLoop(c)

Next ==
  \/ MainLoop
  \/ ServerReplies
  \/ ConnectionLost
  \/ \E c \in Controllers :
       \/ Update(c)
       \/ ThrottleElapses(c)
       \/ \E cmd \in UserCommands : QueueCommand(c, cmd)

Spec == Init /\ [][Next]_vars

\* The main loop keeps running, the clock keeps ticking, and the scheduler,
\* which runs at the top of every pass, keeps calling update(); the network
\* owes nothing.
Fairness ==
  /\ WF_vars(MainLoop)
  /\ \A c \in Controllers : WF_vars(ThrottleElapses(c)) /\ SF_vars(Update(c))

FairSpec == Spec /\ Fairness
-----------------------------------------------------------------------------
(* Safety.                                                                 *)

\* Unless duplicates are allowed, no queued command is equal (is_equal) to an
\* earlier one, although queue_command rewrites payloads and is_equal compares
\* payloads for custom commands only.  The queue is therefore bounded.
Distinct(q) == \A i, j \in DOMAIN q : i < j => ~IsEqual(q[i], q[j])

NoDuplicates == ~AllowDuplicates => \A c \in Controllers : Distinct(queue[c])

\* Only the first command of a queue has ever been sent: a response, a retry or
\* a drop never leaves a half-sent command behind another one.
UnsentBehindFront(q) == \A i \in DOMAIN q : i > 1 => q[i].sent = 0

OnlyFrontWasSent == \A c \in Controllers : UnsentBehindFront(queue[c])

\* While the module counts as online, a reply on its way belongs to the command
\* at the front of the queue, and that command was sent.  on_modbus_data checks
\* neither transaction nor address, so this is what makes it pick the right
\* command.  (One controller: replies go to every registered device.)
OnlineReplyBelongsToFront ==
  (NumControllers = 1 /\ SplitKeys = {} /\ MaxRetries + 1 < CountModulus) =>
    \A c \in Controllers :
      request # NoRequest /\ ~offline[c] =>
        /\ queue[c] # <<>>
        /\ Head(queue[c]).key = request.key
        /\ Head(queue[c]).sent > 0

\* The response queue, which has no limit of its own, holds at most one response
\* because a controller's loop() follows every loop() of the transport.  A reply
\* read in two pieces makes that two for a controller alone on its transport.
IncomingBounded ==
  \A c \in Controllers :
    /\ SplitKeys = {} => Len(incoming[c]) <= 1
    /\ NumControllers = 1 => Len(incoming[c]) <= 2

\* Being offline never leaves a range skipping more updates than configured once
\* the module is back: the backoff set in send_next_command_ is undone by
\* on_modbus_data.
OnlineSkipsAsConfigured ==
  \A c \in Controllers : \A r \in Ranges :
    ~offline[c] => skip[c][r] <= SkipUpdates[r]

\* The command at the front stays there until a response arrives or it has been
\* sent MaxRetries + 1 times; until then only its payload may be replaced.
FrontStays(c) ==
  /\ Len(queue'[c]) >= Len(queue[c])
  /\ Head(queue'[c]).key = Head(queue[c]).key
  /\ Head(queue'[c]).sent >= Head(queue[c]).sent

FrontStaysUntilSettled ==
  [][MaxRetries + 1 < CountModulus =>
       \A c \in Controllers : queue[c] # <<>> =>
         \/ FrontStays(c)
         \/ turn = 0 /\ Available /\ request.reply = "data"
         \/ Head(queue[c]).sent = MaxRetries + 1]_vars

-----------------------------------------------------------------------------
(* Liveness.                                                               *)

\* Every queued command eventually leaves the queue, whatever the server and
\* the network do.
QueueDrains ==
  \A c \in Controllers :
    \A cmd \in UserCommands \cup {RangeCommand[r] : r \in Ranges} :
      Queued(c, cmd) ~> ~Queued(c, cmd)

\* A module that stays online from some point on has every range put on the
\* wire again and again: neither the skip counters nor the commands of users
\* starve a range.  (A module that keeps going offline may lose polls for ever:
\* a late reply to a dropped command is taken by the poll behind it.)
RangesKeepBeingPolled ==
  \A c \in Controllers :
    <>[]~offline[c] =>
      \A r \in Ranges :
        []<><<Send(c) /\ IsEqual(Head(queue[c]), RangeCommand[r])>>_vars
=============================================================================
