------------------------- MODULE ModbusClientProofs -------------------------
(***************************************************************************)
(* Theorems about ModbusClient, for every value of its constants.          *)
(***************************************************************************)
EXTENDS ModbusClient, Calculations, SequenceTheorems, FiniteSetTheorems, WellFoundedInduction, TLAPS

USE DEF Controllers, Ranges

\* What a payload, a counter or an item may be replaced by stays an item.
LEMMA NewItemType ==
  ASSUME NEW cmd \in Commands
  PROVE  NewItem(cmd) \in Items /\ NewItem(cmd).sent = 0
BY ConstantsAssumption DEF NewItem, Items, Commands

LEMMA UserCommandsType == UserCommands \subseteq Commands
BY ConstantsAssumption

LEMMA RangeCommandType ==
  ASSUME NEW r \in Ranges
  PROVE  RangeCommand[r] \in Commands
BY ConstantsAssumption

\* The commands update() appends.
LEMMA ListingType ==
  ASSUME NEW c \in Controllers, NEW s \in Listings(Joining(c))
  PROVE  /\ s \in Seq(Ranges)
         /\ [i \in DOMAIN s |-> NewItem(RangeCommand[s[i]])] \in Seq(Items)
         /\ Len([i \in DOMAIN s |-> NewItem(RangeCommand[s[i]])]) = Len(s)
<1>1. PICK n \in 0..NumRanges : s \in [1..n -> Ranges]
  BY DEF Listings
<1>2. s \in Seq(Ranges) /\ Len(s) = n /\ DOMAIN s = 1..n
  BY <1>1, ConstantsAssumption
<1>3. \A i \in 1..n : NewItem(RangeCommand[s[i]]) \in Items
  BY <1>1, RangeCommandType, NewItemType
<1>4. [i \in 1..n |-> NewItem(RangeCommand[s[i]])] \in [1..n -> Items]
  BY <1>3
<1> QED
  BY <1>2, <1>4, ConstantsAssumption
-----------------------------------------------------------------------------
LEMMA InitType == Init => TypeOK
<1>1. <<>> \in Seq(Items) /\ <<>> \in Seq(Answers)
  OBVIOUS
<1>2. [c \in Controllers |-> [r \in Ranges |-> 0]] \in [Controllers -> [Ranges -> Nat]]
  OBVIOUS
<1>3. 0 \in 0..NumControllers
  BY ConstantsAssumption
<1>4. ASSUME Init
      PROVE  queue \in [Controllers -> Seq(Items)] /\ incoming \in [Controllers -> Seq(Answers)]
  BY <1>1, <1>4 DEF Init
<1> QED
  BY <1>2, <1>3, <1>4 DEF Init, TypeOK

LEMMA NextType == TypeOK /\ [Next]_vars => TypeOK'
<1> SUFFICES ASSUME TypeOK, [Next]_vars PROVE TypeOK'
  OBVIOUS
<1> USE ConstantsAssumption
<1>1. ASSUME NEW c \in Controllers, NEW cmd \in UserCommands, QueueCommand(c, cmd)
      PROVE  TypeOK'
  <2>1. queue' \in [Controllers -> Seq(Items)]
    <3>1. CASE ReplacePayload(c, cmd)
      <4>1. PICK i \in DOMAIN queue[c] :
              queue' = [queue EXCEPT ![c][i].payload = cmd.payload]
        BY <3>1 DEF ReplacePayload
      <4> DEFINE item == [queue[c][i] EXCEPT !.payload = cmd.payload]
      <4>2. queue[c] \in Seq(Items) /\ queue[c][i] \in Items
        BY DEF TypeOK
      <4>3. item \in Items
        BY <4>2, UserCommandsType DEF Items, Commands
      <4> HIDE DEF item
      <4>4. [queue[c] EXCEPT ![i] = item] \in Seq(Items)
        BY <4>2, <4>3
      <4>5. queue' = [queue EXCEPT ![c] = [queue[c] EXCEPT ![i] = item]]
        BY <4>1 DEF item
      <4> QED BY <4>4, <4>5 DEF TypeOK
    <3>2. CASE PushBack(c, cmd)
      BY <3>2, UserCommandsType, NewItemType DEF PushBack, TypeOK
    <3> QED BY <1>1, <3>1, <3>2 DEF QueueCommand
  <2> QED BY <1>1, <2>1 DEF QueueCommand, TypeOK
<1>2. ASSUME NEW c \in Controllers, Update(c)
      PROVE  TypeOK'
  <2>1. queue' \in [Controllers -> Seq(Items)]
    BY <1>2, ListingType DEF Update, TypeOK
  <2>2. skip' \in [Controllers -> [Ranges -> Nat]]
    <3>1. \A r \in Ranges : NextSkip(skip[c][r], r) \in Nat
      <4>1. \A n \in Nat : n # 0 => n - 1 \in Nat
        OBVIOUS
      <4> QED BY <4>1 DEF NextSkip, TypeOK
    <3> QED BY <1>2, <3>1 DEF Update, TypeOK
  <2> QED BY <1>2, <2>1, <2>2 DEF Update, TypeOK
<1>3. ASSUME NEW c \in Controllers, ControllerLoop(c)
      PROVE  TypeOK'
  <2>0. turn' \in 0..NumControllers
    BY <1>3 DEF ControllerLoop, TypeOK
  <2>1. CASE ProcessResponse(c)
    <3>1. incoming[c] \in Seq(Answers) /\ incoming[c] # <<>>
      BY <2>1 DEF ProcessResponse, TypeOK
    <3>2. Tail(incoming[c]) \in Seq(Answers)
      BY <3>1
    <3> QED BY <2>0, <2>1, <3>2 DEF ProcessResponse, TypeOK
  <2>2. CASE Send(c)
    <3> DEFINE item == Head(queue[c])
    <3>1. queue[c] # <<>> /\ item \in Items /\ item = queue[c][1] /\ 1 \in DOMAIN queue[c]
      BY <2>2 DEF Send, MaySend, TypeOK
    <3>2. queue' \in [Controllers -> Seq(Items)]
      <4> DEFINE again == [queue[c][1] EXCEPT !.sent = (@ + 1) % CountModulus]
      <4>1. again \in Items
        <5>1. (item.sent + 1) % CountModulus \in 0..(CountModulus - 1)
          BY <3>1 DEF Items
        <5> QED BY <3>1, <5>1 DEF Items
      <4>2. [queue[c] EXCEPT ![1] = again] \in Seq(Items)
        BY <3>1, <4>1 DEF TypeOK
      <4>3. queue' = [queue EXCEPT ![c] = [queue[c] EXCEPT ![1] = again]]
        BY <2>2 DEF Send
      <4> HIDE DEF again
      <4> QED BY <4>2, <4>3 DEF TypeOK
    <3>3. waiting' \in BOOLEAN
      <4>1. SendRaw(item) \/ waiting' = waiting
        BY <2>2 DEF Send
      <4>2. (item.payload \in BlockingPayloads) \in BOOLEAN /\ waiting \in BOOLEAN
        BY DEF TypeOK
      <4> QED BY <4>1, <4>2, Zenon DEF SendRaw
    <3>4. request' \in Requests \cup {NoRequest}
      <4>1. [ctl |-> c, key |-> item.key, payload |-> item.payload, reply |-> "none"]
              \in Requests
        BY <3>1 DEF Items, Requests
      <4> QED BY <2>2, <4>1 DEF Send, Transmit, TypeOK
    <3> QED BY <2>0, <2>2, <3>2, <3>3, <3>4 DEF Send, TypeOK
  <2>3. CASE GiveUp(c)
    <3>1. queue' \in [Controllers -> Seq(Items)]
      BY <2>3 DEF GiveUp, MaySend, TypeOK
    <3> QED BY <2>0, <2>3, <3>1 DEF GiveUp, MarkOffline, TypeOK
  <2>4. CASE NothingToSend(c)
    BY <2>0, <2>4 DEF NothingToSend, TypeOK
  <2> QED BY <1>3, <2>1, <2>2, <2>3, <2>4 DEF ControllerLoop
<1>4. ASSUME TransportLoop
      PROVE  TypeOK'
  <2>0. turn' \in 0..NumControllers
    BY <1>4 DEF TransportLoop
  <2>1. CASE ReadData
    <3>1. request \in Requests
      BY <2>1 DEF ReadData, Available, TypeOK
    <3>4. \A q \in Seq(Items) : AfterData(q) \in Seq(Items)
      BY DEF AfterData
    <3>2. queue' \in [Controllers -> Seq(Items)]
      BY <2>1, <3>4 DEF ReadData, Dispatch, TypeOK
    <3>3. \A q \in Seq(Items), in \in Seq(Answers), about \in (0..NumControllers) \X Keys :
            TakeData(in, q, about) \in Seq(Answers)
      <4> SUFFICES ASSUME NEW q \in Seq(Items), NEW in \in Seq(Answers), q # <<>>,
                          NEW about \in (0..NumControllers) \X Keys
                   PROVE  Append(in, [key |-> Head(q).key, about |-> about]) \in Seq(Answers)
        BY DEF TakeData
      <4>1. Head(q) \in Items
        OBVIOUS
      <4>2. [key |-> Head(q).key, about |-> about] \in Answers
        BY <4>1 DEF Answers, Items
      <4> QED BY <4>2
    <3>5. incoming' \in [Controllers -> Seq(Answers)]
      <4>1. <<request.ctl, request.key>> \in (0..NumControllers) \X Keys
            /\ <<0, request.key>> \in (0..NumControllers) \X Keys
        BY <3>1 DEF Requests
      <4>2. \A d \in Controllers :
              /\ TakeData(incoming[d], queue[d], <<request.ctl, request.key>>) \in Seq(Answers)
              /\ TakeData(TakeData(incoming[d], queue[d], <<request.ctl, request.key>>),
                          AfterData(queue[d]), <<0, request.key>>) \in Seq(Answers)
        BY <3>3, <3>4, <4>1 DEF TypeOK
      <4> QED BY <2>1, <4>2 DEF ReadData, Dispatch
    <3>6. offline' \in [Controllers -> BOOLEAN] /\ skip' \in [Controllers -> [Ranges -> Nat]]
      BY <2>1 DEF ReadData, Dispatch, SkipAfterData, TypeOK
    <3> QED BY <2>0, <2>1, <3>2, <3>5, <3>6 DEF ReadData, TypeOK
  <2>2. CASE ReadException
    BY <2>0, <2>2 DEF ReadException, TypeOK
  <2>3. CASE NothingToRead
    BY <2>0, <2>3 DEF NothingToRead, TypeOK
  <2> QED BY <1>4, <2>1, <2>2, <2>3 DEF TransportLoop
<1>5. ASSUME ServerReplies PROVE TypeOK'
  BY <1>5 DEF ServerReplies, TypeOK, Requests
<1>6. ASSUME ConnectionLost PROVE TypeOK'
  BY <1>6 DEF ConnectionLost, TypeOK
<1>7. ASSUME NEW c \in Controllers, ThrottleElapses(c) PROVE TypeOK'
  BY <1>7 DEF ThrottleElapses, TypeOK
<1>8. CASE UNCHANGED vars
  BY <1>8 DEF vars, TypeOK
<1> QED
  BY <1>1, <1>2, <1>3, <1>4, <1>5, <1>6, <1>7, <1>8 DEF Next, MainLoop

\* Type correctness of the client, for any number of controllers, any commands
\* and any limits.
THEOREM TypeCorrect == Spec => []TypeOK
BY InitType, NextType, PTL DEF Spec
-----------------------------------------------------------------------------
(* What the steps do to a command queue.                                   *)

\* A queue without duplicates stays so when its first command leaves it.
LEMMA DistinctAfterData ==
  ASSUME NEW q \in Seq(Items), Distinct(q)
  PROVE  Distinct(AfterData(q))
BY HeadTailProperties DEF Distinct, AfterData

\* queue_command: the first equal item gets the payload.  An earlier custom item
\* with that payload would have been the first equal item.
LEMMA DistinctReplace ==
  ASSUME NEW q \in Seq(Items), Distinct(q), NEW cmd \in Commands, NEW i \in DOMAIN q,
         IsEqual(q[i], cmd), \A j \in 1..(i - 1) : ~IsEqual(q[j], cmd),
         NEW item \in Items, item.key = q[i].key, item.payload = cmd.payload
  PROVE  Distinct([q EXCEPT ![i] = item])
<1> DEFINE new == [q EXCEPT ![i] = item]
<1>1. DOMAIN new = DOMAIN q /\ new[i] = item /\ \A k \in DOMAIN q : k # i => new[k] = q[k]
  OBVIOUS
<1> HIDE DEF new
<1> SUFFICES ASSUME NEW h \in DOMAIN q, NEW k \in DOMAIN q, h < k, IsEqual(new[h], new[k])
             PROVE  FALSE
  BY <1>1 DEF Distinct, new
<1>2. ~IsEqual(q[h], q[k])
  BY DEF Distinct
<1>3. CASE k = i
  <2>1. ~IsEqual(q[h], cmd)
    BY <1>3
  <2> QED BY <1>1, <1>2, <1>3, <2>1 DEF IsEqual
<1>4. CASE h = i
  BY <1>1, <1>2, <1>4 DEF IsEqual
<1>5. CASE h # i /\ k # i
  BY <1>1, <1>2, <1>5
<1> QED BY <1>3, <1>4, <1>5

\* queue_command: a command without equal is appended.
LEMMA DistinctAppend ==
  ASSUME NEW q \in Seq(Items), Distinct(q), NEW cmd \in Commands,
         ~\E i \in DOMAIN q : IsEqual(q[i], cmd)
  PROVE  Distinct(Append(q, NewItem(cmd)))
<1>1. NewItem(cmd) \in Items /\ NewItem(cmd).key = cmd.key /\ NewItem(cmd).payload = cmd.payload
  BY NewItemType DEF NewItem
<1>2. \A i \in DOMAIN q : ~IsEqual(q[i], NewItem(cmd))
  BY <1>1 DEF IsEqual
<1> QED BY <1>1, <1>2, AppendProperties DEF Distinct

\* update(): the commands of the joining ranges are appended in order.
LEMMA DistinctUpdate ==
  ASSUME TypeOK, NEW c \in Controllers, Distinct(queue[c]), ~AllowDuplicates,
         NEW s \in Listings(Joining(c))
  PROVE  Distinct(queue[c] \o [i \in DOMAIN s |-> NewItem(RangeCommand[s[i]])])
<1> DEFINE q == queue[c]
           t == [i \in DOMAIN s |-> NewItem(RangeCommand[s[i]])]
           n == Len(q)
<1>1. q \in Seq(Items) /\ t \in Seq(Items) /\ Len(t) = Len(s) /\ s \in Seq(Ranges)
  BY ListingType DEF TypeOK
<1>2. \A i \in DOMAIN s : s[i] \in Joining(c)
  BY DEF Listings
<1>3. \A i, j \in DOMAIN s : i < j => s[i] < s[j]
  BY DEF Listings
<1>4. \A x, cmd : IsEqual(x, NewItem(cmd)) = IsEqual(x, cmd)
  BY DEF IsEqual, NewItem
<1>5. \A x \in Commands : \A cmd : IsEqual(NewItem(x), cmd) = IsEqual(x, cmd)
  BY DEF IsEqual, NewItem
<1>6. \A i \in DOMAIN s : t[i] = NewItem(RangeCommand[s[i]]) /\ RangeCommand[s[i]] \in Commands
  <2>1. \A i \in DOMAIN s : s[i] \in Ranges
    BY <1>2 DEF Joining, Due
  <2>2. \A r \in Ranges : RangeCommand[r] \in Commands
    BY RangeCommandType
  <2> QED BY <2>1, <2>2
<1>7. \A h \in DOMAIN q : \A k \in DOMAIN s : ~IsEqual(q[h], t[k])
  BY <1>2, <1>4, <1>6 DEF Joining, Queued
<1>8. \A h, k \in DOMAIN s : h < k => ~IsEqual(t[h], t[k])
  BY <1>2, <1>3, <1>4, <1>5, <1>6 DEF Joining
<1> SUFFICES Distinct(q \o t)
  OBVIOUS
<1> HIDE DEF q, t
<1>9. /\ q \o t \in Seq(Items) /\ Len(q \o t) = n + Len(s) /\ n \in Nat
      /\ \A k \in 1..n : (q \o t)[k] = q[k]
      /\ \A k \in (n + 1)..(n + Len(s)) : (q \o t)[k] = t[k - n] /\ k - n \in DOMAIN s
  <2>1. /\ q \o t \in Seq(Items) /\ Len(q \o t) = Len(q) + Len(t)
        /\ \A k \in 1..(Len(q) + Len(t)) :
             (q \o t)[k] = IF k <= Len(q) THEN q[k] ELSE t[k - Len(q)]
    BY <1>1, ConcatProperties
  <2>2. n \in Nat /\ Len(t) \in Nat /\ DOMAIN s = 1..Len(s)
    BY <1>1
  <2> QED BY <1>1, <2>1, <2>2
<1> SUFFICES ASSUME NEW h \in 1..(n + Len(s)), NEW k \in 1..(n + Len(s)), h < k
             PROVE  ~IsEqual((q \o t)[h], (q \o t)[k])
  <2>1. DOMAIN (q \o t) = 1..(n + Len(s))
    BY <1>9
  <2> QED BY <2>1 DEF Distinct
<1>10. CASE k <= n
  <2>1. h \in DOMAIN q /\ k \in DOMAIN q /\ Distinct(q)
    BY <1>1, <1>10 DEF q
  <2> QED BY <1>9, <1>10, <2>1 DEF Distinct
<1>11. CASE h <= n /\ k > n
  <2>1. h \in DOMAIN q /\ k \in (n + 1)..(n + Len(s)) /\ h \in 1..n
    BY <1>1, <1>9, <1>11
  <2> QED BY <1>7, <1>9, <2>1
<1>12. CASE h > n
  <2>1. h \in (n + 1)..(n + Len(s)) /\ k \in (n + 1)..(n + Len(s)) /\ h - n < k - n
    BY <1>9, <1>12
  <2> QED BY <1>8, <1>9, <2>1
<1> QED BY <1>10, <1>11, <1>12, <1>9
-----------------------------------------------------------------------------
(* The queue never holds duplicates.                                       *)

\* What each step does to the queue of a controller, with the facts about
\* items that the invariants below need.
QueueStep(c) ==
  \/ queue'[c] = queue[c]
  \/ /\ ~AllowDuplicates
     /\ \E cmd \in UserCommands, i \in DOMAIN queue[c] :
          /\ IsEqual(queue[c][i], cmd)
          /\ \A j \in 1..(i - 1) : ~IsEqual(queue[c][j], cmd)
          /\ queue'[c] = [queue[c] EXCEPT ![i] = [queue[c][i] EXCEPT !.payload = cmd.payload]]
  \/ \E cmd \in UserCommands :
       /\ AllowDuplicates \/ ~Queued(c, cmd)
       /\ queue'[c] = Append(queue[c], NewItem(cmd))
  \/ \E s \in Listings(Joining(c)) :
       queue'[c] = queue[c] \o [i \in DOMAIN s |-> NewItem(RangeCommand[s[i]])]
  \/ /\ queue[c] # <<>> /\ ShouldRetry(Head(queue[c]))
     /\ queue'[c] = [queue[c] EXCEPT
          ![1] = [queue[c][1] EXCEPT !.sent = (queue[c][1].sent + 1) % CountModulus]]
  \/ queue'[c] = AfterData(queue[c])
  \/ queue'[c] = AfterData(AfterData(queue[c]))

LEMMA QueueSteps ==
  ASSUME TypeOK, [Next]_vars, NEW c \in Controllers
  PROVE  QueueStep(c)
<1>1. ASSUME NEW d \in Controllers, NEW cmd \in UserCommands, QueueCommand(d, cmd)
      PROVE  QueueStep(c)
  <2>1. CASE ReplacePayload(d, cmd) /\ d = c
    <3>1. PICK i \in DOMAIN queue[c] :
            /\ IsEqual(queue[c][i], cmd)
            /\ \A j \in 1..(i - 1) : ~IsEqual(queue[c][j], cmd)
            /\ queue' = [queue EXCEPT ![c][i].payload = cmd.payload]
      BY <2>1 DEF ReplacePayload
    <3>2. queue'[c] = [queue[c] EXCEPT ![i] = [queue[c][i] EXCEPT !.payload = cmd.payload]]
      BY <3>1 DEF TypeOK
    <3> QED BY <2>1, <3>1, <3>2 DEF QueueStep, ReplacePayload
  <2>2. CASE PushBack(d, cmd) /\ d = c
    BY <2>2 DEF PushBack, QueueStep, TypeOK
  <2>3. CASE d # c
    BY <1>1, <2>3 DEF QueueCommand, ReplacePayload, PushBack, QueueStep, TypeOK
  <2> QED BY <1>1, <2>1, <2>2, <2>3 DEF QueueCommand
<1>2. ASSUME NEW d \in Controllers, Update(d)
      PROVE  QueueStep(c)
  <2>1. CASE d = c
    BY <1>2, <2>1 DEF Update, QueueStep, TypeOK
  <2>2. CASE d # c
    BY <1>2, <2>2 DEF Update, QueueStep, TypeOK
  <2> QED BY <2>1, <2>2
<1>3. ASSUME NEW d \in Controllers, ControllerLoop(d)
      PROVE  QueueStep(c)
  <2>1. CASE Send(d)
    <3>1. CASE d = c
      BY <2>1, <3>1 DEF Send, MaySend, QueueStep, TypeOK
    <3>2. CASE d # c
      BY <2>1, <3>2 DEF Send, QueueStep, TypeOK
    <3> QED BY <3>1, <3>2
  <2>2. CASE GiveUp(d)
    BY <2>2 DEF GiveUp, MaySend, AfterData, QueueStep, TypeOK
  <2>3. CASE ProcessResponse(d) \/ NothingToSend(d)
    BY <2>3 DEF ProcessResponse, NothingToSend, QueueStep
  <2> QED BY <1>3, <2>1, <2>2, <2>3 DEF ControllerLoop
<1>4. ASSUME TransportLoop
      PROVE  QueueStep(c)
  BY <1>4 DEF TransportLoop, ReadData, Dispatch, ReadException, NothingToRead, QueueStep
<1>5. CASE UNCHANGED queue
  BY <1>5 DEF QueueStep
<1> QED
  BY <1>1, <1>2, <1>3, <1>4, <1>5
  DEF Next, MainLoop, ServerReplies, ConnectionLost, ThrottleElapses, vars

\* No command of a queue is equal to an earlier one unless duplicates are
\* allowed: deduplication in queue_command and update() holds through payload
\* replacement, responses, retries and drops.
THEOREM NoDuplicatesHolds == Spec => []NoDuplicates
<1>1. Init => NoDuplicates
  BY DEF Init, NoDuplicates, Distinct
<1>2. TypeOK /\ NoDuplicates /\ [Next]_vars => NoDuplicates'
  <2> SUFFICES ASSUME TypeOK, NoDuplicates, [Next]_vars, ~AllowDuplicates,
                      NEW c \in Controllers
               PROVE  Distinct(queue'[c])
    BY DEF NoDuplicates
  <2>1. queue[c] \in Seq(Items) /\ Distinct(queue[c])
    BY DEF TypeOK, NoDuplicates
  <2>2. QueueStep(c)
    BY QueueSteps
  <2>3. CASE queue'[c] = queue[c]
    BY <2>1, <2>3
  <2>4. ASSUME NEW cmd \in UserCommands, NEW i \in DOMAIN queue[c],
               IsEqual(queue[c][i], cmd),
               \A j \in 1..(i - 1) : ~IsEqual(queue[c][j], cmd),
               queue'[c] = [queue[c] EXCEPT ![i] = [queue[c][i] EXCEPT !.payload = cmd.payload]]
        PROVE  Distinct(queue'[c])
    <3> DEFINE item == [queue[c][i] EXCEPT !.payload = cmd.payload]
    <3>1. cmd \in Commands /\ queue[c][i] \in Items
      BY <2>1, UserCommandsType
    <3>2. item \in Items /\ item.key = queue[c][i].key /\ item.payload = cmd.payload
      BY <3>1 DEF Items, Commands
    <3>3. queue'[c] = [queue[c] EXCEPT ![i] = item]
      BY <2>4
    <3> HIDE DEF item
    <3>4. Distinct([queue[c] EXCEPT ![i] = item])
      BY <2>1, <2>4, <3>1, <3>2, DistinctReplace
    <3> QED BY <3>3, <3>4
  <2>5. ASSUME NEW cmd \in UserCommands, ~Queued(c, cmd),
               queue'[c] = Append(queue[c], NewItem(cmd))
        PROVE  Distinct(queue'[c])
    BY <2>1, <2>5, UserCommandsType, DistinctAppend DEF Queued
  <2>6. ASSUME NEW s \in Listings(Joining(c)),
               queue'[c] = queue[c] \o [i \in DOMAIN s |-> NewItem(RangeCommand[s[i]])]
        PROVE  Distinct(queue'[c])
    BY <2>1, <2>6, DistinctUpdate
  <2>7. CASE /\ queue[c] # <<>>
             /\ queue'[c] = [queue[c] EXCEPT
                  ![1] = [queue[c][1] EXCEPT !.sent = (queue[c][1].sent + 1) % CountModulus]]
    <3> DEFINE item == [queue[c][1] EXCEPT !.sent = (queue[c][1].sent + 1) % CountModulus]
    <3>1. 1 \in DOMAIN queue[c] /\ queue[c][1] \in Items
      BY <2>1, <2>7
    <3>2. item.key = queue[c][1].key /\ item.payload = queue[c][1].payload
      BY <3>1 DEF Items
    <3> HIDE DEF item
    <3>3. queue'[c] = [queue[c] EXCEPT ![1] = item]
      BY <2>7 DEF item
    <3>4. \A k \in DOMAIN queue[c] : /\ queue'[c][k].key = queue[c][k].key
                                     /\ queue'[c][k].payload = queue[c][k].payload
      BY <3>1, <3>2, <3>3
    <3>5. DOMAIN queue'[c] = DOMAIN queue[c]
      BY <3>3
    <3> QED BY <2>1, <3>4, <3>5 DEF Distinct, IsEqual
  <2>8. CASE queue'[c] = AfterData(queue[c])
    BY <2>1, <2>8, DistinctAfterData
  <2>9. CASE queue'[c] = AfterData(AfterData(queue[c]))
    <3>1. AfterData(queue[c]) \in Seq(Items) /\ Distinct(AfterData(queue[c]))
      BY <2>1, DistinctAfterData DEF AfterData
    <3> QED BY <2>9, <3>1, DistinctAfterData
  <2> QED BY <2>2, <2>3, <2>4, <2>5, <2>6, <2>7, <2>8, <2>9 DEF QueueStep
<1> QED BY <1>1, <1>2, TypeCorrect, PTL DEF Spec
-----------------------------------------------------------------------------
(* Only the first command of a queue has been sent.                        *)

\* Replacing an item by one that was sent as often, if it is not the first,
\* and removing the first, leave the others unsent.
LEMMA UnsentReplace ==
  ASSUME NEW q \in Seq(Items), UnsentBehindFront(q), NEW i \in DOMAIN q,
         NEW item \in Items, i = 1 \/ item.sent = q[i].sent
  PROVE  UnsentBehindFront([q EXCEPT ![i] = item])
BY DEF UnsentBehindFront

LEMMA UnsentAfterData ==
  ASSUME NEW q \in Seq(Items), UnsentBehindFront(q)
  PROVE  AfterData(q) \in Seq(Items) /\ UnsentBehindFront(AfterData(q))
<1>1. CASE q = <<>>
  BY <1>1 DEF AfterData
<1>2. CASE q # <<>>
  <2>1. /\ AfterData(q) = Tail(q) /\ Tail(q) \in Seq(Items) /\ Len(Tail(q)) = Len(q) - 1
        /\ \A k \in 1..Len(Tail(q)) : Tail(q)[k] = q[k + 1]
    BY <1>2, HeadTailProperties DEF AfterData
  <2>2. \A k \in 1..Len(Tail(q)) : k + 1 \in DOMAIN q /\ k + 1 > 1
    BY <2>1
  <2> QED BY <2>1, <2>2 DEF UnsentBehindFront
<1> QED BY <1>1, <1>2

LEMMA UnsentAppend ==
  ASSUME NEW q \in Seq(Items), UnsentBehindFront(q), NEW t \in Seq(Items),
         \A k \in DOMAIN t : t[k].sent = 0
  PROVE  UnsentBehindFront(q \o t)
BY ConcatProperties DEF UnsentBehindFront

\* What is on the wire is at most the first command: retries, replies, drops
\* and new commands never leave a command behind it that was already sent.
THEOREM OnlyFrontWasSentHolds == Spec => []OnlyFrontWasSent
<1>1. Init => OnlyFrontWasSent
  BY DEF Init, OnlyFrontWasSent, UnsentBehindFront
<1>2. TypeOK /\ OnlyFrontWasSent /\ [Next]_vars => OnlyFrontWasSent'
  <2> SUFFICES ASSUME TypeOK, OnlyFrontWasSent, [Next]_vars, NEW c \in Controllers
               PROVE  UnsentBehindFront(queue'[c])
    BY DEF OnlyFrontWasSent
  <2>1. queue[c] \in Seq(Items) /\ UnsentBehindFront(queue[c])
    BY DEF TypeOK, OnlyFrontWasSent
  <2>2. QueueStep(c)
    BY QueueSteps
  <2>3. CASE queue'[c] = queue[c]
    BY <2>1, <2>3
  <2>4. ASSUME NEW cmd \in UserCommands, NEW i \in DOMAIN queue[c],
               queue'[c] = [queue[c] EXCEPT ![i] = [queue[c][i] EXCEPT !.payload = cmd.payload]]
        PROVE  UnsentBehindFront(queue'[c])
    <3> DEFINE item == [queue[c][i] EXCEPT !.payload = cmd.payload]
    <3>1. queue[c][i] \in Items /\ cmd \in Commands
      BY <2>1, UserCommandsType
    <3>2. item \in Items /\ item.sent = queue[c][i].sent
      BY <3>1 DEF Items, Commands
    <3>3. queue'[c] = [queue[c] EXCEPT ![i] = item]
      BY <2>4
    <3> HIDE DEF item
    <3> QED BY <2>1, <3>2, <3>3, UnsentReplace
  <2>5. ASSUME NEW cmd \in UserCommands, queue'[c] = Append(queue[c], NewItem(cmd))
        PROVE  UnsentBehindFront(queue'[c])
    <3>1. NewItem(cmd) \in Items /\ NewItem(cmd).sent = 0
      BY UserCommandsType, NewItemType
    <3> QED BY <2>1, <2>5, <3>1, AppendProperties DEF UnsentBehindFront
  <2>6. ASSUME NEW s \in Listings(Joining(c)),
               queue'[c] = queue[c] \o [i \in DOMAIN s |-> NewItem(RangeCommand[s[i]])]
        PROVE  UnsentBehindFront(queue'[c])
    <3> DEFINE t == [i \in DOMAIN s |-> NewItem(RangeCommand[s[i]])]
    <3>1. t \in Seq(Items) /\ s \in Seq(Ranges)
      BY ListingType
    <3>2. \A k \in DOMAIN s : s[k] \in Ranges
      BY DEF Listings, Joining, Due
    <3>3. \A r \in Ranges : NewItem(RangeCommand[r]).sent = 0
      BY RangeCommandType, NewItemType
    <3>4. \A k \in DOMAIN t : t[k].sent = 0
      BY <3>2, <3>3
    <3> HIDE DEF t
    <3>5. UnsentBehindFront(queue[c] \o t)
      BY <2>1, <3>1, <3>4, UnsentAppend
    <3> QED BY <2>6, <3>5 DEF t
  <2>7. CASE /\ queue[c] # <<>>
             /\ queue'[c] = [queue[c] EXCEPT
                  ![1] = [queue[c][1] EXCEPT !.sent = (queue[c][1].sent + 1) % CountModulus]]
    BY <2>1, <2>7 DEF UnsentBehindFront
  <2>8. CASE queue'[c] = AfterData(queue[c])
    BY <2>1, <2>8, UnsentAfterData
  <2>9. CASE queue'[c] = AfterData(AfterData(queue[c]))
    BY <2>1, <2>9, UnsentAfterData
  <2> QED BY <2>2, <2>3, <2>4, <2>5, <2>6, <2>7, <2>8, <2>9 DEF QueueStep
<1> QED BY <1>1, <1>2, TypeCorrect, PTL DEF Spec
-----------------------------------------------------------------------------
(* The offline backoff is undone.                                          *)

\* Without backoff, or while online, no range skips more than configured.  The
\* first part is needed: an offline module without backoff keeps its counters.
SkipsAsConfigured ==
  \A c \in Controllers : \A r \in Ranges :
    OfflineSkip = 0 \/ ~offline[c] => skip[c][r] <= SkipUpdates[r]

\* A module that is back online polls its ranges at least as often as it is
\* configured to, however often it went offline before.
THEOREM OnlineSkipsAsConfiguredHolds == Spec => []OnlineSkipsAsConfigured
<1> USE ConstantsAssumption
<1>1. Init => SkipsAsConfigured
  BY DEF Init, SkipsAsConfigured
<1>2. TypeOK /\ SkipsAsConfigured /\ [Next]_vars => SkipsAsConfigured'
  <2> SUFFICES ASSUME TypeOK, SkipsAsConfigured, [Next]_vars,
                      NEW c \in Controllers, NEW r \in Ranges,
                      OfflineSkip = 0 \/ ~offline'[c]
               PROVE  skip'[c][r] <= SkipUpdates[r]
    BY DEF SkipsAsConfigured
  <2>1. skip[c][r] \in Nat /\ SkipUpdates[r] \in Nat
    BY DEF TypeOK
  <2>2. CASE UNCHANGED <<skip, offline>>
    BY <2>2 DEF SkipsAsConfigured
  <2>3. ASSUME NEW d \in Controllers, Update(d)
        PROVE  skip'[c][r] <= SkipUpdates[r]
    <3>1. CASE d = c
      <4>1. skip'[c][r] = NextSkip(skip[c][r], r) /\ UNCHANGED offline
        BY <2>3, <3>1 DEF Update, TypeOK
      <4> QED BY <2>1, <4>1 DEF NextSkip, SkipsAsConfigured
    <3>2. CASE d # c
      BY <2>3, <3>2 DEF Update, TypeOK, SkipsAsConfigured
    <3> QED BY <3>1, <3>2
  <2>4. ASSUME NEW d \in Controllers, GiveUp(d)
        PROVE  skip'[c][r] <= SkipUpdates[r]
    <3>1. CASE d = c
      <4>1. offline'[c] = TRUE
        BY <2>4, <3>1 DEF GiveUp, MarkOffline, TypeOK
      <4>2. OfflineSkip = 0 /\ skip'[c] = skip[c]
        BY <2>4, <4>1 DEF GiveUp
      <4> QED BY <4>2 DEF SkipsAsConfigured
    <3>2. CASE d # c
      <4>1. skip'[c] = skip[c] /\ offline'[c] = offline[c]
        BY <2>4, <3>2 DEF GiveUp, MarkOffline, TypeOK
      <4> QED BY <4>1 DEF SkipsAsConfigured
    <3> QED BY <3>1, <3>2
  <2>5. CASE ReadData
    <3>1. skip'[c] = SkipAfterData(c) /\ offline'[c] = (offline[c] /\ ~BackOnline(c))
      BY <2>5 DEF ReadData, Dispatch
    <3>2. CASE BackOnline(c) /\ OfflineSkip > 0
      BY <2>1, <3>1, <3>2 DEF SkipAfterData
    <3>3. CASE ~(BackOnline(c) /\ OfflineSkip > 0)
      <4>1. skip'[c] = skip[c]
        BY <3>1, <3>3, Zenon DEF SkipAfterData
      <4>2. OfflineSkip = 0 \/ ~BackOnline(c)
        BY <3>3
      <4>3. OfflineSkip = 0 \/ ~offline[c]
        BY <3>1, <4>2
      <4> QED BY <4>1, <4>3 DEF SkipsAsConfigured
    <3> QED BY <3>2, <3>3
  <2> QED
    BY <2>2, <2>3, <2>4, <2>5
    DEF Next, MainLoop, QueueCommand, ControllerLoop, ProcessResponse, Send, NothingToSend,
        TransportLoop, ReadException, NothingToRead, ServerReplies, ConnectionLost,
        ThrottleElapses, vars
<1>3. SkipsAsConfigured => OnlineSkipsAsConfigured
  BY DEF SkipsAsConfigured, OnlineSkipsAsConfigured
<1> QED BY <1>1, <1>2, <1>3, TypeCorrect, PTL DEF Spec
-----------------------------------------------------------------------------
(* Replies reach the command they are for.                                 *)

\* The first command of a queue keeps its key when a payload is replaced or
\* commands are appended.
LEMMA FrontKept ==
  ASSUME TypeOK, NEW c \in Controllers, queue[c] # <<>>,
         \/ \E cmd \in UserCommands : QueueCommand(c, cmd)
         \/ Update(c)
  PROVE  /\ queue'[c] # <<>>
         /\ Head(queue'[c]).key = Head(queue[c]).key
         /\ Head(queue'[c]).sent = Head(queue[c]).sent
<1>1. queue[c] \in Seq(Items) /\ 1 \in DOMAIN queue[c] /\ queue[c][1] \in Items
  BY DEF TypeOK
<1>2. ASSUME NEW cmd \in UserCommands, ReplacePayload(c, cmd)
      PROVE  /\ queue'[c] # <<>>
             /\ Head(queue'[c]).key = Head(queue[c]).key
             /\ Head(queue'[c]).sent = Head(queue[c]).sent
  <2>1. PICK i \in DOMAIN queue[c] : queue' = [queue EXCEPT ![c][i].payload = cmd.payload]
    BY <1>2 DEF ReplacePayload
  <2> DEFINE item == [queue[c][i] EXCEPT !.payload = cmd.payload]
  <2>2. queue'[c] = [queue[c] EXCEPT ![i] = item]
    BY <2>1 DEF TypeOK
  <2>3. queue[c][i] \in Items /\ cmd \in Commands
    BY <1>1, UserCommandsType
  <2>4. item \in Items /\ item.key = queue[c][i].key /\ item.sent = queue[c][i].sent
    BY <2>3 DEF Items, Commands
  <2> HIDE DEF item
  <2> QED BY <1>1, <2>2, <2>4
<1>3. ASSUME NEW cmd \in UserCommands, PushBack(c, cmd)
      PROVE  queue'[c] # <<>> /\ Head(queue'[c]) = Head(queue[c])
  BY <1>1, <1>3 DEF PushBack, TypeOK
<1>4. ASSUME Update(c)
      PROVE  queue'[c] # <<>> /\ Head(queue'[c]) = Head(queue[c])
  <2>1. PICK s \in Listings(Joining(c)) :
          queue' = [queue EXCEPT
            ![c] = @ \o [i \in DOMAIN s |-> NewItem(RangeCommand[s[i]])]]
    BY <1>4 DEF Update
  <2> DEFINE t == [i \in DOMAIN s |-> NewItem(RangeCommand[s[i]])]
  <2>2. t \in Seq(Items)
    BY ListingType
  <2>3. queue'[c] = queue[c] \o t
    BY <2>1 DEF TypeOK
  <2> HIDE DEF t
  <2> QED BY <1>1, <2>2, <2>3, ConcatProperties
<1> QED BY <1>2, <1>3, <1>4 DEF QueueCommand

\* Below the limit the send counter does not wrap.
LEMMA NoWrap ==
  ASSUME NEW n \in 0..(CountModulus - 1), n <= MaxRetries, MaxRetries + 1 < CountModulus
  PROVE  n \in Nat /\ (n + 1) % CountModulus = n + 1
<1>1. CountModulus \in Nat /\ MaxRetries \in Nat /\ CountModulus > 0
  BY ConstantsAssumption
<1>2. n \in Nat /\ n + 1 \in Nat /\ n + 1 < CountModulus
  BY <1>1
<1>3. \A a, b \in Nat : a < b => a % b = a
  OBVIOUS
<1> QED BY <1>1, <1>2, <1>3

\* A reply on its way to a controller that is alone on its connection and online
\* is for the command at the front of its queue: no retry, drop, new command or
\* poll puts another command there while a request is outstanding.
THEOREM OnlineReplyBelongsToFrontHolds == Spec => []OnlineReplyBelongsToFront
<1> USE ConstantsAssumption
<1>1. Init => OnlineReplyBelongsToFront
  BY DEF Init, OnlineReplyBelongsToFront
<1>2. TypeOK /\ OnlineReplyBelongsToFront /\ [Next]_vars => OnlineReplyBelongsToFront'
  <2> SUFFICES ASSUME TypeOK, OnlineReplyBelongsToFront, [Next]_vars,
                      NumControllers = 1, SplitKeys = {}, MaxRetries + 1 < CountModulus,
                      NEW c \in Controllers, request' # NoRequest, ~offline'[c]
               PROVE  /\ queue'[c] # <<>>
                      /\ Head(queue'[c]).key = request'.key
                      /\ Head(queue'[c]).sent > 0
    BY DEF OnlineReplyBelongsToFront
  <2>1. \A d \in Controllers : d = c
    OBVIOUS
  <2>2. request # NoRequest /\ ~offline[c] =>
          /\ queue[c] # <<>>
          /\ Head(queue[c]).key = request.key
          /\ Head(queue[c]).sent > 0
    BY DEF OnlineReplyBelongsToFront
  <2>3. CASE UNCHANGED <<queue, request, offline>>
    BY <2>2, <2>3
  <2>4. CASE (\E cmd \in UserCommands : QueueCommand(c, cmd)) \/ Update(c)
    <3>1. UNCHANGED <<request, offline>>
      BY <2>4 DEF QueueCommand, Update
    <3> QED BY <2>2, <2>4, <3>1, FrontKept
  <2>5. CASE Send(c)
    <3> DEFINE again == [queue[c][1] EXCEPT !.sent = (queue[c][1].sent + 1) % CountModulus]
    <3>1. /\ queue[c] \in Seq(Items) /\ 1 \in DOMAIN queue[c] /\ queue[c][1] \in Items
          /\ Head(queue[c]) = queue[c][1] /\ queue[c][1].sent <= MaxRetries
      BY <2>5 DEF Send, MaySend, ShouldRetry, TypeOK
    <3>2. queue'[c] = [queue[c] EXCEPT ![1] = again]
      BY <2>5, <3>1 DEF Send, TypeOK
    <3>3. queue[c][1].sent \in Nat /\ (queue[c][1].sent + 1) % CountModulus = queue[c][1].sent + 1
      <4>1. queue[c][1].sent \in 0..(CountModulus - 1)
        BY <3>1 DEF Items
      <4> QED BY <3>1, <4>1, NoWrap
    <3>4. again.key = queue[c][1].key /\ again.sent > 0
      BY <3>1, <3>3 DEF Items
    <3> HIDE DEF again
    <3>5. queue'[c] # <<>> /\ Head(queue'[c]) = again
      BY <3>1, <3>2
    <3>6. request' = request \/ request'.key = queue[c][1].key
      BY <2>5, <3>1 DEF Send, Transmit
    <3>7. offline' = offline
      BY <2>5 DEF Send
    <3> QED BY <2>2, <3>1, <3>4, <3>5, <3>6, <3>7
  <2>6. CASE GiveUp(c)
    BY <2>6 DEF GiveUp, MarkOffline, TypeOK
  <2>7. CASE ReadData \/ ReadException \/ ConnectionLost
    BY <2>7 DEF ReadData, ReadException, ConnectionLost
  <2>8. CASE ServerReplies
    <3>1. request \in Requests /\ request'.key = request.key /\ request # NoRequest
      BY <2>8 DEF ServerReplies, TypeOK, Requests
    <3>2. UNCHANGED <<queue, offline>>
      BY <2>8 DEF ServerReplies
    <3> QED BY <2>2, <3>1, <3>2
  <2> QED
    BY <2>1, <2>3, <2>4, <2>5, <2>6, <2>7, <2>8
    DEF Next, MainLoop, ControllerLoop, ProcessResponse, NothingToSend, TransportLoop,
        NothingToRead, ThrottleElapses, vars
<1> QED BY <1>1, <1>2, TypeCorrect, PTL DEF Spec
-----------------------------------------------------------------------------
(* Responses do not pile up.                                               *)

\* Whole replies: the controllers whose turn is past have handled theirs.
HandledInTurn ==
  SplitKeys = {} =>
    \A c \in Controllers :
      /\ turn = 0 \/ turn > c => incoming[c] = <<>>
      /\ Len(incoming[c]) <= 1

\* One controller: it sends nothing before it has handled every response.
HandledBeforeSending ==
  NumControllers = 1 =>
    \A c \in Controllers :
      /\ incoming[c] # <<>> => request = NoRequest
      /\ Len(incoming[c]) <= 2

\* After the last controller it is the transport's turn.
LEMMA NextTurn ==
  ASSUME NEW d \in Controllers
  PROVE  \/ d = NumControllers /\ (d + 1) % (NumControllers + 1) = 0
         \/ (d + 1) % (NumControllers + 1) = d + 1
<1>1. NumControllers \in Nat /\ NumControllers > 0 /\ d \in Nat /\ d <= NumControllers
  BY ConstantsAssumption
<1>2. \A a \in Nat : (a + 1) % (a + 1) = 0
  OBVIOUS
<1>3. \A a, b \in Nat : a < b => a % b = a
  OBVIOUS
<1>4. CASE d = NumControllers
  BY <1>1, <1>2, <1>4
<1>5. CASE d < NumControllers
  BY <1>1, <1>3, <1>5
<1> QED BY <1>1, <1>4, <1>5

\* What a dispatch adds to the response queue of a controller.
LEMMA TakeDataLength ==
  ASSUME NEW in \in Seq(Answers), NEW q, NEW about,
         q # <<>> => [key |-> Head(q).key, about |-> about] \in Answers
  PROVE  /\ TakeData(in, q, about) \in Seq(Answers)
         /\ Len(TakeData(in, q, about)) <= Len(in) + 1
BY AppendProperties DEF TakeData

LEMMA DispatchLength ==
  ASSUME TypeOK, Dispatch, request # NoRequest, NEW c \in Controllers, incoming[c] = <<>>
  PROVE  /\ Len(incoming'[c]) <= 2
         /\ SplitKeys = {} => Len(incoming'[c]) <= 1
<1> DEFINE about == <<request.ctl, request.key>>
           rest == <<0, request.key>>
<1>1. /\ queue[c] \in Seq(Items) /\ incoming[c] \in Seq(Answers) /\ Len(incoming[c]) = 0
      /\ request \in Requests
  BY DEF TypeOK
<1>2. about \in (0..NumControllers) \X Keys /\ rest \in (0..NumControllers) \X Keys
  BY <1>1, ConstantsAssumption DEF Requests
<1>3. \A q \in Seq(Items), a \in (0..NumControllers) \X Keys :
        q # <<>> => [key |-> Head(q).key, about |-> a] \in Answers
  <2>1. \A q \in Seq(Items) : q # <<>> => Head(q) \in Items
    BY HeadTailProperties
  <2>2. \A x \in Items : x.key \in Keys
    BY DEF Items
  <2> QED BY <2>1, <2>2 DEF Answers
<1> HIDE DEF about, rest
<1>4. AfterData(queue[c]) \in Seq(Items)
  BY <1>1 DEF AfterData
<1>5. /\ TakeData(incoming[c], queue[c], about) \in Seq(Answers)
      /\ Len(TakeData(incoming[c], queue[c], about)) <= 1
  <2>1. queue[c] # <<>> => [key |-> Head(queue[c]).key, about |-> about] \in Answers
    BY <1>1, <1>2, <1>3
  <2>2. /\ TakeData(incoming[c], queue[c], about) \in Seq(Answers)
        /\ Len(TakeData(incoming[c], queue[c], about)) <= Len(incoming[c]) + 1
    BY <1>1, <2>1, TakeDataLength
  <2>3. Len(incoming[c]) + 1 = 1
    BY <1>1
  <2> QED BY <2>2, <2>3
<1>6. Len(TakeData(TakeData(incoming[c], queue[c], about), AfterData(queue[c]), rest)) <= 2
  <2>1. Len(TakeData(TakeData(incoming[c], queue[c], about), AfterData(queue[c]), rest))
          <= Len(TakeData(incoming[c], queue[c], about)) + 1
    BY <1>2, <1>3, <1>4, <1>5, TakeDataLength
  <2>2. TakeData(TakeData(incoming[c], queue[c], about), AfterData(queue[c]), rest)
          \in Seq(Answers)
    BY <1>2, <1>3, <1>4, <1>5, TakeDataLength
  <2>3. Len(TakeData(incoming[c], queue[c], about)) \in Nat
    BY <1>5
  <2>4. Len(TakeData(TakeData(incoming[c], queue[c], about), AfterData(queue[c]), rest)) \in Nat
    BY <2>2
  <2> QED BY <1>5, <2>1, <2>3, <2>4
<1>7. \/ incoming'[c] = TakeData(incoming[c], queue[c], about)
      \/ /\ request.key \in SplitKeys
         /\ incoming'[c] = TakeData(TakeData(incoming[c], queue[c], about),
                                    AfterData(queue[c]), rest)
  BY DEF Dispatch, about, rest
<1>8. Len(TakeData(incoming[c], queue[c], about)) \in Nat
  BY <1>5
<1> QED BY <1>5, <1>6, <1>7, <1>8

\* A response queue holds one response, or two when a reply is read in pieces:
\* no controller sends before it has handled what it was given.
THEOREM IncomingBoundedHolds == Spec => []IncomingBounded
<1> USE ConstantsAssumption
<1>1. Init => HandledInTurn /\ HandledBeforeSending
  BY DEF Init, HandledInTurn, HandledBeforeSending
<1>2. TypeOK /\ HandledInTurn /\ [Next]_vars => HandledInTurn'
  <2> SUFFICES ASSUME TypeOK, HandledInTurn, [Next]_vars, SplitKeys = {}, NEW c \in Controllers
               PROVE  /\ turn' = 0 \/ turn' > c => incoming'[c] = <<>>
                      /\ Len(incoming'[c]) <= 1
    BY DEF HandledInTurn
  <2>1. /\ turn = 0 \/ turn > c => incoming[c] = <<>>
        /\ Len(incoming[c]) <= 1 /\ incoming[c] \in Seq(Answers) /\ turn \in 0..NumControllers
    BY DEF HandledInTurn, TypeOK
  <2>2. CASE UNCHANGED <<incoming, turn>>
    BY <2>1, <2>2
  <2>3. ASSUME NEW d \in Controllers, ControllerLoop(d)
        PROVE  /\ turn' = 0 \/ turn' > c => incoming'[c] = <<>>
               /\ Len(incoming'[c]) <= 1
    <3>1. turn = d /\ ((turn' = 0 /\ d = NumControllers) \/ turn' = d + 1)
      <4>1. turn = d /\ turn' = (d + 1) % (NumControllers + 1)
        BY <2>3 DEF ControllerLoop
      <4> QED BY <4>1, NextTurn
    <3>2. CASE d = c
      <4>1. incoming[c] = <<>> => incoming'[c] = <<>>
        <5>1. incoming[c] = <<>> => UNCHANGED incoming
          BY <2>3, <3>2 DEF ControllerLoop, ProcessResponse, Send, GiveUp, NothingToSend
        <5> QED BY <5>1
      <4>2. incoming[c] # <<>> => incoming'[c] = Tail(incoming[c])
        BY <2>3, <3>2 DEF ControllerLoop, ProcessResponse, TypeOK
      <4>3. ASSUME incoming[c] # <<>>
            PROVE  Tail(incoming[c]) = <<>>
        <5>1. Tail(incoming[c]) \in Seq(Answers) /\ Len(Tail(incoming[c])) = Len(incoming[c]) - 1
          BY <2>1, <4>3, HeadTailProperties
        <5>2. Len(Tail(incoming[c])) = 0
          <6>1. Len(incoming[c]) \in Nat \ {0}
            BY <2>1, <4>3, EmptySeq
          <6>2. \A n \in Nat \ {0} : n <= 1 => n = 1
            OBVIOUS
          <6>3. Len(incoming[c]) = 1
            BY <2>1, <6>1, <6>2, Zenon
          <6>4. 1 - 1 = 0
            OBVIOUS
          <6> QED BY <5>1, <6>3, <6>4, Zenon
        <5> QED BY <5>1, <5>2, EmptySeq
      <4>4. incoming'[c] = <<>>
        BY <4>1, <4>2, <4>3
      <4> QED BY <4>4
    <3>3. CASE d # c
      <4>1. incoming'[c] = incoming[c]
        BY <2>3, <3>3 DEF ControllerLoop, ProcessResponse, Send, GiveUp, NothingToSend, TypeOK
      <4>2. turn' = 0 \/ turn' > c => turn > c
        BY <3>1, <3>3
      <4> QED BY <2>1, <4>1, <4>2
    <3> QED BY <3>2, <3>3
  <2>4. CASE TransportLoop
    <3>1. turn = 0 /\ turn' = 1 /\ ~(turn' = 0 \/ turn' > c)
      BY <2>4 DEF TransportLoop
    <3>2. CASE ReadData
      BY <2>1, <3>1, <3>2, DispatchLength DEF ReadData, Available
    <3>3. CASE ReadException \/ NothingToRead
      BY <2>1, <3>1, <3>3 DEF ReadException, NothingToRead
    <3> QED BY <2>4, <3>2, <3>3 DEF TransportLoop
  <2> QED
    BY <2>2, <2>3, <2>4
    DEF Next, MainLoop, QueueCommand, Update, ServerReplies, ConnectionLost, ThrottleElapses, vars
<1>3. TypeOK /\ HandledBeforeSending /\ [Next]_vars => HandledBeforeSending'
  <2> SUFFICES ASSUME TypeOK, HandledBeforeSending, [Next]_vars, NumControllers = 1,
                      NEW c \in Controllers
               PROVE  /\ incoming'[c] # <<>> => request' = NoRequest
                      /\ Len(incoming'[c]) <= 2
    BY DEF HandledBeforeSending
  <2>1. /\ incoming[c] # <<>> => request = NoRequest
        /\ Len(incoming[c]) <= 2 /\ incoming[c] \in Seq(Answers)
    BY DEF HandledBeforeSending, TypeOK
  <2>2. CASE UNCHANGED incoming /\ (UNCHANGED request \/ incoming[c] = <<>> \/ request' = NoRequest)
    BY <2>1, <2>2
  <2>3. CASE ProcessResponse(c)
    <3>1. incoming[c] # <<>> /\ incoming'[c] = Tail(incoming[c]) /\ request' = request
      BY <2>3 DEF ProcessResponse, TypeOK
    <3>2. Tail(incoming[c]) \in Seq(Answers) /\ Len(Tail(incoming[c])) = Len(incoming[c]) - 1
      BY <2>1, <3>1, HeadTailProperties
    <3>3. Len(incoming[c]) \in Nat
      BY <2>1
    <3> QED BY <2>1, <3>1, <3>2, <3>3
  <2>4. CASE ReadData
    <3>1. request # NoRequest /\ Dispatch /\ request' = NoRequest
      BY <2>4 DEF ReadData, Available
    <3> QED BY <2>1, <3>1, DispatchLength
  <2>5. ASSUME ServerReplies
        PROVE  UNCHANGED incoming /\ incoming[c] = <<>>
    BY <2>1, <2>5 DEF ServerReplies
  <2>6. ASSUME NEW d \in Controllers, ControllerLoop(d), ~ProcessResponse(d)
        PROVE  UNCHANGED incoming /\ incoming[c] = <<>>
    <3>1. d = c
      OBVIOUS
    <3> QED BY <2>6, <3>1 DEF ControllerLoop, Send, GiveUp, NothingToSend
  <2>7. \A d \in Controllers : d = c
    OBVIOUS
  <2> QED
    BY <2>2, <2>3, <2>4, <2>5, <2>6, <2>7
    DEF Next, MainLoop, QueueCommand, Update, TransportLoop, ReadException, NothingToRead,
        ConnectionLost, ThrottleElapses, vars
<1>4. TypeOK /\ HandledInTurn /\ HandledBeforeSending => IncomingBounded
  BY DEF HandledInTurn, HandledBeforeSending, IncomingBounded
<1> QED BY <1>1, <1>2, <1>3, <1>4, TypeCorrect, PTL DEF Spec
-----------------------------------------------------------------------------
(* A command leaves the front only when it is answered or given up.        *)

\* No command is sent more often than the limit allows.
SentBounded(q) == \A i \in DOMAIN q : q[i].sent <= MaxRetries + 1

SendsBounded == MaxRetries + 1 < CountModulus => \A c \in Controllers : SentBounded(queue[c])

LEMMA SentBoundedAfterData ==
  ASSUME NEW q \in Seq(Items), SentBounded(q)
  PROVE  AfterData(q) \in Seq(Items) /\ SentBounded(AfterData(q))
<1>1. CASE q = <<>>
  BY <1>1 DEF AfterData
<1>2. CASE q # <<>>
  <2>1. /\ AfterData(q) = Tail(q) /\ Tail(q) \in Seq(Items) /\ Len(Tail(q)) = Len(q) - 1
        /\ \A k \in 1..Len(Tail(q)) : Tail(q)[k] = q[k + 1]
    BY <1>2, HeadTailProperties DEF AfterData
  <2>2. \A k \in 1..Len(Tail(q)) : k + 1 \in DOMAIN q
    BY <2>1
  <2> QED BY <2>1, <2>2 DEF SentBounded
<1> QED BY <1>1, <1>2

LEMMA SentBoundedConcat ==
  ASSUME NEW q \in Seq(Items), SentBounded(q), NEW t \in Seq(Items),
         \A k \in DOMAIN t : t[k].sent = 0
  PROVE  SentBounded(q \o t)
BY ConcatProperties, ConstantsAssumption DEF SentBounded

LEMMA SentBoundedReplace ==
  ASSUME NEW q \in Seq(Items), SentBounded(q), NEW i \in DOMAIN q, NEW item,
         item.sent <= MaxRetries + 1
  PROVE  SentBounded([q EXCEPT ![i] = item])
BY DEF SentBounded

LEMMA SendsBoundedHolds == Spec => []SendsBounded
<1> USE ConstantsAssumption
<1>1. Init => SendsBounded
  BY DEF Init, SendsBounded, SentBounded
<1>2. TypeOK /\ SendsBounded /\ [Next]_vars => SendsBounded'
  <2> SUFFICES ASSUME TypeOK, SendsBounded, [Next]_vars, MaxRetries + 1 < CountModulus,
                      NEW c \in Controllers
               PROVE  SentBounded(queue'[c])
    BY DEF SendsBounded
  <2>1. queue[c] \in Seq(Items) /\ SentBounded(queue[c])
    BY DEF TypeOK, SendsBounded
  <2>2. QueueStep(c)
    BY QueueSteps
  <2>3. CASE queue'[c] = queue[c]
    BY <2>1, <2>3
  <2>4. ASSUME NEW cmd \in UserCommands, NEW i \in DOMAIN queue[c],
               queue'[c] = [queue[c] EXCEPT ![i] = [queue[c][i] EXCEPT !.payload = cmd.payload]]
        PROVE  SentBounded(queue'[c])
    <3> DEFINE item == [queue[c][i] EXCEPT !.payload = cmd.payload]
    <3>1. queue[c][i] \in Items
      BY <2>1
    <3>2. item.sent = queue[c][i].sent
      BY <3>1 DEF Items
    <3>3. queue'[c] = [queue[c] EXCEPT ![i] = item]
      BY <2>4
    <3> HIDE DEF item
    <3>4. item.sent <= MaxRetries + 1
      BY <2>1, <3>2 DEF SentBounded
    <3>5. SentBounded([queue[c] EXCEPT ![i] = item])
      BY <2>1, <3>4, SentBoundedReplace
    <3> QED BY <3>3, <3>5
  <2>5. ASSUME NEW cmd \in UserCommands, queue'[c] = Append(queue[c], NewItem(cmd))
        PROVE  SentBounded(queue'[c])
    <3>1. NewItem(cmd) \in Items /\ NewItem(cmd).sent = 0
      BY UserCommandsType, NewItemType
    <3> QED BY <2>1, <2>5, <3>1, AppendProperties DEF SentBounded
  <2>6. ASSUME NEW s \in Listings(Joining(c)),
               queue'[c] = queue[c] \o [i \in DOMAIN s |-> NewItem(RangeCommand[s[i]])]
        PROVE  SentBounded(queue'[c])
    <3> DEFINE t == [i \in DOMAIN s |-> NewItem(RangeCommand[s[i]])]
    <3>1. t \in Seq(Items) /\ s \in Seq(Ranges)
      BY ListingType
    <3>2. \A k \in DOMAIN s : s[k] \in Ranges
      BY DEF Listings, Joining, Due
    <3>3. \A r \in Ranges : NewItem(RangeCommand[r]).sent = 0
      BY RangeCommandType, NewItemType
    <3>4. \A k \in DOMAIN t : t[k].sent = 0
      BY <3>2, <3>3
    <3> HIDE DEF t
    <3>5. SentBounded(queue[c] \o t)
      BY <2>1, <3>1, <3>4, SentBoundedConcat
    <3> QED BY <2>6, <3>5 DEF t
  <2>7. CASE /\ queue[c] # <<>> /\ ShouldRetry(Head(queue[c]))
             /\ queue'[c] = [queue[c] EXCEPT
                  ![1] = [queue[c][1] EXCEPT !.sent = (queue[c][1].sent + 1) % CountModulus]]
    <3> DEFINE again == [queue[c][1] EXCEPT !.sent = (queue[c][1].sent + 1) % CountModulus]
    <3>0. 1 \in DOMAIN queue[c] /\ queue[c][1] \in Items /\ Head(queue[c]) = queue[c][1]
      BY <2>1, <2>7
    <3>1. /\ 1 \in DOMAIN queue[c] /\ queue[c][1] \in Items /\ queue[c][1].sent <= MaxRetries
          /\ queue[c][1].sent \in 0..(CountModulus - 1)
      BY <2>7, <3>0 DEF ShouldRetry, Items
    <3>2. again.sent = queue[c][1].sent + 1 /\ queue[c][1].sent \in Nat
      BY <3>1, NoWrap DEF Items
    <3>3. queue'[c] = [queue[c] EXCEPT ![1] = again]
      BY <2>7
    <3> HIDE DEF again
    <3>4. again.sent <= MaxRetries + 1
      BY <3>1, <3>2
    <3>5. SentBounded([queue[c] EXCEPT ![1] = again])
      BY <2>1, <3>1, <3>4, SentBoundedReplace
    <3> QED BY <3>3, <3>5
  <2>8. CASE queue'[c] = AfterData(queue[c])
    BY <2>1, <2>8, SentBoundedAfterData
  <2>9. CASE queue'[c] = AfterData(AfterData(queue[c]))
    BY <2>1, <2>9, SentBoundedAfterData
  <2> QED BY <2>2, <2>3, <2>4, <2>5, <2>6, <2>7, <2>8, <2>9 DEF QueueStep
<1> QED BY <1>1, <1>2, TypeCorrect, PTL DEF Spec

\* The command at the front is never overtaken or lost: it leaves only with a
\* response or after it was sent MaxRetries + 1 times.
THEOREM FrontStaysUntilSettledHolds == Spec => FrontStaysUntilSettled
<1> USE ConstantsAssumption
<1> DEFINE Settled(c) == \/ FrontStays(c)
                         \/ turn = 0 /\ Available /\ request.reply = "data"
                         \/ Head(queue[c]).sent = MaxRetries + 1
<1>1. ASSUME TypeOK, SendsBounded, [Next]_vars, MaxRetries + 1 < CountModulus,
             NEW c \in Controllers, queue[c] # <<>>
      PROVE  Settled(c)
  <2>1. /\ queue[c] \in Seq(Items) /\ 1 \in DOMAIN queue[c] /\ queue[c][1] \in Items
        /\ Head(queue[c]) = queue[c][1] /\ queue[c][1].sent \in 0..(CountModulus - 1)
        /\ queue[c][1].sent <= MaxRetries + 1 /\ Len(queue[c]) \in Nat
    <3>1. /\ queue[c] \in Seq(Items) /\ 1 \in DOMAIN queue[c] /\ queue[c][1] \in Items
          /\ Head(queue[c]) = queue[c][1] /\ Len(queue[c]) \in Nat
      BY <1>1 DEF TypeOK
    <3>2. queue[c][1].sent \in 0..(CountModulus - 1)
      BY <3>1 DEF Items
    <3>3. queue[c][1].sent <= MaxRetries + 1
      BY <1>1, <3>1 DEF SendsBounded, SentBounded
    <3> QED BY <3>1, <3>2, <3>3
  <2>2. CASE queue'[c] = queue[c]
    BY <2>1, <2>2 DEF FrontStays
  <2>3. CASE (\E cmd \in UserCommands : QueueCommand(c, cmd)) \/ Update(c)
    <3>1. /\ queue'[c] # <<>>
          /\ Head(queue'[c]).key = Head(queue[c]).key
          /\ Head(queue'[c]).sent = Head(queue[c]).sent
      BY <1>1, <2>3, FrontKept
    <3>2. Len(queue'[c]) >= Len(queue[c])
      <4>1. ASSUME NEW cmd \in UserCommands, ReplacePayload(c, cmd)
            PROVE  Len(queue'[c]) = Len(queue[c])
        BY <1>1, <2>1, <4>1 DEF ReplacePayload, TypeOK
      <4>2. ASSUME NEW cmd \in UserCommands, PushBack(c, cmd)
            PROVE  Len(queue'[c]) = Len(queue[c]) + 1
        BY <1>1, <2>1, <4>2 DEF PushBack, TypeOK
      <4>3. ASSUME Update(c)
            PROVE  Len(queue'[c]) >= Len(queue[c])
        <5>1. PICK s \in Listings(Joining(c)) :
                queue'[c] = queue[c] \o [i \in DOMAIN s |-> NewItem(RangeCommand[s[i]])]
          BY <1>1, <4>3 DEF Update, TypeOK
        <5> DEFINE t == [i \in DOMAIN s |-> NewItem(RangeCommand[s[i]])]
        <5>2. t \in Seq(Items)
          BY ListingType
        <5> HIDE DEF t
        <5>3. Len(queue[c] \o t) >= Len(queue[c])
          BY <2>1, <5>2, ConcatProperties
        <5> QED BY <5>1, <5>3 DEF t
      <4> QED BY <2>1, <2>3, <4>1, <4>2, <4>3 DEF QueueCommand
    <3> QED BY <2>1, <3>1, <3>2 DEF FrontStays
  <2>4. CASE Send(c)
    <3> DEFINE again == [queue[c][1] EXCEPT !.sent = (queue[c][1].sent + 1) % CountModulus]
    <3>1. queue[c][1].sent <= MaxRetries
      BY <2>1, <2>4 DEF Send, ShouldRetry
    <3>2. again.key = queue[c][1].key /\ again.sent = queue[c][1].sent + 1 /\ queue[c][1].sent \in Nat
      BY <1>1, <2>1, <3>1, NoWrap DEF Items
    <3>3. queue'[c] = [queue[c] EXCEPT ![1] = again]
      BY <1>1, <2>1, <2>4 DEF Send, TypeOK
    <3> HIDE DEF again
    <3>4. Head(queue'[c]) = again /\ Len(queue'[c]) = Len(queue[c])
      BY <2>1, <3>3
    <3> QED BY <2>1, <3>2, <3>4 DEF FrontStays
  <2>5. CASE GiveUp(c)
    <3>1. ~(queue[c][1].sent <= MaxRetries)
      BY <2>1, <2>5 DEF GiveUp, ShouldRetry
    <3>2. queue[c][1].sent = MaxRetries + 1
      BY <2>1, <3>1
    <3> QED BY <2>1, <3>2
  <2>6. CASE TransportLoop /\ ReadData
    BY <2>6 DEF TransportLoop, ReadData
  <2>7. ASSUME NEW d \in Controllers, d # c,
               \/ \E cmd \in UserCommands : QueueCommand(d, cmd)
               \/ Update(d) \/ Send(d) \/ GiveUp(d)
        PROVE  queue'[c] = queue[c]
    BY <1>1, <2>7 DEF QueueCommand, ReplacePayload, PushBack, Update, Send, GiveUp, TypeOK
  <2> HIDE DEF Settled
  <2> QED
    BY <1>1, <2>2, <2>3, <2>4, <2>5, <2>6, <2>7
    DEF Next, MainLoop, ControllerLoop, ProcessResponse, NothingToSend, TransportLoop,
        ReadException, NothingToRead, ServerReplies, ConnectionLost, ThrottleElapses, vars
<1>2. TypeOK /\ SendsBounded /\ [Next]_vars =>
        [MaxRetries + 1 < CountModulus =>
           \A c \in Controllers : queue[c] # <<>> => Settled(c)]_vars
  BY <1>1
<1> QED BY <1>2, TypeCorrect, SendsBoundedHolds, PTL DEF Spec, FrontStaysUntilSettled

-----------------------------------------------------------------------------
(* Numbers: induction, division and powers of two.                           *)

\* The numbers are well-founded by their order.
LEMMA LessWellFounded == IsWellFoundedOn({p \in Nat \X Nat : p[1] < p[2]}, Nat)
BY NatLessThanWellFounded DEF OpToRel

\* A number is its quotient times the divisor, and the remainder.
LEMMA Divided ==
  ASSUME NEW a \in Int, NEW d \in Nat, d > 0
  PROVE  /\ a \div d \in Int /\ (a % d) \in 0..(d - 1)
         /\ a = (a \div d) * d + (a % d)
OBVIOUS

\* The quotient and the remainder of what is written as such a sum.
LEMMA Quotient ==
  ASSUME NEW d \in Nat, d > 0, NEW q \in Int, NEW r \in 0..(d - 1)
  PROVE  (q * d + r) \div d = q /\ ((q * d + r) % d) = r
OBVIOUS

\* The same, for a number that equals such a sum.
LEMMA QuotientIs ==
  ASSUME NEW a \in Int, NEW d \in Nat, d > 0, NEW q \in Int, NEW r \in 0..(d - 1), a = q * d + r
  PROVE  a \div d = q /\ (a % d) = r
BY Quotient

\* A number below the divisor is its own remainder.
LEMMA SmallMod ==
  ASSUME NEW d \in Nat, d > 0, NEW r \in 0..(d - 1)
  PROVE  r \div d = 0 /\ (r % d) = r
OBVIOUS

\* Division by one changes nothing.
LEMMA DividedByOne ==
  ASSUME NEW a \in Int
  PROVE  a \div 1 = a /\ (a % 1) = 0
OBVIOUS

\* Remainders may be taken before or after an addition.
LEMMA ModAdd ==
  ASSUME NEW d \in Nat, d > 0, NEW a \in Int, NEW b \in Int
  PROVE  /\ (((a % d) + b) % d) = ((a + b) % d)
         /\ ((b + (a % d)) % d) = ((a + b) % d)
<1> DEFINE p == a \div d
           s == a % d
           q == (s + b) \div d
           r == (s + b) % d
<1>1. p \in Int /\ s \in 0..(d - 1) /\ a = p * d + s
  BY Divided
<1>2. q \in Int /\ r \in 0..(d - 1) /\ s + b = q * d + r
  BY <1>1, Divided
<1> HIDE DEF p, s, q, r
<1>3. p * d \in Int /\ q * d \in Int /\ (p + q) * d = p * d + q * d
  BY <1>1, <1>2
<1>4. a + b = (p + q) * d + r
  BY <1>1, <1>2, <1>3
<1>5. ((a + b) % d) = r
  <2> DEFINE c == a + b
             e == p + q
  <2>1. c \in Int /\ e \in Int /\ c = e * d + r
    BY <1>1, <1>2, <1>4
  <2> HIDE DEF c, e
  <2>2. (c % d) = r
    BY <2>1, <1>2, QuotientIs
  <2> QED BY <2>2 DEF c
<1>6. b + s = s + b
  BY <1>1
<1> QED BY <1>5, <1>6 DEF r, s

\* The least number of a set, by name.
LEMMA LeastElement ==
  ASSUME NEW S, S \subseteq Nat, S # {}
  PROVE  \E m \in S : \A n \in S : m <= n
<1>1. PICK m \in S : \A n \in S : ~ (<<n, m>> \in {p \in Nat \X Nat : p[1] < p[2]})
  BY LessWellFounded, WFMin
<1>2. ASSUME NEW n \in S PROVE m <= n
  <2>1. m \in Nat /\ n \in Nat
    OBVIOUS
  <2>2. ~(n < m)
    BY <1>1, <2>1
  <2> QED BY <2>1, <2>2
<1> QED BY <1>2

\* Induction over a set of numbers, up to a bound.
LEMMA UpTo ==
  ASSUME NEW n \in Nat, NEW G, 0 \in G, \A k \in 1..n : k - 1 \in G => k \in G
  PROVE  \A k \in 0..n : k \in G
<1> SUFFICES ASSUME (0..n) \ G # {} PROVE FALSE
  OBVIOUS
<1> DEFINE S == (0..n) \ G
<1>0. S \subseteq Nat /\ S # {}
  OBVIOUS
<1>1. PICK m \in S : \A k \in S : m <= k
  <2> HIDE DEF S
  <2> QED BY <1>0, LeastElement
<1>2. m # 0 /\ m - 1 \in 0..n /\ m \in 1..n
  BY <1>1
<1>3. m - 1 \in G
  BY <1>1, <1>2
<1> QED BY <1>1, <1>2, <1>3

\* f begins with a, and step[k] takes it from k - 1 to k.
Recursion(f, n, a, step) == f[0] = a /\ \A k \in 1..n : f[k] = step[k][f[k - 1]]

\* A function that is defined by recursion up to a bound exists.
LEMMA RecursionExists ==
  ASSUME NEW n \in Nat, NEW W, NEW a \in W, NEW step \in [1..n -> [W -> W]]
  PROVE  \E f \in [0..n -> W] : Recursion(f, n, a, step)
<1> DEFINE Solves(m, f) == f = [k \in 0..m |-> IF k = 0 THEN a ELSE step[k][f[k - 1]]]
           G == {m \in 0..n : \E f \in [0..m -> W] : Solves(m, f)}
<1>1. 0 \in G
  <2> DEFINE f == [k \in 0..0 |-> a]
  <2>1. f \in [0..0 -> W] /\ Solves(0, f)
    OBVIOUS
  <2> HIDE DEF f
  <2>2. \E h \in [0..0 -> W] : Solves(0, h)
    BY <2>1
  <2> QED BY <2>2
<1>2. ASSUME NEW m \in 1..n, m - 1 \in G PROVE m \in G
  <2>1. PICK f \in [0..(m - 1) -> W] : Solves(m - 1, f)
    BY <1>2
  <2> DEFINE last == step[m][f[m - 1]]
             g == [k \in 0..m |-> IF k = m THEN last ELSE f[k]]
  <2>2. last \in W
    BY <2>1
  <2> HIDE DEF last
  <2>3. g \in [0..m -> W]
    BY <2>1, <2>2
  <2>4. ASSUME NEW k \in 0..m PROVE g[k] = IF k = 0 THEN a ELSE step[k][g[k - 1]]
    <3>1. CASE k = m
      <4>1. g[m - 1] = f[m - 1] /\ g[m] = last /\ m # 0
        OBVIOUS
      <4> QED BY <3>1, <4>1 DEF last
    <3>2. CASE k # m
      <4>1. k \in 0..(m - 1) /\ (k # 0 => k - 1 \in 0..(m - 1) /\ k - 1 # m)
        BY <3>2
      <4>2. f[k] = IF k = 0 THEN a ELSE step[k][f[k - 1]]
        BY <2>1, <4>1
      <4>3. g[k] = f[k] /\ (k # 0 => g[k - 1] = f[k - 1])
        BY <3>2, <4>1
      <4> QED BY <4>2, <4>3
    <3> QED BY <3>1, <3>2
  <2> HIDE DEF g
  <2>5. Solves(m, g)
    BY <2>3, <2>4
  <2>6. \E h \in [0..m -> W] : Solves(m, h)
    BY <2>3, <2>5
  <2> HIDE DEF Solves
  <2> QED BY <2>6
<1> HIDE DEF G
<1>3. n \in G
  <2>1. \A k \in 0..n : k \in G
    BY <1>1, <1>2, UpTo
  <2> QED BY <2>1
<1>4. PICK f \in [0..n -> W] : Solves(n, f)
  BY <1>3 DEF G
<1>5. \A k \in 0..n : f[k] = IF k = 0 THEN a ELSE step[k][f[k - 1]]
  BY <1>4
<1>6. f[0] = a /\ \A k \in 1..n : f[k] = step[k][f[k - 1]]
  BY <1>5
<1> QED BY <1>6 DEF Recursion

\* Pow2 is defined for every number, so it is put together from its beginnings.
LEMMA Powers ==
  /\ Pow2 \in [Nat -> Nat]
  /\ Pow2[0] = 1
  /\ \A k \in Nat : Pow2[k + 1] = 2 * Pow2[k]
<1> DEFINE Solves(f, n) == f = [k \in 0..n |-> IF k = 0 THEN 1 ELSE 2 * f[k - 1]]
           part(n) == CHOOSE f \in [0..n -> Nat] : Solves(f, n)
<1>1. ASSUME NEW n \in Nat PROVE part(n) \in [0..n -> Nat] /\ Solves(part(n), n)
  <2> DEFINE step == [k \in 1..n |-> [x \in Nat |-> 2 * x]]
  <2>1. step \in [1..n -> [Nat -> Nat]] /\ 1 \in Nat
    OBVIOUS
  <2>2. PICK f \in [0..n -> Nat] : Recursion(f, n, 1, step)
    <3> HIDE DEF step
    <3> QED BY <2>1, RecursionExists
  <2>3. ASSUME NEW k \in 0..n PROVE f[k] = IF k = 0 THEN 1 ELSE 2 * f[k - 1]
    <3>1. CASE k # 0
      <4>1. k \in 1..n /\ f[k - 1] \in Nat
        BY <3>1
      <4>2. step[k][f[k - 1]] = 2 * f[k - 1]
        BY <4>1
      <4> QED BY <4>1, <4>2, <2>2, <3>1 DEF Recursion
    <3>2. CASE k = 0
      BY <3>2, <2>2 DEF Recursion
    <3> QED BY <3>1, <3>2
  <2>4. Solves(f, n)
    BY <2>3
  <2> HIDE DEF Solves
  <2> QED BY <2>4
<1>2. ASSUME NEW n \in Nat, NEW k \in 0..n
      PROVE  part(n)[k] = IF k = 0 THEN 1 ELSE 2 * part(n)[k - 1]
  <2> DEFINE f == part(n)
  <2>1. f = [j \in 0..n |-> IF j = 0 THEN 1 ELSE 2 * f[j - 1]]
    BY <1>1
  <2> HIDE DEF f
  <2>2. f[k] = IF k = 0 THEN 1 ELSE 2 * f[k - 1]
    BY <2>1
  <2> QED BY <2>2 DEF f
<1>3. ASSUME NEW n \in Nat, NEW m \in 0..n PROVE part(n)[m] = part(m)[m]
  <2> DEFINE f == part(n)
             g == part(m)
             G == {k \in 0..m : f[k] = g[k]}
  <2>1. \A k \in 0..m : /\ f[k] = IF k = 0 THEN 1 ELSE 2 * f[k - 1]
                        /\ g[k] = IF k = 0 THEN 1 ELSE 2 * g[k - 1]
    <3> HIDE DEF part
    <3> QED BY <1>2
  <2> HIDE DEF f, g
  <2>2. 0 \in G /\ \A k \in 1..m : k - 1 \in G => k \in G
    BY <2>1
  <2> HIDE DEF G
  <2>3. m \in G
    BY <2>2, UpTo
  <2> QED BY <2>3 DEF f, g, G
<1> DEFINE all == [n \in Nat |-> part(n)[n]]
<1>4. ASSUME NEW n \in Nat PROVE all[n] \in Nat /\ all[n] = IF n = 0 THEN 1 ELSE 2 * all[n - 1]
  <2>1. part(n) \in [0..n -> Nat] /\ part(n)[n] = IF n = 0 THEN 1 ELSE 2 * part(n)[n - 1]
    <3> HIDE DEF part, Solves
    <3> QED BY <1>1, <1>2
  <2>2. n # 0 => n - 1 \in Nat /\ part(n)[n - 1] = part(n - 1)[n - 1]
    <3> HIDE DEF part
    <3> QED BY <1>3
  <2> HIDE DEF part
  <2> QED BY <2>1, <2>2
<1>5. all = [n \in Nat |-> IF n = 0 THEN 1 ELSE 2 * all[n - 1]]
  <2> HIDE DEF part
  <2>1. DOMAIN all = Nat
    OBVIOUS
  <2> QED BY <1>4
<1> HIDE DEF all
<1>6. Pow2 = [n \in Nat |-> IF n = 0 THEN 1 ELSE 2 * Pow2[n - 1]]
  BY <1>5 DEF Pow2
<1>7. ASSUME NEW n \in Nat PROVE Pow2[n] = IF n = 0 THEN 1 ELSE 2 * Pow2[n - 1]
  BY <1>6
<1>8. ASSUME NEW n \in Nat PROVE Pow2[n] \in Nat
  <2> DEFINE G == {k \in 0..n : Pow2[k] \in Nat}
  <2>1. 0 \in G /\ \A k \in 1..n : k - 1 \in G => k \in G
    BY <1>7
  <2> HIDE DEF G
  <2>2. n \in G
    BY <2>1, UpTo
  <2> QED BY <2>2 DEF G
<1>9. Pow2 \in [Nat -> Nat]
  BY <1>6, <1>8
<1> QED BY <1>7, <1>9

\* Powers of two are positive.
LEMMA PowerPositive == \A k \in Nat : Pow2[k] \in Nat /\ Pow2[k] > 0
<1> SUFFICES ASSUME NEW n \in Nat PROVE Pow2[n] \in Nat /\ Pow2[n] > 0
  OBVIOUS
<1> DEFINE G == {k \in 0..n : Pow2[k] > 0}
<1>1. 0 \in G
  BY Powers
<1>2. ASSUME NEW k \in 1..n, k - 1 \in G PROVE k \in G
  <2>1. k - 1 \in Nat /\ Pow2[(k - 1) + 1] = 2 * Pow2[k - 1] /\ (k - 1) + 1 = k /\ Pow2[k - 1] \in Nat
    BY Powers
  <2> QED BY <2>1, <1>2
<1> HIDE DEF G
<1>3. n \in G
  BY <1>1, <1>2, UpTo
<1> QED BY <1>3, Powers DEF G

\* The power of a sum is the product of the powers.
LEMMA PowerSum == \A a, b \in Nat : Pow2[a + b] = Pow2[a] * Pow2[b]
<1> SUFFICES ASSUME NEW a \in Nat, NEW n \in Nat PROVE Pow2[a + n] = Pow2[a] * Pow2[n]
  OBVIOUS
<1> DEFINE G == {k \in 0..n : Pow2[a + k] = Pow2[a] * Pow2[k]}
<1>1. 0 \in G
  BY Powers
<1>2. ASSUME NEW k \in 1..n, k - 1 \in G PROVE k \in G
  <2>1. k - 1 \in Nat /\ (k - 1) + 1 = k /\ a + (k - 1) \in Nat /\ (a + (k - 1)) + 1 = a + k
    OBVIOUS
  <2>2. Pow2[k] = 2 * Pow2[k - 1] /\ Pow2[a + k] = 2 * Pow2[a + (k - 1)]
    BY <2>1, Powers
  <2>3. Pow2[a + (k - 1)] = Pow2[a] * Pow2[k - 1]
    BY <1>2
  <2>4. Pow2[a] \in Nat /\ Pow2[k - 1] \in Nat
    BY <2>1, Powers
  <2>5. \A x, y \in Nat : 2 * (x * y) = x * (2 * y)
    OBVIOUS
  <2> QED BY <2>2, <2>3, <2>4, <2>5
<1> HIDE DEF G
<1>3. n \in G
  BY <1>1, <1>2, UpTo
<1> QED BY <1>3 DEF G

\* What the prover does not see of products by itself.
LEMMA Products ==
  /\ \A x, y \in Nat : x * y \in Nat /\ x * y = y * x
  /\ \A x, y, z \in Nat : x * (y * 2 * z) = y * (2 * (x * z))
  /\ \A w, x, y, z \in Nat : w * (x + 2 * y) + w * (2 * z) = w * (x + 2 * (y + z))
  /\ \A x, y, z \in Nat : (x * y) * z = x * (y * z)
  /\ \A x, y, z \in Nat : x * (y + z) = x * y + x * z
OBVIOUS

-----------------------------------------------------------------------------
(* Bytes, words and bits.                                                    *)

\* Bytes and words have at least one bit and two.
LEMMA Sizes ==
  /\ ByteBits \in Nat /\ ByteBits > 0
  /\ ByteSize \in Nat /\ ByteSize >= 2
  /\ WordSize \in Nat /\ WordSize = ByteSize * ByteSize /\ WordSize >= 4
  /\ WordSize = Pow2[2 * ByteBits]
<1>1. ByteBits \in Nat /\ ByteBits > 0
  BY ByteBitsAssumption
<1>2. ByteSize \in Nat /\ ByteSize >= 2
  <2>1. ByteBits - 1 \in Nat /\ (ByteBits - 1) + 1 = ByteBits
    BY <1>1
  <2>2. ByteSize = 2 * Pow2[ByteBits - 1]
    BY <2>1, Powers DEF ByteSize
  <2>3. Pow2[ByteBits - 1] \in Nat /\ Pow2[ByteBits - 1] > 0
    BY <2>1, PowerPositive
  <2> QED BY <2>2, <2>3
<1>3. \A b \in Nat : b >= 2 => b * b \in Nat /\ b * b >= 4
  <2> SUFFICES ASSUME NEW b \in Nat, b >= 2 PROVE b * b \in Nat /\ b * b >= 4
    OBVIOUS
  <2>1. b * b = 2 * b + (b - 2) * b /\ (b - 2) * b \in Nat
    OBVIOUS
  <2> QED BY <2>1
<1>4. WordSize = Pow2[2 * ByteBits]
  <2>1. ByteBits + ByteBits = 2 * ByteBits
    BY <1>1
  <2> QED BY <1>1, <2>1, PowerSum DEF WordSize, ByteSize
<1> QED BY <1>1, <1>2, <1>3, <1>4 DEF WordSize

\* The two bytes of a word make up the word.
LEMMA WordSplit ==
  ASSUME NEW w \in Int
  PROVE  /\ HiLo(w)[1] * ByteSize + HiLo(w)[2] = w
         /\ w \div ByteSize \in Int /\ (w % ByteSize) \in 0..(ByteSize - 1)
<1>1. /\ w = (w \div ByteSize) * ByteSize + (w % ByteSize)
      /\ w \div ByteSize \in Int /\ (w % ByteSize) \in 0..(ByteSize - 1)
  BY Sizes, Divided
<1> QED BY <1>1 DEF HiLo

\* The words that bytes were made of are read back from those bytes.
LEMMA WordsKept ==
  ASSUME NEW words \in Seq(Int)
  PROVE  /\ Len(BytesOfWords(words)) = 2 * Len(words)
         /\ \A k \in 1..Len(words) : WordAt(BytesOfWords(words), 2 * (k - 1)) = words[k]
<1> DEFINE bytes == BytesOfWords(words)
<1>1. Len(words) \in Nat
  OBVIOUS
<1>2. Len(bytes) = 2 * Len(words)
  BY <1>1 DEF BytesOfWords
<1>3. ASSUME NEW k \in 1..Len(words) PROVE WordAt(bytes, 2 * (k - 1)) = words[k]
  <2> DEFINE a == 2 * (k - 1) + 1
             b == 2 * (k - 1) + 2
  <2>1. a \in 1..(2 * Len(words)) /\ b \in 1..(2 * Len(words))
    BY <1>1
  <2>2. (a + 1) \div 2 = k /\ (b + 1) \div 2 = k /\ 2 - (a % 2) = 1 /\ 2 - (b % 2) = 2
    OBVIOUS
  <2>3. bytes[a] = HiLo(words[(a + 1) \div 2])[2 - (a % 2)]
    BY <2>1 DEF BytesOfWords
  <2>4. bytes[b] = HiLo(words[(b + 1) \div 2])[2 - (b % 2)]
    BY <2>1 DEF BytesOfWords
  <2>5. bytes[a] = HiLo(words[k])[1] /\ bytes[b] = HiLo(words[k])[2]
    BY <2>2, <2>3, <2>4
  <2>6. words[k] \in Int
    BY ElementOfSeq
  <2> HIDE DEF bytes
  <2>7. WordAt(bytes, 2 * (k - 1)) = bytes[a] * ByteSize + bytes[b]
    BY DEF WordAt
  <2> QED BY <2>5, <2>6, <2>7, WordSplit
<1> QED BY <1>2, <1>3

\* The value of the first bits is kept in a byte, and the bit after them can be told.
LEMMA BitKept ==
  ASSUME NEW f \in [0..ByteBits -> Nat], f[0] = 0, NEW bit \in [1..ByteBits -> 0..1],
         \A k \in 1..ByteBits : f[k] = f[k - 1] + bit[k] * Pow2[k - 1],
         NEW j \in 1..ByteBits
  PROVE  BitOf(f[ByteBits], j - 1) = bit[j]
<1> DEFINE G == {k \in 0..ByteBits : f[k] < Pow2[k]}
           d == Pow2[j - 1]
<1>1. ByteBits \in Nat
  BY Sizes
<1>2. \A k \in 1..ByteBits : /\ k - 1 \in Nat /\ Pow2[k - 1] \in Nat /\ Pow2[k - 1] > 0
                             /\ Pow2[k] = 2 * Pow2[k - 1]
  <2> TAKE k \in 1..ByteBits
  <2>1. k - 1 \in Nat /\ (k - 1) + 1 = k
    BY <1>1
  <2> QED BY <2>1, Powers, PowerPositive
<1>3. 0 \in G
  BY <1>1, Powers
<1>4. ASSUME NEW k \in 1..ByteBits, k - 1 \in G PROVE k \in G
  <2>1. f[k - 1] < Pow2[k - 1] /\ f[k - 1] \in Nat
    BY <1>4
  <2>2. bit[k] = 0 \/ bit[k] = 1
    OBVIOUS
  <2>3. f[k] = f[k - 1] + bit[k] * Pow2[k - 1]
    OBVIOUS
  <2>4. f[k] < Pow2[k]
    BY <2>1, <2>2, <2>3, <1>2
  <2> QED BY <2>4
<1> HIDE DEF G
<1>5. \A k \in 0..ByteBits : k \in G
  BY <1>1, <1>3, <1>4, UpTo
<1>6. j - 1 \in 0..ByteBits /\ f[j - 1] < d /\ d \in Nat /\ d > 0 /\ f[j - 1] \in Nat
  <2>1. j - 1 \in 0..ByteBits
    BY <1>1
  <2>2. f[j - 1] < Pow2[j - 1]
    BY <2>1, <1>5 DEF G
  <2> QED BY <2>1, <2>2, <1>2
<1> DEFINE H == {k \in 0..ByteBits : k >= j => \E r \in Nat : f[k] = f[j - 1] + d * (bit[j] + 2 * r)}
<1> HIDE DEF d
<1>7. ASSUME NEW k \in 1..ByteBits, k - 1 \in H PROVE k \in H
  <2> SUFFICES ASSUME k >= j PROVE \E r \in Nat : f[k] = f[j - 1] + d * (bit[j] + 2 * r)
    OBVIOUS
  <2>1. CASE k = j
    <3>1. f[k] = f[j - 1] + d * (bit[j] + 2 * 0)
      BY <2>1, <1>6 DEF d
    <3> QED BY <3>1
  <2>2. CASE k > j
    <3>1. PICK r \in Nat : f[k - 1] = f[j - 1] + d * (bit[j] + 2 * r)
      BY <2>2, <1>7
    <3>2. Pow2[k - 1] = d * 2 * Pow2[k - 1 - j] /\ Pow2[k - 1 - j] \in Nat
      <4>1. j \in Nat /\ k - 1 - j \in Nat /\ j + (k - 1 - j) = k - 1
        BY <2>2, <1>1
      <4>2. Pow2[k - 1] = Pow2[j] * Pow2[k - 1 - j] /\ Pow2[k - 1 - j] \in Nat
        BY <4>1, PowerSum, PowerPositive
      <4>3. Pow2[j] = 2 * d
        BY <1>2 DEF d
      <4>4. 2 * d = d * 2
        BY <1>6
      <4> QED BY <4>2, <4>3, <4>4
    <3> DEFINE e == Pow2[k - 1 - j]
               s == r + bit[k] * e
    <3>3. e \in Nat /\ bit[k] \in 0..1 /\ bit[j] \in 0..1 /\ s \in Nat /\ r \in Nat
      BY <3>2
    <3> HIDE DEF e
    <3>4. f[k] = f[k - 1] + bit[k] * Pow2[k - 1]
      OBVIOUS
    <3>5. f[k] = f[j - 1] + d * (bit[j] + 2 * r) + bit[k] * (d * 2 * e)
      BY <3>1, <3>2, <3>4 DEF e
    <3>6. bit[k] * (d * 2 * e) = d * (2 * (bit[k] * e))
      <4>1. bit[k] \in Nat
        BY <3>3
      <4> QED BY <4>1, <3>3, <1>6, Products
    <3>7. d * (bit[j] + 2 * r) + d * (2 * (bit[k] * e)) = d * (bit[j] + 2 * s)
      <4>1. bit[k] \in Nat /\ bit[j] \in Nat
        BY <3>3
      <4>2. bit[k] * e \in Nat
        BY <4>1, <3>3, Products
      <4> DEFINE x == bit[j]
                 z == bit[k] * e
      <4>3. x \in Nat /\ z \in Nat /\ d \in Nat /\ r \in Nat
        BY <4>1, <4>2, <1>6
      <4> HIDE DEF x, z
      <4>4. d * (x + 2 * r) + d * (2 * z) = d * (x + 2 * (r + z))
        BY <4>3, Products
      <4> QED BY <4>4 DEF x, z
    <3>8. f[k] = f[j - 1] + d * (bit[j] + 2 * s)
      <4>1. bit[k] \in Nat /\ bit[j] + 2 * r \in Nat
        BY <3>3
      <4>2. 2 * (bit[k] * e) \in Nat
        BY <4>1, <3>3, Products
      <4>3. d * (bit[j] + 2 * r) \in Nat /\ d * (2 * (bit[k] * e)) \in Nat
        BY <4>1, <4>2, <1>6, Products
      <4> HIDE DEF s
      <4> QED BY <3>5, <3>6, <3>7, <4>3, <1>6
    <3> HIDE DEF s
    <3> QED BY <3>3, <3>8
  <2> QED BY <2>1, <2>2, <1>1
<1>8. 0 \in H
  BY <1>1
<1> HIDE DEF H
<1>9. ByteBits \in H
  <2>1. \A k \in 0..ByteBits : k \in H
    BY <1>1, <1>7, <1>8, UpTo
  <2> QED BY <2>1, <1>1
<1>10. PICK r \in Nat : f[ByteBits] = f[j - 1] + d * (bit[j] + 2 * r)
  BY <1>9, <1>1 DEF H
<1>11. f[ByteBits] \div d = bit[j] + 2 * r
  <2> DEFINE q == bit[j] + 2 * r
             low == f[j - 1]
             value == f[ByteBits]
  <2>1. q \in Nat /\ low \in Nat /\ low < d /\ value \in Nat /\ value = low + d * q
    <3>1. bit[j] \in 0..1 /\ ByteBits \in 0..ByteBits
      BY <1>1
    <3>2. q \in Nat
      BY <3>1
    <3> QED BY <3>1, <3>2, <1>6, <1>10
  <2> HIDE DEF q, low, value
  <2>2. d * q = q * d /\ q * d \in Nat
    BY <2>1, <1>6, Products
  <2>3. value = q * d + low /\ low \in 0..(d - 1)
    BY <2>1, <2>2, <1>6
  <2>4. value \div d = q
    BY <2>1, <2>3, <1>6, QuotientIs
  <2> QED BY <2>4 DEF q, value
<1>12. ((bit[j] + 2 * r) % 2) = bit[j]
  <2>1. bit[j] \in 0..1
    OBVIOUS
  <2> QED BY <2>1
<1> QED BY <1>11, <1>12 DEF BitOf, d

\* A packed byte holds its bits, and zeroes past the last.
LEMMA PackByteBits ==
  ASSUME NEW bits \in Seq(0..1), NEW n \in Nat, n > 0, NEW j \in 1..ByteBits
  PROVE  LET i == ByteBits * (n - 1) + j
         IN  BitOf(PackByte(bits, n), j - 1) = IF i <= Len(bits) THEN bits[i] ELSE 0
<1> DEFINE place(k) == ByteBits * (n - 1) + k
           bit == [k \in 1..ByteBits |-> IF place(k) <= Len(bits) THEN bits[place(k)] ELSE 0]
           step == [k \in 1..ByteBits |-> [x \in Nat |-> x + bit[k] * Pow2[k - 1]]]
           Solves(f) == f = [k \in 0..ByteBits |->
             IF k = 0 THEN 0
             ELSE f[k - 1] + (LET i == ByteBits * (n - 1) + k
                              IN  IF i <= Len(bits) THEN bits[i] * Pow2[k - 1] ELSE 0)]
<1>1. ByteBits \in Nat /\ ByteBits > 0 /\ Len(bits) \in Nat
  BY Sizes
<1>2. \A k \in 1..ByteBits : k - 1 \in Nat /\ Pow2[k - 1] \in Nat
  BY <1>1, PowerPositive
<1>3. ASSUME NEW k \in 1..ByteBits PROVE bit[k] \in 0..1
  <2>1. ByteBits * (n - 1) \in Nat
    BY <1>1
  <2>2. CASE place(k) <= Len(bits)
    <3>1. place(k) \in 1..Len(bits)
      BY <2>1, <2>2, <1>1
    <3>2. bits[place(k)] \in 0..1
      <4> HIDE DEF place
      <4> QED BY <3>1, ElementOfSeq
    <3> QED BY <3>2, <2>2
  <2> QED BY <2>2
<1>4. bit \in [1..ByteBits -> 0..1]
  BY <1>3
<1>5. ASSUME NEW k \in 1..ByteBits
      PROVE  (LET i == ByteBits * (n - 1) + k
              IN  IF i <= Len(bits) THEN bits[i] * Pow2[k - 1] ELSE 0) = bit[k] * Pow2[k - 1]
  BY <1>2
<1> HIDE DEF bit
<1>6. \A k \in 1..ByteBits : bit[k] * Pow2[k - 1] \in Nat
  <2> TAKE k \in 1..ByteBits
  <2>1. bit[k] \in Nat
    BY <1>4
  <2> QED BY <2>1, <1>2, Products
<1>7. \E f \in [0..ByteBits -> Nat] : Recursion(f, ByteBits, 0, step)
  <2>1. step \in [1..ByteBits -> [Nat -> Nat]] /\ 0 \in Nat
    BY <1>6
  <2> HIDE DEF step
  <2> QED BY <2>1, <1>1, RecursionExists
<1>8. \E f : Solves(f)
  <2>1. PICK f \in [0..ByteBits -> Nat] : Recursion(f, ByteBits, 0, step)
    BY <1>7
  <2>2. ASSUME NEW k \in 1..ByteBits PROVE f[k] = f[k - 1] + bit[k] * Pow2[k - 1]
    <3>1. f[k - 1] \in Nat
      BY <1>1
    <3> QED BY <2>1, <3>1 DEF Recursion
  <2>3. f[0] = 0
    BY <2>1 DEF Recursion
  <2>4. Solves(f)
    BY <2>2, <2>3, <1>5
  <2> HIDE DEF Solves
  <2> QED BY <2>4
<1> DEFINE value == CHOOSE f : Solves(f)
<1>9. Solves(value)
  <2> HIDE DEF Solves
  <2> QED BY <1>8
<1>10. PackByte(bits, n) = value[ByteBits]
  BY DEF PackByte
<1> HIDE DEF value
<1>11. value[0] = 0 /\ \A k \in 1..ByteBits : value[k] = value[k - 1] + bit[k] * Pow2[k - 1]
  <2>1. value[0] = 0
    BY <1>9, <1>1
  <2>2. ASSUME NEW k \in 1..ByteBits PROVE value[k] = value[k - 1] + bit[k] * Pow2[k - 1]
    <3>1. k \in 0..ByteBits /\ k # 0
      BY <1>1
    <3>2. value[k] = value[k - 1] + (LET i == ByteBits * (n - 1) + k
                                     IN  IF i <= Len(bits) THEN bits[i] * Pow2[k - 1] ELSE 0)
      BY <3>1, <1>9
    <3> QED BY <3>2, <1>5
  <2> QED BY <2>1, <2>2
<1>12. value \in [0..ByteBits -> Nat]
  <2> DEFINE G == {k \in 0..ByteBits : value[k] \in Nat}
  <2>1. 0 \in G /\ \A k \in 1..ByteBits : k - 1 \in G => k \in G
    BY <1>1, <1>6, <1>11
  <2> HIDE DEF G
  <2>2. \A k \in 0..ByteBits : k \in G
    BY <2>1, <1>1, UpTo
  <2>3. \A k \in 0..ByteBits : value[k] \in Nat
    BY <2>2 DEF G
  <2> QED BY <2>3, <1>9
<1> HIDE DEF Solves
<1>13. BitOf(value[ByteBits], j - 1) = bit[j]
  BY <1>4, <1>11, <1>12, BitKept
<1> QED BY <1>10, <1>13 DEF bit

\* Every bit has a byte.
LEMMA BitHasByte ==
  ASSUME NEW n \in Nat, NEW i \in 1..n
  PROVE  /\ (i - 1) \div ByteBits \in Int /\ (i - 1) \div ByteBits >= 0
         /\ (i - 1) \div ByteBits + 1 <= ByteCount(n) /\ ByteCount(n) \in Int
<1> DEFINE q == (i - 1) \div ByteBits
           r == (i - 1) % ByteBits
<1>1. ByteBits \in Nat /\ ByteBits > 0 /\ i - 1 \in Nat
  BY Sizes
<1>2. q \in Int /\ r \in 0..(ByteBits - 1) /\ i - 1 = q * ByteBits + r
  BY <1>1, Divided
<1>3. q >= 0 /\ q + 1 <= ByteCount(n) /\ ByteCount(n) \in Int
  <2> DEFINE all == n + ByteBits - 1
             p == all \div ByteBits
             s == all % ByteBits
  <2>1. p \in Int /\ s \in 0..(ByteBits - 1) /\ all = p * ByteBits + s /\ i <= n /\ all = n + ByteBits - 1
    BY <1>1, Divided
  <2> HIDE DEF q, r, all, p, s
  <2>2. q >= 0
    <3>1. SUFFICES ASSUME q < 0 PROVE FALSE
      BY <1>2
    <3>2. q * ByteBits <= - ByteBits
      <4>1. \A x \in Int, y \in Nat : x < 0 => x * y <= - y
        OBVIOUS
      <4> QED BY <3>1, <4>1, <1>1, <1>2
    <3> QED BY <3>2, <1>1, <1>2
  <2>3. q < p
    <3>1. SUFFICES ASSUME p <= q PROVE FALSE
      BY <1>2, <2>1
    <3>2. p * ByteBits <= q * ByteBits
      <4>1. \A x, y \in Int, z \in Nat : x <= y => x * z <= y * z
        OBVIOUS
      <4> QED BY <3>1, <4>1, <1>1, <1>2, <2>1
    <3>3. q * ByteBits \in Int /\ p * ByteBits \in Int
      BY <1>1, <1>2, <2>1
    <3> QED BY <3>2, <3>3, <1>1, <1>2, <2>1
  <2> QED BY <1>2, <2>1, <2>2, <2>3 DEF ByteCount, p, all
<1> QED BY <1>2, <1>3

\* Packed bits are the bits.
LEMMA BitsKept ==
  ASSUME NEW bits \in Seq(0..1), NEW i \in 1..Len(bits)
  PROVE  CoilFromVector(i - 1, Pack(bits)) = bits[i]
<1> DEFINE q == (i - 1) \div ByteBits
           r == (i - 1) % ByteBits
<1>1. ByteBits \in Nat /\ ByteBits > 0 /\ Len(bits) \in Nat /\ i - 1 \in Nat
  BY Sizes
<1>2. q \in Int /\ r \in 0..(ByteBits - 1) /\ i - 1 = q * ByteBits + r
  BY <1>1, Divided
<1>3. q >= 0 /\ q + 1 <= ByteCount(Len(bits))
  BY <1>1, BitHasByte
<1> HIDE DEF q, r
<1>4. Pack(bits)[q + 1] = PackByte(bits, q + 1)
  <2>1. q + 1 \in 1..ByteCount(Len(bits))
    BY <1>2, <1>3
  <2> QED BY <2>1 DEF Pack
<1>5. BitOf(PackByte(bits, q + 1), r) = bits[i]
  <2> DEFINE n == q + 1
             j == r + 1
  <2>1. n \in Nat /\ n > 0 /\ j \in 1..ByteBits /\ n - 1 = q /\ j - 1 = r
    BY <1>1, <1>2, <1>3
  <2>2. ByteBits * q + j = i
    <3>1. ByteBits * q = q * ByteBits /\ q * ByteBits \in Int
      BY <1>1, <1>2
    <3> QED BY <3>1, <1>1, <1>2
  <2> HIDE DEF n, j
  <2>3. BitOf(PackByte(bits, n), j - 1) =
          IF ByteBits * (n - 1) + j <= Len(bits) THEN bits[ByteBits * (n - 1) + j] ELSE 0
    BY <2>1, PackByteBits
  <2>4. ByteBits * (n - 1) + j = i
    BY <2>1, <2>2
  <2>5. BitOf(PackByte(bits, n), j - 1) = bits[i]
    BY <2>3, <2>4, <1>1
  <2> QED BY <2>1, <2>5 DEF n
<1>6. CoilFromVector(i - 1, Pack(bits)) = BitOf(Pack(bits)[q + 1], r)
  BY DEF CoilFromVector, q, r
<1> QED BY <1>4, <1>5, <1>6

\* Packing makes as many bytes as the header of a reply announces.
LEMMA PackLength ==
  ASSUME NEW bits \in Seq(0..1)
  PROVE  Len(Pack(bits)) = ByteCount(Len(bits))
<1>1. Len(bits) \in Nat /\ ByteBits \in Nat /\ ByteBits > 0
  BY Sizes
<1> DEFINE all == Len(bits) + ByteBits - 1
           p == all \div ByteBits
           s == all % ByteBits
<1>2. all \in Nat /\ p \in Int /\ s \in 0..(ByteBits - 1) /\ all = p * ByteBits + s
  BY <1>1, Divided
<1>3. p >= 0
  <2> HIDE DEF all, p, s
  <2>1. SUFFICES ASSUME p < 0 PROVE FALSE
    BY <1>2
  <2>2. \A x \in Int, y \in Nat : x < 0 => x * y <= - y
    OBVIOUS
  <2> QED BY <2>1, <2>2, <1>1, <1>2
<1> QED BY <1>2, <1>3 DEF Pack, ByteCount

-----------------------------------------------------------------------------
(* Numbers in words, and fields of them.                                     *)

\* The number that words make up, the highest first.
NumberIs(words, value, f) ==
  /\ f \in [0..Len(words) -> Nat] /\ f[0] = 0 /\ value = f[Len(words)]
  /\ \A k \in 1..Len(words) : f[k] = f[k - 1] * WordSize + words[k]

\* NumberOf is such a function at its end.
LEMMA NumberExists ==
  ASSUME NEW words \in Seq(0..(WordSize - 1))
  PROVE  \E f : NumberIs(words, NumberOf(words, FALSE), f)
<1> DEFINE n == Len(words)
           step == [k \in 1..n |-> [x \in Nat |-> x * WordSize + words[k]]]
           Solves(f) == f = [k \in 0..n |-> IF k = 0 THEN 0 ELSE f[k - 1] * WordSize + words[k]]
<1>1. n \in Nat /\ WordSize \in Nat
  BY Sizes
<1>2. \A k \in 1..n, x \in Nat : x * WordSize + words[k] \in Nat
  <2> TAKE k \in 1..n, x \in Nat
  <2>1. words[k] \in 0..(WordSize - 1)
    BY ElementOfSeq
  <2>2. words[k] \in Nat
    BY <1>1, <2>1
  <2>3. x * WordSize \in Nat
    BY <1>1, Products
  <2> QED BY <2>2, <2>3
<1> HIDE DEF n
<1>3. \E f : Solves(f)
  <2>1. step \in [1..n -> [Nat -> Nat]] /\ 0 \in Nat
    BY <1>2
  <2>2. PICK f \in [0..n -> Nat] : Recursion(f, n, 0, step)
    <3> HIDE DEF step
    <3> QED BY <2>1, <1>1, RecursionExists
  <2>3. ASSUME NEW k \in 1..n PROVE f[k] = f[k - 1] * WordSize + words[k]
    <3>1. f[k - 1] \in Nat
      BY <1>1
    <3> QED BY <2>2, <3>1 DEF Recursion
  <2>4. f[0] = 0
    BY <2>2 DEF Recursion
  <2>5. Solves(f)
    BY <2>3, <2>4
  <2> HIDE DEF Solves
  <2> QED BY <2>5
<1> DEFINE value == CHOOSE f : Solves(f)
<1>4. Solves(value)
  <2> HIDE DEF Solves
  <2> QED BY <1>3
<1>5. NumberOf(words, FALSE) = value[n]
  BY DEF NumberOf, n
<1> HIDE DEF value
<1>6. value[0] = 0 /\ \A k \in 1..n : value[k] = value[k - 1] * WordSize + words[k]
  BY <1>4, <1>1
<1>7. value \in [0..n -> Nat]
  <2> DEFINE G == {k \in 0..n : value[k] \in Nat}
  <2>0. 0 \in G
    BY <1>1, <1>6
  <2>1. ASSUME NEW k \in 1..n, k - 1 \in G PROVE k \in G
    <3>1. value[k - 1] \in Nat
      BY <2>1
    <3>2. value[k - 1] * WordSize + words[k] \in Nat
      BY <3>1, <1>2
    <3> QED BY <3>2, <1>1, <1>6
  <2> HIDE DEF G
  <2>2. \A k \in 0..n : k \in G
    BY <2>0, <2>1, <1>1, UpTo
  <2>3. \A k \in 0..n : value[k] \in Nat
    BY <2>2 DEF G
  <2> QED BY <2>3, <1>4
<1> QED BY <1>5, <1>6, <1>7 DEF NumberIs, n

\* An unsigned number fits its words.
LEMMA NumberRange ==
  ASSUME NEW words \in Seq(0..(WordSize - 1))
  PROVE  NumberOf(words, FALSE) \in 0..(SizeOf(Len(words)) - 1)
<1> DEFINE n == Len(words)
           value == NumberOf(words, FALSE)
<1>1. PICK f : NumberIs(words, value, f)
  BY NumberExists
<1>2. n \in Nat /\ WordSize \in Nat /\ ByteBits \in Nat
  BY Sizes
<1> DEFINE G == {k \in 0..n : f[k] < SizeOf(k)}
<1>3. 0 \in G
  BY <1>1, <1>2, Powers DEF NumberIs, SizeOf
<1>4. ASSUME NEW k \in 1..n, k - 1 \in G PROVE k \in G
  <2> DEFINE a == f[k - 1]
             s == SizeOf(k - 1)
  <2>0. k - 1 \in 0..Len(words)
    BY <1>2
  <2>1. a \in Nat /\ f[k] = a * WordSize + words[k]
    BY <2>0, <1>1 DEF NumberIs
  <2>2. words[k] \in 0..(WordSize - 1)
    BY <1>2, ElementOfSeq
  <2>3. SizeOf(k) = s * WordSize /\ s \in Nat
    <3> DEFINE p == 2 * ByteBits * (k - 1)
               q == 2 * ByteBits
    <3>1. p \in Nat /\ q \in Nat /\ p + q = 2 * ByteBits * k
      <4>1. \A x \in Nat, y \in Nat : y >= 1 => 2 * x * (y - 1) \in Nat /\ 2 * x * (y - 1) + 2 * x = 2 * x * y
        OBVIOUS
      <4> QED BY <4>1, <1>2
    <3> HIDE DEF p, q
    <3>2. Pow2[p + q] = Pow2[p] * Pow2[q] /\ Pow2[p] \in Nat
      BY <3>1, PowerSum, PowerPositive
    <3> QED BY <3>1, <3>2, Sizes DEF SizeOf, p, q
  <2>4. a < s
    BY <1>4
  <2>5. a * WordSize + words[k] < s * WordSize
    <3> HIDE DEF a, s
    <3>1. \A x, y, z \in Nat, w \in Nat : x < y /\ w < z => x * z + w < y * z
      <4> SUFFICES ASSUME NEW x \in Nat, NEW y \in Nat, NEW z \in Nat, NEW w \in Nat, x < y, w < z
                   PROVE  x * z + w < y * z
        OBVIOUS
      <4>1. (y - x) * z >= z /\ y * z = x * z + (y - x) * z
        <5>1. y - x - 1 \in Nat /\ (y - x) * z = z + (y - x - 1) * z /\ (y - x - 1) * z \in Nat
          OBVIOUS
        <5> QED BY <5>1
      <4>2. x * z \in Nat /\ (y - x) * z \in Nat
        OBVIOUS
      <4> QED BY <4>1, <4>2
    <3>2. words[k] \in Nat /\ words[k] < WordSize
      BY <2>2, <1>2
    <3> QED BY <3>1, <3>2, <2>1, <2>3, <2>4, <1>2
  <2> QED BY <2>1, <2>3, <2>5
<1> HIDE DEF G
<1>5. \A k \in 0..n : k \in G
  BY <1>2, <1>3, <1>4, UpTo
<1>6. n \in 0..n
  BY <1>2
<1>7. f[n] < SizeOf(n)
  BY <1>5, <1>6 DEF G
<1>8. SizeOf(n) \in Nat
  <2>0. 2 * ByteBits \in Nat
    BY <1>2
  <2>1. (2 * ByteBits) * n \in Nat
    BY <2>0, <1>2, Products
  <2> QED BY <2>1, PowerPositive DEF SizeOf
<1>9. value = f[n] /\ f[n] \in Nat
  BY <1>1, <1>6 DEF NumberIs
<1> HIDE DEF value, n
<1>10. value \in 0..(SizeOf(n) - 1)
  BY <1>7, <1>8, <1>9
<1> QED BY <1>10 DEF value, n

\* What is read from bytes is the number of the words that are there.
LEMMA UnsignedIsNumber ==
  ASSUME NEW type \in ValueTypes, NEW bytes, NEW offset, NEW words \in Seq(Int), Len(words) = type.words,
         \A k \in 1..type.words : WordAt(bytes, offset + 2 * (k - 1)) = words[k]
  PROVE  UnsignedAt(bytes, type, offset) = NumberOf(IF type.reversed THEN Reverse(words) ELSE words, FALSE)
<1> DEFINE word == [k \in 1..type.words |-> WordAt(bytes, offset + 2 * (k - 1))]
           high == IF type.reversed THEN Reverse(words) ELSE words
<1>1. word = words
  BY SeqEqual
<1>2. Len(high) = type.words
  BY DEF Reverse
<1>3. UnsignedAt(bytes, type, offset) =
        LET number[k \in 0..type.words] == IF k = 0 THEN 0 ELSE number[k - 1] * WordSize + high[k]
        IN  number[type.words]
  <2>1. UnsignedAt(bytes, type, offset) =
          LET h == IF type.reversed THEN Reverse(word) ELSE word
              number[k \in 0..type.words] == IF k = 0 THEN 0 ELSE number[k - 1] * WordSize + h[k]
          IN  number[type.words]
    BY DEF UnsignedAt
  <2> HIDE DEF word
  <2> QED BY <2>1, <1>1
<1> HIDE DEF high
<1>4. NumberOf(high, FALSE) =
        LET number[k \in 0..Len(high)] == IF k = 0 THEN 0 ELSE number[k - 1] * WordSize + high[k]
        IN  number[Len(high)]
  BY DEF NumberOf
<1> QED BY <1>2, <1>3, <1>4 DEF high

-----------------------------------------------------------------------------
(* Masks that are runs of bits.                                              *)

\* A product divided by one of its factors.
LEMMA Exact ==
  ASSUME NEW d \in Nat, d > 0, NEW q \in Int
  PROVE  (q * d) \div d = q
<1>1. q * d \in Int /\ q * d = q * d + 0 /\ 0 \in 0..(d - 1)
  OBVIOUS
<1> QED BY <1>1, QuotientIs

\* Powers, and what is left of them.
LEMMA PowerStep ==
  ASSUME NEW k \in Nat, k > 0
  PROVE  k - 1 \in Nat /\ Pow2[k - 1] \in Nat /\ Pow2[k - 1] > 0 /\ Pow2[k] = 2 * Pow2[k - 1]
<1>1. k - 1 \in Nat /\ (k - 1) + 1 = k
  OBVIOUS
<1> QED BY <1>1, Powers, PowerPositive

\* The bits of a run: none below its lowest, and all ones from there.
LEMMA RunBits ==
  ASSUME NEW low \in Nat, NEW width \in Nat, width > 0
  PROVE  /\ Run(low, width) \in Nat
         /\ Run(low, width) \div Pow2[low] = Pow2[width] - 1
         /\ ((Run(low, width) \div Pow2[low]) % 2) = 1
         /\ \A p \in 0..(low - 1) : ((Run(low, width) \div Pow2[p]) % 2) = 0
<1> DEFINE d == Pow2[low]
           e == Pow2[width] - 1
           h == Pow2[width - 1]
<1>1. d \in Nat /\ d > 0 /\ h \in Nat /\ h > 0 /\ e \in Nat /\ e = 2 * (h - 1) + 1
  BY PowerPositive, PowerStep
<1>2. Run(low, width) = e * d
  BY DEF Run
<1>3. Run(low, width) \in Nat
  <2> HIDE DEF e, d
  <2> QED BY <1>1, <1>2, Products
<1>4. Run(low, width) \div d = e
  <2> HIDE DEF e, d
  <2> QED BY <1>1, <1>2, Exact
<1>5. (e % 2) = 1
  <2> HIDE DEF e, h
  <2> QED BY <1>1
<1>6. ASSUME NEW p \in 0..(low - 1) PROVE ((Run(low, width) \div Pow2[p]) % 2) = 0
  <2> DEFINE x == Pow2[p]
             y == Pow2[low - p - 1]
  <2>1. /\ p \in Nat /\ low - p \in Nat /\ low - p > 0 /\ (low - p) - 1 = low - p - 1
        /\ p + (low - p) = low /\ low - p - 1 \in Nat
    OBVIOUS
  <2>2. d = x * Pow2[low - p] /\ Pow2[low - p] = 2 * y
    BY <2>1, PowerSum, PowerStep
  <2>3. x \in Nat /\ x > 0 /\ y \in Nat
    BY <2>1, PowerPositive
  <2> HIDE DEF x, y, d, e, h
  <2>4. d = x * (2 * y)
    BY <2>2
  <2>5. Run(low, width) = (2 * (e * y)) * x
    <3>1. \A a, b, c \in Nat : a * (b * (2 * c)) = (2 * (a * c)) * b
      OBVIOUS
    <3> QED BY <3>1, <2>3, <2>4, <1>1, <1>2
  <2>6. e * y \in Nat
    BY <2>3, <1>1, Products
  <2>7. Run(low, width) \div x = 2 * (e * y)
    <3>1. 2 * (e * y) \in Int
      BY <2>6
    <3> QED BY <3>1, <2>3, <2>5, Exact
  <2>8. \A z \in Nat : ((2 * z) % 2) = 0
    OBVIOUS
  <2> QED BY <2>6, <2>7, <2>8 DEF x
<1> HIDE DEF e
<1> QED BY <1>3, <1>4, <1>5, <1>6 DEF e

\* The lowest bit of a run is where it starts.
LEMMA LowestOfRun ==
  ASSUME NEW low \in Nat, NEW width \in Nat, width > 0, NEW w \in Nat, low < w
  PROVE  LowestBit(Run(low, width), w) = low
<1> DEFINE set == {p \in 0..(w - 1) : ((Run(low, width) \div Pow2[p]) % 2) = 1}
<1>1. low \in set
  BY RunBits
<1>2. \A p \in set : low <= p
  <2> TAKE p \in set
  <2>1. p \in Nat /\ ((Run(low, width) \div Pow2[p]) % 2) = 1
    OBVIOUS
  <2>2. p \notin 0..(low - 1)
    BY <2>1, RunBits
  <2> QED BY <2>1, <2>2
<1> DEFINE least == CHOOSE p \in set : \A q \in set : p <= q
<1>3. least \in set /\ \A q \in set : least <= q
  <2> HIDE DEF set
  <2> QED BY <1>1, <1>2
<1>4. least = low
  <2>1. least \in Nat
    BY <1>3
  <2> HIDE DEF least
  <2> QED BY <1>1, <1>2, <1>3, <2>1
<1>5. LowestBit(Run(low, width), w) = IF set = {} THEN w ELSE least
  BY DEF LowestBit
<1> HIDE DEF set, least
<1> QED BY <1>1, <1>4, <1>5

\* The field of a number that a mask names.
MaskedField(n, size, signed, mask) ==
  LET low == LowestBit(mask, 4 * ByteBits)
  IN  IF mask \in {AllBits, size - 1} THEN IF signed THEN AsSigned(n, size) ELSE n
      ELSE (n \div Pow2[low]) % (mask \div Pow2[low] + 1)

\* What mask_and_shift_by_rightbit makes of a number is the field that the mask names.
LEMMA MaskedIsField ==
  ASSUME NEW type \in ValueTypes, type.words \in {1, 2}, NEW n \in 0..(SizeOf(type.words) - 1),
         NEW mask, MaskFits(mask, type.words)
  PROVE  MaskAndShift(n, type, mask) = MaskedField(n, SizeOf(type.words), type.signed, mask)
<1> DEFINE size == SizeOf(type.words)
           bits == 2 * ByteBits * type.words
           all == Pow2[4 * ByteBits]
           wide == IF type.signed /\ n >= size \div 2 THEN n + (AllBits + 1 - size) ELSE n
           result == BitAnd(wide, mask)
           value == IF result = 0 \/ mask = AllBits THEN result
                    ELSE IF LowestBit(mask, bits) = bits THEN 0
                    ELSE result \div Pow2[LowestBit(mask, bits)]
<1>1. /\ ByteBits \in Nat /\ ByteBits > 0 /\ 4 * ByteBits \in Nat
      /\ bits \in Nat /\ bits > 0 /\ bits <= 4 * ByteBits /\ 4 * ByteBits - bits \in Nat
  <2>1. ByteBits \in Nat /\ ByteBits > 0
    BY Sizes
  <2>2. CASE type.words = 1
    BY <2>1, <2>2
  <2>3. CASE type.words = 2
    BY <2>1, <2>3
  <2> QED BY <2>1, <2>2, <2>3
<1> DEFINE more == Pow2[4 * ByteBits - bits]
<1>2. /\ size = Pow2[bits] /\ size \in Nat /\ size >= 2 /\ size = 2 * Pow2[bits - 1] /\ Pow2[bits - 1] \in Nat
      /\ all \in Nat /\ all > 0 /\ more \in Nat /\ more > 0 /\ all = size * more
  <2>1. bits + (4 * ByteBits - bits) = 4 * ByteBits
    BY <1>1
  <2>2. size = Pow2[bits]
    BY DEF SizeOf
  <2>3. all = Pow2[bits] * more
    BY <1>1, <2>1, PowerSum
  <2>4. Pow2[bits - 1] \in Nat /\ Pow2[bits - 1] > 0 /\ Pow2[bits] = 2 * Pow2[bits - 1]
    BY <1>1, PowerStep
  <2> HIDE DEF size, bits, all
  <2> QED BY <1>1, <2>2, <2>3, <2>4, PowerPositive DEF all
<1>3. AllBits = all - 1
  <2>1. 2 * ByteBits \in Nat /\ 2 * ByteBits + 2 * ByteBits = 4 * ByteBits
    BY <1>1
  <2>2. WordSize * WordSize = all
    BY <2>1, Sizes, PowerSum
  <2> QED BY <2>2 DEF AllBits
<1>4. MaskAndShift(n, type, mask) = IF type.signed THEN AsSigned(value % size, size) ELSE value % size
  BY DEF MaskAndShift
<1>5. type.signed \in BOOLEAN
  BY DEF ValueTypes, ValueType
<1> HIDE DEF size, bits, all, more
<1>6. n \in Nat /\ n < size
  BY <1>2 DEF size
\* Widening adds a multiple of the size.
<1>7. PICK y \in Nat : wide = n + size * y /\ wide \in 0..AllBits
  <2>1. CASE type.signed /\ n >= size \div 2
    <3>1. more - 1 \in Nat /\ size * more = size * (more - 1) + size /\ size * (more - 1) \in Nat
      <4>1. \A x, z \in Nat : z > 0 => z - 1 \in Nat /\ x * z = x * (z - 1) + x /\ x * (z - 1) \in Nat
        OBVIOUS
      <4> QED BY <4>1, <1>2
    <3>2. wide = n + size * (more - 1)
      BY <2>1, <3>1, <1>2, <1>3
    <3>3. wide \in 0..AllBits
      <4> DEFINE x == size * (more - 1)
      <4>1. x \in Nat /\ wide = n + x /\ all = x + size
        BY <3>1, <3>2, <1>2
      <4> HIDE DEF x, wide
      <4>2. n + x \in Nat /\ n + x <= all - 1
        BY <4>1, <1>2, <1>6
      <4> QED BY <4>1, <4>2, <1>3, <1>2
    <3> QED BY <3>1, <3>2, <3>3
  <2>2. CASE ~(type.signed /\ n >= size \div 2)
    <3>1. wide = n + size * 0
      BY <2>2, <1>2, <1>6
    <3>2. size * more >= size
      <4>1. \A x, z \in Nat : z > 0 => x * z >= x
        <5> SUFFICES ASSUME NEW x \in Nat, NEW z \in Nat, z > 0 PROVE x * z >= x
          OBVIOUS
        <5>1. x * z = x * (z - 1) + x /\ x * (z - 1) \in Nat
          OBVIOUS
        <5> QED BY <5>1
      <4> QED BY <4>1, <1>2
    <3>3. wide \in 0..AllBits
      <4>1. wide = n /\ all >= size
        BY <2>2, <3>2, <1>2
      <4> HIDE DEF wide
      <4> QED BY <4>1, <1>2, <1>3, <1>6
    <3> QED BY <3>1, <3>3
  <2> QED BY <2>1, <2>2
<1> HIDE DEF wide
<1>8. (wide % size) = n
  <2>1. y * size = size * y /\ size * y \in Nat
    BY <1>2, Products
  <2>2. wide = y * size + n /\ wide \in Int /\ n \in 0..(size - 1)
    BY <2>1, <1>6, <1>7, <1>2
  <2>3. size \in Nat /\ size > 0 /\ y \in Int
    BY <1>2
  <2> QED BY <2>2, <2>3, QuotientIs
<1>9. CASE mask = AllBits
  <2>1. Pow2[0] = 1 /\ all - 1 \in Nat
    BY Powers, <1>2
  <2>2. Run(0, 4 * ByteBits) = AllBits
    BY <2>1, <1>3 DEF Run, all
  <2>3. BitAnd(wide, AllBits) = ((wide \div 1) % all) * 1
    <3>1. 0 \in 0..(4 * ByteBits) /\ 4 * ByteBits \in 0..(4 * ByteBits) /\ 0 + 4 * ByteBits <= 4 * ByteBits
      BY <1>1
    <3>2. BitAnd(wide, Run(0, 4 * ByteBits)) = ((wide \div Pow2[0]) % Pow2[4 * ByteBits]) * Pow2[0]
      BY <3>1, <1>7, AndAssumption
    <3> QED BY <3>2, <2>1, <2>2 DEF all
  <2>4. wide \div 1 = wide
    <3>1. wide \in Int
      BY <1>7
    <3> QED BY <3>1, DividedByOne
  <2>5. (wide % all) = wide
    <3>1. wide \in 0..(all - 1)
      BY <1>7, <1>3
    <3> QED BY <3>1, <1>2, SmallMod
  <2>6. value = wide
    BY <2>3, <2>4, <2>5, <1>7, <1>9
  <2> HIDE DEF value
  <2> QED BY <2>6, <1>4, <1>8, <1>9 DEF MaskedField, size
<1>10. CASE mask # AllBits
  <2>1. PICK low \in 0..(4 * ByteBits), width \in 0..(4 * ByteBits) :
               width > 0 /\ low + width <= bits /\ mask = Run(low, width)
    BY <1>10 DEF MaskFits, bits
  <2> DEFINE l == Pow2[low]
             p == Pow2[width]
             rest == Pow2[bits - low - width]
             a == n \div l
             b == n % l
             f == a % p
  <2>2. low \in Nat /\ width \in Nat /\ low < bits /\ low < 4 * ByteBits /\ low + width <= 4 * ByteBits
    BY <2>1, <1>1
  <2>3. /\ l \in Nat /\ l > 0 /\ p \in Nat /\ p > 0 /\ rest \in Nat /\ rest > 0
        /\ size = l * (p * rest)
    <3>1. bits - low - width \in Nat /\ width + (bits - low - width) = bits - low
      BY <2>1, <2>2, <1>1
    <3>2. bits - low \in Nat /\ low + (bits - low) = bits
      BY <2>2, <1>1
    <3>3. Pow2[bits] = l * Pow2[bits - low]
      <4>1. Pow2[low + (bits - low)] = Pow2[low] * Pow2[bits - low]
        BY <2>2, <3>2, PowerSum
      <4> QED BY <4>1, <3>2
    <3>4. Pow2[bits - low] = p * rest
      <4>1. Pow2[width + (bits - low - width)] = Pow2[width] * Pow2[bits - low - width]
        BY <2>2, <3>1, PowerSum
      <4> QED BY <4>1, <3>1
    <3> QED BY <3>1, <3>3, <3>4, <2>2, <1>2, PowerPositive
  <2>4. a \in Int /\ b \in 0..(l - 1) /\ n = a * l + b
    <3> HIDE DEF l
    <3>1. n \in Int
      BY <1>6
    <3> QED BY <3>1, <2>3, Divided
  <2>5. f \in 0..(p - 1)
    <3> HIDE DEF a, p
    <3> QED BY <2>3, <2>4, Divided
  <2> HIDE DEF l, p, rest, a, b, f
  <2>6. ((wide \div l) % p) = f
    <3> DEFINE m == p * (rest * y)
               c == rest * y
    <3>1. c \in Nat /\ m = p * c /\ m \in Nat /\ c * p = p * c
      BY <2>3, <1>7, Products
    <3>2. size * y = m * l
      <4>1. \A u, v, w, x \in Nat : (u * (v * w)) * x = (v * (w * x)) * u
        OBVIOUS
      <4> QED BY <4>1, <2>3, <1>7
    <3> HIDE DEF m, c
    <3>3. wide = (a + m) * l + b /\ wide \in Int
      <4>1. (a + m) * l = a * l + m * l
        BY <2>3, <2>4, <3>1
      <4>2. a * l \in Int /\ m * l \in Int
        BY <2>3, <2>4, <3>1
      <4> QED BY <4>1, <4>2, <3>2, <2>4, <1>7
    <3>4. wide \div l = a + m
      <4>1. a + m \in Int
        BY <2>4, <3>1
      <4> QED BY <4>1, <3>3, <2>3, <2>4, QuotientIs
    <3>5. ((a + m) % p) = f
      <4> DEFINE q == a \div p
      <4>1. q \in Int /\ a = q * p + f
        BY <2>3, <2>4, Divided DEF f
      <4> HIDE DEF q
      <4>2. (q + c) * p = q * p + c * p /\ q * p \in Int /\ c * p \in Int
        BY <4>1, <3>1, <2>3
      <4>3. a + m = (q + c) * p + f /\ a + m \in Int /\ q + c \in Int
        BY <4>1, <4>2, <3>1, <2>4, <2>5
      <4> QED BY <4>3, <2>3, <2>5, QuotientIs
    <3> QED BY <3>4, <3>5
  <2>7. result = f * l
    BY <2>1, <2>2, <2>6, <1>7, AndAssumption DEF l, p
  <2>8. value = f
    <3>1. LowestBit(mask, bits) = low
      BY <2>1, <2>2, <1>1, LowestOfRun
    <3>2. CASE result = 0
      <4>1. f = 0
        <5>1. \A u, v \in Nat : u * v = 0 /\ v > 0 => u = 0
          OBVIOUS
        <5>2. f \in Nat
          BY <2>3, <2>5
        <5> QED BY <5>1, <5>2, <3>2, <2>3, <2>7
      <4> QED BY <4>1, <3>2
    <3>3. CASE result # 0
      <4>1. (f * l) \div l = f
        BY <2>3, <2>5, Exact
      <4>2. value = result \div l
        BY <3>1, <3>3, <2>2, <1>1, <1>10 DEF l
      <4> QED BY <4>1, <4>2, <2>7
    <3> QED BY <3>2, <3>3
  <2> HIDE DEF value, result
  <2>9. p <= size /\ (width < bits => 2 * p <= size)
    <3>1. bits - width \in Nat /\ width + (bits - width) = bits
      BY <2>1, <2>2, <1>1
    <3>2. size = p * Pow2[bits - width] /\ Pow2[bits - width] \in Nat /\ Pow2[bits - width] > 0
      <4>1. Pow2[width + (bits - width)] = Pow2[width] * Pow2[bits - width]
        BY <2>2, <3>1, PowerSum
      <4>2. size = p * Pow2[bits - width]
        BY <4>1, <3>1, <1>2 DEF p
      <4> QED BY <4>2, <3>1, PowerPositive
    <3>3. width < bits => Pow2[bits - width] >= 2
      <4>1. width < bits => bits - width > 0
        BY <3>1, <2>2
      <4> QED BY <4>1, <3>1, PowerStep
    <3>4. \A u, v, w \in Nat : w <= v => u * w <= u * v
      <4> SUFFICES ASSUME NEW u \in Nat, NEW v \in Nat, NEW w \in Nat, w <= v PROVE u * w <= u * v
        OBVIOUS
      <4>1. u * v = u * w + u * (v - w) /\ u * (v - w) \in Nat /\ u * w \in Nat
        OBVIOUS
      <4> QED BY <4>1
    <3>5. p * 1 <= size /\ (width < bits => p * 2 <= size)
      <4> DEFINE v == Pow2[bits - width]
      <4> HIDE DEF v
      <4>1. v \in Nat /\ v >= 1 /\ size = p * v /\ (width < bits => v >= 2)
        BY <3>2, <3>3 DEF v
      <4>2. p * 1 <= p * v
        BY <3>4, <4>1, <2>3
      <4>3. width < bits => p * 2 <= p * v
        BY <3>4, <4>1, <2>3
      <4> QED BY <4>1, <4>2, <4>3
    <3> QED BY <3>5, <2>3
  <2>10. (f % size) = f
    <3>1. f \in 0..(size - 1)
      BY <2>5, <2>9, <2>3, <1>2
    <3> QED BY <3>1, <1>2, SmallMod
  <2>11. CASE mask = size - 1
    <3>1. low = 0
      <4>1. SUFFICES ASSUME low # 0 PROVE FALSE
        OBVIOUS
      <4>2. 0 \in 0..(low - 1)
        BY <4>1, <2>2
      <4>3. ((mask \div Pow2[0]) % 2) = 0
        BY <4>2, <2>1, <2>2, RunBits
      <4>4. mask \div Pow2[0] = mask
        <5>1. mask \in Int /\ Pow2[0] = 1
          BY <2>11, <1>2, Powers
        <5> QED BY <5>1, DividedByOne
      <4> QED BY <4>3, <4>4, <2>11, <1>2
    <3>2. l = 1 /\ mask = p - 1
      <4>1. l = 1
        BY <3>1, Powers DEF l
      <4>2. mask = (p - 1) * 1
        BY <3>1, <2>1, Powers DEF p, Run
      <4> QED BY <4>1, <4>2, <2>3
    <3>3. p = size
      BY <3>2, <2>11, <2>3, <1>2
    <3>4. a = n /\ b = 0
      BY <3>2, <2>3, <2>4, <1>6
    <3>5. f = n
      <4>1. n \in 0..(size - 1)
        BY <1>2, <1>6
      <4>2. (n % size) = n
        BY <4>1, <1>2, SmallMod
      <4> QED BY <4>2, <3>3, <3>4 DEF f
    <3> QED BY <3>5, <2>8, <2>10, <2>11, <1>4 DEF MaskedField, size
  <2>12. CASE mask # size - 1
    <3>1. width < bits
      <4>1. SUFFICES ASSUME width = bits PROVE FALSE
        BY <2>1, <2>2, <1>1
      <4>2. low = 0 /\ p = size
        BY <4>1, <2>1, <2>2, <1>1, <1>2 DEF p
      <4>3. mask = (p - 1) * 1
        BY <4>2, <2>1, Powers DEF p, Run
      <4> QED BY <4>2, <4>3, <2>12, <2>3
    <3>2. AsSigned(f, size) = f
      <4>1. f < size \div 2
        BY <3>1, <2>3, <2>5, <2>9, <1>2
      <4>2. size \div 2 \in Int /\ f \in Int
        BY <1>2, <2>5
      <4> QED BY <4>1, <4>2 DEF AsSigned
    <3>3. LowestBit(mask, 4 * ByteBits) = low
      BY <2>1, <2>2, <1>1, LowestOfRun
    <3>4. mask \div l + 1 = p
      <4>1. mask \div l = p - 1
        BY <2>1, <2>2, RunBits DEF l, p
      <4> QED BY <4>1, <2>3
    <3>5. MaskedField(n, size, type.signed, mask) = f
      BY <3>3, <3>4, <2>12, <1>10 DEF MaskedField, l, a, f
    <3>6. MaskAndShift(n, type, mask) = f
      BY <3>2, <2>8, <2>10, <1>4
    <3> QED BY <3>5, <3>6 DEF size
  <2> QED BY <2>11, <2>12
<1> QED BY <1>9, <1>10

-----------------------------------------------------------------------------
(* What an entity shows of a reply.                                          *)

\* A signed number is the unsigned one, past half of its range less that range.
LEMMA NumberSigned ==
  ASSUME NEW words, NEW signed \in BOOLEAN
  PROVE  NumberOf(words, signed) =
           IF signed THEN AsSigned(NumberOf(words, FALSE), SizeOf(Len(words))) ELSE NumberOf(words, FALSE)
BY DEF NumberOf

\* A reversed sequence has the same elements and length.
LEMMA ReverseKept ==
  ASSUME NEW S, NEW words \in Seq(S)
  PROVE  Reverse(words) \in Seq(S) /\ Len(Reverse(words)) = Len(words)
<1>1. Len(words) \in Nat /\ \A k \in 1..Len(words) : words[k] \in S
  BY ElementOfSeq
<1>2. \A k \in 1..Len(words) : (Len(words) - k) + 1 \in 1..Len(words)
  BY <1>1
<1>3. Reverse(words) = [k \in 1..Len(words) |-> words[(Len(words) - k) + 1]]
  BY DEF Reverse
<1> DEFINE n == Len(words)
<1> HIDE DEF n
<1>4. [k \in 1..n |-> words[(n - k) + 1]] \in [1..n -> S]
  BY <1>1, <1>2 DEF n
<1> QED BY <1>1, <1>3, <1>4 DEF n

\* The value types take one, two or four words.
LEMMA TypesOf ==
  ASSUME NEW type \in ValueTypes
  PROVE  type.words \in {1, 2, 4} /\ type.signed \in BOOLEAN /\ (type.words = 4 => type.signed = TRUE)
<1>1. PICK w \in {1, 2, 4}, s \in BOOLEAN, r \in BOOLEAN : type = ValueType(w, s, r)
  BY DEF ValueTypes
<1>2. type.words = w /\ type.signed = (s \/ w = 4)
  BY <1>1 DEF ValueType
<1>3. (s \/ w = 4) \in BOOLEAN /\ (w = 4 => (s \/ w = 4) = TRUE)
  OBVIOUS
<1> QED BY <1>2, <1>3

\* A function on 1..n is a sequence of length n.
LEMMA FunctionSeq ==
  ASSUME NEW S, NEW n \in Nat, NEW f \in [1..n -> S]
  PROVE  f \in Seq(S) /\ Len(f) = n
OBVIOUS

\* A sequence over a set is one over every larger set.
LEMMA SeqWiden ==
  ASSUME NEW S, NEW T, S \subseteq T, NEW s \in Seq(S)
  PROVE  s \in Seq(T)
<1> DEFINE n == Len(s)
<1>1. n \in Nat /\ s \in [1..n -> S]
  OBVIOUS
<1> HIDE DEF n
<1>2. s \in [1..n -> T]
  BY <1>1
<1> QED BY <1>1, <1>2, FunctionSeq

\* Words are numbers.
LEMMA WordsAreNumbers ==
  ASSUME NEW words \in Seq(0..(WordSize - 1))
  PROVE  words \in Seq(Int)
<1> DEFINE S == 0..(WordSize - 1)
<1>1. S \subseteq Int
  BY Sizes
<1> HIDE DEF S
<1>2. words \in Seq(S)
  BY DEF S
<1> QED BY <1>1, <1>2, SeqWiden

\* A sensor shows its field of the words that are in the reply at its offset.
LEMMA SensorShows ==
  ASSUME NEW c, c.kind = "sensor", WellFormed(c), NEW bytes, NEW offset \in Nat, Len(bytes) \in Nat,
         NEW words \in Seq(0..(WordSize - 1)), Len(words) = c.value.words,
         offset + 2 * c.value.words <= Len(bytes),
         \A k \in 1..c.value.words : WordAt(bytes, offset + 2 * (k - 1)) = words[k]
  PROVE  ParseSensor(c, offset, bytes) = Field(c, IF c.value.reversed THEN Reverse(words) ELSE words)
<1> DEFINE type == c.value
           w == type.words
           high == IF type.reversed THEN Reverse(words) ELSE words
           n == UnsignedAt(bytes, type, offset)
<1>1. /\ type \in ValueTypes /\ w \in {1, 2, 4} /\ type.signed \in BOOLEAN /\ (w = 4 => type.signed = TRUE)
      /\ w = 4 \/ MaskFits(c.mask, w)
  <2>1. type \in ValueTypes /\ (w = 4 \/ MaskFits(c.mask, w))
    BY DEF WellFormed
  <2> HIDE DEF type
  <2> QED BY <2>1, TypesOf
<1>2. high \in Seq(0..(WordSize - 1)) /\ Len(high) = w
  BY ReverseKept
<1>3. n = NumberOf(high, FALSE)
  <2>1. words \in Seq(Int)
    BY WordsAreNumbers
  <2>2. c.value \in ValueTypes
    BY <1>1
  <2>3. UnsignedAt(bytes, c.value, offset) = NumberOf(IF c.value.reversed THEN Reverse(words) ELSE words, FALSE)
    BY <2>1, <2>2, UnsignedIsNumber
  <2> QED BY <2>3
<1>4. n \in 0..(SizeOf(w) - 1)
  BY <1>2, <1>3, NumberRange
<1>5. NumberOf(high, type.signed) = IF type.signed THEN AsSigned(n, SizeOf(w)) ELSE n
  <2> HIDE DEF high, n
  <2> QED BY <1>1, <1>2, <1>3, NumberSigned
<1>6. ~(Len(bytes) - offset < 2 * w)
  BY <1>1
<1>7. ParseSensor(c, offset, bytes) =
        IF w = 4 THEN AsSigned(n, SizeOf(4)) ELSE MaskAndShift(n, type, c.mask)
  <2> HIDE DEF n
  <2> QED BY <1>6 DEF ParseSensor, PayloadToNumber, n
<1>8. Field(c, high) = IF w = 4 THEN NumberOf(high, type.signed) ELSE MaskedField(n, SizeOf(w), type.signed, c.mask)
  <2> HIDE DEF high, n
  <2>1. CASE w = 4
    BY <2>1 DEF Field
  <2>2. CASE w # 4 /\ c.mask \in {AllBits, SizeOf(w) - 1}
    BY <2>2, <1>5 DEF Field, MaskedField
  <2>3. CASE w # 4 /\ c.mask \notin {AllBits, SizeOf(w) - 1}
    BY <2>3, <1>3 DEF Field, MaskedField
  <2> QED BY <2>1, <2>2, <2>3
<1> HIDE DEF n, high
<1>9. CASE w = 4
  BY <1>9, <1>1, <1>5, <1>7, <1>8 DEF high
<1>10. CASE w # 4
  <2>1. MaskAndShift(n, type, c.mask) = MaskedField(n, SizeOf(w), type.signed, c.mask)
    BY <1>1, <1>4, <1>10, MaskedIsField
  <2> QED BY <2>1, <1>7, <1>8, <1>10 DEF high
<1> QED BY <1>9, <1>10

\* The cells of a table hold bits or words.
LEMMA CellsHold ==
  ASSUME NEW type \in RegisterTypes, NEW a
  PROVE  /\ type \in BitTypes => Get(Tables, TableOf[type], a) \in 0..1
         /\ type \notin BitTypes => Get(Tables, TableOf[type], a) \in 0..(WordSize - 1)
<1>1. WordSize \in Nat /\ WordSize >= 4
  BY Sizes
<1>2. CASE type \in BitTypes
  <2>1. TableOf[type] \in {"coils", "discrete"}
    BY <1>2 DEF TableOf, BitTypes
  <2> QED BY <2>1, <1>2, DataAssumption DEF Get
<1>3. CASE type \notin BitTypes
  <2>1. TableOf[type] \in {"holding", "input"}
    BY <1>3 DEF TableOf, BitTypes, RegisterTypes
  <2> QED BY <2>1, <1>1, <1>3, DataAssumption DEF Get
<1> QED BY <1>2, <1>3

\* The cells that a read of count asks for.
CellsFrom(type, start, count) == [i \in 1..count |-> Get(Tables, TableOf[type], start + i - 1)]

\* The reply to a read has the cells it asks for, as bits or as bytes of words.
LEMMA ReadReply ==
  ASSUME NEW type \in RegisterTypes, NEW start, NEW count
  PROVE  LoopbackAnswer(Tables, ReadCommand(type, start, count)).bytes =
           IF type \in BitTypes THEN Pack(CellsFrom(type, start, count))
           ELSE BytesOfWords(CellsFrom(type, start, count))
<1> DEFINE r == ReadCommand(type, start, count)
<1>1. /\ r.unit = UnitId /\ r.function = <<"read", TableOf[type]>> /\ r.start = start /\ r.quantity = count
      /\ r.function[1] = "read" /\ r.function[2] = TableOf[type]
  BY DEF ReadCommand
<1>2. TableOf[type] \in {"coils", "discrete"} <=> type \in BitTypes
  BY DEF TableOf, BitTypes, RegisterTypes
<1> HIDE DEF r
<1>3. LoopbackAnswer(Tables, r) = ReadAnswer(Tables, r)
  BY <1>1 DEF LoopbackAnswer
<1>4. Values(Tables, r) = CellsFrom(type, start, count)
  BY <1>1 DEF Values, CellsFrom
<1>5. ReadAnswer(Tables, r).bytes = IF type \in BitTypes THEN Pack(CellsFrom(type, start, count))
                                    ELSE BytesOfWords(CellsFrom(type, start, count))
  BY <1>1, <1>2, <1>4 DEF ReadAnswer, Answered
<1> QED BY <1>3, <1>5 DEF r

\* The places of an item: bits, or two bytes for a register.
Unit(type) == IF type \in BitTypes THEN 1 ELSE 2

\* What the kinds of entities make of a configuration.
LEMMA ItemOf ==
  ASSUME NEW c, WellFormed(c)
  PROVE  /\ Item(c).type = c.type /\ Item(c).bytes = 0 /\ Item(c).force = c.force /\ Item(c).skip = c.skip
         /\ Item(c).start \in Nat /\ Item(c).offset \in 0..(ByteWrap - 2) /\ Item(c).count \in 1..(ByteWrap - 1)
         /\ c.kind \in {"sensor", "binary"} => Item(c).start = c.address /\ Item(c).offset = c.offset
         /\ c.kind = "sensor" => Item(c).count = c.count
         /\ c.kind = "binary" => Item(c).count = IF c.type \in BitTypes THEN c.offset + 1 ELSE 1
         /\ c.kind = "switch" => Item(c).start = c.address + c.offset /\ Item(c).offset = 0 /\ Item(c).count = 1
<1>1. ByteWrap \in Nat /\ c.offset \in 0..(ByteWrap - 2) /\ c.address \in Nat /\ ByteWrap > 1
  BY DataAssumption DEF WellFormed
<1>2. \A x \in 1..(ByteWrap - 1) : (x % ByteWrap) = x
  BY <1>1, SmallMod
<1>3. CASE c.kind = "sensor"
  <2>1. c.count \in 1..(ByteWrap - 1) /\ (c.count % ByteWrap) = c.count
    BY <1>2, <1>3 DEF WellFormed
  <2> QED BY <1>1, <1>3, <2>1 DEF Item, Placed, WellFormed
<1>4. CASE c.kind = "binary"
  <2>1. BinaryCount(c) \in 1..(ByteWrap - 1) /\ (BinaryCount(c) % ByteWrap) = BinaryCount(c)
    BY <1>1, <1>2 DEF BinaryCount
  <2>2. Item(c) = Placed(c, c.address, c.offset, BinaryCount(c))
    BY <1>4 DEF Item
  <2>3. BinaryCount(c) = IF c.type \in BitTypes THEN c.offset + 1 ELSE 1
    BY DEF BinaryCount
  <2> QED BY <1>1, <1>4, <2>1, <2>2, <2>3 DEF Placed, WellFormed
<1>5. CASE c.kind = "switch"
  <2>1. Item(c) = Placed(c, c.address + c.offset, 0, 1) /\ (1 % ByteWrap) = 1
    BY <1>1, <1>2, <1>5 DEF Item, WellFormed
  <2> QED BY <1>1, <1>5, <2>1 DEF Placed, WellFormed
<1>6. c.kind \in {"sensor", "binary", "switch"}
  BY DEF WellFormed
<1> QED BY <1>3, <1>4, <1>5, <1>6

\* An entity shows what it should of the reply for a range that has it in its place.
LEMMA ShownIsReading ==
  ASSUME NEW c, WellFormed(c), NEW start \in Nat, NEW count \in Nat,
         start <= Item(c).start, Item(c).start + Item(c).count <= start + count
  PROVE  ParseAndPublish(c, Unit(c.type) * (Item(c).start - start) + Item(c).offset,
                         LoopbackAnswer(Tables, ReadCommand(c.type, start, count)).bytes) = Reading(c)
<1> DEFINE cells == CellsFrom(c.type, start, count)
           d == Item(c).start - start
           n == Item(c).count
           offset == Unit(c.type) * d + Item(c).offset
           bytes == LoopbackAnswer(Tables, ReadCommand(c.type, start, count)).bytes
           first == CellFor(c)
           cell(k) == Get(Tables, TableOf[c.type], first + k)
<1>1. /\ c.type \in RegisterTypes /\ c.address \in Nat /\ c.offset \in Nat
      /\ d \in Nat /\ n \in Nat /\ n >= 1 /\ d + n <= count /\ Item(c).start \in Nat /\ Item(c).offset \in Nat
      /\ Item(c).start = start + d
  <2>1. ByteWrap \in Nat
    BY DataAssumption
  <2> QED BY <2>1, ItemOf DEF WellFormed
<1>2. \A k \in 1..count : cells[k] = Get(Tables, TableOf[c.type], start + k - 1)
  BY DEF CellsFrom
<1>3. DOMAIN cells = 1..count /\ Len(cells) = count
  BY DEF CellsFrom
<1>4. CASE c.type \notin BitTypes
  <2>1. cells \in Seq(0..(WordSize - 1)) /\ cells \in Seq(Int)
    <3>1. cells \in [1..count -> 0..(WordSize - 1)]
      BY <1>1, <1>4, CellsHold DEF CellsFrom
    <3> HIDE DEF cells
    <3>2. cells \in Seq(0..(WordSize - 1))
      BY <3>1, FunctionSeq
    <3> QED BY <3>2, WordsAreNumbers
  <2>2. bytes = BytesOfWords(cells)
    BY <1>1, <1>4, ReadReply
  <2> HIDE DEF cells
  <2>3. Len(bytes) = 2 * count /\ \A k \in 1..count : WordAt(bytes, 2 * (k - 1)) = cells[k]
    BY <2>1, <2>2, <1>3, WordsKept
  <2>4. offset = 2 * d + Item(c).offset
    BY <1>4 DEF Unit
  <2> HIDE DEF bytes, d, n, offset
  <2>5. CASE c.kind = "sensor"
    <3> DEFINE o == c.offset \div 2
               w == c.value.words
               words == [k \in 1..w |-> cell(k - 1)]
    <3>1. /\ w \in {1, 2, 4} /\ c.offset = 2 * o /\ o \in Nat /\ o + w <= n /\ n = c.count
          /\ Item(c).offset = c.offset /\ Item(c).start = c.address
      <4>1. /\ w \in {1, 2, 4} /\ c.offset % 2 = 0 /\ c.offset + 2 * w <= 2 * c.count
        BY <2>5, TypesOf DEF WellFormed
      <4>2. n = c.count /\ Item(c).offset = c.offset /\ Item(c).start = c.address
        BY <2>5, ItemOf DEF n
      <4> QED BY <4>1, <4>2, <1>1
    <3>2. first = c.address + o
      BY <1>4, <2>5 DEF CellFor
    <3> HIDE DEF o, first
    <3>3. \A k \in 1..w : /\ d + o + k \in 1..count /\ offset + 2 * (k - 1) = 2 * ((d + o + k) - 1)
                          /\ start + (d + o + k) - 1 = first + (k - 1)
      BY <3>1, <3>2, <2>4, <1>1
    <3>4. \A k \in 1..w : WordAt(bytes, offset + 2 * (k - 1)) = words[k]
      <4> TAKE k \in 1..w
      <4>1. WordAt(bytes, offset + 2 * (k - 1)) = cells[d + o + k]
        BY <3>3, <2>3
      <4>2. cells[d + o + k] = cell(k - 1)
        BY <3>3, <1>2
      <4> QED BY <4>1, <4>2
    <3>5. words \in Seq(0..(WordSize - 1)) /\ Len(words) = w
      <4>1. words \in [1..w -> 0..(WordSize - 1)]
        BY <1>1, <1>4, CellsHold
      <4>2. w \in Nat
        BY <3>1
      <4> HIDE DEF words, w
      <4> QED BY <4>1, <4>2, FunctionSeq
    <3>6. offset \in Nat /\ Len(bytes) \in Nat /\ offset + 2 * w <= Len(bytes)
      <4>1. Len(bytes) = 2 * count /\ offset = 2 * d + c.offset
        BY <3>1, <2>3, <2>4
      <4>2. c.offset = 2 * o /\ o \in Nat /\ w \in Nat /\ o + w <= n /\ d \in Nat /\ n \in Nat /\ d + n <= count
        BY <3>1, <1>1
      <4> DEFINE l == Len(bytes)
      <4> HIDE DEF w, l
      <4>3. l = 2 * count /\ offset = 2 * d + 2 * o
        BY <4>1, <4>2 DEF l
      <4>4. offset \in Nat /\ l \in Nat /\ offset + 2 * w <= l
        BY <4>2, <4>3
      <4> QED BY <4>4 DEF l
    <3>7. ParseSensor(c, offset, bytes) = Field(c, IF c.value.reversed THEN Reverse(words) ELSE words)
      <4> HIDE DEF words
      <4> QED BY <2>5, <3>4, <3>5, <3>6, SensorShows
    <3>8. Reading(c) = Field(c, IF c.value.reversed THEN Reverse(words) ELSE words)
      BY <2>5 DEF Reading, first
    <3>9. ParseAndPublish(c, offset, bytes) = ParseSensor(c, offset, bytes)
      BY <2>5 DEF ParseAndPublish
    <3> QED BY <3>7, <3>8, <3>9 DEF bytes, offset, d
  <2>6. CASE c.kind \in {"binary", "switch"}
    <3>1. Item(c).offset = 0 /\ first = Item(c).start
      <4>1. CASE c.kind = "binary"
        <5>1. c.offset = 0 /\ 0 \div 2 = 0
          BY <4>1, <1>4 DEF WellFormed
        <5> QED BY <4>1, <5>1, <1>1, <1>4, ItemOf DEF CellFor
      <4>2. CASE c.kind = "switch"
        BY <4>2, ItemOf DEF CellFor
      <4> QED BY <2>6, <4>1, <4>2
    <3> HIDE DEF first
    <3>2. d + 1 \in 1..count /\ offset = 2 * ((d + 1) - 1) /\ start + (d + 1) - 1 = first + 0
      BY <3>1, <2>4, <1>1
    <3>3. WordAt(bytes, offset) = cell(0)
      <4>1. WordAt(bytes, offset) = cells[d + 1]
        BY <3>2, <2>3
      <4>2. cells[d + 1] = cell(0)
        BY <3>2, <1>2
      <4> QED BY <4>1, <4>2
    <3>4. ParseAndPublish(c, offset, bytes) = IF BitAnd(WordAt(bytes, offset), c.mask) # 0 THEN 1 ELSE 0
      BY <2>6, <1>4 DEF ParseAndPublish, ParseBinary, ParseSwitch
    <3>5. Reading(c) = IF BitAnd(cell(0), c.mask) # 0 THEN 1 ELSE 0
      BY <2>6, <1>4 DEF Reading, first
    <3> QED BY <3>3, <3>4, <3>5 DEF bytes, offset, d
  <2>7. c.kind \in {"sensor", "binary", "switch"}
    BY DEF WellFormed
  <2> QED BY <2>5, <2>6, <2>7
<1>5. CASE c.type \in BitTypes
  <2>1. cells \in Seq(0..1)
    <3>1. cells \in [1..count -> 0..1]
      BY <1>1, <1>5, CellsHold DEF CellsFrom
    <3> QED BY <3>1
  <2>2. bytes = Pack(cells)
    BY <1>1, <1>5, ReadReply
  <2>3. c.kind \in {"binary", "switch"}
    BY <1>5 DEF WellFormed
  <2>4. first = Item(c).start + Item(c).offset /\ Item(c).offset + 1 = n
    <3>1. CASE c.kind = "binary"
      BY <3>1, <1>5, ItemOf DEF CellFor
    <3>2. CASE c.kind = "switch"
      BY <3>2, <1>1, <1>5, ItemOf DEF CellFor
    <3> QED BY <2>3, <3>1, <3>2
  <2>5. offset = 1 * d + Item(c).offset
    BY <1>5 DEF Unit
  <2> HIDE DEF cells, bytes, d, n, offset, first
  <2>6. offset + 1 \in 1..count /\ offset = (offset + 1) - 1 /\ start + (offset + 1) - 1 = first + 0
    BY <2>4, <2>5, <1>1
  <2>7. CoilFromVector(offset, bytes) = cell(0)
    <3>1. CoilFromVector((offset + 1) - 1, Pack(cells)) = cells[offset + 1]
      BY <2>1, <2>6, <1>3, BitsKept
    <3>2. cells[offset + 1] = cell(0)
      BY <2>6, <1>2
    <3> QED BY <3>1, <3>2, <2>2, <2>6
  <2>8. ParseAndPublish(c, offset, bytes) = CoilFromVector(offset, bytes)
    BY <2>3, <1>5 DEF ParseAndPublish, ParseBinary, ParseSwitch
  <2>9. Reading(c) = cell(0)
    BY <2>3, <1>5 DEF Reading, first
  <2> QED BY <2>7, <2>8, <2>9 DEF bytes, offset, d
<1> QED BY <1>4, <1>5

-----------------------------------------------------------------------------
(* The order in which the walk visits the items.                             *)

\* The place of i: one more than there are before it.
Rank(N, R) == [i \in 1..N |-> Cardinality({j \in 1..N : <<j, i>> \in R}) + 1]

\* A strict total order numbers what it orders: as many as are before, and one.
LEMMA Ranks ==
  ASSUME NEW N \in Nat, NEW R,
         \A i \in 1..N : <<i, i>> \notin R,
         \A i, j, k \in 1..N : <<i, j>> \in R /\ <<j, k>> \in R => <<i, k>> \in R,
         \A i, j \in 1..N : i # j => <<i, j>> \in R \/ <<j, i>> \in R
  PROVE  /\ Rank(N, R) \in [1..N -> 1..N]
         /\ \A i, j \in 1..N : <<i, j>> \in R <=> Rank(N, R)[i] < Rank(N, R)[j]
         /\ \A n \in 1..N : \E i \in 1..N : Rank(N, R)[i] = n
<1> DEFINE pos == Rank(N, R)
           before(i) == {j \in 1..N : <<j, i>> \in R}
<1>1. IsFiniteSet(1..N) /\ Cardinality(1..N) = N
  BY FS_Interval
<1>2. ASSUME NEW i \in 1..N
      PROVE  IsFiniteSet(before(i)) /\ Cardinality(before(i)) \in 0..(N - 1)
  <2>1. before(i) \subseteq (1..N) \ {i}
    OBVIOUS
  <2>2. IsFiniteSet((1..N) \ {i}) /\ Cardinality((1..N) \ {i}) = N - 1
    BY <1>1, FS_RemoveElement
  <2> HIDE DEF before
  <2>3. IsFiniteSet(before(i)) /\ Cardinality(before(i)) <= N - 1
    BY <2>1, <2>2, FS_Subset
  <2> QED BY <2>3, FS_CardinalityType
<1>3. pos \in [1..N -> 1..N] /\ \A i \in 1..N : pos[i] = Cardinality(before(i)) + 1
  <2>0. pos = [i \in 1..N |-> Cardinality(before(i)) + 1]
    BY DEF Rank
  <2>1. \A i \in 1..N : pos[i] = Cardinality(before(i)) + 1
    BY <2>0
  <2> HIDE DEF before
  <2>2. ASSUME NEW i \in 1..N PROVE pos[i] \in 1..N
    <3> DEFINE c == Cardinality(before(i))
               p == pos[i]
    <3>1. c \in 0..(N - 1) /\ p = c + 1
      BY <2>1, <1>2
    <3> HIDE DEF c, p
    <3>2. p \in 1..N
      BY <3>1
    <3> QED BY <3>2 DEF p
  <2> QED BY <2>0, <2>1, <2>2
<1> HIDE DEF pos
<1>4. ASSUME NEW i \in 1..N, NEW j \in 1..N, <<i, j>> \in R
      PROVE  pos[i] < pos[j]
  <2>1. before(i) \subseteq before(j) /\ i \in before(j) /\ i \notin before(i)
    BY <1>4
  <2> HIDE DEF before
  <2>2. /\ Cardinality(before(i)) <= Cardinality(before(j))
        /\ Cardinality(before(j)) # Cardinality(before(i))
    BY <2>1, <1>2, FS_Subset
  <2>3. Cardinality(before(i)) \in Int /\ Cardinality(before(j)) \in Int
    BY <1>2
  <2> QED BY <2>2, <2>3, <1>3
<1>5. \A i, j \in 1..N : <<i, j>> \in R <=> pos[i] < pos[j]
  <2> SUFFICES ASSUME NEW i \in 1..N, NEW j \in 1..N PROVE <<i, j>> \in R <=> pos[i] < pos[j]
    OBVIOUS
  <2>1. pos[i] \in 1..N /\ pos[j] \in 1..N
    BY <1>3
  <2>2. i # j => <<i, j>> \in R \/ <<j, i>> \in R
    OBVIOUS
  <2>3. <<j, i>> \in R => pos[j] < pos[i]
    BY <1>4
  <2>4. <<i, j>> \in R => pos[i] < pos[j]
    BY <1>4
  <2> QED BY <2>1, <2>2, <2>3, <2>4
<1>6. pos \in Surjection(1..N, 1..N)
  <2>1. \A i, j \in 1..N : pos[i] = pos[j] => i = j
    <3> TAKE i \in 1..N, j \in 1..N
    <3>1. pos[i] \in 1..N /\ pos[j] \in 1..N
      BY <1>3
    <3> QED BY <3>1, <1>5
  <2>2. pos \in Injection(1..N, 1..N)
    BY <2>1, <1>3 DEF Injection, IsInjective
  <2> QED BY <2>2, <1>1, FS_Injection
<1> QED BY <1>3, <1>5, <1>6 DEF Surjection, pos

\* Items that can be sorted.
Sortable(items) ==
  \A i \in DOMAIN items :
    items[i].type \in RegisterTypes /\ items[i].force \in BOOLEAN
    /\ items[i].start \in Int /\ items[i].offset \in Int

\* Ranges of their own come first.
Forced(item) == IF item.force THEN 0 ELSE 1

\* What the comparator compares, key by key.
Precedes(items, i, j) ==
  LET a == items[i]
      b == items[j]
  IN  \/ TypeRank[a.type] < TypeRank[b.type]
      \/ a.type = b.type /\ Forced(a) < Forced(b)
      \/ a.type = b.type /\ a.force = b.force /\ a.start < b.start
      \/ a.type = b.type /\ a.force = b.force /\ a.start = b.start /\ a.offset < b.offset
      \/ a.type = b.type /\ a.force = b.force /\ a.start = b.start /\ a.offset = b.offset /\ i < j

\* The comparison of the code is the order Precedes.
LEMMA SortsAsItPrecedes ==
  ASSUME NEW items, Sortable(items), NEW i \in DOMAIN items, NEW j \in DOMAIN items, i \in Int, j \in Int
  PROVE  SortsBefore(items, i, j) <=> Precedes(items, i, j)
<1> DEFINE a == Key(items, i)
           b == Key(items, j)
<1>1. /\ a = <<TypeRank[items[i].type], Forced(items[i]), items[i].start, items[i].offset, i>>
      /\ b = <<TypeRank[items[j].type], Forced(items[j]), items[j].start, items[j].offset, j>>
  BY DEF Key, Forced
<1>2. SortsBefore(items, i, j) <=>
        \E k \in 1..5 : a[k] < b[k] /\ \A h \in 1..(k - 1) : a[h] = b[h]
  BY DEF SortsBefore
<1> HIDE DEF a, b
<1>3. (\E k \in 1..5 : a[k] < b[k] /\ \A h \in 1..(k - 1) : a[h] = b[h]) <=>
        \/ a[1] < b[1]
        \/ a[1] = b[1] /\ a[2] < b[2]
        \/ a[1] = b[1] /\ a[2] = b[2] /\ a[3] < b[3]
        \/ a[1] = b[1] /\ a[2] = b[2] /\ a[3] = b[3] /\ a[4] < b[4]
        \/ a[1] = b[1] /\ a[2] = b[2] /\ a[3] = b[3] /\ a[4] = b[4] /\ a[5] < b[5]
  <2> DEFINE P(k) == a[k] < b[k] /\ \A h \in 1..(k - 1) : a[h] = b[h]
  <2>1. (\E k \in 1..5 : P(k)) <=> P(1) \/ P(2) \/ P(3) \/ P(4) \/ P(5)
    <3>1. 1..5 = {1, 2, 3, 4, 5}
      OBVIOUS
    <3> HIDE DEF P
    <3> QED BY <3>1
  <2>2. P(1) <=> a[1] < b[1]
    OBVIOUS
  <2>3. P(2) <=> a[1] = b[1] /\ a[2] < b[2]
    <3>1. 1..(2 - 1) = {1}
      OBVIOUS
    <3> QED BY <3>1
  <2>4. P(3) <=> a[1] = b[1] /\ a[2] = b[2] /\ a[3] < b[3]
    <3>1. 1..(3 - 1) = {1, 2}
      OBVIOUS
    <3> QED BY <3>1
  <2>5. P(4) <=> a[1] = b[1] /\ a[2] = b[2] /\ a[3] = b[3] /\ a[4] < b[4]
    <3>1. 1..(4 - 1) = {1, 2, 3}
      OBVIOUS
    <3> QED BY <3>1
  <2>6. P(5) <=> a[1] = b[1] /\ a[2] = b[2] /\ a[3] = b[3] /\ a[4] = b[4] /\ a[5] < b[5]
    <3>1. 1..(5 - 1) = {1, 2, 3, 4}
      OBVIOUS
    <3> QED BY <3>1
  <2> HIDE DEF P
  <2>7. (\E k \in 1..5 : P(k)) <=>
        \/ a[1] < b[1]
        \/ a[1] = b[1] /\ a[2] < b[2]
        \/ a[1] = b[1] /\ a[2] = b[2] /\ a[3] < b[3]
        \/ a[1] = b[1] /\ a[2] = b[2] /\ a[3] = b[3] /\ a[4] < b[4]
        \/ a[1] = b[1] /\ a[2] = b[2] /\ a[3] = b[3] /\ a[4] = b[4] /\ a[5] < b[5]
    BY <2>1, <2>2, <2>3, <2>4, <2>5, <2>6
  <2> QED BY <2>7 DEF P
<1>4. /\ a[1] = TypeRank[items[i].type] /\ b[1] = TypeRank[items[j].type]
      /\ a[2] = Forced(items[i]) /\ b[2] = Forced(items[j])
      /\ a[3] = items[i].start /\ b[3] = items[j].start
      /\ a[4] = items[i].offset /\ b[4] = items[j].offset /\ a[5] = i /\ b[5] = j
  BY <1>1
<1>5. TypeRank[items[i].type] = TypeRank[items[j].type] <=> items[i].type = items[j].type
  BY DEF TypeRank, Sortable, RegisterTypes
<1>6. Forced(items[i]) = Forced(items[j]) <=> items[i].force = items[j].force
  BY DEF Forced, Sortable
<1> QED BY <1>2, <1>3, <1>4, <1>5, <1>6 DEF Precedes

\* Five keys in their order.
Earlier(a1, a2, a3, a4, a5, b1, b2, b3, b4, b5) ==
  \/ a1 < b1
  \/ a1 = b1 /\ a2 < b2
  \/ a1 = b1 /\ a2 = b2 /\ a3 < b3
  \/ a1 = b1 /\ a2 = b2 /\ a3 = b3 /\ a4 < b4
  \/ a1 = b1 /\ a2 = b2 /\ a3 = b3 /\ a4 = b4 /\ a5 < b5

\* Comparing by one key after the other is transitive.
LEMMA EarlierTransitive ==
  ASSUME NEW a1 \in Int, NEW a2 \in Int, NEW a3 \in Int, NEW a4 \in Int, NEW a5 \in Int,
         NEW b1 \in Int, NEW b2 \in Int, NEW b3 \in Int, NEW b4 \in Int, NEW b5 \in Int,
         NEW c1 \in Int, NEW c2 \in Int, NEW c3 \in Int, NEW c4 \in Int, NEW c5 \in Int,
         Earlier(a1, a2, a3, a4, a5, b1, b2, b3, b4, b5), Earlier(b1, b2, b3, b4, b5, c1, c2, c3, c4, c5)
  PROVE  Earlier(a1, a2, a3, a4, a5, c1, c2, c3, c4, c5)
BY DEF Earlier

\* The register types are compared as numbers.
LEMMA RanksOfTypes == \A t \in RegisterTypes : TypeRank[t] \in Int
BY DEF TypeRank, RegisterTypes

\* Every item is visited once, and after those that come before it.
LEMMA VisitedInOrder ==
  ASSUME NEW items, NEW N \in Nat, DOMAIN items = 1..N, Sortable(items)
  PROVE  /\ InOrder(items) \in [1..N -> 1..N]
         /\ \A i \in 1..N : \E n \in 1..N : InOrder(items)[n] = i
         /\ \A m, n \in 1..N : m < n => Precedes(items, InOrder(items)[m], InOrder(items)[n])
<1> DEFINE R == {p \in (1..N) \X (1..N) : SortsBefore(items, p[1], p[2])}
           pos == Rank(N, R)
           order == InOrder(items)
<1>1. \A i, j \in 1..N : <<i, j>> \in R <=> Precedes(items, i, j)
  <2> SUFFICES ASSUME NEW i \in 1..N, NEW j \in 1..N PROVE <<i, j>> \in R <=> Precedes(items, i, j)
    OBVIOUS
  <2>1. <<i, j>> \in R <=> SortsBefore(items, i, j)
    OBVIOUS
  <2>2. i \in DOMAIN items /\ j \in DOMAIN items /\ i \in Int /\ j \in Int
    OBVIOUS
  <2>3. SortsBefore(items, i, j) <=> Precedes(items, i, j)
    BY <2>2, SortsAsItPrecedes
  <2> QED BY <2>1, <2>3
<1>2. /\ \A i \in 1..N : items[i].type \in RegisterTypes /\ TypeRank[items[i].type] \in Int
      /\ \A i \in 1..N : items[i].force \in BOOLEAN /\ Forced(items[i]) \in Int
      /\ \A i \in 1..N : items[i].start \in Int /\ items[i].offset \in Int
  BY RanksOfTypes DEF Sortable, Forced
<1>3. /\ \A i, j \in 1..N : TypeRank[items[i].type] = TypeRank[items[j].type] => items[i].type = items[j].type
      /\ \A i, j \in 1..N : Forced(items[i]) = Forced(items[j]) => items[i].force = items[j].force
  BY <1>2 DEF TypeRank, RegisterTypes, Forced
<1>4. \A i \in 1..N : ~Precedes(items, i, i)
  BY <1>2 DEF Precedes
<1>5. \A i, j, k \in 1..N : Precedes(items, i, j) /\ Precedes(items, j, k) => Precedes(items, i, k)
  <2> SUFFICES ASSUME NEW i \in 1..N, NEW j \in 1..N, NEW k \in 1..N,
                      Precedes(items, i, j), Precedes(items, j, k)
               PROVE  Precedes(items, i, k)
    OBVIOUS
  <2> DEFINE T(x) == TypeRank[items[x].type]
             F(x) == Forced(items[x])
             S(x) == items[x].start
             O(x) == items[x].offset
  <2>1. \A x, y \in 1..N : Precedes(items, x, y) <=> Earlier(T(x), F(x), S(x), O(x), x, T(y), F(y), S(y), O(y), y)
    <3> SUFFICES ASSUME NEW x \in 1..N, NEW y \in 1..N
                 PROVE  Precedes(items, x, y) <=> Earlier(T(x), F(x), S(x), O(x), x, T(y), F(y), S(y), O(y), y)
      OBVIOUS
    <3>1. items[x].type = items[y].type <=> T(x) = T(y)
      BY <1>3
    <3>2. items[x].force = items[y].force <=> F(x) = F(y)
      <4>1. items[x].force = items[y].force => F(x) = F(y)
        BY DEF Forced
      <4> QED BY <4>1, <1>3
    <3> HIDE DEF T, F, S, O
    <3>3. Precedes(items, x, y) <=>
            \/ T(x) < T(y)
            \/ T(x) = T(y) /\ F(x) < F(y)
            \/ T(x) = T(y) /\ F(x) = F(y) /\ S(x) < S(y)
            \/ T(x) = T(y) /\ F(x) = F(y) /\ S(x) = S(y) /\ O(x) < O(y)
            \/ T(x) = T(y) /\ F(x) = F(y) /\ S(x) = S(y) /\ O(x) = O(y) /\ x < y
      BY <3>1, <3>2 DEF Precedes, T, F, S, O
    <3> QED BY <3>3 DEF Earlier
  <2>2. \A x \in 1..N : T(x) \in Int /\ F(x) \in Int /\ S(x) \in Int /\ O(x) \in Int /\ x \in Int
    BY <1>2
  <2> HIDE DEF T, F, S, O
  <2>3. Earlier(T(i), F(i), S(i), O(i), i, T(k), F(k), S(k), O(k), k)
    BY <2>1, <2>2, EarlierTransitive
  <2> QED BY <2>1, <2>3
<1>6. \A i, j \in 1..N : i # j => Precedes(items, i, j) \/ Precedes(items, j, i)
  <2> TAKE i \in 1..N, j \in 1..N
  <2> DEFINE a == items[i]
             b == items[j]
  <2>1. /\ TypeRank[a.type] \in Int /\ TypeRank[b.type] \in Int /\ Forced(a) \in Int /\ Forced(b) \in Int
        /\ a.start \in Int /\ b.start \in Int /\ a.offset \in Int /\ b.offset \in Int
        /\ (TypeRank[a.type] = TypeRank[b.type] => a.type = b.type)
        /\ (Forced(a) = Forced(b) => a.force = b.force)
    BY <1>2, <1>3
  <2> QED BY <2>1 DEF Precedes
<1> HIDE DEF R
<1>7. /\ \A i \in 1..N : <<i, i>> \notin R
      /\ \A i, j, k \in 1..N : <<i, j>> \in R /\ <<j, k>> \in R => <<i, k>> \in R
      /\ \A i, j \in 1..N : i # j => <<i, j>> \in R \/ <<j, i>> \in R
  BY <1>1, <1>4, <1>5, <1>6
<1>8. \A i \in 1..N : Position(items, i) = pos[i]
  <2> TAKE i \in 1..N
  <2>1. {j \in DOMAIN items : SortsBefore(items, j, i)} = {j \in 1..N : <<j, i>> \in R}
    BY DEF R
  <2>2. pos[i] = Cardinality({j \in 1..N : <<j, i>> \in R}) + 1
    BY DEF Rank
  <2> QED BY <2>1, <2>2 DEF Position
<1> HIDE DEF pos
<1>9. /\ pos \in [1..N -> 1..N]
      /\ \A i, j \in 1..N : <<i, j>> \in R <=> pos[i] < pos[j]
      /\ \A n \in 1..N : \E i \in 1..N : pos[i] = n
  BY <1>7, Ranks DEF pos
<1>10. order = [n \in 1..N |-> CHOOSE i \in 1..N : Position(items, i) = n]
  BY DEF InOrder
<1>11. \A n \in 1..N : order[n] \in 1..N /\ pos[order[n]] = n
  <2> TAKE n \in 1..N
  <2>1. \E i \in 1..N : Position(items, i) = n
    BY <1>8, <1>9
  <2>2. order[n] = CHOOSE i \in 1..N : Position(items, i) = n
    BY <1>10
  <2>3. order[n] \in 1..N /\ Position(items, order[n]) = n
    BY <2>1, <2>2
  <2> QED BY <2>3, <1>8
<1>12. order \in [1..N -> 1..N]
  BY <1>10, <1>11
<1>13. \A i \in 1..N : \E n \in 1..N : order[n] = i
  <2> TAKE i \in 1..N
  <2>1. pos[i] \in 1..N /\ order[pos[i]] \in 1..N /\ pos[order[pos[i]]] = pos[i]
    BY <1>9, <1>11
  <2> DEFINE x == order[pos[i]]
  <2>2. x \in 1..N /\ pos[x] = pos[i] /\ pos[i] \in Int
    BY <2>1
  <2> HIDE DEF x
  <2>3. ~(pos[x] < pos[i]) /\ ~(pos[i] < pos[x])
    BY <2>2
  <2>4. x = i
    BY <2>2, <2>3, <1>7, <1>9
  <2> QED BY <2>1, <2>4 DEF x
<1>14. \A m, n \in 1..N : m < n => Precedes(items, order[m], order[n])
  <2> SUFFICES ASSUME NEW m \in 1..N, NEW n \in 1..N, m < n PROVE Precedes(items, order[m], order[n])
    OBVIOUS
  <2>1. order[m] \in 1..N /\ order[n] \in 1..N /\ pos[order[m]] = m /\ pos[order[n]] = n
    BY <1>11
  <2>2. <<order[m], order[n]>> \in R
    <3> DEFINE x == order[m]
               y == order[n]
    <3>1. x \in 1..N /\ y \in 1..N /\ pos[x] < pos[y]
      BY <2>1
    <3> HIDE DEF x, y
    <3>2. <<x, y>> \in R
      BY <3>1, <1>9
    <3> QED BY <3>2 DEF x, y
  <2> QED BY <2>1, <2>2, <1>1
<1> HIDE DEF order
<1>15. order = InOrder(items)
  BY DEF order
<1> QED BY <1>12, <1>13, <1>14, <1>15

-----------------------------------------------------------------------------
(* How many cells a set of items asks for.                                   *)

\* The sum of the first n.
SumTo(n, v) ==
  LET sum[k \in 0..n] == IF k = 0 THEN 0 ELSE sum[k - 1] + v[k]
  IN  sum[n]

\* f are the sums of the beginnings of v.
SumsUp(f, n, v) == f[0] = 0 /\ \A k \in 1..n : f[k] = f[k - 1] + v[k]
Sums(f, n, v) == f \in [0..n -> Nat] /\ SumsUp(f, n, v)

\* The sums of the beginnings exist.
LEMMA SumsExist ==
  ASSUME NEW n \in Nat, NEW v \in [1..n -> Nat]
  PROVE  \E f : Sums(f, n, v)
<1> DEFINE step == [k \in 1..n |-> [x \in Nat |-> x + v[k]]]
<1>1. step \in [1..n -> [Nat -> Nat]] /\ 0 \in Nat
  OBVIOUS
<1>2. PICK f \in [0..n -> Nat] : Recursion(f, n, 0, step)
  <2> HIDE DEF step
  <2> QED BY <1>1, RecursionExists
<1>3. ASSUME NEW k \in 1..n PROVE f[k] = f[k - 1] + v[k]
  <2>1. k - 1 \in 0..n /\ f[k] = step[k][f[k - 1]]
    <3> HIDE DEF step
    <3> QED BY <1>2 DEF Recursion
  <2>2. f[k - 1] \in Nat
    BY <2>1
  <2>3. \A x \in Nat : step[k][x] = x + v[k]
    OBVIOUS
  <2> QED BY <2>1, <2>2, <2>3
<1>4. f[0] = 0
  BY <1>2 DEF Recursion
<1>5. Sums(f, n, v)
  BY <1>3, <1>4 DEF Sums, SumsUp
<1> QED BY <1>5

\* There is one function that sums in this way, however it is written.
LEMMA SumsAgree ==
  ASSUME NEW n \in Nat, NEW v \in [1..n -> Nat], NEW f, NEW g, Sums(f, n, v), SumsUp(g, n, v)
  PROVE  \A k \in 0..n : g[k] = f[k]
<1> DEFINE G == {k \in 0..n : g[k] = f[k]}
<1>1. 0 \in G /\ \A k \in 1..n : k - 1 \in G => k \in G
  BY DEF Sums, SumsUp
<1> HIDE DEF G
<1>2. \A k \in 0..n : k \in G
  BY <1>1, UpTo
<1> QED BY <1>2 DEF G

\* SumTo is the last of those sums.
LEMMA SumToIs ==
  ASSUME NEW n \in Nat, NEW v \in [1..n -> Nat]
  PROVE  \E f : Sums(f, n, v) /\ SumTo(n, v) = f[n]
<1> DEFINE Solves(g) == g = [k \in 0..n |-> IF k = 0 THEN 0 ELSE g[k - 1] + v[k]]
           sum == CHOOSE g : Solves(g)
<1>1. PICK f : Sums(f, n, v)
  BY SumsExist
<1>2. Solves(f)
  BY <1>1 DEF Sums, SumsUp
<1>3. Solves(sum)
  <2> HIDE DEF Solves
  <2> QED BY <1>2
<1>4. SumTo(n, v) = sum[n]
  BY DEF SumTo
<1> HIDE DEF sum
<1>5. SumsUp(sum, n, v)
  BY <1>3 DEF SumsUp
<1>6. \A k \in 0..n : sum[k] = f[k]
  BY <1>1, <1>5, SumsAgree
<1>7. n \in 0..n
  OBVIOUS
<1>8. SumTo(n, v) = f[n]
  BY <1>4, <1>6, <1>7
<1> QED BY <1>1, <1>8

\* A sum of numbers is a number.
LEMMA SumToNat ==
  ASSUME NEW n \in Nat, NEW v \in [1..n -> Nat]
  PROVE  SumTo(n, v) \in Nat
<1>1. PICK f : Sums(f, n, v) /\ SumTo(n, v) = f[n]
  BY SumToIs
<1>2. n \in 0..n
  OBVIOUS
<1> QED BY <1>1, <1>2 DEF Sums, SumsUp

\* u is v with x more at i.
Raised(n, v, u, i, x) == u[i] = v[i] + x /\ \A k \in 1..n : k # i => u[k] = v[k]

\* Raising one term raises the sum by as much.
LEMMA SumToAdd ==
  ASSUME NEW n \in Nat, NEW v \in [1..n -> Nat], NEW u \in [1..n -> Nat], NEW i \in 1..n,
         NEW x \in Nat, Raised(n, v, u, i, x)
  PROVE  SumTo(n, u) = SumTo(n, v) + x
<1>0. u[i] = v[i] + x /\ \A k \in 1..n : k # i => u[k] = v[k]
  BY DEF Raised
<1>1. PICK f : Sums(f, n, v) /\ SumTo(n, v) = f[n]
  BY SumToIs
<1>2. PICK g : Sums(g, n, u) /\ SumTo(n, u) = g[n]
  BY SumToIs
<1> DEFINE G == {k \in 0..n : g[k] = f[k] + (IF i <= k THEN x ELSE 0)}
<1>3. 0 \in G
  BY <1>1, <1>2 DEF Sums, SumsUp
<1>4. ASSUME NEW k \in 1..n, k - 1 \in G PROVE k \in G
  <2>1. f[k - 1] \in Nat /\ g[k - 1] = f[k - 1] + (IF i <= k - 1 THEN x ELSE 0)
    BY <1>1, <1>4 DEF Sums, SumsUp
  <2>2. f[k] = f[k - 1] + v[k] /\ g[k] = g[k - 1] + u[k] /\ v[k] \in Nat /\ u[k] \in Nat
    BY <1>1, <1>2 DEF Sums, SumsUp
  <2>3. CASE i = k
    BY <2>1, <2>2, <2>3, <1>0
  <2>4. CASE i # k
    <3>1. u[k] = v[k] /\ (i <= k <=> i <= k - 1)
      BY <2>4, <1>0
    <3> QED BY <2>1, <2>2, <3>1, <1>0
  <2> QED BY <2>3, <2>4
<1> HIDE DEF G
<1>5. n \in G
  <2>1. \A k \in 0..n : k \in G
    BY <1>3, <1>4, UpTo
  <2> QED BY <2>1
<1> QED BY <1>1, <1>2, <1>5 DEF G

\* Raising terms lowers no sum.
LEMMA SumToLess ==
  ASSUME NEW n \in Nat, NEW v \in [1..n -> Nat], NEW u \in [1..n -> Nat],
         \A k \in 1..n : v[k] <= u[k]
  PROVE  SumTo(n, v) <= SumTo(n, u)
<1>1. PICK f : Sums(f, n, v) /\ SumTo(n, v) = f[n]
  BY SumToIs
<1>2. PICK g : Sums(g, n, u) /\ SumTo(n, u) = g[n]
  BY SumToIs
<1> DEFINE G == {k \in 0..n : f[k] <= g[k]}
<1>3. 0 \in G
  BY <1>1, <1>2 DEF Sums, SumsUp
<1>4. ASSUME NEW k \in 1..n, k - 1 \in G PROVE k \in G
  <2>1. f[k - 1] \in Nat /\ g[k - 1] \in Nat /\ f[k - 1] <= g[k - 1]
    BY <1>1, <1>2, <1>4 DEF Sums, SumsUp
  <2>2. f[k] = f[k - 1] + v[k] /\ g[k] = g[k - 1] + u[k] /\ v[k] \in Nat /\ u[k] \in Nat
    BY <1>1, <1>2 DEF Sums, SumsUp
  <2> QED BY <2>1, <2>2
<1> HIDE DEF G
<1>5. n \in G
  <2>1. \A k \in 0..n : k \in G
    BY <1>3, <1>4, UpTo
  <2> QED BY <2>1
<1> QED BY <1>1, <1>2, <1>5 DEF G

\* The cells of the items in a set.
CountIn(items, M) == [k \in DOMAIN items |-> IF k \in M THEN items[k].count ELSE 0]
CellsIn(items, M) == SumTo(Len(items), CountIn(items, M))

\* There are N items with a number of cells each.
Counted(items, N) ==
  N \in Nat /\ Len(items) = N /\ DOMAIN items = 1..N /\ \A k \in 1..N : items[k].count \in Nat

\* One more item raises the sum by its cells,
LEMMA CellsInMore ==
  ASSUME NEW items, NEW N, Counted(items, N), NEW M, NEW i, i \in 1..N /\ i \notin M
  PROVE  CellsIn(items, M \cup {i}) = CellsIn(items, M) + items[i].count
<1> DEFINE v == CountIn(items, M)
           u == CountIn(items, M \cup {i})
           x == items[i].count
<1>1. v \in [1..N -> Nat] /\ u \in [1..N -> Nat] /\ x \in Nat /\ N \in Nat
  BY DEF CountIn, Counted
<1>2. Raised(N, v, u, i, x)
  BY DEF CountIn, Raised, Counted
<1> HIDE DEF u, v, x
<1>3. SumTo(N, u) = SumTo(N, v) + x
  BY <1>1, <1>2, SumToAdd
<1> QED BY <1>3 DEF CellsIn, u, v, x, Counted

\* so that it asks for its cells more.
LEMMA CellsInAdd ==
  ASSUME NEW items, NEW N \in Nat, Len(items) = N, DOMAIN items = 1..N, \A k \in 1..N : items[k].count \in Nat,
         NEW M, NEW i \in 1..N, i \notin M
  PROVE  CellsIn(items, M \cup {i}) = CellsIn(items, M) + items[i].count
BY CellsInMore DEF Counted

\* Cells are counted in numbers.
LEMMA CellsInNat ==
  ASSUME NEW items, NEW N \in Nat, Len(items) = N, DOMAIN items = 1..N, \A k \in 1..N : items[k].count \in Nat,
         NEW M
  PROVE  CellsIn(items, M) \in Nat
<1> DEFINE v == CountIn(items, M)
<1>1. v \in [1..N -> Nat]
  BY DEF CountIn
<1> HIDE DEF v
<1> QED BY <1>1, SumToNat DEF CellsIn, v

\* Items of one type have no more cells than the configuration counts for it.
LEMMA CellsOfType ==
  ASSUME NEW configs, NEW N \in Nat, Len(configs) = N, DOMAIN configs = 1..N,
         \A k \in 1..N : WellFormed(configs[k]), NEW type, NEW M \in SUBSET (1..N),
         \A k \in M : configs[k].type = type
  PROVE  /\ CellsOf(configs, type) \in Nat
         /\ CellsIn(SensorSet(configs), M) <= CellsOf(configs, type)
<1> DEFINE items == SensorSet(configs)
           u == [k \in 1..N |-> IF configs[k].type = type THEN Item(configs[k]).count ELSE 0]
           v == CountIn(items, M)
           Solves(g) == g = [k \in 0..Len(configs) |->
                               IF k = 0 THEN 0
                               ELSE g[k - 1] + (IF configs[k].type = type THEN Item(configs[k]).count ELSE 0)]
           sum == CHOOSE g : Solves(g)
<1>1. \A k \in 1..N : Item(configs[k]).count \in Nat
  <2>1. ByteWrap \in Nat
    BY DataAssumption
  <2> QED BY <2>1, ItemOf
<1>2. u \in [1..N -> Nat]
  BY <1>1
<1>3. v \in [1..N -> Nat] /\ \A k \in 1..N : v[k] <= u[k]
  BY <1>1 DEF CountIn, SensorSet
<1>4. PICK f : Sums(f, N, u) /\ SumTo(N, u) = f[N]
  <2> HIDE DEF u
  <2> QED BY <1>2, SumToIs
<1>5. Solves(f)
  <2>1. \A k \in 1..N : f[k] = f[k - 1] + u[k]
    BY <1>4 DEF Sums, SumsUp
  <2>2. f \in [0..N -> Nat] /\ f[0] = 0
    BY <1>4 DEF Sums, SumsUp
  <2>3. \A k \in 1..N : u[k] = IF configs[k].type = type THEN Item(configs[k]).count ELSE 0
    OBVIOUS
  <2> HIDE DEF u
  <2> QED BY <2>1, <2>2, <2>3
<1>6. Solves(sum)
  <2> HIDE DEF Solves
  <2> QED BY <1>5
<1>7. CellsOf(configs, type) = sum[N]
  BY DEF CellsOf
<1> HIDE DEF sum
<1>8. SumsUp(sum, N, u)
  BY <1>6 DEF SumsUp
<1> HIDE DEF u, v, Solves
<1>9. \A k \in 0..N : sum[k] = f[k]
  BY <1>2, <1>4, <1>8, SumsAgree
<1>10. N \in 0..N
  OBVIOUS
<1>11. CellsOf(configs, type) = SumTo(N, u)
  BY <1>4, <1>7, <1>9, <1>10
<1>12. SumTo(N, v) <= SumTo(N, u) /\ SumTo(N, u) \in Nat
  BY <1>2, <1>3, SumToLess, SumToNat
<1>13. Len(items) = N
  BY DEF SensorSet
<1>14. CellsIn(items, M) = SumTo(N, v)
  BY <1>13 DEF CellsIn, v
<1> QED BY <1>11, <1>12, <1>14

-----------------------------------------------------------------------------
(* The walk: what holds of the items and ranges once the items in a set have *)
(* been visited.                                                             *)

\* The items and ranges of a walk over N items.
ItemSet == [type : RegisterTypes, start : Nat, offset : 0..(ByteWrap - 1), count : 1..(ByteWrap - 1),
            bytes : {0}, skip : Nat, force : BOOLEAN]
RangeSet(N) == [type : RegisterTypes, start : Nat, count : Nat, skip : Nat, members : SUBSET (1..N)]
WalkSet(N) == [items : [1..N -> ItemSet], done : Seq(RangeSet(N)), range : RangeSet(N), bytes : Nat, prev : Nat]

\* Two items with one address.
AtOneCell(items, i, j) == items[i].type = items[j].type /\ items[i].start = items[j].start

\* What the configurations that are considered give the walk.
Sound(items, N) ==
  /\ N \in Nat /\ items \in [1..N -> ItemSet]
  /\ \A i \in 1..N, j \in 1..N : i # j /\ AtOneCell(items, i, j) =>
       items[i].count = items[j].count /\ items[i].force = items[j].force
       /\ (items[i].offset = 0 \/ items[j].offset = 0)
  /\ \A i \in 1..N, j \in 1..N : i # j /\ items[i].type \in BitTypes /\ items[i].offset > 0 =>
       items[j].type # items[i].type
  /\ \A i \in 1..N : items[i].type \in BitTypes => items[i].count = items[i].offset + 1
  /\ \A M \in SUBSET (1..N), t \in RegisterTypes :
       (\A j \in M : items[j].type = t) => CellsIn(items, M) < ByteWrap

\* A range holds its members, each in its place.
InPlaceOf(items, at, r, j) ==
  /\ items[j].type = r.type /\ at[j].start = r.start
  /\ r.start <= items[j].start /\ items[j].start + items[j].count <= r.start + r.count
  /\ at[j].offset = ((Unit(r.type) * (items[j].start - r.start) + items[j].offset) % ByteWrap)
Holds(items, at, r) == \A j \in r.members : InPlaceOf(items, at, r, j)
OpenedBy(items, r, q) == q \in r.members /\ items[q].start = r.start
FitsRange(items, at, r) ==
  /\ Holds(items, at, r) /\ \E q \in r.members : OpenedBy(items, r, q)
  /\ r.count > 0 /\ r.count <= CellsIn(items, r.members)

\* The walk rewrites the start and the offset of an item and nothing else,
SameItem(item, other) ==
  item.type = other.type /\ item.count = other.count /\ item.bytes = other.bytes /\ item.force = other.force

\* buffer_offset is the bytes of the range so far, but for a lone coil with an offset.
BytesCounted(items, w) ==
  \/ \E j \in w.range.members : items[j].type \in BitTypes /\ items[j].offset > 0
  \/ w.bytes = ((Unit(w.range.type) * w.range.count) % ByteWrap)

\* and only when it visits the item.
ItemsKept(items, N, w, V) ==
  \A j \in 1..N : SameItem(w.items[j], items[j]) /\ (j \notin V => w.items[j] = items[j])

\* The range that is being built.
Building(items, w, V) ==
  /\ FitsRange(items, w.items, w.range) /\ w.range.members \subseteq V
  /\ w.prev \in w.range.members
  /\ \A j \in V : j = w.prev \/ Precedes(items, j, w.prev)
  /\ items[w.prev].start + items[w.prev].count = w.range.start + w.range.count
  /\ BytesCounted(items, w)

Differ(r, s) == r.type # s.type \/ r.start # s.start

\* A finished range, and what tells it from the one that is being built.
Finished(items, w, V, r) ==
  /\ FitsRange(items, w.items, r) /\ r.members \subseteq V
  /\ \E q \in r.members : OpenedBy(items, r, q) /\ \A j \in w.range.members : Precedes(items, q, j)
  /\ Differ(r, w.range)

AllFinished(items, w, V) == \A n \in 1..Len(w.done) : Finished(items, w, V, w.done[n])
AllDiffer(done) == \A m \in 1..Len(done), n \in 1..Len(done) : m # n => Differ(done[m], done[n])
Covered(w, V) == \A j \in V : j \in w.range.members \/ \E n \in 1..Len(w.done) : j \in w.done[n].members

\* The invariant of the walk, when the items in V have been visited.
Walked(items, N, w, V) ==
  /\ w \in WalkSet(N) /\ ItemsKept(items, N, w, V)
  /\ V = {} => w.range.count = 0 /\ w.done = <<>>
  /\ V # {} => Building(items, w, V)
  /\ AllFinished(items, w, V) /\ AllDiffer(w.done) /\ Covered(w, V)

\* The item that the walk comes to after those in V.
NextItem(items, N, V, i) ==
  /\ V \subseteq 1..N /\ i \in 1..N /\ i \notin V
  /\ \A j \in V : Precedes(items, j, i)

\* The fields of an item as the configuration made it.
LEMMA SoundItems ==
  ASSUME NEW items, NEW N, Sound(items, N), NEW j \in 1..N
  PROVE  /\ items[j].type \in RegisterTypes /\ items[j].start \in Nat /\ items[j].offset \in Nat
         /\ items[j].count \in Nat /\ items[j].count > 0 /\ items[j].bytes = 0 /\ items[j].force \in BOOLEAN
         /\ items[j].offset \in 0..(ByteWrap - 1) /\ items[j].count \in 1..(ByteWrap - 1)
         /\ items[j] \in ItemSet
<1>1. items[j] \in ItemSet
  BY DEF Sound
<1>2. ByteWrap \in Nat
  BY DataAssumption
<1> QED BY <1>1, <1>2 DEF ItemSet

\* A range stays as it is while an item that is not in it is rewritten.
LEMMA RangeStays ==
  ASSUME NEW items, NEW at, NEW to, NEW r, NEW i, FitsRange(items, at, r), i \notin r.members,
         \A j \in r.members : j # i => to[j] = at[j]
  PROVE  FitsRange(items, to, r)
<1>1. Holds(items, to, r)
  <2> SUFFICES ASSUME NEW j \in r.members PROVE InPlaceOf(items, to, r, j)
    BY DEF Holds
  <2>1. to[j] = at[j] /\ InPlaceOf(items, at, r, j)
    BY DEF FitsRange, Holds
  <2> QED BY <2>1 DEF InPlaceOf
<1> QED BY <1>1 DEF FitsRange

\* An item joins the range that is being built.
JoinedTo(items, N, w, i, w1) ==
  /\ w1 \in WalkSet(N) /\ w1.done = w.done /\ w1.prev = i
  /\ \A j \in 1..N : j # i => w1.items[j] = w.items[j]
  /\ SameItem(w1.items[i], items[i])
  /\ w1.range.type = w.range.type /\ w1.range.start = w.range.start
  /\ w1.range.members = w.range.members \cup {i} /\ w.range.count <= w1.range.count
  /\ InPlaceOf(items, w1.items, w1.range, i)
  /\ items[i].start + items[i].count = w1.range.start + w1.range.count
  /\ w1.range.count <= CellsIn(items, w1.range.members)
  /\ BytesCounted(items, w1)

\* An item that joined the range as JoinedTo demands keeps the invariant of the walk.
LEMMA JoiningWalks ==
  ASSUME NEW items, NEW N, Sound(items, N), NEW V, V # {}, NEW i, NextItem(items, N, V, i),
         NEW w, Walked(items, N, w, V), NEW w1, JoinedTo(items, N, w, i, w1)
  PROVE  Walked(items, N, w1, V \cup {i})
<1> DEFINE U == V \cup {i}
           r == w.range
           s == w1.range
<1>1. /\ V \subseteq 1..N /\ i \in 1..N /\ i \notin V /\ \A j \in V : Precedes(items, j, i)
      /\ N \in Nat
  BY DEF NextItem, Sound
<1>2. w \in WalkSet(N) /\ w1 \in WalkSet(N) /\ r \in RangeSet(N) /\ s \in RangeSet(N)
  BY DEF Walked, JoinedTo, WalkSet
<1>3. r.count \in Nat /\ s.count \in Nat /\ r.start \in Nat /\ s.start \in Nat
  BY <1>2 DEF RangeSet
<1>4. Building(items, w, V) /\ ItemsKept(items, N, w, V) /\ AllFinished(items, w, V) /\ Covered(w, V)
  BY DEF Walked
<1>5. /\ s.type = r.type /\ s.start = r.start /\ s.members = r.members \cup {i} /\ r.count <= s.count
      /\ w1.done = w.done /\ w1.prev = i /\ \A j \in 1..N : j # i => w1.items[j] = w.items[j]
  BY DEF JoinedTo
<1> HIDE DEF r, s
<1>6. ItemsKept(items, N, w1, U)
  <2> SUFFICES ASSUME NEW j \in 1..N
               PROVE  SameItem(w1.items[j], items[j]) /\ (j \notin U => w1.items[j] = items[j])
    BY DEF ItemsKept
  <2>1. CASE j = i
    BY <2>1 DEF JoinedTo
  <2>2. CASE j # i
    BY <2>2, <1>4, <1>5 DEF ItemsKept
  <2> QED BY <2>1, <2>2
<1>7. FitsRange(items, w1.items, s)
  <2>1. FitsRange(items, w.items, r) /\ r.members \subseteq V
    BY <1>4 DEF Building, r
  <2>2. ASSUME NEW j \in s.members PROVE InPlaceOf(items, w1.items, s, j)
    <3>1. CASE j = i
      BY <3>1 DEF JoinedTo, s
    <3>2. CASE j # i
      <4>1. j \in r.members /\ j \in 1..N /\ w1.items[j] = w.items[j]
        BY <3>2, <1>1, <1>5, <2>1
      <4>2. InPlaceOf(items, w.items, r, j)
        BY <4>1, <2>1 DEF FitsRange, Holds
      <4>3. items[j].start \in Nat /\ items[j].count \in Nat
        BY <4>1, SoundItems
      <4> QED BY <4>1, <4>2, <4>3, <1>3, <1>5 DEF InPlaceOf
    <3> QED BY <3>1, <3>2
  <2>3. \E q \in s.members : OpenedBy(items, s, q)
    <3>1. PICK q \in r.members : OpenedBy(items, r, q)
      BY <2>1 DEF FitsRange
    <3>2. q \in s.members /\ OpenedBy(items, s, q)
      BY <3>1, <1>5 DEF OpenedBy
    <3> QED BY <3>2
  <2>4. s.count > 0 /\ s.count <= CellsIn(items, s.members)
    <3>1. r.count > 0
      BY <2>1 DEF FitsRange
    <3>2. s.count <= CellsIn(items, s.members)
      BY DEF JoinedTo, s
    <3> QED BY <3>1, <3>2, <1>3, <1>5
  <2> QED BY <2>2, <2>3, <2>4 DEF FitsRange, Holds
<1>8. Building(items, w1, U)
  <2>1. s.members \subseteq U
    BY <1>4, <1>5 DEF Building, r
  <2>2. i \in s.members
    BY <1>5
  <2>3. \A j \in U : j = i \/ Precedes(items, j, i)
    BY <1>1
  <2>4. items[i].start + items[i].count = s.start + s.count /\ BytesCounted(items, w1)
    BY DEF JoinedTo, s
  <2> QED BY <2>1, <2>2, <2>3, <2>4, <1>5, <1>7 DEF Building, s
<1>9. AllFinished(items, w1, U)
  <2> SUFFICES ASSUME NEW n \in 1..Len(w.done) PROVE Finished(items, w1, U, w.done[n])
    BY <1>5 DEF AllFinished
  <2> DEFINE t == w.done[n]
  <2>1. Finished(items, w, V, t)
    BY <1>4 DEF AllFinished
  <2> HIDE DEF t
  <2>2. FitsRange(items, w.items, t) /\ t.members \subseteq V /\ Differ(t, r)
    BY <2>1 DEF Finished, r
  <2>3. FitsRange(items, w1.items, t)
    <3>1. i \notin t.members /\ \A j \in t.members : j # i => w1.items[j] = w.items[j]
      BY <2>2, <1>1, <1>5
    <3> QED BY <3>1, <2>2, RangeStays
  <2>4. PICK q \in t.members : OpenedBy(items, t, q) /\ \A j \in r.members : Precedes(items, q, j)
    BY <2>1 DEF Finished, r
  <2>5. \A j \in s.members : Precedes(items, q, j)
    BY <2>2, <2>4, <1>1, <1>5
  <2>6. Differ(t, s)
    BY <2>2, <1>5 DEF Differ
  <2>7. Finished(items, w1, U, t)
    BY <2>2, <2>3, <2>4, <2>5, <2>6 DEF Finished, s
  <2> QED BY <2>7 DEF t
<1>10. Covered(w1, U)
  BY <1>4, <1>5 DEF Covered, r, s
<1>11. AllDiffer(w1.done)
  BY <1>5 DEF Walked
<1>12. U # {}
  OBVIOUS
<1> HIDE DEF U
<1>13. Walked(items, N, w1, U)
  BY <1>2, <1>6, <1>8, <1>9, <1>10, <1>11, <1>12 DEF Walked
<1> QED BY <1>13 DEF U

\* One step of the walk: what the four ways to place an item make of its record.
Rewrites(N, w, i, w1, offset, bytes, count) ==
  /\ w1 \in WalkSet(N) /\ w1.done = w.done /\ w1.prev = w.prev /\ w1.bytes = bytes
  /\ \A j \in 1..N : j # i => w1.items[j] = w.items[j]
  /\ SameItem(w1.items[i], w.items[i])
  /\ w1.items[i].start = w.range.start /\ w1.items[i].offset = offset
  /\ w1.range.type = w.range.type /\ w1.range.start = w.range.start
  /\ w1.range.members = w.range.members /\ w1.range.count = count

\* The types of the fields of the walk.
LEMMA WalkFields ==
  ASSUME NEW N, NEW w \in WalkSet(N), NEW i \in 1..N
  PROVE  /\ w.items \in [1..N -> ItemSet] /\ w.items[i] \in ItemSet /\ w.done \in Seq(RangeSet(N))
         /\ w.range \in RangeSet(N) /\ w.bytes \in Nat /\ w.prev \in Nat
BY DEF WalkSet

\* The types of the fields of an item.
LEMMA ItemFields ==
  ASSUME NEW x \in ItemSet
  PROVE  /\ x.type \in RegisterTypes /\ x.start \in Nat /\ x.bytes = 0 /\ x.skip \in Nat /\ x.force \in BOOLEAN
         /\ x.offset \in Int /\ x.count \in Int /\ x.offset \in Nat /\ x.count \in Nat
         /\ x.offset \in 0..(ByteWrap - 1) /\ x.count \in 1..(ByteWrap - 1)
         /\ RegisterSize(x) \in Int
         /\ x = [type |-> x.type, start |-> x.start, offset |-> x.offset, count |-> x.count, bytes |-> x.bytes,
                 skip |-> x.skip, force |-> x.force]
<1>1. ByteWrap \in Nat
  BY DataAssumption
<1>2. /\ x.type \in RegisterTypes /\ x.start \in Nat /\ x.bytes = 0 /\ x.skip \in Nat /\ x.force \in BOOLEAN
      /\ x.offset \in 0..(ByteWrap - 1) /\ x.count \in 1..(ByteWrap - 1)
  BY DEF ItemSet
<1>3. x.offset \in Nat /\ x.count \in Nat
  BY <1>1, <1>2
<1>4. RegisterSize(x) \in Int
  BY <1>2, <1>3 DEF RegisterSize
<1>5. x = [type |-> x.type, start |-> x.start, offset |-> x.offset, count |-> x.count, bytes |-> x.bytes,
           skip |-> x.skip, force |-> x.force]
  BY DEF ItemSet
<1> QED BY <1>2, <1>3, <1>4, <1>5

\* One field of an item replaced: its start.
LEMMA Restarted ==
  ASSUME NEW a, NEW b, NEW c, NEW d, NEW e, NEW f, NEW g, NEW start
  PROVE  [[type |-> a, start |-> b, offset |-> c, count |-> d, bytes |-> e, skip |-> f, force |-> g]
            EXCEPT !.start = start] =
         [type |-> a, start |-> start, offset |-> c, count |-> d, bytes |-> e, skip |-> f, force |-> g]
OBVIOUS

\* One field of an item replaced: its offset.
LEMMA Moved ==
  ASSUME NEW a, NEW b, NEW c, NEW d, NEW e, NEW f, NEW g, NEW offset
  PROVE  [[type |-> a, start |-> b, offset |-> c, count |-> d, bytes |-> e, skip |-> f, force |-> g]
            EXCEPT !.offset = offset] =
         [type |-> a, start |-> b, offset |-> offset, count |-> d, bytes |-> e, skip |-> f, force |-> g]
OBVIOUS

\* Both of them replaced.
LEMMA Rewritten ==
  ASSUME NEW x \in ItemSet, NEW start, NEW offset
  PROVE  [x EXCEPT !.start = start, !.offset = offset] =
           [type |-> x.type, start |-> start, offset |-> offset, count |-> x.count, bytes |-> x.bytes,
            skip |-> x.skip, force |-> x.force]
<1> DEFINE y == [type |-> x.type, start |-> x.start, offset |-> x.offset, count |-> x.count, bytes |-> x.bytes,
                 skip |-> x.skip, force |-> x.force]
           z == [type |-> x.type, start |-> start, offset |-> x.offset, count |-> x.count, bytes |-> x.bytes,
                 skip |-> x.skip, force |-> x.force]
           u == [type |-> x.type, start |-> start, offset |-> offset, count |-> x.count, bytes |-> x.bytes,
                 skip |-> x.skip, force |-> x.force]
<1>1. x = y
  BY ItemFields
<1>2. [y EXCEPT !.start = start] = z
  BY Restarted
<1>3. [z EXCEPT !.offset = offset] = u
  BY Moved
<1>4. [x EXCEPT !.start = start, !.offset = offset] = [[x EXCEPT !.start = start] EXCEPT !.offset = offset]
  OBVIOUS
<1> HIDE DEF y, z, u
<1>5. [x EXCEPT !.start = start, !.offset = offset] = u
  BY <1>1, <1>2, <1>3, <1>4
<1> QED BY <1>5 DEF u

\* What becoming a member of the range is.
Joins(N, w, i, w1) ==
  /\ w1 \in WalkSet(N) /\ w1.items = w.items /\ w1.done = w.done /\ w1.bytes = w.bytes /\ w1.prev = i
  /\ w1.range.type = w.range.type /\ w1.range.start = w.range.start /\ w1.range.count = w.range.count
  /\ w1.range.members = w.range.members \cup {i}

\* What Join does.
LEMMA JoinJoins ==
  ASSUME NEW N \in Nat, NEW w \in WalkSet(N), NEW i \in 1..N, NEW w1, w1 = Join(w, i)
  PROVE  Joins(N, w, i, w1)
<1> DEFINE lowest == LowestSkip(w.range.skip, w.items[i].skip)
           range == [type |-> w.range.type, start |-> w.range.start, count |-> w.range.count,
                     skip |-> lowest, members |-> w.range.members \cup {i}]
<1>1. w.items[i] \in ItemSet /\ w.range \in RangeSet(N)
  BY WalkFields
<1>2. lowest \in Nat
  BY <1>1 DEF LowestSkip, ItemSet, RangeSet
<1>3. range \in RangeSet(N)
  BY <1>1, <1>2 DEF RangeSet
<1>4. w1 = [items |-> w.items, done |-> w.done, range |-> range, bytes |-> w.bytes, prev |-> i]
  BY DEF Join, WalkSet, RangeSet
<1>5. i \in Nat
  OBVIOUS
<1>6. range.type = w.range.type /\ range.start = w.range.start /\ range.count = w.range.count
      /\ range.members = w.range.members \cup {i}
  OBVIOUS
<1>7. w.items \in [1..N -> ItemSet] /\ w.done \in Seq(RangeSet(N)) /\ w.bytes \in Nat
  BY WalkFields
<1> HIDE DEF range
<1>8. w1 \in WalkSet(N)
  BY <1>3, <1>4, <1>5, <1>7 DEF WalkSet
<1> QED BY <1>4, <1>6, <1>8 DEF Joins

\* What Reuse does to the item and the range.
LEMMA ReuseRewrites ==
  ASSUME NEW N \in Nat, NEW w \in WalkSet(N), NEW i \in 1..N, NEW w1, w1 = Reuse(w, i), ByteWrap \in Nat, ByteWrap > 0,
         w.prev \in 1..N
  PROVE  Rewrites(N, w, i, w1, ((w.items[i].offset + w.items[w.prev].offset) % ByteWrap), w.bytes, w.range.count)
<1> DEFINE offset == (w.items[i].offset + w.items[w.prev].offset) % ByteWrap
           item == [type |-> w.items[i].type, start |-> w.range.start, offset |-> offset,
                    count |-> w.items[i].count, bytes |-> w.items[i].bytes, skip |-> w.items[i].skip,
                    force |-> w.items[i].force]
<1>1. w.items[i] \in ItemSet /\ w.range \in RangeSet(N) /\ w.items \in [1..N -> ItemSet]
  BY WalkFields
<1>2. w.items[i].offset + w.items[w.prev].offset \in Int
  <2>1. w.items[w.prev] \in ItemSet
    BY <1>1
  <2>2. w.items[i].offset \in Int /\ w.items[w.prev].offset \in Int
    BY <1>1, <2>1, ItemFields, Zenon
  <2> QED BY <2>2
<1>3. offset \in 0..(ByteWrap - 1)
  BY <1>2, Divided
<1>4. w1.items = [w.items EXCEPT ![i] = [w.items[i] EXCEPT !.start = w.range.start, !.offset = offset]]
  BY DEF Reuse, WalkSet
<1>5. [w.items[i] EXCEPT !.start = w.range.start, !.offset = offset] = item
  BY <1>1, Rewritten
<1>6. item \in ItemSet
  BY <1>1, <1>3 DEF ItemSet, RangeSet
<1>7. w1.done = w.done /\ w1.range = w.range /\ w1.bytes = w.bytes /\ w1.prev = w.prev
      /\ w1 = [items |-> w1.items, done |-> w.done, range |-> w.range, bytes |-> w.bytes, prev |-> w.prev]
  BY DEF Reuse, WalkSet
<1>8. item.type = w.items[i].type /\ item.count = w.items[i].count /\ item.bytes = w.items[i].bytes
      /\ item.force = w.items[i].force /\ item.start = w.range.start /\ item.offset = offset
  OBVIOUS
<1> HIDE DEF item, offset
<1>9. w1.items \in [1..N -> ItemSet] /\ w1.items[i] = item /\ \A j \in 1..N : j # i => w1.items[j] = w.items[j]
  BY <1>1, <1>4, <1>5, <1>6
<1>10. w1 \in WalkSet(N)
  BY <1>7, <1>9 DEF WalkSet
<1>11. SameItem(w1.items[i], w.items[i])
  BY <1>8, <1>9 DEF SameItem
<1> QED BY <1>7, <1>8, <1>9, <1>10, <1>11 DEF Rewrites, offset

\* What Extend does to the item and the range.
LEMMA ExtendRewrites ==
  ASSUME NEW N \in Nat, NEW w \in WalkSet(N), NEW i \in 1..N, NEW w1, w1 = Extend(w, i), ByteWrap \in Nat, ByteWrap > 0
  PROVE  Rewrites(N, w, i, w1, ((w.items[i].offset + w.bytes) % ByteWrap),
                  ((w.bytes + RegisterSize(w.items[i])) % ByteWrap),
                  ((w.range.count + w.items[i].count) % ByteWrap))
<1> DEFINE offset == (w.items[i].offset + w.bytes) % ByteWrap
           size == RegisterSize(w.items[i])
           bytes == (w.bytes + size) % ByteWrap
           count == (w.range.count + w.items[i].count) % ByteWrap
           item == [type |-> w.items[i].type, start |-> w.range.start, offset |-> offset,
                    count |-> w.items[i].count, bytes |-> w.items[i].bytes, skip |-> w.items[i].skip,
                    force |-> w.items[i].force]
           range == [type |-> w.range.type, start |-> w.range.start, count |-> count,
                     skip |-> w.range.skip, members |-> w.range.members]
<1>1. w.items[i] \in ItemSet /\ w.range \in RangeSet(N) /\ w.items \in [1..N -> ItemSet] /\ w.bytes \in Nat
  BY WalkFields
<1>2. w.items[i].offset \in Int /\ w.items[i].count \in Int /\ w.range.count \in Int /\ size \in Int
  BY <1>1, ItemFields DEF RangeSet
<1> HIDE DEF size
<1>3. offset \in 0..(ByteWrap - 1) /\ bytes \in 0..(ByteWrap - 1) /\ count \in 0..(ByteWrap - 1)
  <2>1. w.bytes \in Int
    BY <1>1
  <2>2. w.items[i].offset + w.bytes \in Int /\ w.bytes + size \in Int /\ w.range.count + w.items[i].count \in Int
    BY <1>2, <2>1
  <2> QED BY <2>2, Divided
<1>4. w1.items = [w.items EXCEPT ![i] = [w.items[i] EXCEPT !.start = w.range.start, !.offset = offset]]
  BY DEF Extend, WalkSet
<1>5. [w.items[i] EXCEPT !.start = w.range.start, !.offset = offset] = item
  BY <1>1, Rewritten
<1>6. item \in ItemSet
  BY <1>1, <1>3 DEF ItemSet, RangeSet
<1>7. w1.range = range
  BY <1>1 DEF Extend, WalkSet, RangeSet
<1>8. range \in RangeSet(N)
  BY <1>1, <1>3 DEF RangeSet
<1>9. w1.done = w.done /\ w1.bytes = bytes /\ w1.prev = w.prev
      /\ w1 = [items |-> w1.items, done |-> w.done, range |-> w1.range, bytes |-> bytes, prev |-> w.prev]
  BY DEF Extend, WalkSet, size
<1>10. item.type = w.items[i].type /\ item.count = w.items[i].count /\ item.bytes = w.items[i].bytes
      /\ item.force = w.items[i].force /\ item.start = w.range.start /\ item.offset = offset
  OBVIOUS
<1>11. range.type = w.range.type /\ range.start = w.range.start /\ range.members = w.range.members
       /\ range.count = count
  OBVIOUS
<1> HIDE DEF item, offset, range, bytes, count
<1>12. w1.items \in [1..N -> ItemSet] /\ w1.items[i] = item /\ \A j \in 1..N : j # i => w1.items[j] = w.items[j]
  BY <1>1, <1>4, <1>5, <1>6
<1>13. w1 \in WalkSet(N)
  BY <1>1, <1>3, <1>7, <1>8, <1>9, <1>12 DEF WalkSet
<1>14. SameItem(w1.items[i], w.items[i])
  BY <1>10, <1>12 DEF SameItem
<1>15. Rewrites(N, w, i, w1, offset, bytes, count)
  BY <1>7, <1>9, <1>10, <1>11, <1>12, <1>13, <1>14 DEF Rewrites
<1> QED BY <1>15 DEF offset, bytes, count, size

\* What a new range is.
OpensAt(N, w, i, w1, done) ==
  /\ w1 \in WalkSet(N) /\ w1.items = w.items /\ w1.done = done /\ w1.prev = i
  /\ w1.bytes = (RegisterSize(w.items[i]) % ByteWrap)
  /\ w1.range.type = w.items[i].type /\ w1.range.start = w.items[i].start
  /\ w1.range.count = w.items[i].count /\ w1.range.members = {i}

\* What Open does.
LEMMA OpenOpens ==
  ASSUME NEW N \in Nat, NEW w \in WalkSet(N), NEW i \in 1..N, NEW w1, w1 = Open(w, i), ByteWrap \in Nat, ByteWrap > 0
  PROVE  OpensAt(N, w, i, w1, w.done)
<1> DEFINE size == RegisterSize(w.items[i])
           bytes == size % ByteWrap
           range == [type |-> w.items[i].type, start |-> w.items[i].start, count |-> w.items[i].count,
                     skip |-> w.items[i].skip, members |-> {i}]
<1>1. w.items[i] \in ItemSet /\ w.range \in RangeSet(N) /\ w.items \in [1..N -> ItemSet]
      /\ w.done \in Seq(RangeSet(N))
  BY WalkFields
<1>2. size \in Int
  BY <1>1, ItemFields
<1>3. w1 = [items |-> w.items, done |-> w.done, range |-> range, bytes |-> bytes, prev |-> i]
  BY DEF Open, WalkSet
<1> HIDE DEF size
<1>4. bytes \in 0..(ByteWrap - 1)
  BY <1>2, Divided
<1>5. bytes \in Nat /\ i \in Nat
  BY <1>4
<1>6. range \in RangeSet(N)
  BY <1>1, ItemFields DEF RangeSet
<1>7. range.type = w.items[i].type /\ range.start = w.items[i].start
      /\ range.count = w.items[i].count /\ range.members = {i}
  OBVIOUS
<1> HIDE DEF range, bytes
<1> QED BY <1>1, <1>3, <1>5, <1>6, <1>7 DEF WalkSet, OpensAt, bytes, size

\* What closing a range and opening the next one does.
LEMMA CloseOpens ==
  ASSUME NEW N \in Nat, NEW w \in WalkSet(N), NEW i \in 1..N, ByteWrap \in Nat, ByteWrap > 0,
         NEW w1, w1 = Open([w EXCEPT !.done = Append(@, w.range)], i)
  PROVE  OpensAt(N, w, i, w1, Append(w.done, w.range))
<1> DEFINE v == [w EXCEPT !.done = Append(@, w.range)]
<1>1. w.done \in Seq(RangeSet(N)) /\ w.range \in RangeSet(N)
  BY WalkFields
<1>3. Append(w.done, w.range) \in Seq(RangeSet(N))
  BY <1>1
<1>4. v \in WalkSet(N) /\ v.items = w.items /\ v.done = Append(w.done, w.range)
  BY <1>3 DEF WalkSet
<1> HIDE DEF v
<1>5. w1 = Open(v, i)
  BY DEF v
<1>6. OpensAt(N, v, i, w1, v.done)
  BY <1>4, <1>5, OpenOpens
<1> QED BY <1>4, <1>6 DEF OpensAt

\* What is known of the item that comes next, and of the range that is being built.
NextAt(items, N, V, i, w) ==
  /\ N \in Nat /\ V \subseteq 1..N /\ i \in 1..N /\ i \notin V /\ (\A j \in V : Precedes(items, j, i))
  /\ w \in WalkSet(N) /\ w.range \in RangeSet(N) /\ Building(items, w, V) /\ FitsRange(items, w.items, w.range)
  /\ w.items[i] = items[i] /\ w.range.members \subseteq V /\ w.prev \in w.range.members
  /\ w.prev \in 1..N /\ w.prev # i /\ i \notin w.range.members
  /\ w.items[w.prev].count = items[w.prev].count /\ items[w.prev].type = w.range.type
  /\ (\A j \in w.range.members : items[j].type = w.range.type)
  /\ items[w.prev].start + items[w.prev].count = w.range.start + w.range.count
  /\ w.range.start \in Nat /\ w.range.count \in Nat /\ w.range.count > 0 /\ w.bytes \in Nat
  /\ ByteWrap \in Nat /\ ByteWrap > 0 /\ BytesCounted(items, w)

\* The invariant of the walk says this of the item that comes next.
LEMMA AtTheRange ==
  ASSUME NEW items, NEW N, Sound(items, N), NEW V, V # {}, NEW i, NextItem(items, N, V, i),
         NEW w, Walked(items, N, w, V)
  PROVE  NextAt(items, N, V, i, w)
<1>1. V \subseteq 1..N /\ i \in 1..N /\ i \notin V /\ (\A j \in V : Precedes(items, j, i)) /\ N \in Nat
  BY DEF NextItem, Sound
<1>2. w \in WalkSet(N) /\ Building(items, w, V) /\ ItemsKept(items, N, w, V)
  BY DEF Walked
<1>3. w.range \in RangeSet(N) /\ w.bytes \in Nat
  BY <1>2 DEF WalkSet
<1>4. /\ FitsRange(items, w.items, w.range) /\ w.range.members \subseteq V /\ w.prev \in w.range.members
      /\ items[w.prev].start + items[w.prev].count = w.range.start + w.range.count
      /\ BytesCounted(items, w)
  BY <1>2 DEF Building
<1>5. w.prev \in 1..N /\ w.prev # i /\ i \notin w.range.members
  BY <1>1, <1>4
<1>6. w.items[i] = items[i] /\ w.items[w.prev].count = items[w.prev].count
  BY <1>1, <1>2, <1>5 DEF ItemsKept, SameItem
<1>7. \A j \in w.range.members : items[j].type = w.range.type
  BY <1>4 DEF FitsRange, Holds, InPlaceOf
<1>8. w.range.start \in Nat /\ w.range.count \in Nat /\ w.range.count > 0
  BY <1>3, <1>4 DEF RangeSet, FitsRange
<1>9. ByteWrap \in Nat /\ ByteWrap > 0
  <2>1. ByteWrap \in Nat /\ items[i].offset \in 0..(ByteWrap - 1)
    BY <1>1, SoundItems, DataAssumption
  <2> QED BY <2>1
<1> QED BY <1>1, <1>2, <1>3, <1>4, <1>5, <1>6, <1>7, <1>8, <1>9 DEF NextAt

\* The cells of a range with one more member.
LEMMA OneMore ==
  ASSUME NEW items, NEW N, Sound(items, N), NEW M \in SUBSET (1..N), NEW i \in 1..N, i \notin M
  PROVE  /\ CellsIn(items, M \cup {i}) = CellsIn(items, M) + items[i].count
         /\ CellsIn(items, M) \in Nat /\ CellsIn(items, M \cup {i}) \in Nat
<1>1. N \in Nat /\ items \in [1..N -> ItemSet]
  BY DEF Sound
<1>2. Len(items) = N /\ DOMAIN items = 1..N
  BY <1>1, FunctionSeq
<1>3. \A k \in 1..N : items[k].count \in Nat
  BY SoundItems
<1>4. CellsIn(items, M) \in Nat
  BY <1>1, <1>2, <1>3, CellsInNat
<1>5. CellsIn(items, M \cup {i}) = CellsIn(items, M) + items[i].count
  BY <1>1, <1>2, <1>3, CellsInAdd
<1> QED BY <1>3, <1>4, <1>5

\* A range has no more cells than its items ask for, the next one included.
LEMMA CountStays ==
  ASSUME NEW items, NEW N, Sound(items, N), NEW V, V # {}, NEW i, NextItem(items, N, V, i),
         NEW w, Walked(items, N, w, V)
  PROVE  /\ w.range.count <= CellsIn(items, w.range.members \cup {i})
         /\ w.range.count + items[i].count <= CellsIn(items, w.range.members \cup {i})
<1>1. /\ FitsRange(items, w.items, w.range) /\ w.range \in RangeSet(N) /\ i \in 1..N /\ i \notin w.range.members
      /\ w.range.count \in Nat
  <2>1. NextAt(items, N, V, i, w)
    BY AtTheRange
  <2> QED BY <2>1 DEF NextAt
<1>2. w.range.members \in SUBSET (1..N)
  BY <1>1 DEF RangeSet
<1>3. /\ CellsIn(items, w.range.members \cup {i}) = CellsIn(items, w.range.members) + items[i].count
      /\ CellsIn(items, w.range.members) \in Nat
  BY <1>1, <1>2, OneMore
<1>4. w.range.count <= CellsIn(items, w.range.members)
  BY <1>1 DEF FitsRange
<1>5. items[i].count \in Nat
  BY <1>1, SoundItems
<1> QED BY <1>1, <1>3, <1>4, <1>5

\* Only a lone coil with an offset is counted otherwise.
LEMMA BytesOfItem ==
  ASSUME NEW items, NEW N, Sound(items, N), NEW i \in 1..N
  PROVE  \/ items[i].type \in BitTypes /\ items[i].offset > 0
         \/ RegisterSize(items[i]) = Unit(items[i].type) * items[i].count
<1>1. /\ items[i].type \in BitTypes => items[i].count = items[i].offset + 1
      /\ items[i].bytes = 0 /\ items[i].count \in Nat /\ items[i].offset \in Nat
  BY SoundItems DEF Sound
<1> QED BY <1>1 DEF RegisterSize, Unit

\* Bits that are taken from a byte at an offset are alone of their type.
LEMMA NotAlone ==
  ASSUME NEW items, NEW N, Sound(items, N), NEW i \in 1..N, NEW j \in 1..N, i # j, items[i].type = items[j].type
  PROVE  ~(items[i].type \in BitTypes /\ items[i].offset > 0)
BY DEF Sound

\* Taking the cell of the item before keeps the invariant of the walk.
LEMMA ReuseWalks ==
  ASSUME NEW items, NEW N, Sound(items, N), NEW V, V # {}, NEW i, NextItem(items, N, V, i),
         NEW w, Walked(items, N, w, V), Mergeable(w, w.items[i]), Reuses(w, w.items[i]),
         NEW w1, w1 = Join(Reuse(w, i), i)
  PROVE  Walked(items, N, w1, V \cup {i})
<1> DEFINE p == w.prev
           r == w.range
           T == r.type
           v == Reuse(w, i)
           offset == (w.items[i].offset + w.items[p].offset) % ByteWrap
           d == items[i].start - r.start
<1>1. /\ N \in Nat /\ V \subseteq 1..N /\ i \in 1..N /\ i \notin V /\ \A j \in V : Precedes(items, j, i)
      /\ w \in WalkSet(N) /\ r \in RangeSet(N) /\ Building(items, w, V) /\ FitsRange(items, w.items, r)
      /\ w.items[i] = items[i] /\ r.members \subseteq V /\ p \in r.members
      /\ p \in 1..N /\ p # i /\ i \notin r.members
      /\ w.items[p].count = items[p].count /\ items[p].type = T
      /\ items[p].start + items[p].count = r.start + r.count
      /\ r.start \in Nat /\ r.count \in Nat /\ r.count > 0 /\ w.bytes \in Nat
      /\ ByteWrap \in Nat /\ ByteWrap > 0 /\ BytesCounted(items, w)
  <2>1. NextAt(items, N, V, i, w)
    BY AtTheRange
  <2> QED BY <2>1 DEF NextAt
<1>2. /\ items[i].start \in Nat /\ items[i].count \in Nat /\ items[i].offset \in Nat /\ items[i].force \in BOOLEAN
      /\ items[p].start \in Nat /\ items[p].count \in Nat /\ items[p].offset \in Nat /\ items[p].force \in BOOLEAN
  BY <1>1, SoundItems
<1>3. v = Reuse(w, i) /\ Rewrites(N, w, i, v, offset, w.bytes, r.count)
  BY <1>1, ReuseRewrites
<1>4. items[i].type = T /\ items[i].force = FALSE
  BY <1>1, <1>2 DEF Mergeable
<1>5. items[i].start = r.start + r.count - items[p].count /\ items[i].count = items[p].count
  BY <1>1 DEF Reuses
<1> HIDE DEF v, r, p
<1>6. items[i].start = items[p].start
  BY <1>1, <1>2, <1>5
<1>7. AtOneCell(items, p, i)
  BY <1>1, <1>4, <1>6 DEF AtOneCell
<1>8. items[p].force = items[i].force /\ (items[p].offset = 0 \/ items[i].offset = 0)
  BY <1>1, <1>7 DEF Sound
<1>9. items[p].offset = 0
  <2>1. Precedes(items, p, i)
    BY <1>1
  <2>2. ~(TypeRank[items[p].type] < TypeRank[items[i].type])
    BY <1>1, <1>4, RanksOfTypes DEF RangeSet
  <2>3. items[p].offset <= items[i].offset
    BY <1>2, <1>6, <1>8, <2>1, <2>2 DEF Precedes, Forced
  <2> QED BY <1>2, <1>8, <2>3
<1>10. InPlaceOf(items, w.items, r, p)
  BY <1>1 DEF FitsRange, Holds
<1>11. d \in Nat /\ items[i].start + items[i].count = r.start + r.count /\ r.start <= items[i].start
  BY <1>1, <1>2, <1>5, <1>6, <1>10 DEF InPlaceOf
<1>12. offset = ((Unit(T) * d + items[i].offset) % ByteWrap)
  <2> DEFINE x == Unit(T) * d
             o == items[i].offset
  <2>1. x \in Int /\ o \in Int /\ x + 0 = x
    BY <1>2, <1>11 DEF Unit
  <2>2. w.items[p].offset = ((x + 0) % ByteWrap)
    BY <1>6, <1>9, <1>10 DEF InPlaceOf
  <2> HIDE DEF x, d
  <2>3. w.items[p].offset = (x % ByteWrap)
    BY <2>1, <2>2
  <2>4. ((o + (x % ByteWrap)) % ByteWrap) = ((x + o) % ByteWrap)
    <3> HIDE DEF o
    <3> QED BY <1>1, <2>1, ModAdd
  <2> QED BY <1>1, <2>3, <2>4 DEF x, d
<1> HIDE DEF offset
<1>13. /\ v \in WalkSet(N) /\ v.done = w.done /\ v.bytes = w.bytes
       /\ (\A j \in 1..N : j # i => v.items[j] = w.items[j])
       /\ SameItem(v.items[i], w.items[i])
       /\ v.items[i].start = r.start /\ v.items[i].offset = offset
       /\ v.range.type = T /\ v.range.start = r.start /\ v.range.members = r.members /\ v.range.count = r.count
  BY <1>3 DEF Rewrites, r
<1>14. Joins(N, v, i, w1)
  <2>1. w1 = Join(v, i)
    BY DEF v
  <2> QED BY <1>1, <1>13, <2>1, JoinJoins
<1>15. /\ w1 \in WalkSet(N) /\ w1.items = v.items /\ w1.done = v.done /\ w1.bytes = v.bytes /\ w1.prev = i
       /\ w1.range.type = v.range.type /\ w1.range.start = v.range.start /\ w1.range.count = v.range.count
       /\ w1.range.members = v.range.members \cup {i}
  BY <1>14 DEF Joins
<1>16. InPlaceOf(items, w1.items, w1.range, i)
  BY <1>1, <1>2, <1>4, <1>11, <1>12, <1>13, <1>15 DEF InPlaceOf
<1>17. w1.range.count <= CellsIn(items, w1.range.members)
  BY <1>13, <1>15, CountStays DEF r
<1>18. BytesCounted(items, w1)
  BY <1>1, <1>13, <1>15 DEF BytesCounted, r
<1>19. SameItem(w1.items[i], items[i])
  BY <1>1, <1>13, <1>15
<1>20. JoinedTo(items, N, w, i, w1)
  BY <1>1, <1>11, <1>13, <1>15, <1>16, <1>17, <1>18, <1>19 DEF JoinedTo, r
<1> QED BY <1>20, JoiningWalks

\* Extending the range keeps it.
LEMMA ExtendWalks ==
  ASSUME NEW items, NEW N, Sound(items, N), NEW V, V # {}, NEW i, NextItem(items, N, V, i),
         NEW w, Walked(items, N, w, V), Mergeable(w, w.items[i]), Extends(w, w.items[i]),
         NEW w1, w1 = Join(Extend(w, i), i)
  PROVE  Walked(items, N, w1, V \cup {i})
<1> DEFINE r == w.range
           T == r.type
           v == Extend(w, i)
           offset == (w.items[i].offset + w.bytes) % ByteWrap
           bytes == (w.bytes + RegisterSize(w.items[i])) % ByteWrap
           count == (r.count + w.items[i].count) % ByteWrap
           n == items[i].count
           m == r.count
           d == items[i].start - r.start
<1>1. /\ N \in Nat /\ V \subseteq 1..N /\ i \in 1..N /\ i \notin V
      /\ w \in WalkSet(N) /\ r \in RangeSet(N) /\ FitsRange(items, w.items, r)
      /\ w.items[i] = items[i] /\ r.members \subseteq V /\ w.prev \in 1..N /\ w.prev # i /\ i \notin r.members
      /\ items[w.prev].type = T /\ (\A j \in r.members : items[j].type = T)
      /\ r.start \in Nat /\ m \in Nat /\ m > 0 /\ w.bytes \in Nat
      /\ ByteWrap \in Nat /\ ByteWrap > 0 /\ BytesCounted(items, w)
  <2>1. NextAt(items, N, V, i, w)
    BY AtTheRange
  <2> QED BY <2>1 DEF NextAt
<1>2. items[i].start \in Nat /\ n \in Nat /\ items[i].offset \in Nat /\ n > 0
  BY <1>1, SoundItems
<1>3. Rewrites(N, w, i, v, offset, bytes, count)
  BY <1>1, ExtendRewrites
<1>4. items[i].type = T
  BY <1>1 DEF Mergeable
<1>5. items[i].start = r.start + m
  BY <1>1 DEF Extends
<1>6. w.bytes = ((Unit(T) * m) % ByteWrap)
  <2>1. ASSUME NEW j \in r.members, items[j].type \in BitTypes, items[j].offset > 0 PROVE FALSE
    <3>1. j \in 1..N /\ j # i /\ items[j].type = items[i].type
      BY <1>1, <1>4
    <3> QED BY <1>1, <2>1, <3>1, NotAlone
  <2> QED BY <1>1, <2>1 DEF BytesCounted
<1>7. RegisterSize(items[i]) = Unit(T) * n
  <2>1. items[i].type = items[w.prev].type
    BY <1>1, <1>4
  <2>2. ~(items[i].type \in BitTypes /\ items[i].offset > 0)
    BY <1>1, <2>1, NotAlone
  <2> QED BY <1>1, <1>4, <2>2, BytesOfItem
<1>8. Unit(T) \in {1, 2}
  BY DEF Unit
<1>9. d = m /\ d \in Nat
  BY <1>1, <1>2, <1>5
<1> HIDE DEF v, r
<1>10. offset = ((Unit(T) * d + items[i].offset) % ByteWrap)
  <2> DEFINE x == Unit(T) * m
             o == items[i].offset
  <2>1. x \in Int /\ o \in Int
    BY <1>1, <1>2, <1>8
  <2>2. w.bytes = (x % ByteWrap)
    BY <1>6
  <2> HIDE DEF x
  <2>3. ((o + (x % ByteWrap)) % ByteWrap) = ((x + o) % ByteWrap)
    <3> HIDE DEF o
    <3> QED BY <1>1, <2>1, ModAdd
  <2>4. offset = ((x + o) % ByteWrap)
    BY <1>1, <2>2, <2>3
  <2>5. x = Unit(T) * d
    <3> HIDE DEF d
    <3> QED BY <1>9 DEF x
  <2> HIDE DEF d, offset
  <2> QED BY <2>4, <2>5
<1>11. bytes = ((Unit(T) * (m + n)) % ByteWrap)
  <2> DEFINE x == Unit(T) * m
             y == Unit(T) * n
  <2>1. x \in Int /\ y \in Int /\ Unit(T) * (m + n) = x + y
    BY <1>1, <1>2, <1>8
  <2>2. w.bytes = (x % ByteWrap) /\ RegisterSize(items[i]) = y
    BY <1>6, <1>7
  <2> HIDE DEF x, y
  <2>3. (((x % ByteWrap) + y) % ByteWrap) = ((x + y) % ByteWrap)
    BY <1>1, <2>1, ModAdd
  <2>4. bytes = ((x + y) % ByteWrap)
    BY <1>1, <2>2, <2>3
  <2> HIDE DEF bytes, m, n
  <2> QED BY <2>1, <2>4
<1>12. m + n <= CellsIn(items, r.members \cup {i})
  BY CountStays DEF r
<1>13. count = m + n
  <2>1. \A j \in r.members \cup {i} : items[j].type = T
    BY <1>1, <1>4
  <2>2. r.members \cup {i} \in SUBSET (1..N) /\ T \in RegisterTypes
    BY <1>1 DEF RangeSet
  <2>3. CellsIn(items, r.members \cup {i}) < ByteWrap
    BY <2>1, <2>2 DEF Sound
  <2>4. CellsIn(items, r.members \cup {i}) \in Nat
    <3>1. r.members \in SUBSET (1..N)
      BY <1>1
    <3> QED BY <1>1, <3>1, OneMore
  <2>5. m + n \in 0..(ByteWrap - 1)
    BY <1>1, <1>2, <1>12, <2>3, <2>4
  <2>6. ((m + n) % ByteWrap) = m + n
    <3> HIDE DEF m, n
    <3> QED BY <1>1, <2>5, SmallMod
  <2> QED BY <1>1, <2>6
<1> HIDE DEF offset, bytes, count
<1>14. /\ v \in WalkSet(N) /\ v.done = w.done /\ v.bytes = bytes
       /\ (\A j \in 1..N : j # i => v.items[j] = w.items[j])
       /\ SameItem(v.items[i], w.items[i])
       /\ v.items[i].start = r.start /\ v.items[i].offset = offset
       /\ v.range.type = T /\ v.range.start = r.start /\ v.range.members = r.members /\ v.range.count = count
  BY <1>3 DEF Rewrites, r
<1>15. Joins(N, v, i, w1)
  <2>1. w1 = Join(v, i)
    BY DEF v
  <2> QED BY <1>1, <1>14, <2>1, JoinJoins
<1>16. /\ w1 \in WalkSet(N) /\ w1.items = v.items /\ w1.done = v.done /\ w1.bytes = v.bytes /\ w1.prev = i
       /\ w1.range.type = v.range.type /\ w1.range.start = v.range.start /\ w1.range.count = v.range.count
       /\ w1.range.members = v.range.members \cup {i}
  BY <1>15 DEF Joins
<1>17. InPlaceOf(items, w1.items, w1.range, i)
  <2>1. r.start <= items[i].start /\ items[i].start + items[i].count <= r.start + (m + n)
    BY <1>1, <1>2, <1>5
  <2> QED BY <1>4, <1>10, <1>13, <1>14, <1>16, <2>1 DEF InPlaceOf
<1>18. w1.range.count <= CellsIn(items, w1.range.members)
  BY <1>12, <1>13, <1>14, <1>16
<1>19. BytesCounted(items, w1)
  BY <1>11, <1>13, <1>14, <1>16 DEF BytesCounted
<1>20. SameItem(w1.items[i], items[i])
  BY <1>1, <1>14, <1>16
<1>21. items[i].start + items[i].count = w1.range.start + w1.range.count
  BY <1>1, <1>2, <1>5, <1>13, <1>14, <1>16
<1>22. w.range.count <= w1.range.count
  BY <1>1, <1>2, <1>13, <1>14, <1>16 DEF r
<1>23. JoinedTo(items, N, w, i, w1)
  BY <1>14, <1>16, <1>17, <1>18, <1>19, <1>20, <1>21, <1>22 DEF JoinedTo, r
<1> QED BY <1>23, JoiningWalks

\* Whoever comes between two items of one cell is at that cell.
LEMMA Between ==
  ASSUME NEW items, NEW N, Sound(items, N), NEW q \in 1..N, NEW p \in 1..N, NEW i \in 1..N,
         AtOneCell(items, q, i), q # i, Precedes(items, q, p), Precedes(items, p, i),
         items[p].type = items[i].type
  PROVE  AtOneCell(items, p, i)
<1>1. /\ items[i].start \in Nat /\ items[i].force \in BOOLEAN /\ items[i].type \in RegisterTypes
      /\ items[p].start \in Nat /\ items[p].force \in BOOLEAN /\ items[q].start \in Nat
      /\ items[q].force \in BOOLEAN
  BY SoundItems
<1>2. items[q].type = items[i].type /\ items[q].start = items[i].start
  BY DEF AtOneCell
<1>3. items[q].force = items[i].force
  BY DEF Sound
<1>4. ~(TypeRank[items[i].type] < TypeRank[items[i].type])
  BY <1>1, RanksOfTypes
<1>5. items[p].force = items[i].force
  BY <1>1, <1>2, <1>3, <1>4 DEF Precedes, Forced
<1>6. items[q].start <= items[p].start /\ items[p].start <= items[i].start
  BY <1>1, <1>2, <1>3, <1>4, <1>5 DEF Precedes, Forced
<1> QED BY <1>1, <1>2, <1>6 DEF AtOneCell

\* Also when the types are not known to be the same.
LEMMA TypeBetween ==
  ASSUME NEW items, NEW N, Sound(items, N), NEW q \in 1..N, NEW p \in 1..N, NEW i \in 1..N,
         items[q].type = items[i].type, Precedes(items, q, p), Precedes(items, p, i)
  PROVE  items[p].type = items[i].type
<1>1. items[i].type \in RegisterTypes /\ items[p].type \in RegisterTypes
  BY SoundItems
<1>2. TypeRank[items[q].type] <= TypeRank[items[p].type] /\ TypeRank[items[p].type] <= TypeRank[items[i].type]
  BY <1>1, RanksOfTypes DEF Precedes
<1>3. TypeRank[items[p].type] = TypeRank[items[i].type]
  BY <1>1, <1>2, RanksOfTypes
<1> QED BY <1>1, <1>3 DEF RegisterTypes, TypeRank

\* Joining the range without extending it keeps it.
LEMMA BelongsWalks ==
  ASSUME NEW items, NEW N, Sound(items, N), NEW V, V # {}, NEW i, NextItem(items, N, V, i),
         NEW w, Walked(items, N, w, V), Belongs(w, w.items[i]), NEW w1, w1 = Join(w, i)
  PROVE  Walked(items, N, w1, V \cup {i})
<1> DEFINE p == w.prev
           r == w.range
           T == r.type
<1>1. /\ N \in Nat /\ V \subseteq 1..N /\ i \in 1..N /\ i \notin V /\ (\A j \in V : Precedes(items, j, i))
      /\ w \in WalkSet(N) /\ r \in RangeSet(N) /\ Building(items, w, V) /\ FitsRange(items, w.items, r)
      /\ w.items[i] = items[i] /\ r.members \subseteq V /\ p \in r.members
      /\ p \in 1..N /\ p # i /\ i \notin r.members
      /\ items[p].type = T /\ (\A j \in r.members : items[j].type = T)
      /\ items[p].start + items[p].count = r.start + r.count
      /\ r.start \in Nat /\ r.count \in Nat /\ r.count > 0
      /\ ByteWrap \in Nat /\ ByteWrap > 0 /\ BytesCounted(items, w)
  <2>1. NextAt(items, N, V, i, w)
    BY AtTheRange
  <2> QED BY <2>1 DEF NextAt
<1>2. /\ items[i].start \in Nat /\ items[i].count \in Nat /\ items[i].offset \in 0..(ByteWrap - 1)
      /\ items[p].start \in Nat /\ items[p].count \in Nat
  BY <1>1, SoundItems
<1> HIDE DEF r, p
<1>3. items[i].start = r.start /\ items[i].type = T
  BY <1>1 DEF Belongs, r
<1>4. AtOneCell(items, p, i)
  <2>1. PICK q \in r.members : OpenedBy(items, r, q)
    BY <1>1 DEF FitsRange
  <2>2. q \in 1..N /\ q \in V /\ q # i /\ items[q].start = items[i].start /\ items[q].type = items[i].type
    BY <1>1, <1>3, <2>1 DEF OpenedBy
  <2>3. AtOneCell(items, q, i)
    BY <2>2 DEF AtOneCell
  <2>4. q = p \/ Precedes(items, q, p)
    BY <1>1, <2>2 DEF Building, p
  <2>5. CASE q = p
    BY <2>3, <2>5
  <2>6. CASE Precedes(items, q, p)
    <3>1. p \in V /\ Precedes(items, p, i) /\ items[p].type = items[i].type
      BY <1>1, <1>3
    <3> QED BY <1>1, <2>2, <2>3, <2>6, <3>1, Between
  <2> QED BY <2>4, <2>5, <2>6
<1>5. items[p].count = items[i].count /\ items[p].start = items[i].start
  BY <1>1, <1>4 DEF Sound, AtOneCell
<1>6. Joins(N, w, i, w1)
  BY <1>1, JoinJoins
<1>7. /\ w1 \in WalkSet(N) /\ w1.items = w.items /\ w1.done = w.done /\ w1.bytes = w.bytes /\ w1.prev = i
      /\ w1.range.type = T /\ w1.range.start = r.start /\ w1.range.count = r.count
      /\ w1.range.members = r.members \cup {i}
  BY <1>6 DEF Joins, r
<1>8. items[i].start + items[i].count = r.start + r.count
  BY <1>1, <1>5
<1>9. InPlaceOf(items, w1.items, w1.range, i)
  <2>1. items[i].offset = ((Unit(T) * (items[i].start - r.start) + items[i].offset) % ByteWrap)
    <3> DEFINE o == items[i].offset
    <3>1. (o % ByteWrap) = o
      <4>1. o \in 0..(ByteWrap - 1)
        BY <1>2
      <4> HIDE DEF o
      <4> QED BY <1>1, <4>1, SmallMod
    <3>2. Unit(T) * (items[i].start - r.start) = 0
      BY <1>1, <1>2, <1>3 DEF Unit
    <3>3. 0 + o = o
      BY <1>1, <1>2
    <3> QED BY <3>1, <3>2, <3>3
  <2> QED BY <1>1, <1>2, <1>3, <1>7, <1>8, <2>1 DEF InPlaceOf
<1>10. w1.range.count <= CellsIn(items, w1.range.members)
  BY <1>7, CountStays DEF r
<1>11. BytesCounted(items, w1)
  BY <1>1, <1>7 DEF BytesCounted, r
<1>12. SameItem(w1.items[i], items[i])
  BY <1>1, <1>7 DEF SameItem
<1>13. JoinedTo(items, N, w, i, w1)
  BY <1>1, <1>7, <1>8, <1>9, <1>10, <1>11, <1>12 DEF JoinedTo, r
<1> QED BY <1>13, JoiningWalks

\* The range that an item opens is the one that is being built.
LEMMA Opened ==
  ASSUME NEW items, NEW N, Sound(items, N), NEW V, NEW i, NextItem(items, N, V, i),
         NEW w, Walked(items, N, w, V), NEW w1, NEW done, OpensAt(N, w, i, w1, done)
  PROVE  Building(items, w1, V \cup {i}) /\ ItemsKept(items, N, w1, V \cup {i})
<1> DEFINE s == w1.range
           o == items[i].offset
<1>1. V \subseteq 1..N /\ i \in 1..N /\ i \notin V /\ (\A j \in V : Precedes(items, j, i)) /\ N \in Nat
  BY DEF NextItem, Sound
<1>2. ItemsKept(items, N, w, V)
  BY DEF Walked
<1>3. w.items[i] = items[i]
  BY <1>1, <1>2 DEF ItemsKept
<1>4. /\ items[i].start \in Nat /\ items[i].count \in Nat /\ items[i].count > 0 /\ o \in 0..(ByteWrap - 1)
      /\ ByteWrap \in Nat /\ ByteWrap > 0
  <2>1. ByteWrap \in Nat /\ o \in 0..(ByteWrap - 1)
    BY <1>1, SoundItems, DataAssumption
  <2> QED BY <1>1, <2>1, SoundItems
<1>5. /\ w1.items = w.items /\ w1.prev = i /\ w1.bytes = (RegisterSize(items[i]) % ByteWrap)
      /\ s.type = items[i].type /\ s.start = items[i].start /\ s.count = items[i].count /\ s.members = {i}
  BY <1>3 DEF OpensAt
<1> HIDE DEF s
<1>6. ItemsKept(items, N, w1, V \cup {i})
  BY <1>2, <1>5 DEF ItemsKept
<1>7. InPlaceOf(items, w1.items, s, i)
  <2>1. (o % ByteWrap) = o
    <3> HIDE DEF o
    <3> QED BY <1>4, SmallMod
  <2>2. Unit(s.type) * (items[i].start - s.start) = 0
    BY <1>4, <1>5 DEF Unit
  <2>3. 0 + o = o
    BY <1>4
  <2>4. o = ((Unit(s.type) * (items[i].start - s.start) + o) % ByteWrap)
    BY <2>1, <2>2, <2>3
  <2> QED BY <1>3, <1>4, <1>5, <2>4 DEF InPlaceOf
<1>8. s.count <= CellsIn(items, s.members)
  <2>1. {} \in SUBSET (1..N) /\ i \notin {} /\ {} \cup {i} = {i}
    OBVIOUS
  <2>2. CellsIn(items, {} \cup {i}) = CellsIn(items, {}) + items[i].count /\ CellsIn(items, {}) \in Nat
    BY <1>1, <2>1, OneMore
  <2> QED BY <1>4, <1>5, <2>1, <2>2
<1>9. FitsRange(items, w1.items, s)
  BY <1>4, <1>5, <1>7, <1>8 DEF FitsRange, Holds, OpenedBy
<1>10. BytesCounted(items, w1)
  BY <1>1, <1>5, BytesOfItem DEF BytesCounted, s
<1> QED BY <1>1, <1>5, <1>6, <1>9, <1>10 DEF Building, s

\* Opening the first range establishes it.
LEMMA FirstOpens ==
  ASSUME NEW items, NEW N, Sound(items, N), NEW V, V = {}, NEW i, NextItem(items, N, V, i),
         NEW w, Walked(items, N, w, V), NEW w1, w1 = Open(w, i)
  PROVE  Walked(items, N, w1, V \cup {i})
<1>1. i \in 1..N /\ N \in Nat
  BY DEF NextItem, Sound
<1>2. w \in WalkSet(N) /\ w.done = <<>>
  BY DEF Walked
<1>3. ByteWrap \in Nat /\ ByteWrap > 0
  <2>1. ByteWrap \in Nat /\ items[i].offset \in 0..(ByteWrap - 1)
    BY <1>1, SoundItems, DataAssumption
  <2> QED BY <2>1
<1>4. OpensAt(N, w, i, w1, w.done)
  BY <1>1, <1>2, <1>3, OpenOpens
<1>5. Building(items, w1, V \cup {i}) /\ ItemsKept(items, N, w1, V \cup {i})
  BY <1>4, Opened
<1>6. w1 \in WalkSet(N) /\ w1.done = <<>> /\ w1.range.members = {i}
  BY <1>2, <1>4 DEF OpensAt
<1>7. Len(w1.done) = 0
  BY <1>6
<1>8. AllFinished(items, w1, V \cup {i}) /\ AllDiffer(w1.done)
  BY <1>7 DEF AllFinished, AllDiffer
<1>9. Covered(w1, V \cup {i})
  BY <1>6 DEF Covered
<1> QED BY <1>5, <1>6, <1>8, <1>9 DEF Walked

\* Closing the range and opening the next one keeps it.
LEMMA NextOpens ==
  ASSUME NEW items, NEW N, Sound(items, N), NEW V, V # {}, NEW i, NextItem(items, N, V, i),
         NEW w, Walked(items, N, w, V), ~Belongs(w, w.items[i]),
         NEW w1, w1 = Open([w EXCEPT !.done = Append(@, w.range)], i)
  PROVE  Walked(items, N, w1, V \cup {i})
<1> DEFINE r == w.range
           s == w1.range
           done == Append(w.done, r)
           U == V \cup {i}
           L == Len(w.done)
<1>1. /\ N \in Nat /\ V \subseteq 1..N /\ i \in 1..N /\ i \notin V /\ (\A j \in V : Precedes(items, j, i))
      /\ w \in WalkSet(N) /\ r \in RangeSet(N) /\ Building(items, w, V) /\ FitsRange(items, w.items, r)
      /\ w.items[i] = items[i] /\ r.members \subseteq V /\ (\A j \in r.members : items[j].type = r.type)
      /\ ByteWrap \in Nat /\ ByteWrap > 0
  <2>1. NextAt(items, N, V, i, w)
    BY AtTheRange
  <2> QED BY <2>1 DEF NextAt
<1>2. OpensAt(N, w, i, w1, done)
  BY <1>1, CloseOpens
<1>3. Building(items, w1, U) /\ ItemsKept(items, N, w1, U)
  BY <1>2, Opened
<1>4. /\ w1 \in WalkSet(N) /\ w1.done = done /\ w1.items = w.items
      /\ s.type = items[i].type /\ s.start = items[i].start /\ s.members = {i}
  BY <1>1, <1>2 DEF OpensAt
<1>5. w.done \in Seq(RangeSet(N)) /\ L \in Nat
  BY <1>1 DEF WalkSet
<1>6. Len(done) = L + 1 /\ done[L + 1] = r /\ \A n \in 1..L : done[n] = w.done[n]
  BY <1>1, <1>5
<1>7. Differ(r, s)
  BY <1>1, <1>4 DEF Belongs, Differ
<1>8. PICK o \in r.members : OpenedBy(items, r, o)
  BY <1>1 DEF FitsRange
<1> HIDE DEF r, s, done, L
<1>9. o \in V /\ o \in 1..N /\ o # i /\ items[o].type = r.type /\ items[o].start = r.start /\ Precedes(items, o, i)
  BY <1>1, <1>8 DEF OpenedBy
<1>10. AllFinished(items, w, V) /\ Covered(w, V) /\ AllDiffer(w.done)
  BY DEF Walked
<1>11. ASSUME NEW n \in 1..L
       PROVE  Finished(items, w1, U, w.done[n]) /\ Differ(w.done[n], r)
  <2> DEFINE t == w.done[n]
  <2>1. Finished(items, w, V, t)
    BY <1>10, <1>11 DEF AllFinished, L
  <2> HIDE DEF t
  <2>2. FitsRange(items, w.items, t) /\ t.members \subseteq V /\ Differ(t, r)
    BY <2>1 DEF Finished, r
  <2>3. PICK q \in t.members : OpenedBy(items, t, q) /\ \A j \in r.members : Precedes(items, q, j)
    BY <2>1 DEF Finished, r
  <2>4. q \in V /\ q \in 1..N /\ q # i /\ Precedes(items, q, i) /\ Precedes(items, q, o)
    BY <1>1, <1>8, <2>2, <2>3
  <2>5. items[q].type = t.type /\ items[q].start = t.start
    BY <2>2, <2>3 DEF FitsRange, Holds, InPlaceOf, OpenedBy
  <2>6. Differ(t, s)
    <3> SUFFICES ASSUME t.type = s.type, t.start = s.start PROVE FALSE
      BY DEF Differ
    <3>1. AtOneCell(items, q, i)
      BY <1>4, <2>5 DEF AtOneCell
    <3>2. items[o].type = items[i].type
      BY <1>1, <1>9, <2>4, <3>1, TypeBetween DEF AtOneCell
    <3>3. AtOneCell(items, o, i)
      BY <1>1, <1>9, <2>4, <3>1, <3>2, Between
    <3> QED BY <1>4, <1>7, <1>9, <3>3 DEF AtOneCell, Differ
  <2>7. Finished(items, w1, U, t)
    <3>1. \A j \in s.members : Precedes(items, q, j)
      BY <1>4, <2>4
    <3>2. t.members \subseteq U /\ FitsRange(items, w1.items, t)
      BY <1>4, <2>2
    <3> QED BY <2>3, <2>6, <3>1, <3>2 DEF Finished, s
  <2> QED BY <2>2, <2>7 DEF t
<1>12. Finished(items, w1, U, r)
  <2>1. \A j \in s.members : Precedes(items, o, j)
    BY <1>4, <1>9
  <2>2. r.members \subseteq U /\ FitsRange(items, w1.items, r)
    BY <1>1, <1>4
  <2> QED BY <1>7, <1>8, <2>1, <2>2 DEF Finished, s
<1>13. AllFinished(items, w1, U)
  <2> SUFFICES ASSUME NEW n \in 1..(L + 1) PROVE Finished(items, w1, U, done[n])
    BY <1>4, <1>6 DEF AllFinished
  <2>1. n \in 1..L \/ n = L + 1
    BY <1>5
  <2> QED BY <1>6, <1>11, <1>12, <2>1
<1>14. AllDiffer(w1.done)
  <2> SUFFICES ASSUME NEW m \in 1..(L + 1), NEW n \in 1..(L + 1), m # n PROVE Differ(done[m], done[n])
    BY <1>4, <1>6 DEF AllDiffer
  <2>1. (m \in 1..L \/ m = L + 1) /\ (n \in 1..L \/ n = L + 1)
    BY <1>5
  <2>2. CASE m \in 1..L /\ n \in 1..L
    BY <1>6, <1>10, <2>2 DEF AllDiffer, L
  <2>3. CASE m \in 1..L /\ n = L + 1
    BY <1>6, <1>11, <2>3
  <2>4. CASE m = L + 1 /\ n \in 1..L
    BY <1>6, <1>11, <2>4 DEF Differ
  <2> QED BY <2>1, <2>2, <2>3, <2>4
<1>15. Covered(w1, U)
  <2> SUFFICES ASSUME NEW j \in U PROVE j \in s.members \/ \E n \in 1..(L + 1) : j \in done[n].members
    BY <1>4, <1>6 DEF Covered, s
  <2>1. CASE j = i
    BY <1>4, <2>1
  <2>2. CASE j \in r.members
    <3>1. L + 1 \in 1..(L + 1)
      BY <1>5
    <3> QED BY <1>6, <2>2, <3>1
  <2>3. CASE \E n \in 1..L : j \in w.done[n].members
    <3>1. PICK n \in 1..L : j \in w.done[n].members
      BY <2>3
    <3>2. n \in 1..(L + 1) /\ done[n] = w.done[n]
      BY <1>5, <1>6
    <3> QED BY <3>1, <3>2
  <2> QED BY <1>10, <2>1, <2>2, <2>3 DEF Covered, r, L
<1>16. U # {}
  OBVIOUS
<1> HIDE DEF U
<1>17. Walked(items, N, w1, U)
  BY <1>3, <1>4, <1>13, <1>14, <1>15, <1>16 DEF Walked
<1> QED BY <1>17 DEF U

\* Every way to place the next item keeps what holds of the walk.
LEMMA PlaceWalks ==
  ASSUME NEW items, NEW N, Sound(items, N), NEW V, NEW i, NextItem(items, N, V, i),
         NEW w, Walked(items, N, w, V)
  PROVE  Walked(items, N, Place(w, i), V \cup {i})
<1> DEFINE c == w.items[i]
<1>1. V = {} <=> w.range.count = 0
  <2>1. V = {} => w.range.count = 0
    BY DEF Walked
  <2>2. ASSUME V # {} PROVE w.range.count # 0
    <3>1. NextAt(items, N, V, i, w)
      BY <2>2, AtTheRange
    <3> QED BY <3>1 DEF NextAt
  <2> QED BY <2>1, <2>2
<1>2. CASE V = {}
  <2>1. Place(w, i) = Open(w, i)
    BY <1>1, <1>2 DEF Place
  <2> QED BY <1>2, <2>1, FirstOpens
<1>3. CASE V # {} /\ Mergeable(w, c) /\ Reuses(w, c)
  <2>1. Place(w, i) = Join(Reuse(w, i), i)
    BY <1>1, <1>3 DEF Place
  <2> QED BY <1>3, <2>1, ReuseWalks
<1>4. CASE V # {} /\ ~(Mergeable(w, c) /\ Reuses(w, c)) /\ Mergeable(w, c) /\ Extends(w, c)
  <2>1. Place(w, i) = Join(Extend(w, i), i)
    BY <1>1, <1>4 DEF Place
  <2> QED BY <1>4, <2>1, ExtendWalks
<1>5. CASE V # {} /\ ~(Mergeable(w, c) /\ Reuses(w, c)) /\ ~(Mergeable(w, c) /\ Extends(w, c)) /\ Belongs(w, c)
  <2>1. Place(w, i) = Join(w, i)
    BY <1>1, <1>5 DEF Place
  <2> QED BY <1>5, <2>1, BelongsWalks
<1>6. CASE V # {} /\ ~(Mergeable(w, c) /\ Reuses(w, c)) /\ ~(Mergeable(w, c) /\ Extends(w, c)) /\ ~Belongs(w, c)
  <2>1. Place(w, i) = Open([w EXCEPT !.done = Append(@, w.range)], i)
    BY <1>1, <1>6 DEF Place
  <2> QED BY <1>6, <2>1, NextOpens
<1> QED BY <1>2, <1>3, <1>4, <1>5, <1>6

-----------------------------------------------------------------------------
(* The whole walk, and the ranges it leaves.                                 *)

\* The invariant holds before the walk has visited an item.
LEMMA StartWalks ==
  ASSUME NEW items, NEW N, Sound(items, N)
  PROVE  Walked(items, N, Start(items), {})
<1> DEFINE w == Start(items)
<1>1. N \in Nat /\ items \in [1..N -> ItemSet]
  BY DEF Sound
<1>2. w.items = items /\ w.done = <<>> /\ w.range = NoRange /\ w.bytes = 0 /\ w.prev = 1
      /\ w = [items |-> items, done |-> <<>>, range |-> NoRange, bytes |-> 0, prev |-> 1]
  BY DEF Start
<1>3. NoRange \in RangeSet(N) /\ NoRange.count = 0
  BY DEF NoRange, RangeSet, RegisterTypes
<1>4. <<>> \in Seq(RangeSet(N)) /\ Len(w.done) = 0
  BY <1>2
<1> HIDE DEF w
<1>5. w \in WalkSet(N)
  BY <1>1, <1>2, <1>3, <1>4 DEF WalkSet
<1>6. ItemsKept(items, N, w, {})
  BY <1>2 DEF ItemsKept, SameItem
<1>7. AllFinished(items, w, {}) /\ AllDiffer(w.done) /\ Covered(w, {})
  BY <1>4 DEF AllFinished, AllDiffer, Covered
<1>8. Walked(items, N, w, {})
  BY <1>2, <1>3, <1>5, <1>6, <1>7 DEF Walked
<1> QED BY <1>8 DEF w

\* Sound items can be sorted.
LEMMA SoundSortable ==
  ASSUME NEW items, NEW N, Sound(items, N)
  PROVE  N \in Nat /\ DOMAIN items = 1..N /\ Len(items) = N /\ Sortable(items)
<1>1. N \in Nat /\ items \in [1..N -> ItemSet]
  BY DEF Sound
<1>2. DOMAIN items = 1..N /\ Len(items) = N
  BY <1>1, FunctionSeq
<1> QED BY <1>1, <1>2, SoundItems DEF Sortable

\* Nothing comes before itself.
LEMMA NotBeforeItself ==
  ASSUME NEW items, NEW N, Sound(items, N), NEW i \in 1..N, Precedes(items, i, i)
  PROVE  FALSE
<1>1. N \in Nat /\ items[i].type \in RegisterTypes /\ items[i].start \in Nat /\ items[i].offset \in Nat
  BY SoundItems, SoundSortable
<1>2. TypeRank[items[i].type] \in Int /\ Forced(items[i]) \in Int
  BY <1>1, RanksOfTypes DEF Forced
<1> QED BY <1>1, <1>2 DEF Precedes

\* The items visited in the first n steps.
FirstVisited(order, n) == {order[m] : m \in 1..n}

\* The walk visits next the first of the items it has not visited.
LEMMA ComesNext ==
  ASSUME NEW items, NEW N, Sound(items, N), NEW n \in 1..N
  PROVE  /\ NextItem(items, N, FirstVisited(InOrder(items), n - 1), InOrder(items)[n])
         /\ FirstVisited(InOrder(items), n) = FirstVisited(InOrder(items), n - 1) \cup {InOrder(items)[n]}
<1> DEFINE order == InOrder(items)
<1>1. N \in Nat /\ DOMAIN items = 1..N /\ Sortable(items)
  BY SoundSortable
<1>2. order \in [1..N -> 1..N] /\ \A m, k \in 1..N : m < k => Precedes(items, order[m], order[k])
  BY <1>1, VisitedInOrder
<1> HIDE DEF order
<1>3. \A m \in 1..(n - 1) : m \in 1..N /\ m < n
  BY <1>1
<1>4. order[n] \in 1..N /\ \A m \in 1..(n - 1) : order[m] \in 1..N /\ Precedes(items, order[m], order[n])
  BY <1>2, <1>3
<1>5. order[n] \notin FirstVisited(order, n - 1)
  BY <1>4, NotBeforeItself DEF FirstVisited
<1>6. NextItem(items, N, FirstVisited(order, n - 1), order[n])
  BY <1>4, <1>5 DEF NextItem, FirstVisited
<1>7. 1..n = (1..(n - 1)) \cup {n}
  BY <1>1
<1>8. FirstVisited(order, n) = FirstVisited(order, n - 1) \cup {order[n]}
  BY <1>7 DEF FirstVisited
<1> QED BY <1>6, <1>8 DEF order

\* f are the states of the walk.
Walking(f, items, N) ==
  f = [n \in 0..N |-> IF n = 0 THEN Start(items) ELSE Place(f[n - 1], InOrder(items)[n])]

\* The steps of the walk exist.
LEMMA WalkingExists ==
  ASSUME NEW items, NEW N, Sound(items, N)
  PROVE  \E f : Walking(f, items, N)
<1> DEFINE order == InOrder(items)
           Next1(w, n) == IF Place(w, order[n]) \in WalkSet(N) THEN Place(w, order[n]) ELSE w
           step == [n \in 1..N |-> [w \in WalkSet(N) |-> Next1(w, n)]]
           S == WalkSet(N)
           a == Start(items)
<1>1. N \in Nat
  BY DEF Sound
<1>2. Walked(items, N, a, {})
  BY StartWalks
<1>3. a \in S
  BY <1>2 DEF Walked
<1>4. step \in [1..N -> [S -> S]]
  <2> SUFFICES ASSUME NEW n \in 1..N, NEW w \in S PROVE Next1(w, n) \in S
    OBVIOUS
  <2> QED OBVIOUS
<1> HIDE DEF S, a
<1>5. PICK f \in [0..N -> S] : Recursion(f, N, a, step)
  <2> HIDE DEF step
  <2> QED BY <1>1, <1>3, <1>4, RecursionExists
<1>6. f[0] = a
  BY <1>1, <1>5 DEF Recursion
<1>7. ASSUME NEW n \in 1..N PROVE f[n - 1] \in S /\ f[n] = Next1(f[n - 1], n)
  <2>1. f[n - 1] \in S
    BY <1>1, <1>5
  <2>2. f[n] = step[n][f[n - 1]]
    <3> HIDE DEF step
    <3> QED BY <1>1, <1>5 DEF Recursion
  <2>3. step[n] = [w \in S |-> Next1(w, n)]
    BY DEF S
  <2> HIDE DEF step, Next1
  <2> QED BY <2>1, <2>2, <2>3
<1> DEFINE G == {n \in 0..N : Walked(items, N, f[n], FirstVisited(order, n))}
<1>8. 0 \in G
  <2>1. FirstVisited(order, 0) = {}
    BY DEF FirstVisited
  <2> QED BY <1>1, <1>2, <1>6, <2>1
<1>9. ASSUME NEW n \in 1..N, n - 1 \in G
      PROVE  n \in G /\ f[n] = Place(f[n - 1], order[n])
  <2>1. Walked(items, N, f[n - 1], FirstVisited(order, n - 1))
    BY <1>9
  <2>2. /\ NextItem(items, N, FirstVisited(order, n - 1), order[n])
        /\ FirstVisited(order, n) = FirstVisited(order, n - 1) \cup {order[n]}
    BY ComesNext
  <2>3. Walked(items, N, Place(f[n - 1], order[n]), FirstVisited(order, n))
    <3> HIDE DEF order
    <3> QED BY <2>1, <2>2, PlaceWalks
  <2>4. Place(f[n - 1], order[n]) \in WalkSet(N)
    BY <2>3 DEF Walked
  <2>5. f[n] = Place(f[n - 1], order[n])
    BY <1>7, <2>4
  <2> QED BY <1>1, <2>3, <2>5
<1> HIDE DEF G, Next1, step, order
<1>10. \A n \in 0..N : n \in G
  BY <1>1, <1>8, <1>9, UpTo
<1>11. \A n \in 1..N : f[n] = Place(f[n - 1], order[n])
  <2> SUFFICES ASSUME NEW n \in 1..N PROVE f[n] = Place(f[n - 1], order[n])
    OBVIOUS
  <2>1. n - 1 \in 0..N
    BY <1>1
  <2> QED BY <1>9, <1>10, <2>1
<1>12. f = [n \in 0..N |-> IF n = 0 THEN a ELSE Place(f[n - 1], order[n])]
  BY <1>1, <1>5, <1>6, <1>11
<1> QED BY <1>12 DEF Walking, order, a

\* The invariant of the walk holds when all items have been visited.
LEMMA WalkedThrough ==
  ASSUME NEW items, NEW N, Sound(items, N)
  PROVE  Walked(items, N, Walk(items), 1..N)
<1> DEFINE order == InOrder(items)
           Solves(g) == g = [n \in 0..Len(items) |-> IF n = 0 THEN Start(items) ELSE Place(g[n - 1], InOrder(items)[n])]
           walk == CHOOSE g : Solves(g)
<1>1. N \in Nat /\ DOMAIN items = 1..N /\ Len(items) = N /\ Sortable(items)
  BY SoundSortable
<1>2. Walk(items) = walk[N]
  BY <1>1 DEF Walk
<1>3. PICK f : Walking(f, items, N)
  BY WalkingExists
<1>4. Solves(f)
  BY <1>1, <1>3 DEF Walking
<1>5. Solves(walk)
  <2> HIDE DEF Solves
  <2> QED BY <1>4
<1>6. Walking(walk, items, N)
  BY <1>1, <1>5 DEF Walking
<1> HIDE DEF walk, Solves, order
<1> DEFINE G == {n \in 0..N : Walked(items, N, walk[n], FirstVisited(order, n))}
<1>7. 0 \in G
  <2>1. FirstVisited(order, 0) = {}
    BY DEF FirstVisited
  <2>2. walk[0] = Start(items)
    BY <1>1, <1>6 DEF Walking
  <2> QED BY <1>1, <2>1, <2>2, StartWalks
<1>8. ASSUME NEW n \in 1..N, n - 1 \in G PROVE n \in G
  <2>1. Walked(items, N, walk[n - 1], FirstVisited(order, n - 1))
    BY <1>8
  <2>2. /\ NextItem(items, N, FirstVisited(order, n - 1), order[n])
        /\ FirstVisited(order, n) = FirstVisited(order, n - 1) \cup {order[n]}
    BY ComesNext DEF order
  <2>3. Walked(items, N, Place(walk[n - 1], order[n]), FirstVisited(order, n))
    BY <2>1, <2>2, PlaceWalks
  <2>4. walk[n] = Place(walk[n - 1], order[n])
    BY <1>1, <1>6 DEF Walking, order
  <2> QED BY <1>1, <2>3, <2>4
<1> HIDE DEF G
<1>9. N \in G
  <2>1. \A n \in 0..N : n \in G
    BY <1>1, <1>7, <1>8, UpTo
  <2> QED BY <1>1, <2>1
<1>10. FirstVisited(order, N) = 1..N
  <2>1. order \in [1..N -> 1..N] /\ \A i \in 1..N : \E n \in 1..N : order[n] = i
    BY <1>1, VisitedInOrder DEF order
  <2> QED BY <2>1 DEF FirstVisited
<1> QED BY <1>2, <1>9, <1>10 DEF G

\* What the ranges are good for: each entity is in one, in its place, and no two are alike.
Planned(items, N, plan) ==
  /\ plan.items \in [1..N -> ItemSet]
  /\ plan.ranges \in Seq(RangeSet(N))
  /\ \A n \in 1..Len(plan.ranges) : FitsRange(items, plan.items, plan.ranges[n])
  /\ AllDiffer(plan.ranges)
  /\ \A j \in 1..N : \E n \in 1..Len(plan.ranges) : j \in plan.ranges[n].members

\* The plan is what the whole walk leaves, its last range closed.
LEMMA PlanIsMade ==
  ASSUME NEW items, NEW N, Sound(items, N)
  PROVE  Planned(items, N, CreateRegisterRanges(items))
<1> DEFINE w == Walk(items)
           r == w.range
           plan == CreateRegisterRanges(items)
           L == Len(w.done)
<1>1. N \in Nat
  BY DEF Sound
<1>2. Walked(items, N, w, 1..N)
  BY WalkedThrough
<1>3. /\ plan.items = w.items
      /\ plan.ranges = IF r.count > 0 THEN Append(w.done, r) ELSE w.done
  BY DEF CreateRegisterRanges
<1> HIDE DEF w, plan
<1>4. /\ w \in WalkSet(N) /\ AllFinished(items, w, 1..N) /\ AllDiffer(w.done) /\ Covered(w, 1..N)
      /\ (1..N = {} => r.count = 0 /\ w.done = <<>>) /\ (1..N # {} => Building(items, w, 1..N))
  BY <1>2 DEF Walked
<1>5. w.items \in [1..N -> ItemSet] /\ w.done \in Seq(RangeSet(N)) /\ r \in RangeSet(N) /\ L \in Nat
  BY <1>4 DEF WalkSet
<1>6. ASSUME 1..N = {} PROVE Planned(items, N, plan)
  <2>1. ~(r.count > 0) /\ w.done = <<>>
    BY <1>4, <1>6
  <2> HIDE DEF r
  <2>2. plan.ranges = <<>>
    BY <1>3, <2>1
  <2>3. Len(plan.ranges) = 0 /\ 1..0 = {} /\ plan.ranges \in Seq(RangeSet(N))
    BY <2>2
  <2>4. AllDiffer(plan.ranges)
    BY <2>3 DEF AllDiffer
  <2>5. plan.items \in [1..N -> ItemSet]
    BY <1>3, <1>5
  <2> QED BY <1>6, <2>3, <2>4, <2>5 DEF Planned
<1>7. ASSUME 1..N # {} PROVE Planned(items, N, plan)
  <2> DEFINE done == Append(w.done, r)
  <2>1. FitsRange(items, w.items, r)
    BY <1>4, <1>7 DEF Building
  <2>2. plan.ranges = done
    BY <1>3, <2>1 DEF FitsRange
  <2>3. done \in Seq(RangeSet(N)) /\ Len(done) = L + 1 /\ done[L + 1] = r /\ \A n \in 1..L : done[n] = w.done[n]
    BY <1>5
  <2> HIDE DEF done, r, L
  <2>4. \A n \in 1..L : FitsRange(items, w.items, w.done[n]) /\ Differ(w.done[n], r)
    BY <1>4 DEF AllFinished, Finished, L, r
  <2>5. \A n \in 1..(L + 1) : n \in 1..L \/ n = L + 1
    BY <1>5
  <2>6. \A n \in 1..(L + 1) : FitsRange(items, w.items, done[n])
    BY <2>1, <2>3, <2>4, <2>5
  <2>7. AllDiffer(done)
    <3> SUFFICES ASSUME NEW m \in 1..(L + 1), NEW n \in 1..(L + 1), m # n PROVE Differ(done[m], done[n])
      BY <2>3 DEF AllDiffer
    <3>1. (m \in 1..L \/ m = L + 1) /\ (n \in 1..L \/ n = L + 1)
      BY <2>5
    <3>2. CASE m \in 1..L /\ n \in 1..L
      BY <1>4, <2>3, <3>2 DEF AllDiffer, L
    <3>3. CASE m \in 1..L /\ n = L + 1
      BY <2>3, <2>4, <3>3
    <3>4. CASE m = L + 1 /\ n \in 1..L
      BY <2>3, <2>4, <3>4 DEF Differ
    <3> QED BY <3>1, <3>2, <3>3, <3>4
  <2>8. ASSUME NEW j \in 1..N PROVE \E n \in 1..(L + 1) : j \in done[n].members
    <3>1. CASE j \in r.members
      <4>1. L + 1 \in 1..(L + 1)
        BY <1>5
      <4> QED BY <2>3, <3>1, <4>1
    <3>2. CASE \E n \in 1..L : j \in w.done[n].members
      <4>1. PICK n \in 1..L : j \in w.done[n].members
        BY <3>2
      <4>2. n \in 1..(L + 1) /\ done[n] = w.done[n]
        BY <1>5, <2>3
      <4> QED BY <4>1, <4>2
    <3> QED BY <1>4, <3>1, <3>2 DEF Covered, r, L
  <2>9. plan.items \in [1..N -> ItemSet] /\ plan.items = w.items
    BY <1>3, <1>5
  <2>10. Len(plan.ranges) = L + 1 /\ plan.ranges \in Seq(RangeSet(N))
    BY <2>2, <2>3
  <2> QED BY <2>2, <2>6, <2>7, <2>8, <2>9, <2>10 DEF Planned
<1> QED BY <1>6, <1>7 DEF plan

\* A range is found by its type and start.
LEMMA FoundByStart ==
  ASSUME NEW items, NEW N, NEW plan, Planned(items, N, plan), NEW n \in 1..Len(plan.ranges)
  PROVE  FindSensors(plan.ranges, plan.ranges[n].type, plan.ranges[n].start) = plan.ranges[n].members
<1> DEFINE ranges == plan.ranges
           found == {k \in DOMAIN ranges : ranges[k].type = ranges[n].type /\ ranges[k].start = ranges[n].start}
<1>1. ranges \in Seq(RangeSet(N)) /\ AllDiffer(ranges)
  BY DEF Planned
<1>2. DOMAIN ranges = 1..Len(ranges) /\ Len(ranges) \in Nat
  BY <1>1
<1>3. found = {n}
  <2>1. n \in found
    BY <1>2
  <2>2. ASSUME NEW k \in found PROVE k = n
    BY <1>1, <1>2, <2>2 DEF AllDiffer, Differ
  <2> HIDE DEF found
  <2> QED BY <2>1, <2>2
<1>4. FindSensors(ranges, ranges[n].type, ranges[n].start) =
        IF found = {} THEN {} ELSE ranges[CHOOSE h \in found : \A k \in found : h <= k].members
  BY DEF FindSensors
<1> HIDE DEF found, ranges
<1>5. n <= n
  BY <1>2 DEF ranges
<1>6. (CHOOSE h \in found : \A k \in found : h <= k) = n
  BY <1>3, <1>5
<1> QED BY <1>3, <1>4, <1>6 DEF ranges

-----------------------------------------------------------------------------
(* The configurations that are considered make sound items.                  *)

\* The configurations that are considered are sequences of supported ones.
LEMMA ConfigurationsOf ==
  ASSUME NEW configs \in Configurations
  PROVE  /\ Len(configs) \in Nat /\ DOMAIN configs = 1..Len(configs)
         /\ Supported(configs) /\ \A i \in 1..Len(configs) : WellFormed(configs[i])
         /\ \A i \in 1..Len(configs) : SensorSet(configs)[i] = Item(configs[i])
<1> DEFINE S == Range(configs)
<1>1. configs \in Seq(S) /\ Supported(configs)
  BY DataAssumption
<1> HIDE DEF S
<1>2. Len(configs) \in Nat /\ DOMAIN configs = 1..Len(configs)
  BY <1>1
<1>3. \A i \in 1..Len(configs) : WellFormed(configs[i])
  BY <1>1, <1>2 DEF Supported
<1>4. \A i \in 1..Len(configs) : SensorSet(configs)[i] = Item(configs[i])
  BY <1>2 DEF SensorSet
<1> QED BY <1>1, <1>2, <1>3, <1>4

\* An entity of bits asks for all bits up to its offset.
LEMMA BitsCountTheirOffset ==
  ASSUME NEW c, WellFormed(c), c.type \in BitTypes
  PROVE  Item(c).count = Item(c).offset + 1
<1>1. c.kind \in {"binary", "switch"}
  BY DEF WellFormed
<1>2. CASE c.kind = "binary"
  BY <1>2, ItemOf
<1>3. CASE c.kind = "switch"
  BY <1>3, ItemOf
<1> QED BY <1>1, <1>2, <1>3

\* The items made from them are sound.
LEMMA SoundConfigurations ==
  ASSUME NEW configs \in Configurations
  PROVE  Sound(SensorSet(configs), Len(configs))
<1> DEFINE N == Len(configs)
           items == SensorSet(configs)
<1>1. /\ N \in Nat /\ DOMAIN configs = 1..N /\ Supported(configs)
      /\ (\A i \in 1..N : WellFormed(configs[i])) /\ \A i \in 1..N : items[i] = Item(configs[i])
  BY ConfigurationsOf
<1>2. items = [i \in 1..N |-> Item(configs[i])]
  BY <1>1 DEF SensorSet
<1>3. ByteWrap \in Nat
  BY DataAssumption
<1> HIDE DEF N, items
<1>4. ASSUME NEW i \in 1..N
      PROVE  items[i] \in ItemSet /\ items[i].type = configs[i].type /\ items[i].force = configs[i].force
  <2> DEFINE c == configs[i]
             a == Item(c)
  <2>1. WellFormed(c) /\ items[i] = a
    BY <1>1
  <2>2. c.type \in RegisterTypes /\ c.skip \in Nat /\ c.force \in BOOLEAN
    BY <2>1 DEF WellFormed
  <2> HIDE DEF c
  <2>3. /\ a.type = c.type /\ a.bytes = 0 /\ a.force = c.force /\ a.skip = c.skip /\ a.start \in Nat
        /\ a.offset \in 0..(ByteWrap - 2) /\ a.count \in 1..(ByteWrap - 1)
    BY <2>1, ItemOf
  <2>4. \E start, offset, count : a = Placed(c, start, offset, count)
    BY DEF Item
  <2>5. PICK start, offset, count : a = Placed(c, start, offset, count)
    BY <2>4
  <2>6. a = [type |-> a.type, start |-> a.start, offset |-> a.offset, count |-> a.count,
             bytes |-> a.bytes, skip |-> a.skip, force |-> a.force]
    BY <2>5 DEF Placed
  <2> HIDE DEF a
  <2>7. a.offset \in 0..(ByteWrap - 1)
    BY <1>3, <2>3
  <2>8. a \in ItemSet
    BY <2>2, <2>3, <2>6, <2>7 DEF ItemSet
  <2> QED BY <2>1, <2>3, <2>8 DEF a, c
<1>5. items \in [1..N -> ItemSet]
  BY <1>2, <1>4
<1>6. ASSUME NEW i \in 1..N, NEW j \in 1..N, i # j, AtOneCell(items, i, j)
      PROVE  items[i].count = items[j].count /\ items[i].force = items[j].force
             /\ (items[i].offset = 0 \/ items[j].offset = 0)
  <2>1. SameCell(configs[i], configs[j])
    BY <1>1, <1>6 DEF SameCell, AtOneCell
  <2>2. /\ Item(configs[i]).count = Item(configs[j]).count /\ configs[i].force = configs[j].force
        /\ Item(configs[i]).offset = 0 \/ Item(configs[j]).offset = 0
    BY <1>1, <1>6, <2>1 DEF Supported
  <2> QED BY <1>1, <1>4, <2>2
<1>7. ASSUME NEW i \in 1..N, NEW j \in 1..N, i # j, items[i].type \in BitTypes, items[i].offset > 0
      PROVE  items[j].type # items[i].type
  <2>1. Item(configs[i]).type \in BitTypes /\ Item(configs[i]).offset > 0 /\ j \in DOMAIN configs \ {i}
    BY <1>1, <1>7
  <2>2. configs[j].type # configs[i].type
    BY <1>1, <2>1 DEF Supported
  <2> QED BY <1>4, <2>2
<1>8. ASSUME NEW i \in 1..N, items[i].type \in BitTypes PROVE items[i].count = items[i].offset + 1
  BY <1>1, <1>4, <1>8, BitsCountTheirOffset
<1>9. ASSUME NEW M \in SUBSET (1..N), NEW t \in RegisterTypes, \A j \in M : items[j].type = t
      PROVE  CellsIn(items, M) < ByteWrap
  <2>1. \A j \in M : configs[j].type = t
    BY <1>4, <1>9
  <2>2. CellsOf(configs, t) \in Nat /\ CellsIn(items, M) <= CellsOf(configs, t)
    BY <1>1, <2>1, CellsOfType DEF items, N
  <2>3. CellsOf(configs, t) < ByteWrap
    BY <1>1 DEF Supported
  <2>4. CellsIn(items, M) \in Nat
    <3>1. Len(items) = N /\ DOMAIN items = 1..N
      BY <1>1, <1>5, FunctionSeq
    <3>2. \A k \in 1..N : items[k].count \in Nat
      BY <1>4, ItemFields
    <3> QED BY <1>1, <3>1, <3>2, CellsInNat
  <2> QED BY <1>3, <2>2, <2>3, <2>4
<1>10. Sound(items, N)
  BY <1>1, <1>5, <1>6, <1>7, <1>8, <1>9 DEF Sound
<1> QED BY <1>10 DEF items, N

\* Where an entity is when the ranges have been cut: in one of them, at its place.
InRange(configs, i, plan, r) ==
  LET c == configs[i]
  IN  /\ r.type = c.type /\ r.start \in Nat /\ r.count \in Nat
      /\ plan.items[i].start = r.start
      /\ r.start <= Item(c).start /\ Item(c).start + Item(c).count <= r.start + r.count
      /\ plan.items[i].offset = ((Unit(c.type) * (Item(c).start - r.start) + Item(c).offset) % ByteWrap)
      /\ r.count <= CellsOf(configs, c.type) /\ r.count < ByteWrap

\* Every member of a range has its place in that range.
LEMMA MembersInRange ==
  ASSUME NEW configs \in Configurations, NEW plan, plan = CreateRegisterRanges(SensorSet(configs)),
         NEW n \in 1..Len(plan.ranges), NEW i \in plan.ranges[n].members
  PROVE  InRange(configs, i, plan, plan.ranges[n])
<1> DEFINE N == Len(configs)
           items == SensorSet(configs)
           r == plan.ranges[n]
           c == configs[i]
<1>1. Sound(items, N) /\ Planned(items, N, plan)
  BY SoundConfigurations, PlanIsMade
<1>2. /\ N \in Nat /\ DOMAIN configs = 1..N /\ Supported(configs)
      /\ (\A j \in 1..N : WellFormed(configs[j])) /\ (\A j \in 1..N : items[j] = Item(configs[j]))
  BY ConfigurationsOf
<1>3. r \in RangeSet(N) /\ FitsRange(items, plan.items, r)
  BY <1>1 DEF Planned
<1> HIDE DEF items, N
<1>4. /\ InPlaceOf(items, plan.items, r, i) /\ r.members \subseteq 1..N /\ r.count <= CellsIn(items, r.members)
      /\ r.start \in Nat /\ r.count \in Nat /\ r.type \in RegisterTypes
  BY <1>3 DEF FitsRange, Holds, RangeSet
<1>5. i \in 1..N /\ items[i] = Item(c) /\ WellFormed(c)
  BY <1>2, <1>4
<1>6. \A j \in r.members : configs[j].type = r.type
  <2> SUFFICES ASSUME NEW j \in r.members PROVE configs[j].type = r.type
    OBVIOUS
  <2>1. InPlaceOf(items, plan.items, r, j) /\ j \in 1..N
    BY <1>3, <1>4 DEF FitsRange, Holds
  <2>2. items[j].type = r.type /\ items[j] = Item(configs[j]) /\ WellFormed(configs[j])
    BY <1>2, <2>1 DEF InPlaceOf
  <2> QED BY <2>2, ItemOf
<1>7. r.type = c.type
  BY <1>6
<1>8. CellsOf(configs, r.type) \in Nat /\ CellsIn(items, r.members) <= CellsOf(configs, r.type)
  <2> HIDE DEF r
  <2> QED BY <1>2, <1>4, <1>6, CellsOfType DEF items, N
<1>9. CellsIn(items, r.members) \in Nat /\ CellsOf(configs, r.type) < ByteWrap /\ ByteWrap \in Nat
  <2>1. Len(items) = N /\ DOMAIN items = 1..N
    BY <1>1, SoundSortable
  <2>2. \A k \in 1..N : items[k].count \in Nat
    BY <1>1, SoundItems
  <2>3. CellsIn(items, r.members) \in Nat
    BY <1>2, <2>1, <2>2, CellsInNat
  <2> QED BY <1>2, <1>4, <2>3, DataAssumption DEF Supported
<1>10. r.count <= CellsOf(configs, c.type) /\ r.count < ByteWrap
  BY <1>4, <1>7, <1>8, <1>9
<1> HIDE DEF r, c
<1>11. /\ plan.items[i].start = r.start
       /\ r.start <= Item(c).start /\ Item(c).start + Item(c).count <= r.start + r.count
       /\ plan.items[i].offset = ((Unit(c.type) * (Item(c).start - r.start) + Item(c).offset) % ByteWrap)
  BY <1>4, <1>5, <1>7 DEF InPlaceOf
<1> QED BY <1>4, <1>7, <1>10, <1>11 DEF InRange, r, c

\* Every entity is in a range.
LEMMA EveryoneHasARange ==
  ASSUME NEW configs \in Configurations, NEW plan, plan = CreateRegisterRanges(SensorSet(configs)),
         NEW i \in DOMAIN configs
  PROVE  \E n \in 1..Len(plan.ranges) : i \in plan.ranges[n].members
<1>1. Planned(SensorSet(configs), Len(configs), plan)
  BY SoundConfigurations, PlanIsMade
<1>2. i \in 1..Len(configs)
  BY ConfigurationsOf
<1> QED BY <1>1, <1>2 DEF Planned

-----------------------------------------------------------------------------
(* What the entities show.                                                   *)

\* No place in a reply that can be sent is beyond a byte.
LEMMA OffsetFits ==
  ASSUME NEW c, WellFormed(c), NEW d \in Nat, d + Item(c).count <= MaxValues
  PROVE  ((Unit(c.type) * d + Item(c).offset) % ByteWrap) = Unit(c.type) * d + Item(c).offset
<1> DEFINE x == Unit(c.type) * d + Item(c).offset
           n == Item(c).count
           o == Item(c).offset
<1>1. ByteWrap \in Nat /\ MaxValues \in Nat /\ 2 * MaxValues <= ByteWrap
  BY DataAssumption
<1>2. n \in Nat /\ n >= 1 /\ o \in Nat
  <2>1. Item(c).count \in 1..(ByteWrap - 1) /\ Item(c).offset \in 0..(ByteWrap - 2)
    BY ItemOf
  <2> QED BY <1>1, <2>1
<1>3. (c.type \in BitTypes => o = n - 1) /\ (c.type \notin BitTypes => o <= 2 * n - 2)
  <2>1. CASE c.type \in BitTypes
    BY <1>2, <2>1, BitsCountTheirOffset
  <2>2. CASE c.type \notin BitTypes /\ c.kind = "sensor"
    <3>1. n = c.count /\ o = c.offset
      BY <2>2, ItemOf
    <3>2. c.offset + 2 * c.value.words <= 2 * c.count /\ c.value \in ValueTypes
      BY <2>2 DEF WellFormed
    <3>3. c.value.words \in {1, 2, 4}
      BY <3>2, TypesOf
    <3> QED BY <1>2, <2>2, <3>1, <3>2, <3>3
  <2>3. CASE c.type \notin BitTypes /\ c.kind = "binary"
    <3>1. c.offset = 0 /\ o = c.offset
      BY <2>3, ItemOf DEF WellFormed
    <3> QED BY <1>2, <2>3, <3>1
  <2>4. CASE c.type \notin BitTypes /\ c.kind = "switch"
    <3>1. o = 0
      BY <2>4, ItemOf
    <3> QED BY <1>2, <2>4, <3>1
  <2>5. c.kind \in {"sensor", "binary", "switch"}
    BY DEF WellFormed
  <2> QED BY <2>1, <2>2, <2>3, <2>4, <2>5
<1>4. x \in 0..(ByteWrap - 1)
  <2> HIDE DEF n, o
  <2>1. d + n <= MaxValues
    BY DEF n
  <2>2. x = Unit(c.type) * d + o
    BY DEF o
  <2> HIDE DEF x
  <2>3. CASE c.type \in BitTypes
    BY <1>1, <1>2, <1>3, <2>1, <2>2, <2>3 DEF Unit
  <2>4. CASE c.type \notin BitTypes
    BY <1>1, <1>2, <1>3, <2>1, <2>2, <2>4 DEF Unit
  <2> QED BY <2>3, <2>4
<1>5. ByteWrap > 0
  BY <1>1, <1>4
<1> HIDE DEF x
<1>6. (x % ByteWrap) = x
  BY <1>1, <1>4, <1>5, SmallMod
<1> QED BY <1>6 DEF x

\* A poll shows nothing but what an entity should read, and shows it when its type fits one range.
LEMMA PollShows ==
  ASSUME NEW configs \in Configurations, NEW i \in DOMAIN configs
  PROVE  /\ Poll(configs, Tables)[i] \subseteq {Reading(configs[i])}
         /\ CellsOf(configs, configs[i].type) <= MaxValues => Poll(configs, Tables)[i] # {}
<1> DEFINE N == Len(configs)
           c == configs[i]
           plan == CreateRegisterRanges(SensorSet(configs))
           Reply(r) == LoopbackAnswer(Tables, ReadCommand(r.type, r.start, r.count)).bytes
           For == {n \in DOMAIN plan.ranges :
                     /\ Sent(ReadCommand(plan.ranges[n].type, plan.ranges[n].start, plan.ranges[n].count))
                     /\ i \in FindSensors(plan.ranges, plan.ranges[n].type, plan.ranges[n].start)}
           shown == {ParseAndPublish(c, plan.items[i].offset, Reply(plan.ranges[n])) : n \in For}
<1>1. Poll(configs, Tables)[i] = shown
  BY DEF Poll
<1>2. WellFormed(c)
  BY ConfigurationsOf
<1>3. Planned(SensorSet(configs), N, plan)
  BY SoundConfigurations, PlanIsMade
<1>4. DOMAIN plan.ranges = 1..Len(plan.ranges)
  BY <1>3 DEF Planned
<1>5. \A n \in 1..Len(plan.ranges) :
        FindSensors(plan.ranges, plan.ranges[n].type, plan.ranges[n].start) = plan.ranges[n].members
  BY <1>3, FoundByStart
<1>6. \A r : Sent(ReadCommand(r.type, r.start, r.count)) <=> r.count <= MaxValues
  BY DEF Sent, ReadCommand
<1>7. ASSUME NEW n \in For PROVE ParseAndPublish(c, plan.items[i].offset, Reply(plan.ranges[n])) = Reading(c)
  <2> DEFINE r == plan.ranges[n]
             d == Item(c).start - r.start
  <2>1. n \in 1..Len(plan.ranges) /\ r.count <= MaxValues /\ i \in r.members
    BY <1>4, <1>5, <1>6, <1>7
  <2>2. InRange(configs, i, plan, r)
    <3> HIDE DEF plan
    <3>1. plan = CreateRegisterRanges(SensorSet(configs))
      BY DEF plan
    <3> QED BY <2>1, <3>1, MembersInRange
  <2> HIDE DEF plan, r, c
  <2>3. /\ r.type = c.type /\ r.start \in Nat /\ r.count \in Nat
        /\ r.start <= Item(c).start /\ Item(c).start + Item(c).count <= r.start + r.count
        /\ plan.items[i].offset = ((Unit(c.type) * d + Item(c).offset) % ByteWrap)
    BY <2>2 DEF InRange, c
  <2>4. Item(c).start \in Nat /\ Item(c).count \in Nat /\ MaxValues \in Nat
    <3>1. Item(c).start \in Nat /\ Item(c).count \in 1..(ByteWrap - 1) /\ ByteWrap \in Nat /\ MaxValues \in Nat
      BY <1>2, ItemOf, DataAssumption
    <3> QED BY <3>1
  <2>5. d \in Nat /\ d + Item(c).count <= MaxValues
    BY <2>1, <2>3, <2>4
  <2>6. plan.items[i].offset = Unit(c.type) * d + Item(c).offset
    <3>1. ((Unit(c.type) * d + Item(c).offset) % ByteWrap) = Unit(c.type) * d + Item(c).offset
      <4> HIDE DEF d
      <4> QED BY <1>2, <2>5, OffsetFits
    <3> QED BY <2>3, <3>1
  <2>7. ParseAndPublish(c, Unit(c.type) * (Item(c).start - r.start) + Item(c).offset,
                        LoopbackAnswer(Tables, ReadCommand(c.type, r.start, r.count)).bytes) = Reading(c)
    BY <1>2, <2>3, ShownIsReading
  <2>8. ParseAndPublish(c, plan.items[i].offset, Reply(r)) = Reading(c)
    BY <2>3, <2>6, <2>7
  <2> QED BY <2>8 DEF r
<1>8. ASSUME CellsOf(configs, c.type) <= MaxValues PROVE For # {}
  <2> HIDE DEF plan
  <2>0. plan = CreateRegisterRanges(SensorSet(configs))
    BY DEF plan
  <2>1. PICK n \in 1..Len(plan.ranges) : i \in plan.ranges[n].members
    BY <2>0, EveryoneHasARange
  <2>2. InRange(configs, i, plan, plan.ranges[n])
    BY <2>0, <2>1, MembersInRange
  <2>3. plan.ranges[n].count \in Nat /\ plan.ranges[n].count <= CellsOf(configs, c.type)
    BY <2>2 DEF InRange
  <2>4. CellsOf(configs, c.type) \in Nat
    <3>1. /\ N \in Nat /\ DOMAIN configs = 1..N /\ \A k \in 1..N : WellFormed(configs[k])
      BY ConfigurationsOf
    <3>2. {} \in SUBSET (1..N) /\ \A k \in {} : configs[k].type = c.type
      OBVIOUS
    <3> QED BY <3>1, <3>2, CellsOfType
  <2>5. plan.ranges[n].count <= MaxValues
    BY <1>8, <2>3, <2>4, DataAssumption
  <2>6. n \in For
    BY <1>4, <1>5, <1>6, <2>1, <2>5
  <2> QED BY <2>6
<1> HIDE DEF For
<1>9. shown \subseteq {Reading(c)}
  BY <1>7
<1>10. For # {} => shown # {}
  OBVIOUS
<1> QED BY <1>1, <1>8, <1>9, <1>10

-----------------------------------------------------------------------------
(* What a switch writes.                                                     *)

\* One value in one cell.
LEMMA PutOne ==
  ASSUME NEW t, NEW a \in Nat, a < AddressWrap, NEW v
  PROVE  Put(Tables, t, a, <<v>>) = [Tables EXCEPT ![t][a] = v]
<1>1. AddressWrap \in Nat /\ AddressWrap > 0 /\ a \in 0..(AddressWrap - 1)
  BY DataAssumption
<1>2. (a % AddressWrap) = a
  BY <1>1, SmallMod
<1>3. DOMAIN <<v>> = {1} /\ <<v>>[1] = v /\ a + 1 - 1 = a
  OBVIOUS
<1> DEFINE new == [b \in DOMAIN Tables[t] |->
                     LET at == {i \in DOMAIN <<v>> : ((a + i - 1) % AddressWrap) = b}
                     IN  IF at = {} THEN Tables[t][b] ELSE <<v>>[CHOOSE i \in at : \A j \in at : j <= i]]
<1>4. Put(Tables, t, a, <<v>>) = [Tables EXCEPT ![t] = new]
  BY DEF Put
<1>5. new = [b \in DOMAIN Tables[t] |-> IF b = a THEN v ELSE Tables[t][b]]
  <2> SUFFICES ASSUME NEW b \in DOMAIN Tables[t]
               PROVE  new[b] = IF b = a THEN v ELSE Tables[t][b]
    OBVIOUS
  <2> DEFINE at == {i \in DOMAIN <<v>> : ((a + i - 1) % AddressWrap) = b}
  <2>1. at = IF b = a THEN {1} ELSE {}
    BY <1>2, <1>3
  <2>2. new[b] = IF at = {} THEN Tables[t][b] ELSE <<v>>[CHOOSE i \in at : \A j \in at : j <= i]
    OBVIOUS
  <2> HIDE DEF at, new
  <2>3. CASE b = a
    <3>1. at = {1} /\ 1 <= 1
      BY <2>1, <2>3
    <3>2. (CHOOSE i \in at : \A j \in at : j <= i) = 1
      BY <3>1
    <3> QED BY <1>3, <2>2, <2>3, <3>1, <3>2
  <2>4. CASE b # a
    BY <2>1, <2>2, <2>4
  <2> QED BY <2>3, <2>4
<1>6. new = [Tables[t] EXCEPT ![a] = v]
  <2> HIDE DEF new
  <2>1. [Tables[t] EXCEPT ![a] = v] = [b \in DOMAIN Tables[t] |-> IF b = a THEN v ELSE Tables[t][b]]
    OBVIOUS
  <2> QED BY <1>5, <2>1
<1> HIDE DEF new
<1>7. [Tables EXCEPT ![t] = [Tables[t] EXCEPT ![a] = v]] = [Tables EXCEPT ![t][a] = v]
  OBVIOUS
<1> QED BY <1>4, <1>6, <1>7

\* A write of the loopback: no error, and the cells are set.
Writes(r, t, a, values) ==
  LoopbackAnswer(Tables, r).error = 0 /\ LoopbackAnswer(Tables, r).tables = Put(Tables, t, a, values)

\* A write with enough bytes is carried out.
LEMMA WriteCarriedOut ==
  ASSUME NEW r, NEW verb \in {"single", "multiple"}, NEW t, r.unit = UnitId, r.function = <<verb, t>>,
         ~(Len(r.payload) < PayloadNeeded(r))
  PROVE  Writes(r, t, r.start, Written(r))
<1>1. r.function[1] = verb /\ r.function[2] = t /\ verb # "other" /\ verb # "read"
  OBVIOUS
<1>2. LoopbackAnswer(Tables, r) = Answered(Put(Tables, t, r.start, Written(r)), Echo(r))
  BY <1>1 DEF LoopbackAnswer
<1> QED BY <1>2 DEF Writes, Answered

\* The command for one coil writes that coil.
LEMMA SingleCoilWrites ==
  ASSUME NEW a, NEW state \in BOOLEAN
  PROVE  Writes(WriteSingleCoil(a, state), "coils", a, <<IF state THEN 1 ELSE 0>>)
<1> DEFINE r == WriteSingleCoil(a, state)
<1>1. ByteSize \in Nat /\ ByteSize >= 2
  BY Sizes
<1>2. /\ r.unit = UnitId /\ r.function = <<"single", "coils">> /\ r.start = a
      /\ r.payload = <<IF state THEN ByteSize - 1 ELSE 0, 0>>
  BY DEF WriteSingleCoil
<1> HIDE DEF r
<1>3. r.function[1] = "single" /\ Len(r.payload) = 2
  BY <1>2
<1>4. PayloadNeeded(r) = 2
  BY <1>3 DEF PayloadNeeded
<1>5. WordAt(r.payload, 0) = IF state THEN (ByteSize - 1) * ByteSize ELSE 0
  <2>1. r.payload[0 + 1] = (IF state THEN ByteSize - 1 ELSE 0) /\ r.payload[0 + 2] = 0
    BY <1>2
  <2>2. (ByteSize - 1) * ByteSize \in Int /\ 0 * ByteSize = 0
    BY <1>1
  <2> QED BY <2>1, <2>2 DEF WordAt
<1>6. (ByteSize - 1) * ByteSize # 0
  <2>1. \A x, y \in Nat : x > 0 /\ y > 0 => x * y > 0
    OBVIOUS
  <2> QED BY <1>1, <2>1
<1>7. Written(r) = <<IF state THEN 1 ELSE 0>>
  <2>1. Written(r) = <<IF WordAt(r.payload, 0) = (ByteSize - 1) * ByteSize THEN 1 ELSE 0>>
    BY <1>2 DEF Written
  <2> QED BY <1>5, <1>6, <2>1
<1>8. Writes(r, "coils", r.start, Written(r))
  BY <1>2, <1>3, <1>4, WriteCarriedOut
<1>9. Writes(r, "coils", a, <<IF state THEN 1 ELSE 0>>)
  BY <1>2, <1>7, <1>8
<1> QED BY <1>9 DEF r

\* The command for one register writes that register.
LEMMA SingleWrites ==
  ASSUME NEW a, NEW word \in Int
  PROVE  Writes(WriteSingle(a, word), "holding", a, <<word>>)
<1> DEFINE r == WriteSingle(a, word)
<1>1. /\ r.unit = UnitId /\ r.function = <<"single", "holding">> /\ r.start = a /\ r.payload = HiLo(word)
  BY DEF WriteSingle
<1> HIDE DEF r
<1>2. r.function[1] = "single" /\ Len(r.payload) = 2
  BY <1>1 DEF HiLo
<1>3. PayloadNeeded(r) = 2
  BY <1>2 DEF PayloadNeeded
<1>4. Written(r) = <<word>>
  <2>1. Written(r) = <<WordAt(HiLo(word), 0)>>
    BY <1>1 DEF Written
  <2>2. WordAt(HiLo(word), 0) = HiLo(word)[1] * ByteSize + HiLo(word)[2]
    BY DEF WordAt
  <2>3. HiLo(word)[1] * ByteSize + HiLo(word)[2] = word
    BY WordSplit
  <2> QED BY <2>1, <2>2, <2>3
<1>5. Writes(r, "holding", r.start, Written(r))
  <2>1. r.unit = UnitId /\ r.function = <<"single", "holding">> /\ ~(Len(r.payload) < PayloadNeeded(r))
    BY <1>1, <1>2, <1>3
  <2> QED BY <2>1, WriteCarriedOut
<1>6. Writes(r, "holding", a, <<word>>)
  BY <1>1, <1>4, <1>5
<1> QED BY <1>6 DEF r

\* The command for several registers writes them in order.
LEMMA MultipleWrites ==
  ASSUME NEW a, NEW words \in Seq(Int)
  PROVE  Writes(WriteMultiple(a, words), "holding", a, words)
<1> DEFINE r == WriteMultiple(a, words)
           n == Len(words)
<1>1. /\ r.unit = UnitId /\ r.function = <<"multiple", "holding">> /\ r.start = a
      /\ r.payload = BytesOfWords(words) /\ r.quantity = n
  BY DEF WriteMultiple
<1> HIDE DEF r
<1>2. /\ Len(BytesOfWords(words)) = 2 * n
      /\ \A k \in 1..n : WordAt(BytesOfWords(words), 2 * (k - 1)) = words[k]
  BY WordsKept
<1>3. n \in Nat /\ words = [k \in 1..n |-> words[k]]
  OBVIOUS
<1> HIDE DEF n
<1>4. r.function[1] = "multiple" /\ r.function # <<"multiple", "coils">> /\ r.function # <<"single", "coils">>
      /\ r.function # <<"single", "holding">>
  BY <1>1
<1>5. PayloadNeeded(r) = 2 * n
  BY <1>1, <1>4 DEF PayloadNeeded
<1>6. Written(r) = PayloadWords(r)
  BY <1>1, <1>4 DEF Written
<1>7. PayloadWords(r) = [k \in 1..n |-> WordAt(BytesOfWords(words), 2 * (k - 1))]
  BY <1>1 DEF PayloadWords
<1>8. Written(r) = words
  BY <1>2, <1>3, <1>6, <1>7
<1>9. ~(Len(r.payload) < PayloadNeeded(r))
  BY <1>1, <1>2, <1>3, <1>5
<1>10. Writes(r, "holding", r.start, Written(r))
  BY <1>1, <1>9, WriteCarriedOut
<1>11. Writes(r, "holding", a, words)
  BY <1>1, <1>8, <1>10
<1> QED BY <1>11 DEF r

\* The command for several coils writes them in order.
LEMMA MultipleCoilsWrite ==
  ASSUME NEW a, NEW states \in Seq(0..1), Len(states) > 0
  PROVE  Writes(WriteMultipleCoils(a, states), "coils", a, states)
<1> DEFINE r == WriteMultipleCoils(a, states)
           n == Len(states)
<1>1. /\ r.unit = UnitId /\ r.function = <<"multiple", "coils">> /\ r.start = a
      /\ r.payload = Pack(states) /\ r.quantity = n
  BY DEF WriteMultipleCoils
<1> HIDE DEF r
<1>2. n \in Nat /\ states = [k \in 1..n |-> states[k]] /\ 1 \in 1..n
  OBVIOUS
<1>3. Len(Pack(states)) = ByteCount(n)
  BY PackLength
<1>4. \A k \in 1..n : CoilFromVector(k - 1, Pack(states)) = states[k]
  BY BitsKept
<1> HIDE DEF n
<1>5. \A k \in 1..n : (k - 1) \div ByteBits < Len(Pack(states))
  <2> SUFFICES ASSUME NEW k \in 1..n PROVE (k - 1) \div ByteBits < Len(Pack(states))
    OBVIOUS
  <2> DEFINE x == (k - 1) \div ByteBits
  <2>1. x \in Int /\ x + 1 <= ByteCount(n) /\ ByteCount(n) \in Int
    BY <1>2, BitHasByte
  <2> HIDE DEF x
  <2>2. x < Len(Pack(states))
    BY <1>3, <2>1
  <2> QED BY <2>2 DEF x
<1>6. ByteCount(n) \in Int /\ ByteCount(n) >= 1
  <2> DEFINE x == (1 - 1) \div ByteBits
  <2>1. x \in Int /\ x >= 0 /\ x + 1 <= ByteCount(n) /\ ByteCount(n) \in Int
    BY <1>2, BitHasByte
  <2> HIDE DEF x
  <2> QED BY <2>1
<1>7. r.function[1] = "multiple" /\ r.function # <<"single", "coils">> /\ r.function # <<"single", "holding">>
  BY <1>1
<1>8. PayloadNeeded(r) = 1
  BY <1>1, <1>7 DEF PayloadNeeded
<1>9. Written(r) = PayloadCoils(r)
  BY <1>1, <1>7 DEF Written
<1>10. PayloadCoils(r) = [k \in 1..n |-> PayloadCoil(Pack(states), k - 1)]
  BY <1>1 DEF PayloadCoils
<1>11. \A k \in 1..n : PayloadCoil(Pack(states), k - 1) = states[k]
  BY <1>4, <1>5 DEF PayloadCoil
<1>12. Written(r) = states
  BY <1>2, <1>9, <1>10, <1>11
<1>13. ~(Len(r.payload) < PayloadNeeded(r))
  BY <1>1, <1>3, <1>6, <1>8
<1>14. Writes(r, "coils", r.start, Written(r))
  BY <1>1, <1>13, WriteCarriedOut
<1>15. Writes(r, "coils", a, states)
  BY <1>1, <1>12, <1>14
<1> QED BY <1>15 DEF r

\* A switch sets the cell of its own, whichever command it uses.
LEMMA SwitchSets ==
  ASSUME NEW configs \in Configurations, NEW i \in Switches(configs),
         NEW state \in BOOLEAN, NEW multiple \in BOOLEAN,
         configs[i].type = "holding" => CellsOf(configs, configs[i].type) <= MaxValues
  PROVE  LET c  == configs[i]
             on == IF c.type = "coil" THEN 1 ELSE BitAnd(WordSize - 1, c.mask)
         IN  SwitchWrite(configs, i, state, multiple, Tables).tables =
               [Tables EXCEPT ![TableOf[c.type]][CellFor(c)] = IF state THEN on ELSE 0]
<1> DEFINE N == Len(configs)
           c == configs[i]
           on == IF c.type = "coil" THEN 1 ELSE BitAnd(WordSize - 1, c.mask)
           plan == CreateRegisterRanges(SensorSet(configs))
           item == plan.items[i]
           cell == CellFor(c)
<1>1. i \in DOMAIN configs /\ c.kind = "switch"
  BY DEF Switches
<1>2. WellFormed(c)
  BY <1>1, ConfigurationsOf
<1>3. /\ c.type \in {"coil", "holding"} /\ c.address \in Nat /\ c.offset \in 0..(ByteWrap - 2)
      /\ c.address + c.offset < AddressWrap /\ c.mask \in 0..AllBits
  BY <1>1, <1>2 DEF WellFormed
<1>4. /\ Item(c).start = c.address + c.offset /\ Item(c).offset = 0 /\ Item(c).count = 1
  BY <1>1, <1>2, ItemOf
<1>5. cell = c.address + c.offset
  BY <1>1 DEF CellFor
<1>6. /\ ByteWrap \in Nat /\ MaxValues \in Nat /\ 2 * MaxValues <= ByteWrap /\ AddressWrap \in Nat
  BY DataAssumption
<1>7. cell \in Nat /\ cell < AddressWrap /\ Item(c).start = cell
  BY <1>3, <1>4, <1>5, <1>6
<1>8. PICK r : InRange(configs, i, plan, r)
  <2> HIDE DEF plan
  <2>0. plan = CreateRegisterRanges(SensorSet(configs))
    BY DEF plan
  <2>1. PICK n \in 1..Len(plan.ranges) : i \in plan.ranges[n].members
    BY <1>1, <2>0, EveryoneHasARange
  <2>2. InRange(configs, i, plan, plan.ranges[n])
    BY <2>0, <2>1, MembersInRange
  <2> QED BY <2>2
<1>9. /\ r.start \in Nat /\ r.count \in Nat /\ item.start = r.start
      /\ r.start <= Item(c).start /\ Item(c).start + Item(c).count <= r.start + r.count
      /\ item.offset = ((Unit(c.type) * (Item(c).start - r.start) + Item(c).offset) % ByteWrap)
      /\ r.count <= CellsOf(configs, c.type) /\ r.count < ByteWrap
  BY <1>8 DEF InRange
<1> DEFINE d == cell - r.start
<1>10. d \in Nat /\ d + 1 <= r.count /\ r.start + d = cell
  BY <1>4, <1>7, <1>9
<1>11. SwitchWrite(configs, i, state, multiple, Tables) = LoopbackAnswer(Tables, SwitchCommand(c, item, state, multiple))
  BY DEF SwitchWrite
<1> HIDE DEF plan, item, c, cell, d
<1>12. CASE c.type = "coil"
  <2>1. item.offset = (d % ByteWrap)
    <3>1. Unit(c.type) * (Item(c).start - r.start) + Item(c).offset = d
      BY <1>4, <1>7, <1>9, <1>10, <1>12 DEF Unit, BitTypes, d
    <3> QED BY <1>9, <3>1
  <2>2. d \in 0..(ByteWrap - 1) /\ ByteWrap > 0
    BY <1>6, <1>9, <1>10
  <2>3. item.offset = d
    BY <1>6, <2>1, <2>2, SmallMod
  <2>4. item.start + item.offset = cell
    BY <1>9, <1>10, <2>3
  <2> DEFINE v == IF state THEN 1 ELSE 0
             command == SwitchCommand(c, item, state, multiple)
  <2>5. command = IF multiple THEN WriteMultipleCoils(cell, <<v>>) ELSE WriteSingleCoil(cell, state)
    BY <1>12, <2>4 DEF SwitchCommand
  <2>6. Writes(WriteSingleCoil(cell, state), "coils", cell, <<v>>)
    BY SingleCoilWrites
  <2>7. <<v>> \in Seq(0..1) /\ Len(<<v>>) > 0
    OBVIOUS
  <2> HIDE DEF v, command
  <2>8. Writes(WriteMultipleCoils(cell, <<v>>), "coils", cell, <<v>>)
    BY <2>7, MultipleCoilsWrite
  <2>9. LoopbackAnswer(Tables, command).tables = Put(Tables, "coils", cell, <<v>>)
    BY <2>5, <2>6, <2>8 DEF Writes
  <2>10. Put(Tables, "coils", cell, <<v>>) = [Tables EXCEPT !["coils"][cell] = v]
    BY <1>7, PutOne
  <2>11. TableOf[c.type] = "coils" /\ v = IF state THEN on ELSE 0
    BY <1>12 DEF TableOf, v
  <2>12. SwitchWrite(configs, i, state, multiple, Tables).tables = [Tables EXCEPT !["coils"][cell] = v]
    BY <1>11, <2>9, <2>10 DEF command
  <2> QED BY <2>11, <2>12 DEF c, cell
<1>13. CASE c.type = "holding"
  <2> DEFINE x == 2 * d
  <2>1. item.offset = (x % ByteWrap)
    <3>1. Unit(c.type) * (Item(c).start - r.start) + Item(c).offset = x
      BY <1>4, <1>7, <1>9, <1>10, <1>13 DEF Unit, BitTypes, d
    <3> QED BY <1>9, <3>1
  <2>2. r.count <= MaxValues
    <3>1. CellsOf(configs, c.type) <= MaxValues
      BY <1>13 DEF c
    <3>2. CellsOf(configs, c.type) \in Nat
      <4>1. /\ N \in Nat /\ DOMAIN configs = 1..N /\ \A k \in 1..N : WellFormed(configs[k])
        BY ConfigurationsOf
      <4>2. {} \in SUBSET (1..N) /\ \A k \in {} : configs[k].type = c.type
        OBVIOUS
      <4> QED BY <4>1, <4>2, CellsOfType
    <3> QED BY <1>6, <1>9, <3>1, <3>2
  <2>3. x \in 0..(ByteWrap - 1) /\ ByteWrap > 0
    BY <1>6, <1>9, <1>10, <2>2
  <2>4. item.offset = x
    <3> HIDE DEF x
    <3> QED BY <1>6, <2>1, <2>3, SmallMod
  <2>5. x \div 2 = d
    <3>1. x = d * 2 + 0 /\ x \in Int /\ 0 \in 0..(2 - 1)
      BY <1>10
    <3> HIDE DEF x
    <3> QED BY <1>10, <3>1, QuotientIs
  <2>6. item.start + item.offset \div 2 = cell
    BY <1>9, <1>10, <2>4, <2>5
  <2> DEFINE word == IF state THEN BitAnd(WordSize - 1, c.mask) ELSE 0
             command == SwitchCommand(c, item, state, multiple)
  <2>7. command = IF multiple THEN WriteMultiple(cell, <<word>>) ELSE WriteSingle(cell, word)
    BY <1>13, <2>6 DEF SwitchCommand
  <2>8. word \in Int
    <3>1. WordSize \in Nat /\ WordSize >= 4
      BY Sizes
    <3>2. WordSize - 1 \in 0..AllBits
      <4>1. \A a, b \in Nat : a >= 1 /\ b >= 1 => a * b >= a
        OBVIOUS
      <4>2. WordSize * WordSize >= WordSize /\ WordSize * WordSize \in Nat
        BY <3>1, <4>1
      <4> QED BY <3>1, <4>2 DEF AllBits
    <3>3. BitAnd(WordSize - 1, c.mask) \in 0..(WordSize - 1)
      BY <1>3, <3>2, AndAssumption
    <3> QED BY <3>1, <3>3
  <2>9. <<word>> \in Seq(Int)
    BY <2>8
  <2> HIDE DEF word, command
  <2>10. Writes(WriteSingle(cell, word), "holding", cell, <<word>>)
    BY <2>8, SingleWrites
  <2>11. Writes(WriteMultiple(cell, <<word>>), "holding", cell, <<word>>)
    BY <2>9, MultipleWrites
  <2>12. LoopbackAnswer(Tables, command).tables = Put(Tables, "holding", cell, <<word>>)
    BY <2>7, <2>10, <2>11 DEF Writes
  <2>13. Put(Tables, "holding", cell, <<word>>) = [Tables EXCEPT !["holding"][cell] = word]
    BY <1>7, PutOne
  <2>14. TableOf[c.type] = "holding" /\ word = IF state THEN on ELSE 0
    BY <1>13 DEF TableOf, word
  <2>15. SwitchWrite(configs, i, state, multiple, Tables).tables = [Tables EXCEPT !["holding"][cell] = word]
    BY <1>11, <2>12, <2>13 DEF command
  <2> QED BY <2>14, <2>15 DEF c, cell
<1> QED BY <1>3, <1>12, <1>13 DEF c

-----------------------------------------------------------------------------
(* Words, numbers and back again.                                            *)

\* A word more tells a word's worth more numbers apart.
LEMMA SizeStep ==
  ASSUME NEW k \in Nat
  PROVE  SizeOf(k) \in Nat /\ SizeOf(k) > 0 /\ SizeOf(k + 1) = SizeOf(k) * WordSize
<1> DEFINE p == 2 * ByteBits * k
           b == 2 * ByteBits
<1>1. b \in Nat /\ p = b * k
  BY Sizes
<1>2. p \in Nat
  <2> HIDE DEF b, p
  <2> QED BY <1>1, Products
<1>3. 2 * ByteBits * (k + 1) = p + b
  <2>1. \A x, y \in Nat : 2 * x * (y + 1) = 2 * x * y + 2 * x
    OBVIOUS
  <2> QED BY <2>1, Sizes
<1> HIDE DEF p, b
<1>4. Pow2[p + b] = Pow2[p] * Pow2[b] /\ Pow2[p] \in Nat /\ Pow2[p] > 0
  BY <1>1, <1>2, PowerSum, PowerPositive
<1> QED BY <1>3, <1>4, Sizes DEF SizeOf, p, b

\* One word tells a word's numbers apart, and no word one.
LEMMA SizeBegins == SizeOf(0) = 1 /\ SizeOf(1) = WordSize
<1>1. 2 * ByteBits * 0 = 0 /\ 2 * ByteBits * 1 = 2 * ByteBits
  BY Sizes
<1> QED BY <1>1, Powers, Sizes DEF SizeOf

\* The sizes of two parts make up that of the whole.
LEMMA SizeSum ==
  ASSUME NEW i \in Nat, NEW j \in Nat
  PROVE  SizeOf(i + j) = SizeOf(i) * SizeOf(j)
<1> DEFINE b == 2 * ByteBits
           x == b * i
           y == b * j
<1>1. b \in Nat /\ b * (i + j) = x + y
  <2>1. b \in Nat
    BY Sizes
  <2> HIDE DEF b
  <2> QED BY <2>1, Products
<1>2. x \in Nat /\ y \in Nat
  <2> HIDE DEF b
  <2> QED BY <1>1, Products
<1>3. SizeOf(i + j) = Pow2[b * (i + j)] /\ SizeOf(i) = Pow2[x] /\ SizeOf(j) = Pow2[y]
  BY DEF SizeOf
<1> HIDE DEF b, x, y
<1>4. Pow2[x + y] = Pow2[x] * Pow2[y]
  BY <1>2, PowerSum
<1> QED BY <1>1, <1>3, <1>4

\* A number is what its first words make up, moved up by the others, and the rest.
LEMMA NumberSplits ==
  ASSUME NEW words \in Seq(0..(WordSize - 1)), NEW value, NEW f, NumberIs(words, value, f),
         NEW j \in 0..Len(words)
  PROVE  \E r \in 0..(SizeOf(j) - 1) : value = f[Len(words) - j] * SizeOf(j) + r
<1> DEFINE n == Len(words)
           Splits(i) == \E r \in 0..(SizeOf(i) - 1) : value = f[n - i] * SizeOf(i) + r
           G == {i \in 0..n : Splits(i)}
<1>1. n \in Nat /\ WordSize \in Nat /\ WordSize >= 4
  BY Sizes
<1>2. f \in [0..n -> Nat] /\ value = f[n] /\ \A k \in 1..n : f[k] = f[k - 1] * WordSize + words[k]
  BY DEF NumberIs
<1>3. \A k \in 1..n : words[k] \in 0..(WordSize - 1)
  BY ElementOfSeq
<1> HIDE DEF n
<1>4. 0 \in G
  <2>1. value = f[n - 0] * 1 + 0 /\ 0 \in 0..(1 - 1)
    BY <1>1, <1>2
  <2> QED BY <2>1, <1>1, SizeBegins
<1>5. ASSUME NEW i \in 1..n, i - 1 \in G PROVE i \in G
  <2>1. PICK r \in 0..(SizeOf(i - 1) - 1) : value = f[n - (i - 1)] * SizeOf(i - 1) + r
    BY <1>5
  <2> DEFINE s == SizeOf(i - 1)
             k == n - i + 1
             a == f[k - 1]
             w == words[k]
  <2>2. i - 1 \in Nat /\ (i - 1) + 1 = i /\ k \in 1..n /\ k - 1 = n - i /\ k - 1 \in 0..n /\ n - (i - 1) = k
    BY <1>1
  <2>3. s \in Nat /\ s > 0 /\ SizeOf(i) = s * WordSize
    BY <2>2, SizeStep
  <2>4. a \in Nat /\ w \in 0..(WordSize - 1) /\ f[k] = a * WordSize + w
    BY <2>2, <1>2, <1>3
  <2> HIDE DEF s, a, w, k
  <2>5. value = (a * WordSize + w) * s + r /\ r \in 0..(s - 1)
    BY <2>1, <2>2, <2>4 DEF s
  <2>6. (a * WordSize + w) * s = a * (s * WordSize) + w * s /\ w * s \in Nat /\ a * (s * WordSize) \in Nat
    <3>1. \A x, y, z, v \in Nat : (x * y + z) * v = x * (v * y) + z * v /\ z * v \in Nat /\ x * (v * y) \in Nat
      OBVIOUS
    <3>2. w \in Nat
      BY <2>4, <1>1
    <3> QED BY <3>1, <3>2, <2>3, <2>4, <1>1
  <2>7. w * s + r < s * WordSize
    <3>1. \A x, y \in Nat, z \in Nat : x < y => x * z + z <= z * y
      <4> SUFFICES ASSUME NEW x \in Nat, NEW y \in Nat, NEW z \in Nat, x < y PROVE x * z + z <= z * y
        OBVIOUS
      <4>1. y - x - 1 \in Nat /\ z * y = x * z + z + z * (y - x - 1) /\ z * (y - x - 1) \in Nat
        OBVIOUS
      <4>2. x * z \in Nat
        OBVIOUS
      <4> QED BY <4>1, <4>2
    <3>2. w \in Nat /\ w < WordSize
      BY <2>4, <1>1
    <3>3. w * s + s <= s * WordSize
      BY <3>1, <3>2, <2>3, <1>1
    <3>4. s * WordSize \in Nat
      BY <2>3, <1>1
    <3> QED BY <3>3, <3>4, <2>3, <2>5, <2>6
  <2>8. SizeOf(i) \in Nat
    BY SizeStep
  <2> DEFINE rest == w * s + r
  <2>9. rest \in 0..(SizeOf(i) - 1)
    <3>1. rest \in Nat
      BY <2>5, <2>6, <2>3
    <3> HIDE DEF rest
    <3> QED BY <3>1, <2>3, <2>7, <2>8 DEF rest
  <2>10. value = a * SizeOf(i) + rest
    <3> DEFINE x == a * (s * WordSize)
               y == w * s
    <3>1. x \in Nat /\ y \in Nat /\ r \in Nat /\ value = (x + y) + r
      BY <2>3, <2>5, <2>6
    <3> HIDE DEF x, y
    <3>2. value = x + (y + r)
      BY <3>1
    <3> QED BY <3>2, <2>3 DEF x, y
  <2>11. f[n - i] = a
    BY <2>2 DEF a
  <2> HIDE DEF rest
  <2>12. Splits(i)
    BY <2>9, <2>10, <2>11
  <2> HIDE DEF Splits
  <2> QED BY <2>12
<1> HIDE DEF G
<1>6. \A i \in 0..n : i \in G
  BY <1>1, <1>4, <1>5, UpTo
<1>7. j \in G
  BY <1>6 DEF n
<1> QED BY <1>7 DEF G, n

\* A word of a number, or of the number less its range: s is 0 or 1.
LEMMA WordOfNumber ==
  ASSUME NEW words \in Seq(0..(WordSize - 1)), NEW s \in 0..1, NEW k \in 1..Len(words)
  PROVE  (((NumberOf(words, FALSE) - s * SizeOf(Len(words))) \div SizeOf(Len(words) - k)) % WordSize) = words[k]
<1> DEFINE n == Len(words)
           value == NumberOf(words, FALSE)
           j == n - k
           d == SizeOf(j)
           c == SizeOf(k - 1)
           w == words[k]
<1>1. n \in Nat /\ WordSize \in Nat /\ WordSize >= 4 /\ k \in Nat
  BY Sizes
<1>2. PICK f : NumberIs(words, value, f)
  BY NumberExists
<1>3. w \in 0..(WordSize - 1)
  BY ElementOfSeq
<1>4. j \in 0..n /\ n - j = k /\ k - 1 \in 0..n /\ k - 1 \in Nat /\ (k - 1) + 1 = k /\ j + k = n
  BY <1>1
<1>5. PICK r \in 0..(d - 1) : value = f[k] * d + r
  <2>0. j \in 0..Len(words) /\ NumberIs(words, value, f)
    BY <1>2, <1>4
  <2> HIDE DEF j, value
  <2>1. \E r \in 0..(SizeOf(j) - 1) : value = f[Len(words) - j] * SizeOf(j) + r
    BY <2>0, NumberSplits
  <2> QED BY <2>1, <1>4
<1> DEFINE a == f[k - 1]
<1>6. a \in Nat /\ f[k] = a * WordSize + w
  BY <1>2, <1>4 DEF NumberIs
<1>7. d \in Nat /\ d > 0 /\ c \in Nat /\ c > 0 /\ SizeOf(n) = d * (c * WordSize)
  <2>1. SizeOf(j) \in Nat /\ SizeOf(j) > 0 /\ SizeOf(k - 1) \in Nat /\ SizeOf(k - 1) > 0
    <3>1. \A i \in Nat : SizeOf(i) \in Nat /\ SizeOf(i) > 0
      BY SizeStep
    <3>2. j \in Nat
      BY <1>1, <1>4
    <3> QED BY <3>1, <3>2, <1>4
  <2>2. SizeOf(k) = SizeOf(k - 1) * WordSize
    BY <1>4, SizeStep
  <2>3. SizeOf(j + k) = SizeOf(j) * SizeOf(k)
    BY <1>1, <1>4, SizeSum
  <2> QED BY <2>1, <2>2, <2>3, <1>4
<1> HIDE DEF n, value, j, d, c, w, a
<1> DEFINE q == (a - s * c) * WordSize + w
<1>8. w \in Nat /\ r \in Nat /\ s \in Nat
  BY <1>1, <1>3, <1>5, <1>7
<1>9. q \in Int /\ value - s * SizeOf(n) = q * d + r /\ value - s * SizeOf(n) \in Int
  <2>1. \A x, y, z, m \in Nat, t \in 0..1 : ((x - t * z) * m + y) \in Int
    OBVIOUS
  <2>2. q \in Int
    BY <2>1, <1>1, <1>6, <1>7, <1>8
  <2>3. (a * WordSize + w) * d - s * (d * (c * WordSize)) = q * d
    <3>1. \A x, y, z, m, e \in Nat : (x * m + y) * e - 0 * (e * (z * m)) = ((x - 0 * z) * m + y) * e
      OBVIOUS
    <3>2. \A x, y, z, m, e \in Nat : (x * m + y) * e - 1 * (e * (z * m)) = ((x - 1 * z) * m + y) * e
      OBVIOUS
    <3>3. s = 0 \/ s = 1
      OBVIOUS
    <3> QED BY <3>1, <3>2, <3>3, <1>1, <1>6, <1>7, <1>8
  <2> DEFINE x == (a * WordSize + w) * d
             y == s * (d * (c * WordSize))
             z == q * d
  <2>4. x \in Nat /\ y \in Nat /\ z \in Int
    <3>1. \A u, v, m, e \in Nat : (u * m + v) * e \in Nat /\ u * (v * (m * e)) \in Nat
      OBVIOUS
    <3>2. \A u \in Int, v \in Nat : u * v \in Int
      OBVIOUS
    <3> HIDE DEF q
    <3> QED BY <3>1, <3>2, <2>2, <1>1, <1>6, <1>7, <1>8
  <2>5. value = x + r /\ x - y = z /\ s * SizeOf(n) = y
    BY <2>3, <1>5, <1>6, <1>7
  <2> HIDE DEF x, y, z, q
  <2>6. value - s * SizeOf(n) = z + r /\ z + r \in Int
    BY <2>4, <2>5, <1>8
  <2> QED BY <2>2, <2>6 DEF z
<1> DEFINE v == value - s * SizeOf(n)
<1> HIDE DEF q, v
<1>10. v \div d = q
  <2>1. v \in Int /\ v = q * d + r /\ q \in Int
    BY <1>9 DEF v
  <2> QED BY <2>1, <1>5, <1>7, QuotientIs
<1>11. (q % WordSize) = w
  <2>1. s * c \in Nat
    BY <1>7, <1>8, Products
  <2>2. a - s * c \in Int /\ WordSize > 0
    BY <2>1, <1>6, <1>1
  <2>3. q = (a - s * c) * WordSize + w /\ q \in Int
    BY <1>9 DEF q
  <2> QED BY <2>2, <2>3, <1>1, <1>3, QuotientIs
<1> QED BY <1>10, <1>11 DEF v, value, n, j, d, w

\* Reversing a sequence twice changes nothing.
LEMMA ReverseTwice ==
  ASSUME NEW S, NEW words \in Seq(S)
  PROVE  Reverse(Reverse(words)) = words
<1> DEFINE n == Len(words)
           back == Reverse(words)
<1>1. n \in Nat /\ words \in [1..n -> S]
  OBVIOUS
<1>2. back = [k \in 1..n |-> words[(n - k) + 1]] /\ Len(back) = n
  BY <1>1 DEF Reverse
<1>3. Reverse(back) = [k \in 1..Len(back) |-> back[(Len(back) - k) + 1]]
  BY DEF Reverse
<1> HIDE DEF n, back
<1>4. ASSUME NEW k \in 1..n PROVE back[(n - k) + 1] = words[k]
  <2>1. (n - k) + 1 \in 1..n /\ (n - ((n - k) + 1)) + 1 = k
    BY <1>1
  <2> QED BY <2>1, <1>2
<1>5. [k \in 1..n |-> back[(n - k) + 1]] = words
  BY <1>1, <1>4
<1> QED BY <1>2, <1>3, <1>5 DEF back

\* The words of a number are the words it was read from.
LEMMA NumberKept ==
  ASSUME NEW type \in ValueTypes, NEW words \in Seq(0..(WordSize - 1)), Len(words) = type.words,
         NEW bytes, NEW offset \in Nat, Len(bytes) \in Nat, offset + 2 * type.words <= Len(bytes),
         \A k \in 1..type.words : WordAt(bytes, offset + 2 * (k - 1)) = words[k]
  PROVE  NumberToPayload(PayloadToNumber(bytes, type, offset, AllBits), type) = words
<1> DEFINE n == type.words
           high == IF type.reversed THEN Reverse(words) ELSE words
           U == UnsignedAt(bytes, type, offset)
           value == PayloadToNumber(bytes, type, offset, AllBits)
<1>1. n \in {1, 2, 4} /\ type.signed \in BOOLEAN /\ (n = 4 => type.signed = TRUE)
  BY TypesOf
<1>2. high \in Seq(0..(WordSize - 1)) /\ Len(high) = n
  BY ReverseKept
<1>3. U = NumberOf(high, FALSE)
  <2>1. words \in Seq(Int)
    BY WordsAreNumbers
  <2> QED BY <2>1, UnsignedIsNumber
<1> HIDE DEF U
<1>4. U \in 0..(SizeOf(n) - 1) /\ SizeOf(n) \in Nat
  BY <1>1, <1>2, <1>3, NumberRange, SizeStep
<1>5. ~(Len(bytes) - offset < 2 * n)
  BY <1>1
<1>6. value = IF n = 4 THEN AsSigned(U, SizeOf(4)) ELSE MaskAndShift(U, type, AllBits)
  BY <1>5 DEF PayloadToNumber, U
<1> HIDE DEF value
<1>7. value = IF type.signed THEN AsSigned(U, SizeOf(n)) ELSE U
  <2>1. CASE n = 4
    BY <2>1, <1>1, <1>6
  <2>2. CASE n # 4
    <3>1. MaskFits(AllBits, n)
      BY DEF MaskFits
    <3>2. MaskAndShift(U, type, AllBits) = MaskedField(U, SizeOf(n), type.signed, AllBits)
      BY <3>1, <2>2, <1>1, <1>4, MaskedIsField
    <3> QED BY <3>2, <2>2, <1>6 DEF MaskedField
  <2> QED BY <2>1, <2>2
<1>8. PICK s \in 0..1 : value = U - s * SizeOf(n)
  <2>1. U = U - 0 * SizeOf(n) /\ U - SizeOf(n) = U - 1 * SizeOf(n) /\ 0 \in 0..1 /\ 1 \in 0..1
    BY <1>4
  <2>2. value = U \/ value = U - SizeOf(n)
    BY <1>7 DEF AsSigned
  <2> QED BY <2>1, <2>2
<1> HIDE DEF high
<1>9. \A k \in 1..n : ((value \div SizeOf(n - k)) % WordSize) = high[k]
  <2> TAKE k \in 1..n
  <2>1. (((NumberOf(high, FALSE) - s * SizeOf(Len(high))) \div SizeOf(Len(high) - k)) % WordSize) = high[k]
    BY <1>2, WordOfNumber
  <2> QED BY <2>1, <1>2, <1>3, <1>8
<1> DEFINE split == [k \in 1..n |-> ((value \div SizeOf(n - k)) % WordSize)]
<1>10. split = high
  <2>1. high = [k \in 1..n |-> high[k]]
    BY <1>2
  <2> QED BY <2>1, <1>9
<1>11. NumberToPayload(value, type) = IF type.reversed THEN Reverse(split) ELSE split
  BY DEF NumberToPayload
<1> HIDE DEF split
<1>12. (IF type.reversed THEN Reverse(high) ELSE high) = words
  <2>1. CASE type.reversed
    BY <2>1, ReverseTwice DEF high
  <2>2. CASE ~type.reversed
    BY <2>2 DEF high
  <2> QED BY <2>1, <2>2
<1> QED BY <1>10, <1>11, <1>12 DEF value

\* Which word a byte is in, and whether it is the first of its two.
LEMMA Halves ==
  ASSUME NEW n \in Nat, NEW i \in 1..(2 * n)
  PROVE  LET k == (i + 1) \div 2
         IN  k \in 1..n /\ ((i = 2 * (k - 1) + 1 /\ (i % 2) = 1) \/ (i = 2 * (k - 1) + 2 /\ (i % 2) = 0))
<1> DEFINE k == (i + 1) \div 2
           m == (i + 1) % 2
           h == i \div 2
           e == i % 2
<1>1. /\ k \in Int /\ m \in 0..1 /\ i + 1 = k * 2 + m
      /\ h \in Int /\ e \in 0..1 /\ i = h * 2 + e
  OBVIOUS
<1> HIDE DEF k, m, h, e
<1>2. k \in 1..n
  BY <1>1
<1>3. (e = 1 => i = 2 * (k - 1) + 1) /\ (e = 0 => i = 2 * (k - 1) + 2)
  BY <1>1
<1> QED BY <1>1, <1>2, <1>3 DEF e, k

\* The bytes that words were read from are their bytes again.
LEMMA BytesKept ==
  ASSUME NEW bytes \in Seq(0..(ByteSize - 1)), NEW n \in Nat, Len(bytes) = 2 * n,
         NEW words, words = [k \in 1..n |-> WordAt(bytes, 2 * (k - 1))]
  PROVE  BytesOfWords(words) = bytes
<1>1. ByteSize \in Nat /\ ByteSize >= 2 /\ Len(words) = n
  BY Sizes
<1>2. ASSUME NEW i \in 1..(2 * n) PROVE HiLo(words[(i + 1) \div 2])[2 - (i % 2)] = bytes[i]
  <2> DEFINE k == (i + 1) \div 2
             hi == bytes[2 * (k - 1) + 1]
             lo == bytes[2 * (k - 1) + 2]
  <2>1. k \in 1..n /\ ((i = 2 * (k - 1) + 1 /\ (i % 2) = 1) \/ (i = 2 * (k - 1) + 2 /\ (i % 2) = 0))
    BY Halves
  <2> HIDE DEF k
  <2>2. 2 * (k - 1) + 1 \in 1..Len(bytes) /\ 2 * (k - 1) + 2 \in 1..Len(bytes)
    BY <2>1
  <2>3. hi \in 0..(ByteSize - 1) /\ lo \in 0..(ByteSize - 1)
    BY <2>2, ElementOfSeq
  <2>4. words[k] = hi * ByteSize + lo
    BY <2>1 DEF WordAt
  <2> HIDE DEF hi, lo
  <2> DEFINE w == words[k]
  <2>5. w \div ByteSize = hi /\ (w % ByteSize) = lo
    <3>1. hi \in Int /\ ByteSize > 0
      BY <2>3, <1>1
    <3>2. (hi * ByteSize + lo) \div ByteSize = hi /\ ((hi * ByteSize + lo) % ByteSize) = lo
      BY <3>1, <2>3, <1>1, Quotient
    <3> QED BY <3>2, <2>4
  <2> HIDE DEF w
  <2>6. HiLo(w) = <<hi, lo>>
    BY <2>5 DEF HiLo
  <2>7. CASE i = 2 * (k - 1) + 1 /\ (i % 2) = 1
    <3>1. 2 - (i % 2) = 1 /\ hi = bytes[i]
      BY <2>7 DEF hi
    <3> QED BY <3>1, <2>6 DEF w, k
  <2>8. CASE i = 2 * (k - 1) + 2 /\ (i % 2) = 0
    <3>1. 2 - (i % 2) = 2 /\ lo = bytes[i]
      BY <2>8 DEF lo
    <3> QED BY <3>1, <2>6 DEF w, k
  <2> QED BY <2>1, <2>7, <2>8
<1>3. BytesOfWords(words) = [i \in 1..(2 * n) |-> HiLo(words[(i + 1) \div 2])[2 - (i % 2)]]
  BY <1>1 DEF BytesOfWords
<1>4. bytes = [i \in 1..(2 * n) |-> bytes[i]]
  <2> DEFINE m == Len(bytes)
             S == 0..(ByteSize - 1)
  <2> HIDE DEF S
  <2>1. bytes \in Seq(S)
    BY DEF S
  <2>2. m \in Nat /\ bytes \in [1..m -> S] /\ m = 2 * n
    BY <2>1
  <2> HIDE DEF m
  <2> QED BY <2>2
<1> QED BY <1>2, <1>3, <1>4

-----------------------------------------------------------------------------
(* The registers a controller serves.                                        *)

\* A list of registers: an address, a value type and a number each.
ServedList(server) ==
  /\ Len(server) \in Nat /\ DOMAIN server = 1..Len(server)
  /\ \A k \in 1..Len(server) :
       server[k].address \in Nat /\ server[k].value \in ValueTypes /\ "number" \in DOMAIN server[k]

\* The registers that are found are in ascending order, all below the address reached.
VisitsAscend(server, visited, address) ==
  /\ \A n \in 1..Len(visited) : visited[n] # 0 => server[visited[n]].address < address
  /\ \A m, n \in 1..Len(visited) : m < n /\ visited[m] # 0 /\ visited[n] # 0 =>
       server[visited[m]].address < server[visited[n]].address

\* The states of the loop over the addresses.
VisitSet(server) ==
  {r \in [address : Nat, visited : Seq(0..Len(server))] : VisitsAscend(server, r.visited, r.address)}

\* A register that is found has the address.
LEMMA AtFinds ==
  ASSUME NEW server, ServedList(server), NEW a
  PROVE  At(server, a) \in 0..Len(server) /\ (At(server, a) # 0 => server[At(server, a)].address = a)
<1> DEFINE found == {k \in DOMAIN server : server[k].address = a}
           first == CHOOSE k \in found : \A j \in found : k <= j
<1>1. Len(server) \in Nat /\ DOMAIN server = 1..Len(server)
  BY DEF ServedList
<1>2. At(server, a) = IF found = {} THEN 0 ELSE first
  BY DEF At
<1>3. CASE found = {}
  <2> HIDE DEF found, first
  <2> QED BY <1>1, <1>2, <1>3
<1>4. CASE found # {}
  <2>1. found \subseteq Nat
    BY <1>1
  <2>2. first \in found
    <3> HIDE DEF found
    <3>1. \E k \in found : \A j \in found : k <= j
      BY <1>4, <2>1, LeastElement
    <3> QED BY <3>1
  <2> HIDE DEF first
  <2>3. first \in 1..Len(server) /\ server[first].address = a
    BY <1>1, <2>2
  <2> HIDE DEF found
  <2> QED BY <1>1, <1>2, <1>4, <2>3
<1> QED BY <1>3, <1>4

\* A turn goes on in the same way.
LEMMA TurnKeeps ==
  ASSUME NEW server, ServedList(server), NEW end \in Nat, NEW r \in VisitSet(server)
  PROVE  Turn(server, end, r) \in VisitSet(server)
<1> DEFINE k == At(server, r.address)
           next == IF k = 0 THEN end ELSE r.address + server[k].value.words
           more == Append(r.visited, k)
           N == Len(r.visited)
<1>1. r.address \in Nat /\ r.visited \in Seq(0..Len(server)) /\ VisitsAscend(server, r.visited, r.address)
  BY DEF VisitSet
<1>2. k \in 0..Len(server) /\ (k # 0 => server[k].address = r.address)
  BY AtFinds
<1>3. Len(server) \in Nat /\ N \in Nat
  BY <1>1 DEF ServedList
<1>4. CASE r.address >= end
  BY <1>4 DEF Turn
<1>5. CASE ~(r.address >= end)
  <2> HIDE DEF k
  <2>1. k # 0 => server[k].value \in ValueTypes
    BY <1>2, <1>3 DEF ServedList
  <2>2. k # 0 => server[k].value.words \in {1, 2, 4}
    BY <2>1, TypesOf
  <2>3. next \in Nat /\ next > r.address
    BY <1>1, <1>5, <2>2
  <2>4. /\ more \in Seq(0..Len(server)) /\ Len(more) = N + 1
        /\ \A n \in 1..N : more[n] = r.visited[n]
        /\ more[N + 1] = k
    BY <1>1, <1>2
  <2> HIDE DEF next, more
  <2>5. \A n \in 1..N : r.visited[n] # 0 => server[r.visited[n]].address \in Nat
                                            /\ server[r.visited[n]].address < r.address
    <3> TAKE n \in 1..N
    <3> SUFFICES ASSUME r.visited[n] # 0
                 PROVE  server[r.visited[n]].address \in Nat /\ server[r.visited[n]].address < r.address
      OBVIOUS
    <3>1. r.visited[n] \in 0..Len(server)
      BY <1>1, ElementOfSeq
    <3>2. r.visited[n] \in 1..Len(server)
      BY <3>1, <1>3
    <3> QED BY <3>2, <1>1 DEF ServedList, VisitsAscend
  <2>6. VisitsAscend(server, more, next)
    <3>1. ASSUME NEW n \in 1..Len(more), more[n] # 0 PROVE server[more[n]].address < next
      <4>1. CASE n = N + 1
        BY <4>1, <3>1, <2>3, <2>4, <1>1, <1>2
      <4>2. CASE n # N + 1
        <5>1. n \in 1..N
          BY <4>2, <2>4, <1>3
        <5>2. more[n] = r.visited[n] /\ r.visited[n] # 0
          BY <5>1, <3>1, <2>4
        <5>3. server[more[n]].address \in Nat /\ server[more[n]].address < r.address
          BY <5>1, <5>2, <2>5
        <5> QED BY <5>3, <2>3, <1>1
      <4> QED BY <4>1, <4>2
    <3>2. ASSUME NEW m \in 1..Len(more), NEW n \in 1..Len(more), m < n, more[m] # 0, more[n] # 0
          PROVE  server[more[m]].address < server[more[n]].address
      <4>1. m \in 1..N
        BY <3>2, <2>4, <1>3
      <4>2. CASE n = N + 1
        BY <4>1, <4>2, <3>2, <2>4, <2>5, <1>2
      <4>3. CASE n # N + 1
        <5>1. n \in 1..N
          BY <4>3, <2>4, <1>3
        <5> QED BY <4>1, <5>1, <3>2, <2>4, <1>1 DEF VisitsAscend
      <4> QED BY <4>2, <4>3
    <3> QED BY <3>1, <3>2 DEF VisitsAscend
  <2>7. Turn(server, end, r) = [address |-> next, visited |-> more]
    BY <1>5 DEF Turn, k, next, more
  <2> QED BY <2>3, <2>4, <2>6, <2>7 DEF VisitSet
<1> QED BY <1>4, <1>5

\* The states of the loop over the addresses of a request.
Visiting(f, server, start, quantity) ==
  /\ f \in [0..quantity -> VisitSet(server)]
  /\ f[0] = [address |-> start, visited |-> <<>>]
  /\ \A n \in 1..quantity : f[n] = Turn(server, start + quantity, f[n - 1])

\* The registers visited are those of the loop's last state.
LEMMA VisitedIs ==
  ASSUME NEW server, ServedList(server), NEW start \in Nat, NEW quantity \in Nat
  PROVE  \E f : Visiting(f, server, start, quantity) /\ Visited(server, start, quantity) = f[quantity].visited
<1> DEFINE W == VisitSet(server)
           end == start + quantity
           first == [address |-> start, visited |-> <<>>]
           step == [n \in 1..quantity |-> [r \in W |-> Turn(server, end, r)]]
           Solves(f) == f = [n \in 0..quantity |-> IF n = 0 THEN first ELSE Turn(server, end, f[n - 1])]
<1>1. first \in W
  BY DEF VisitSet, VisitsAscend
<1>2. end \in Nat /\ \A r \in W : Turn(server, end, r) \in W
  BY TurnKeeps
<1> HIDE DEF W, end, first
<1>3. PICK f \in [0..quantity -> W] : Recursion(f, quantity, first, step)
  <2>1. step \in [1..quantity -> [W -> W]]
    BY <1>2
  <2> HIDE DEF step
  <2> QED BY <2>1, <1>1, RecursionExists
<1>4. f[0] = first /\ \A n \in 1..quantity : f[n] = Turn(server, end, f[n - 1])
  <2>1. f[0] = first /\ \A n \in 1..quantity : f[n] = step[n][f[n - 1]]
    BY <1>3 DEF Recursion
  <2>2. \A n \in 1..quantity : f[n - 1] \in W
    BY <1>3
  <2> QED BY <2>1, <2>2
<1>5. Solves(f)
  BY <1>3, <1>4
<1> DEFINE reached == CHOOSE g : Solves(g)
<1>6. Solves(reached)
  <2> HIDE DEF Solves
  <2> QED BY <1>5
<1>7. Visited(server, start, quantity) = reached[quantity].visited
  BY DEF Visited, first, end
<1> HIDE DEF reached
<1>8. reached[0] = first /\ \A n \in 1..quantity : reached[n] = Turn(server, end, reached[n - 1])
  BY <1>6
<1> DEFINE G == {n \in 0..quantity : reached[n] = f[n]}
<1>9. 0 \in G /\ \A n \in 1..quantity : n - 1 \in G => n \in G
  BY <1>4, <1>8
<1> HIDE DEF G
<1>10. quantity \in G
  <2>1. \A n \in 0..quantity : n \in G
    BY <1>9, UpTo
  <2> QED BY <2>1
<1>11. reached[quantity] = f[quantity]
  BY <1>10 DEF G
<1>12. Visiting(f, server, start, quantity)
  BY <1>3, <1>4 DEF Visiting, W, first, end
<1> QED BY <1>7, <1>11, <1>12

\* No register is visited twice.
VisitedOnce(visited) ==
  \A m, n \in 1..Len(visited) : visited[m] = visited[n] /\ visited[m] # 0 => m = n

\* The registers visited are registers of the list, each once.
LEMMA VisitedType ==
  ASSUME NEW server, ServedList(server), NEW start \in Nat, NEW quantity \in Nat
  PROVE  /\ Visited(server, start, quantity) \in Seq(0..Len(server))
         /\ VisitedOnce(Visited(server, start, quantity))
<1> DEFINE visited == Visited(server, start, quantity)
<1>1. PICK f : Visiting(f, server, start, quantity) /\ visited = f[quantity].visited
  BY VisitedIs
<1>2. f[quantity] \in VisitSet(server)
  BY <1>1 DEF Visiting
<1>3. visited \in Seq(0..Len(server)) /\ VisitsAscend(server, visited, f[quantity].address)
  BY <1>1, <1>2 DEF VisitSet
<1> HIDE DEF visited
<1>4. Len(visited) \in Nat /\ Len(server) \in Nat
  BY <1>3 DEF ServedList
<1>5. ASSUME NEW m \in 1..Len(visited), NEW n \in 1..Len(visited), m < n, visited[m] # 0, visited[n] = visited[m]
      PROVE  FALSE
  <2>1. visited[m] \in 0..Len(server)
    BY <1>3, ElementOfSeq
  <2>2. visited[m] \in 1..Len(server)
    BY <2>1, <1>4, <1>5
  <2>3. server[visited[m]].address \in Nat
    BY <2>2 DEF ServedList
  <2>4. server[visited[m]].address < server[visited[m]].address
    BY <1>3, <1>5 DEF VisitsAscend
  <2> QED BY <2>3, <2>4
<1>6. VisitedOnce(visited)
  BY <1>4, <1>5 DEF VisitedOnce
<1> QED BY <1>3, <1>6 DEF visited

\* Lists of registers that are the same but for the numbers in them.
SamePlaces(server, other) ==
  /\ Len(other) = Len(server)
  /\ \A k \in 1..Len(server) : other[k].address = server[k].address /\ other[k].value = server[k].value

\* The same registers are found at the same addresses.
LEMMA AtSame ==
  ASSUME NEW server, ServedList(server), NEW other, ServedList(other),
         SamePlaces(server, other), NEW a
  PROVE  At(other, a) = At(server, a)
<1>1. DOMAIN server = 1..Len(server) /\ DOMAIN other = 1..Len(server)
  BY DEF SamePlaces, ServedList
<1> DEFINE found == {k \in DOMAIN server : server[k].address = a}
           others == {k \in DOMAIN other : other[k].address = a}
<1>2. others = found
  BY <1>1 DEF SamePlaces
<1>3. At(server, a) = IF found = {} THEN 0 ELSE CHOOSE k \in found : \A j \in found : k <= j
  BY DEF At
<1>4. At(other, a) = IF others = {} THEN 0 ELSE CHOOSE k \in others : \A j \in others : k <= j
  BY DEF At
<1> HIDE DEF found, others
<1> QED BY <1>2, <1>3, <1>4

\* The same registers are visited.
LEMMA VisitedSame ==
  ASSUME NEW server, ServedList(server), NEW other, ServedList(other),
         SamePlaces(server, other), NEW start \in Nat, NEW quantity \in Nat
  PROVE  Visited(other, start, quantity) = Visited(server, start, quantity)
<1>1. PICK f : Visiting(f, server, start, quantity) /\ Visited(server, start, quantity) = f[quantity].visited
  BY VisitedIs
<1>2. PICK g : Visiting(g, other, start, quantity) /\ Visited(other, start, quantity) = g[quantity].visited
  BY VisitedIs
<1>3. ASSUME NEW r, NEW end PROVE Turn(other, end, r) = Turn(server, end, r)
  <2> DEFINE k == At(server, r.address)
  <2>1. At(other, r.address) = k
    BY AtSame
  <2>2. k \in 0..Len(server)
    BY AtFinds
  <2> HIDE DEF k
  <2>3. k # 0 => other[k].value = server[k].value
    BY <2>2 DEF SamePlaces
  <2>4. Turn(other, end, r) = IF r.address >= end THEN r
          ELSE [address |-> IF k = 0 THEN end ELSE r.address + other[k].value.words,
                visited |-> Append(r.visited, k)]
    BY <2>1 DEF Turn
  <2>5. Turn(server, end, r) = IF r.address >= end THEN r
          ELSE [address |-> IF k = 0 THEN end ELSE r.address + server[k].value.words,
                visited |-> Append(r.visited, k)]
    BY DEF Turn, k
  <2>6. CASE k = 0
    BY <2>4, <2>5, <2>6
  <2>7. CASE k # 0
    <3>1. other[k].value = server[k].value
      BY <2>3, <2>7
    <3> HIDE DEF SamePlaces
    <3> QED BY ONLY <3>1, <2>4, <2>5, <2>7
  <2> QED BY <2>6, <2>7
<1> DEFINE G == {n \in 0..quantity : g[n] = f[n]}
<1>4. 0 \in G
  BY <1>1, <1>2 DEF Visiting
<1>5. ASSUME NEW n \in 1..quantity, n - 1 \in G PROVE n \in G
  BY <1>1, <1>2, <1>3, <1>5 DEF Visiting
<1> HIDE DEF G
<1>6. quantity \in G
  <2>1. \A n \in 0..quantity : n \in G
    BY <1>4, <1>5, UpTo
  <2> QED BY <2>1
<1> QED BY <1>1, <1>2, <1>6 DEF G

-----------------------------------------------------------------------------
(* Registers that are written read back.                                     *)

\* The words of the registers visited, and their sums: g[n] words up to the n-th.
WordsOfVisited(server, visited) == [n \in 1..Len(visited) |-> server[visited[n]].value.words]
WordSums(g, server, visited) ==
  /\ Sums(g, Len(visited), WordsOfVisited(server, visited))
  /\ \A n \in 1..(Len(visited) + 1) : WordsBefore(server, visited, n) = g[n - 1]

\* Registers of the list, each visited once.
VisitList(server, visited) ==
  /\ visited \in Seq(0..Len(server)) /\ AllThere(visited) /\ VisitedOnce(visited)

\* Each of them is there, and has one, two or four words.
LEMMA VisitedThere ==
  ASSUME NEW server, ServedList(server), NEW visited, VisitList(server, visited), NEW n \in 1..Len(visited)
  PROVE  /\ visited[n] \in 1..Len(server) /\ server[visited[n]].value \in ValueTypes
         /\ server[visited[n]].value.words \in {1, 2, 4}
<1>1. visited[n] \in 0..Len(server) /\ DOMAIN visited = 1..Len(visited)
  BY ElementOfSeq DEF VisitList
<1>2. visited[n] # 0
  BY <1>1 DEF VisitList, AllThere
<1>3. visited[n] \in 1..Len(server) /\ server[visited[n]].value \in ValueTypes
  BY <1>1, <1>2 DEF ServedList
<1> QED BY <1>3, TypesOf

\* WordsBefore adds up the words.
LEMMA WordSumsExist ==
  ASSUME NEW server, ServedList(server), NEW visited, VisitList(server, visited)
  PROVE  \E g : WordSums(g, server, visited)
<1> DEFINE N == Len(visited)
           v == WordsOfVisited(server, visited)
<1>1. N \in Nat
  BY DEF VisitList
<1>2. v \in [1..N -> Nat]
  <2>1. \A n \in 1..N : server[visited[n]].value.words \in Nat
    BY VisitedThere
  <2> QED BY <2>1 DEF WordsOfVisited
<1>3. \A n \in 1..N : v[n] = server[visited[n]].value.words
  BY DEF WordsOfVisited
<1> HIDE DEF N, v
<1>4. PICK g : Sums(g, N, v)
  BY <1>1, <1>2, SumsExist
<1>5. g \in [0..N -> Nat] /\ g[0] = 0 /\ \A k \in 1..N : g[k] = g[k - 1] + v[k]
  BY <1>4 DEF Sums, SumsUp
<1>6. ASSUME NEW n \in 1..(N + 1) PROVE WordsBefore(server, visited, n) = g[n - 1]
  <2> DEFINE Solves(f) == f = [k \in 0..(n - 1) |->
               IF k = 0 THEN 0 ELSE f[k - 1] + server[visited[k]].value.words]
             sum == CHOOSE f : Solves(f)
             part == [k \in 0..(n - 1) |-> g[k]]
  <2>1. n - 1 \in Nat /\ n - 1 <= N
    BY <1>1
  <2>2. Solves(part)
    <3>1. ASSUME NEW k \in 0..(n - 1)
          PROVE  g[k] = IF k = 0 THEN 0 ELSE part[k - 1] + server[visited[k]].value.words
      <4>1. CASE k = 0
        BY <4>1, <1>5
      <4>2. CASE k # 0
        <5>1. k \in 1..N /\ k - 1 \in 0..(n - 1)
          BY <4>2, <2>1, <1>1
        <5>2. part[k - 1] = g[k - 1]
          BY <5>1
        <5> HIDE DEF part
        <5> QED BY <5>1, <5>2, <4>2, <1>3, <1>5
      <4> QED BY <4>1, <4>2
    <3> QED BY <3>1
  <2>3. Solves(sum)
    <3> HIDE DEF Solves, part
    <3> QED BY <2>2
  <2>4. WordsBefore(server, visited, n) = sum[n - 1]
    BY DEF WordsBefore
  <2> HIDE DEF sum
  <2>5. sum[0] = 0 /\ \A k \in 1..(n - 1) : sum[k] = sum[k - 1] + server[visited[k]].value.words
    BY <2>1, <2>3
  <2> DEFINE G == {k \in 0..(n - 1) : sum[k] = g[k]}
  <2>6. 0 \in G
    BY <2>1, <2>5, <1>5
  <2>7. ASSUME NEW k \in 1..(n - 1), k - 1 \in G PROVE k \in G
    <3>1. k \in 1..N /\ k \in 0..(n - 1)
      BY <2>1, <1>1
    <3>2. sum[k - 1] = g[k - 1]
      BY <2>7
    <3>3. sum[k] = g[k]
      BY <3>1, <3>2, <2>5, <1>3, <1>5
    <3> QED BY <3>1, <3>3
  <2> HIDE DEF G
  <2>8. n - 1 \in G
    <3>1. \A k \in 0..(n - 1) : k \in G
      BY <2>1, <2>6, <2>7, UpTo
    <3> QED BY <3>1, <2>1
  <2> QED BY <2>4, <2>8 DEF G
<1>7. WordSums(g, server, visited)
  BY <1>4, <1>6 DEF WordSums, N, v
<1> QED BY <1>7

\* A sum is no more than the last.
LEMMA SumsGrow ==
  ASSUME NEW N \in Nat, NEW v \in [1..N -> Nat], NEW g, Sums(g, N, v), NEW n \in 0..N
  PROVE  g[n] <= g[N]
<1> DEFINE G == {k \in 0..N : n <= k => g[n] <= g[k]}
<1>1. g \in [0..N -> Nat] /\ g[0] = 0 /\ \A k \in 1..N : g[k] = g[k - 1] + v[k]
  BY DEF Sums, SumsUp
<1>2. 0 \in G
  BY <1>1
<1>3. ASSUME NEW k \in 1..N, k - 1 \in G PROVE k \in G
  <2>1. g[k - 1] \in Nat /\ v[k] \in Nat /\ g[k] = g[k - 1] + v[k] /\ g[n] \in Nat
    BY <1>1
  <2>2. n <= k - 1 => g[n] <= g[k - 1]
    BY <1>3
  <2>3. n <= k => n = k \/ n <= k - 1
    OBVIOUS
  <2> QED BY <2>1, <2>2, <2>3
<1> HIDE DEF G
<1>4. \A k \in 0..N : k \in G
  BY <1>2, <1>3, UpTo
<1>5. N \in G
  BY <1>4
<1> QED BY <1>5 DEF G

\* The n-th register visited has the number that its words of the request stand for.
HoldsItsNumber(server, visited, bytes, g, n, upto) ==
  Stored(server, visited, bytes, upto)[visited[n]] =
    [server[visited[n]] EXCEPT !.number =
       PayloadToNumber(bytes, server[visited[n]].value, 2 * g[n - 1], AllBits)]

\* What the registers visited hold once they are stored up to one: each its own words.
LEMMA StoredNumbers ==
  ASSUME NEW server, ServedList(server), NEW visited, VisitList(server, visited), NEW bytes,
         NEW g, WordSums(g, server, visited), NEW n \in 1..Len(visited),
         NEW upto \in Nat, n <= upto, upto <= Len(visited)
  PROVE  HoldsItsNumber(server, visited, bytes, g, n, upto)
<1> DEFINE k == visited[n]
           at == {m \in 1..upto : visited[m] = k}
<1>1. upto \in Nat /\ Len(visited) \in Nat /\ n \in 1..Len(visited) /\ n \in 1..(Len(visited) + 1)
  BY DEF VisitList
<1>2. k \in 1..Len(server) /\ k # 0 /\ k \in DOMAIN server
  <2>1. visited[n] \in 1..Len(server)
    BY <1>1, VisitedThere
  <2>2. Len(server) \in Nat /\ DOMAIN server = 1..Len(server)
    BY DEF ServedList
  <2> QED BY <2>1, <2>2
<1>3. at = {n}
  <2>1. \A m \in 1..upto : m \in 1..Len(visited)
    BY <1>1
  <2> QED BY <1>1, <1>2, <2>1 DEF VisitList, VisitedOnce
<1>4. (CHOOSE m \in at : TRUE) = n
  <2> HIDE DEF at
  <2> QED BY <1>3
<1>5. WordsBefore(server, visited, n) = g[n - 1]
  BY <1>1 DEF WordSums
<1>6. Stored(server, visited, bytes, upto)[k] =
        IF at = {} THEN server[k]
        ELSE [server[k] EXCEPT !.number =
                WrittenNumber(server, visited, bytes, CHOOSE m \in at : TRUE)]
  <2> HIDE DEF k
  <2> QED BY <1>2 DEF Stored
<1> HIDE DEF at
<1>7. Stored(server, visited, bytes, upto)[k] =
        [server[k] EXCEPT !.number = WrittenNumber(server, visited, bytes, n)]
  BY <1>3, <1>4, <1>6
<1>8. WrittenNumber(server, visited, bytes, n) =
        PayloadToNumber(bytes, server[visited[n]].value, 2 * g[n - 1], AllBits)
  BY <1>5 DEF WrittenNumber
<1> QED BY <1>7, <1>8 DEF HoldsItsNumber

\* The registers that were not visited up to there are as they were.
LEMMA StoredOthers ==
  ASSUME NEW server, NEW visited, NEW bytes, NEW upto, NEW k \in DOMAIN server,
         \A m \in 1..upto : visited[m] # k
  PROVE  Stored(server, visited, bytes, upto)[k] = server[k]
<1>1. {m \in 1..upto : visited[m] = k} = {}
  OBVIOUS
<1> QED BY <1>1 DEF Stored

\* Only the numbers of the registers change.
LEMMA StoredPlaces ==
  ASSUME NEW server, ServedList(server), NEW visited, NEW bytes, NEW upto
  PROVE  /\ ServedList(Stored(server, visited, bytes, upto))
         /\ SamePlaces(server, Stored(server, visited, bytes, upto))
<1> DEFINE other == Stored(server, visited, bytes, upto)
<1>1. Len(server) \in Nat /\ DOMAIN server = 1..Len(server)
  BY DEF ServedList
<1>2. DOMAIN other = 1..Len(server) /\ Len(other) = Len(server)
  <2>1. DOMAIN other = 1..Len(server)
    BY <1>1 DEF Stored
  <2> HIDE DEF other
  <2> QED BY <2>1, <1>1
<1>3. ASSUME NEW k \in 1..Len(server)
      PROVE  /\ other[k].address = server[k].address /\ other[k].value = server[k].value
             /\ DOMAIN other[k] = DOMAIN server[k]
  <2> DEFINE at == {n \in 1..upto : visited[n] = k}
             x == WrittenNumber(server, visited, bytes, CHOOSE m \in at : TRUE)
  <2>1. other[k] = IF at = {} THEN server[k] ELSE [server[k] EXCEPT !.number = x]
    BY <1>1 DEF Stored
  <2> HIDE DEF other, at, x
  <2>2. [server[k] EXCEPT !.number = x].address = server[k].address
        /\ [server[k] EXCEPT !.number = x].value = server[k].value
        /\ DOMAIN [server[k] EXCEPT !.number = x] = DOMAIN server[k]
    OBVIOUS
  <2> QED BY <2>1, <2>2
<1> HIDE DEF other
<1>4. SamePlaces(server, other)
  BY <1>2, <1>3 DEF SamePlaces
<1>5. ServedList(other)
  BY <1>1, <1>2, <1>3 DEF ServedList
<1> QED BY <1>4, <1>5 DEF other

\* Two bytes make a word.
LEMMA WordType ==
  ASSUME NEW bytes \in Seq(0..(ByteSize - 1)), NEW i \in Nat, i + 2 <= Len(bytes)
  PROVE  WordAt(bytes, i) \in 0..(WordSize - 1)
<1> DEFINE hi == bytes[i + 1]
           lo == bytes[i + 2]
<1>1. ByteSize \in Nat /\ ByteSize >= 2 /\ WordSize = ByteSize * ByteSize /\ WordSize \in Nat
  BY Sizes
<1>2. i + 1 \in 1..Len(bytes) /\ i + 2 \in 1..Len(bytes)
  OBVIOUS
<1>3. hi \in 0..(ByteSize - 1) /\ lo \in 0..(ByteSize - 1)
  BY <1>2, ElementOfSeq
<1>4. WordAt(bytes, i) = hi * ByteSize + lo
  BY DEF WordAt
<1> HIDE DEF hi, lo
<1>5. \A b, x, y \in Nat : x < b /\ y < b => x * b + y \in Nat /\ x * b + y < b * b
  <2> SUFFICES ASSUME NEW b \in Nat, NEW x \in Nat, NEW y \in Nat, x < b, y < b
               PROVE  x * b + y \in Nat /\ x * b + y < b * b
    OBVIOUS
  <2>1. b * b = x * b + b + (b - x - 1) * b /\ (b - x - 1) * b \in Nat /\ x * b \in Nat
    <3>1. b - x - 1 \in Nat
      OBVIOUS
    <3> QED BY <3>1
  <2> QED BY <2>1
<1>6. hi \in Nat /\ lo \in Nat /\ hi < ByteSize /\ lo < ByteSize
  BY <1>1, <1>3
<1>7. hi * ByteSize + lo \in Nat /\ hi * ByteSize + lo < ByteSize * ByteSize
  BY <1>1, <1>5, <1>6
<1> QED BY <1>1, <1>4, <1>7

\* The words from the a-th on.
Slice(bytes, a, w) == [j \in 1..w |-> WordAt(bytes, 2 * (a + j - 1))]

\* A slice is that many words.
LEMMA SliceType ==
  ASSUME NEW bytes \in Seq(0..(ByteSize - 1)), NEW a \in Nat, NEW w \in Nat, 2 * (a + w) <= Len(bytes)
  PROVE  Slice(bytes, a, w) \in Seq(0..(WordSize - 1)) /\ Len(Slice(bytes, a, w)) = w
<1> DEFINE S == 0..(WordSize - 1)
           f == Slice(bytes, a, w)
<1>1. ASSUME NEW j \in 1..w PROVE WordAt(bytes, 2 * (a + j - 1)) \in S
  <2> DEFINE i == 2 * (a + j - 1)
  <2>1. Len(bytes) \in Nat /\ i \in Nat /\ i + 2 <= Len(bytes)
    OBVIOUS
  <2> HIDE DEF i
  <2>2. WordAt(bytes, i) \in 0..(WordSize - 1)
    BY <2>1, WordType
  <2> QED BY <2>2 DEF i
<1> HIDE DEF S
<1>2. f \in [1..w -> S]
  BY <1>1 DEF Slice
<1> HIDE DEF f
<1>3. f \in Seq(S) /\ Len(f) = w
  BY <1>2, FunctionSeq
<1> QED BY <1>3 DEF f, S

\* Two slices in a row are one.
LEMMA SlicesJoin ==
  ASSUME NEW bytes \in Seq(0..(ByteSize - 1)), NEW a \in Nat, NEW w \in Nat, 2 * (a + w) <= Len(bytes)
  PROVE  Slice(bytes, 0, a) \o Slice(bytes, a, w) = Slice(bytes, 0, a + w)
<1> DEFINE S == 0..(WordSize - 1)
           f == Slice(bytes, 0, a)
           g == Slice(bytes, a, w)
           h == Slice(bytes, 0, a + w)
<1>1. Len(bytes) \in Nat /\ a + w \in Nat /\ 0 \in Nat /\ 2 * (0 + a) <= Len(bytes) /\ 2 * (0 + (a + w)) <= Len(bytes)
  OBVIOUS
<1>2. f \in Seq(S) /\ Len(f) = a
  BY <1>1, SliceType
<1>3. g \in Seq(S) /\ Len(g) = w
  BY SliceType
<1>4. h \in Seq(S) /\ Len(h) = a + w
  BY <1>1, SliceType
<1>5. /\ \A j \in 1..a : f[j] = WordAt(bytes, 2 * (0 + j - 1))
      /\ \A j \in 1..w : g[j] = WordAt(bytes, 2 * (a + j - 1))
      /\ \A j \in 1..(a + w) : h[j] = WordAt(bytes, 2 * (0 + j - 1))
  BY DEF Slice
<1> HIDE DEF f, g, h, S
<1>6. f \o g \in Seq(S) /\ Len(f \o g) = a + w
  BY <1>2, <1>3
<1>7. ASSUME NEW j \in 1..(a + w) PROVE (f \o g)[j] = h[j]
  <2>1. CASE j <= a
    <3>1. j \in 1..a /\ (f \o g)[j] = f[j]
      BY <2>1, <1>2, <1>3
    <3> QED BY <3>1, <1>5
  <2>2. CASE j > a
    <3>1. j - a \in 1..w /\ (f \o g)[j] = g[j - a]
      BY <2>2, <1>2, <1>3
    <3>2. 2 * (a + (j - a) - 1) = 2 * (0 + j - 1)
      OBVIOUS
    <3>3. g[j - a] = WordAt(bytes, 2 * (a + (j - a) - 1))
      BY <3>1, <1>5
    <3> QED BY <3>1, <3>2, <3>3, <1>5
  <2>3. j <= a \/ j > a
    OBVIOUS
  <2> QED BY <2>1, <2>2, <2>3
<1>8. f \o g = h
  BY <1>4, <1>6, <1>7, SeqEqual
<1> QED BY <1>8 DEF f, g, h

\* Flattening joins one sequence after the other.
Concatenates(h, seqs) ==
  /\ DOMAIN h = 1..Len(seqs) /\ h = [i \in 1..Len(seqs) |-> h[i]]
  /\ h[1] = seqs[1]
  /\ \A i \in 2..Len(seqs) : h[i] = h[i - 1] \o seqs[i]

\* That is what FlattenSeq gives.
LEMMA FlattenIs ==
  ASSUME NEW seqs, Len(seqs) \in Nat, Len(seqs) > 0, NEW h, Concatenates(h, seqs)
  PROVE  FlattenSeq(seqs) = h[Len(seqs)]
<1> DEFINE N == Len(seqs)
           Solves(f) == f = [i \in 1..N |-> IF i = 1 THEN seqs[i] ELSE f[i - 1] \o seqs[i]]
           flatten == CHOOSE f : Solves(f)
<1>1. FlattenSeq(seqs) = flatten[N]
  BY DEF FlattenSeq
<1>2. Solves(h)
  <2>1. ASSUME NEW i \in 1..N PROVE h[i] = IF i = 1 THEN seqs[i] ELSE h[i - 1] \o seqs[i]
    <3>1. CASE i = 1
      BY <3>1 DEF Concatenates
    <3>2. CASE i # 1
      <4>1. i \in 2..Len(seqs)
        BY <3>2
      <4> QED BY <4>1, <3>2 DEF Concatenates
    <3> QED BY <3>1, <3>2
  <2> QED BY <2>1 DEF Concatenates
<1>3. Solves(flatten)
  <2> HIDE DEF Solves
  <2> QED BY <1>2
<1> HIDE DEF flatten
<1>4. \A i \in 1..N : flatten[i] = IF i = 1 THEN seqs[i] ELSE flatten[i - 1] \o seqs[i]
  BY <1>3
<1> DEFINE G == {i \in 0..(N - 1) : flatten[i + 1] = h[i + 1]}
<1>5. 0 \in G
  BY <1>4 DEF Concatenates
<1>6. ASSUME NEW i \in 1..(N - 1), i - 1 \in G PROVE i \in G
  <2>1. flatten[i] = h[i]
    BY <1>6
  <2>2. i + 1 \in 2..N /\ i + 1 # 1 /\ (i + 1) - 1 = i
    OBVIOUS
  <2>3. flatten[i + 1] = flatten[i] \o seqs[i + 1]
    <3>1. i + 1 \in 1..N /\ flatten[(i + 1) - 1] = flatten[i]
      BY <2>2
    <3> QED BY <3>1, <2>2, <1>4
  <2>4. h[i + 1] = h[i] \o seqs[i + 1]
    <3>1. h[i + 1] = h[(i + 1) - 1] \o seqs[i + 1]
      BY <2>2 DEF Concatenates
    <3>2. h[(i + 1) - 1] = h[i]
      BY <2>2
    <3> QED BY <3>1, <3>2
  <2>5. flatten[i + 1] = h[i + 1]
    BY <2>1, <2>3, <2>4
  <2> QED BY <2>5
<1> HIDE DEF G
<1>7. N - 1 \in G
  <2>1. N - 1 \in Nat
    OBVIOUS
  <2>2. \A i \in 0..(N - 1) : i \in G
    BY <2>1, <1>5, <1>6, UpTo
  <2> QED BY <2>1, <2>2
<1>8. flatten[(N - 1) + 1] = h[(N - 1) + 1] /\ (N - 1) + 1 = N
  BY <1>7 DEF G
<1> QED BY <1>1, <1>8

\* The words that a register gives back.
GivesBack(server, k) == NumberToPayload(server[k].number, server[k].value)

\* What is read from the registers visited once a request is stored.
ReadBack(server, visited, bytes) ==
  LET stored == Stored(server, visited, bytes, Len(visited))
  IN  [n \in DOMAIN visited |-> GivesBack(stored, visited[n])]

\* Each register gives back the words it was given.
LEMMA SliceKept ==
  ASSUME NEW server, ServedList(server), NEW visited, VisitList(server, visited),
         NEW bytes \in Seq(0..(ByteSize - 1)), NEW g, WordSums(g, server, visited),
         Len(bytes) = 2 * g[Len(visited)], NEW upto \in 0..Len(visited), NEW n \in 1..upto
  PROVE  /\ g[n - 1] \in Nat /\ server[visited[n]].value.words \in Nat
         /\ g[n] = g[n - 1] + server[visited[n]].value.words /\ 2 * g[n] <= Len(bytes)
         /\ GivesBack(Stored(server, visited, bytes, upto), visited[n])
              = Slice(bytes, g[n - 1], server[visited[n]].value.words)
<1> DEFINE N == Len(visited)
           v == WordsOfVisited(server, visited)
           k == visited[n]
           type == server[k].value
           w == type.words
           a == g[n - 1]
           stored == Stored(server, visited, bytes, upto)
           x == PayloadToNumber(bytes, type, 2 * a, AllBits)
<1>1. N \in Nat /\ DOMAIN visited = 1..N /\ upto \in Nat /\ n \in 1..N
  BY DEF VisitList
<1>2. k \in 1..Len(server) /\ type \in ValueTypes /\ w \in {1, 2, 4}
  BY <1>1, VisitedThere
<1>3. v \in [1..N -> Nat] /\ v[n] = w
  <2>1. ASSUME NEW m \in 1..Len(visited) PROVE server[visited[m]].value.words \in Nat
    <3>1. server[visited[m]].value.words \in {1, 2, 4}
      BY VisitedThere
    <3> QED BY <3>1
  <2> QED BY <2>1, <1>1 DEF WordsOfVisited
<1>4. Sums(g, N, v)
  BY DEF WordSums
<1>5. g \in [0..N -> Nat] /\ g[n] = g[n - 1] + w
  <2> HIDE DEF v, w
  <2> QED BY <1>3, <1>4 DEF Sums, SumsUp
<1>6. g[n] <= g[N]
  <2>1. n \in 0..N
    BY <1>1
  <2> HIDE DEF v
  <2> QED BY <2>1, <1>1, <1>3, <1>4, SumsGrow
<1>7. a \in Nat /\ g[n] \in Nat /\ g[N] \in Nat /\ w \in Nat
  <2>1. n - 1 \in 0..N /\ n \in 0..N /\ N \in 0..N
    BY <1>1
  <2>2. w \in Nat
    BY <1>2
  <2> HIDE DEF w, v
  <2> QED BY <2>1, <2>2, <1>5
<1>8. 2 * (a + w) <= Len(bytes) /\ Len(bytes) \in Nat /\ 2 * a + 2 * w <= Len(bytes) /\ 2 * a \in Nat
  <2> HIDE DEF w
  <2>1. g[n] = a + w
    BY <1>5
  <2> HIDE DEF a
  <2> QED BY <2>1, <1>6, <1>7
<1> DEFINE words == Slice(bytes, a, w)
<1>9. words \in Seq(0..(WordSize - 1)) /\ Len(words) = w
  <2> HIDE DEF a, w
  <2> QED BY <1>7, <1>8, SliceType
<1>10. \A j \in 1..w : WordAt(bytes, 2 * a + 2 * (j - 1)) = words[j]
  <2> HIDE DEF a, w
  <2> TAKE j \in 1..w
  <2>1. 2 * a + 2 * (j - 1) = 2 * (a + j - 1)
    BY <1>7
  <2>2. words[j] = WordAt(bytes, 2 * (a + j - 1))
    BY DEF Slice
  <2> QED BY <2>1, <2>2
<1>11. NumberToPayload(x, type) = words
  <2> HIDE DEF a, words, type
  <2>1. Len(words) = type.words /\ 2 * a + 2 * type.words <= Len(bytes) /\ type \in ValueTypes
    BY <1>2, <1>8, <1>9
  <2>2. \A j \in 1..type.words : WordAt(bytes, 2 * a + 2 * (j - 1)) = words[j]
    BY <1>10
  <2> QED BY <2>1, <2>2, <1>8, <1>9, NumberKept
<1>12. stored[k] = [server[k] EXCEPT !.number = x]
  <2>1. n \in 1..Len(visited) /\ upto \in Nat /\ n <= upto /\ upto <= Len(visited)
    BY <1>1
  <2>2. HoldsItsNumber(server, visited, bytes, g, n, upto)
    BY <2>1, StoredNumbers
  <2> QED BY <2>2 DEF HoldsItsNumber
<1>13. stored[k].number = x /\ stored[k].value = type
  <2>1. "number" \in DOMAIN server[k]
    BY <1>2 DEF ServedList
  <2> HIDE DEF stored, x
  <2>2. [server[k] EXCEPT !.number = x].number = x /\ [server[k] EXCEPT !.number = x].value = server[k].value
    BY <2>1
  <2> QED BY <2>2, <1>12
<1>14. GivesBack(stored, k) = NumberToPayload(stored[k].number, stored[k].value)
  BY DEF GivesBack
<1> HIDE DEF x, stored, words, a
<1> QED BY <1>5, <1>7, <1>8, <1>11, <1>13, <1>14 DEF words, a, stored

\* Together they give back the bytes.
LEMMA AllKept ==
  ASSUME NEW server, ServedList(server), NEW visited, VisitList(server, visited),
         NEW bytes \in Seq(0..(ByteSize - 1)), NEW g, WordSums(g, server, visited),
         Len(bytes) = 2 * g[Len(visited)]
  PROVE  BytesOfWords(FlattenSeq(ReadBack(server, visited, bytes))) = bytes
<1> DEFINE N == Len(visited)
           seqs == ReadBack(server, visited, bytes)
           W(n) == server[visited[n]].value.words
<1>1. N \in Nat /\ DOMAIN seqs = 1..N /\ Len(seqs) = N
  <2>1. N \in Nat /\ DOMAIN visited = 1..N
    BY DEF VisitList
  <2>2. DOMAIN seqs = 1..N
    BY <2>1 DEF ReadBack
  <2> HIDE DEF seqs
  <2> QED BY <2>1, <2>2
<1>2. \A n \in 1..N : /\ g[n - 1] \in Nat /\ W(n) \in Nat /\ g[n] = g[n - 1] + W(n) /\ 2 * g[n] <= Len(bytes)
                      /\ seqs[n] = Slice(bytes, g[n - 1], W(n))
  <2> TAKE n \in 1..N
  <2>1. N \in 0..N
    BY <1>1
  <2>2. /\ g[n - 1] \in Nat /\ W(n) \in Nat /\ g[n] = g[n - 1] + W(n) /\ 2 * g[n] <= Len(bytes)
        /\ GivesBack(Stored(server, visited, bytes, N), visited[n]) = Slice(bytes, g[n - 1], W(n))
    BY <2>1, <1>1, SliceKept
  <2>3. n \in DOMAIN visited
    BY DEF VisitList
  <2>4. seqs[n] = GivesBack(Stored(server, visited, bytes, N), visited[n])
    BY <2>3 DEF ReadBack
  <2> QED BY <2>2, <2>4
<1>3. g[0] = 0 /\ g \in [0..N -> Nat]
  BY DEF WordSums, Sums, SumsUp
<1> HIDE DEF N, seqs, W
<1>4. CASE N = 0
  <2>1. Len(bytes) = 0
    BY <1>3, <1>4 DEF N
  <2>2. FlattenSeq(seqs) = seqs
    BY <1>1, <1>4 DEF FlattenSeq
  <2>3. BytesOfWords(seqs) = [i \in 1..0 |-> HiLo(seqs[(i + 1) \div 2])[2 - (i % 2)]]
    BY <1>1, <1>4 DEF BytesOfWords
  <2>4. [i \in 1..0 |-> HiLo(seqs[(i + 1) \div 2])[2 - (i % 2)]] = <<>>
    OBVIOUS
  <2>5. bytes = <<>>
    BY <2>1
  <2> QED BY <2>2, <2>3, <2>4, <2>5 DEF seqs
<1>5. CASE N > 0
  <2> DEFINE h == [i \in 1..N |-> Slice(bytes, 0, g[i])]
  <2>1. Concatenates(h, seqs)
    <3>1. h[1] = seqs[1]
      <4>1. 1 \in 1..N /\ 1 - 1 = 0
        BY <1>1, <1>5
      <4>2. g[1 - 1] = 0 /\ g[1] = g[1 - 1] + W(1) /\ W(1) \in Nat /\ seqs[1] = Slice(bytes, g[1 - 1], W(1))
        BY <4>1, <1>2, <1>3
      <4>3. g[1] = W(1)
        BY <4>2
      <4> QED BY <4>1, <4>2, <4>3
    <3>2. ASSUME NEW i \in 2..N PROVE h[i] = h[i - 1] \o seqs[i]
      <4>1. i \in 1..N /\ i - 1 \in 1..N
        BY <1>1
      <4>2. /\ g[i - 1] \in Nat /\ W(i) \in Nat /\ g[i] = g[i - 1] + W(i) /\ 2 * g[i] <= Len(bytes)
            /\ seqs[i] = Slice(bytes, g[i - 1], W(i))
        BY <4>1, <1>2
      <4> DEFINE a == g[i - 1]
                 w == W(i)
      <4>3. a \in Nat /\ w \in Nat /\ 2 * (a + w) <= Len(bytes)
        BY <4>2
      <4> HIDE DEF a, w
      <4>4. Slice(bytes, 0, a) \o Slice(bytes, a, w) = Slice(bytes, 0, a + w)
        BY <4>3, SlicesJoin
      <4>5. h[i] = Slice(bytes, 0, a + w) /\ h[i - 1] = Slice(bytes, 0, a)
        BY <4>1, <4>2 DEF a, w
      <4> HIDE DEF h
      <4> QED BY <4>2, <4>4, <4>5 DEF a, w
    <3>3. DOMAIN h = 1..N /\ h = [i \in 1..N |-> h[i]]
      OBVIOUS
    <3> HIDE DEF h
    <3> QED BY <3>1, <3>2, <3>3, <1>1 DEF Concatenates
  <2> HIDE DEF h
  <2>2. FlattenSeq(seqs) = h[N]
    <3>1. Len(seqs) \in Nat /\ Len(seqs) > 0
      BY <1>1, <1>5
    <3>2. FlattenSeq(seqs) = h[Len(seqs)]
      BY <3>1, <2>1, FlattenIs
    <3> QED BY <3>2, <1>1
  <2>3. N \in 1..N /\ N \in 0..N
    BY <1>1, <1>5
  <2>4. h[N] = Slice(bytes, 0, g[N]) /\ g[N] \in Nat
    BY <2>3, <1>3 DEF h
  <2> DEFINE n == g[N]
  <2>5. Slice(bytes, 0, n) = [j \in 1..n |-> WordAt(bytes, 2 * (j - 1))]
    <3>1. n \in Nat
      BY <2>4
    <3> HIDE DEF n
    <3>2. \A j \in 1..n : 2 * (0 + j - 1) = 2 * (j - 1)
      BY <3>1
    <3> QED BY <3>2 DEF Slice
  <2>6. Len(bytes) = 2 * n /\ n \in Nat
    BY <2>4 DEF N
  <2> HIDE DEF n
  <2>7. BytesOfWords(Slice(bytes, 0, n)) = bytes
    BY <2>5, <2>6, BytesKept
  <2> QED BY <2>2, <2>4, <2>7 DEF n, seqs
<1> QED BY <1>1, <1>4, <1>5 DEF seqs

\* The registers of a list, as far as its reads and writes go.
LEMMA ListOf ==
  ASSUME NEW server \in RegisterLists
  PROVE  ServedList(server)
<1> DEFINE S == [address : Nat, value : ValueTypes, writable : BOOLEAN, refused : SUBSET Int, number : Int]
<1>1. server \in Seq(S)
  BY ServedAssumption
<1>2. Len(server) \in Nat /\ DOMAIN server = 1..Len(server) /\ \A k \in 1..Len(server) : server[k] \in S
  <2> HIDE DEF S
  <2> QED BY <1>1, ElementOfSeq
<1>3. \A r \in S : r.address \in Nat /\ r.value \in ValueTypes /\ "number" \in DOMAIN r
  OBVIOUS
<1> HIDE DEF S
<1> QED BY <1>2, <1>3 DEF ServedList

\* Which of the visited registers refuse their number, and the first of them.
Refusing(server, visited, bytes) ==
  {n \in DOMAIN visited : WrittenNumber(server, visited, bytes, n) \in server[visited[n]].refused}
FirstRefusing(server, visited, bytes) ==
  CHOOSE n \in Refusing(server, visited, bytes) :
    \A m \in Refusing(server, visited, bytes) : n <= m

\* The four outcomes of a write: refused before anything is written, stored, or stored up
\* to the first register that refuses.
LEMMA WriteOutcomes ==
  ASSUME NEW server, NEW w \in ServedWrites
  PROVE  LET visited == Visited(server, w.start, w.quantity)
             bytes   == w.bytes
             written == ServeWrite(server, w.function, w.start, w.quantity, w.bytes)
         IN  \/ written.error \in {1, 3} /\ written.server = server
             \/ /\ AllThere(visited) /\ Refusing(server, visited, bytes) = {}
                /\ written.error = 0 /\ written.server = Stored(server, visited, bytes, Len(visited))
             \/ /\ AllThere(visited) /\ Refusing(server, visited, bytes) # {}
                /\ written.error = 4
                /\ written.server = Stored(server, visited, bytes, FirstRefusing(server, visited, bytes) - 1)
<1> DEFINE visited == Visited(server, w.start, w.quantity)
           bytes == w.bytes
           count == IF w.function = "single" THEN 1 ELSE w.quantity
           written == ServeWrite(server, w.function, w.start, w.quantity, bytes)
           open == \A n \in DOMAIN visited : server[visited[n]].writable
           refusing == Refusing(server, visited, bytes)
           whole == Stored(server, visited, bytes, Len(visited))
           part == Stored(server, visited, bytes, FirstRefusing(server, visited, bytes) - 1)
<1>1. count = w.quantity
  BY ServedAssumption
<1>2. Visited(server, w.start, count) = visited
  BY <1>1
<1>3. written =
        IF w.function \notin {"single", "multiple"} THEN [error |-> 1, server |-> server]
        ELSE IF w.function = "multiple" /\ (w.quantity \notin 1..MaxWritten \/ Len(bytes) # 2 * w.quantity)
          THEN [error |-> 3, server |-> server]
        ELSE IF ~(AllThere(visited) /\ open) THEN [error |-> 1, server |-> server]
        ELSE IF refusing = {} THEN [error |-> 0, server |-> whole]
        ELSE [error |-> 4, server |-> part]
  BY <1>2 DEF ServeWrite, Refusing, FirstRefusing
<1> HIDE DEF visited, written, open, refusing, whole, part
<1>4. \/ written = [error |-> 1, server |-> server] \/ written = [error |-> 3, server |-> server]
      \/ AllThere(visited) /\ refusing = {} /\ written = [error |-> 0, server |-> whole]
      \/ AllThere(visited) /\ refusing # {} /\ written = [error |-> 4, server |-> part]
  BY <1>3
<1>5. \/ written.error \in {1, 3} /\ written.server = server
      \/ AllThere(visited) /\ refusing = {} /\ written.error = 0 /\ written.server = whole
      \/ AllThere(visited) /\ refusing # {} /\ written.error = 4 /\ written.server = part
  BY <1>4
<1> QED BY <1>5 DEF visited, written, refusing, whole, part

\* A write that is not refused reads back, if its bytes are as many as the registers hold.
LEMMA WriteReadsBack ==
  ASSUME NEW server \in RegisterLists, NEW w \in ServedWrites,
         ServeWrite(server, w.function, w.start, w.quantity, w.bytes).error = 0,
         2 * WordsBefore(server, Visited(server, w.start, w.quantity), Len(Visited(server, w.start, w.quantity)) + 1)
           = Len(w.bytes)
  PROVE  ServeRead(ServeWrite(server, w.function, w.start, w.quantity, w.bytes).server, w.start, w.quantity)
           = [error |-> 0, bytes |-> w.bytes]
<1> DEFINE visited == Visited(server, w.start, w.quantity)
           written == ServeWrite(server, w.function, w.start, w.quantity, w.bytes)
           stored == Stored(server, visited, w.bytes, Len(visited))
<1>1. w.start \in Nat /\ w.quantity \in Nat /\ w.bytes \in Seq(0..(ByteSize - 1))
  BY ServedAssumption
<1>2. ServedList(server)
  BY ListOf
<1>3. visited \in Seq(0..Len(server)) /\ VisitedOnce(visited)
  BY <1>1, <1>2, VisitedType
<1>4. written.server = stored /\ AllThere(visited)
  <2> DEFINE refusing == Refusing(server, visited, w.bytes)
             part == Stored(server, visited, w.bytes, FirstRefusing(server, visited, w.bytes) - 1)
             whole == Stored(server, visited, w.bytes, Len(visited))
  <2>1. \/ written.error \in {1, 3} /\ written.server = server
        \/ AllThere(visited) /\ refusing = {} /\ written.error = 0 /\ written.server = whole
        \/ AllThere(visited) /\ refusing # {} /\ written.error = 4 /\ written.server = part
    BY WriteOutcomes
  <2>2. written.error = 0
    OBVIOUS
  <2> HIDE DEF written, refusing, part, whole
  <2>3. written.server = whole /\ AllThere(visited)
    BY <2>1, <2>2
  <2> QED BY <2>3 DEF whole
<1>5. written.server = stored
  BY <1>4
<1>6. ServedList(stored) /\ SamePlaces(server, stored)
  BY <1>2, StoredPlaces
<1>7. Visited(stored, w.start, w.quantity) = visited
  <2> HIDE DEF stored
  <2> QED BY <1>1, <1>2, <1>6, VisitedSame
<1>8. VisitList(server, visited)
  <2> HIDE DEF visited
  <2> QED BY <1>3, <1>4 DEF VisitList
<1>9. PICK g : WordSums(g, server, visited)
  <2> HIDE DEF visited
  <2> QED BY <1>2, <1>8, WordSumsExist
<1>10. Len(w.bytes) = 2 * g[Len(visited)]
  <2> DEFINE N == Len(visited)
  <2>1. N \in Nat
    BY <1>3
  <2>2. 2 * WordsBefore(server, visited, N + 1) = Len(w.bytes)
    OBVIOUS
  <2>3. WordsBefore(server, visited, N + 1) = g[(N + 1) - 1]
    <3>1. N + 1 \in 1..(N + 1)
      BY <2>1
    <3> HIDE DEF visited
    <3> QED BY <3>1, <1>9 DEF WordSums
  <2>4. (N + 1) - 1 = N
    BY <2>1
  <2> QED BY <2>2, <2>3, <2>4
<1> HIDE DEF visited
<1>11. BytesOfWords(FlattenSeq(ReadBack(server, visited, w.bytes))) = w.bytes
  <2> DEFINE bytes == w.bytes
  <2>1. bytes \in Seq(0..(ByteSize - 1)) /\ Len(bytes) = 2 * g[Len(visited)]
    BY <1>1, <1>10
  <2> HIDE DEF bytes
  <2>2. BytesOfWords(FlattenSeq(ReadBack(server, visited, bytes))) = bytes
    BY <2>1, <1>2, <1>8, <1>9, AllKept
  <2> QED BY <2>2 DEF bytes
<1>12. ServeRead(stored, w.start, w.quantity) =
         [error |-> 0, bytes |-> BytesOfWords(FlattenSeq(ReadBack(server, visited, w.bytes)))]
  <2> DEFINE WordsOf(k) == NumberToPayload(stored[k].number, stored[k].value)
  <2>1. ServeRead(stored, w.start, w.quantity) =
          IF AllThere(visited)
            THEN [error |-> 0, bytes |-> BytesOfWords(FlattenSeq([n \in DOMAIN visited |-> WordsOf(visited[n])]))]
            ELSE [error |-> 2, bytes |-> <<>>]
    <3> HIDE DEF stored
    <3> QED BY <1>7 DEF ServeRead
  <2>2. ReadBack(server, visited, w.bytes) = [n \in DOMAIN visited |-> WordsOf(visited[n])]
    BY DEF ReadBack, GivesBack
  <2> HIDE DEF stored, WordsOf
  <2> QED BY <2>1, <2>2, <1>4
<1> HIDE DEF stored, written
<1> QED BY <1>5, <1>11, <1>12 DEF written

\* Where a write lambda refuses its number, the registers before it have taken their words
\* and the others are as they were.
LEMMA RefusedWrite ==
  ASSUME NEW server \in RegisterLists, NEW w \in ServedWrites,
         ServeWrite(server, w.function, w.start, w.quantity, w.bytes).error = 4
  PROVE  LET visited == Visited(server, w.start, w.quantity)
             stored  == ServeWrite(server, w.function, w.start, w.quantity, w.bytes).server
             fits    == 2 * WordsBefore(server, visited, Len(visited) + 1) = Len(w.bytes)
         IN  \E n \in DOMAIN visited :
               /\ WrittenNumber(server, visited, w.bytes, n) \in server[visited[n]].refused
               /\ \A k \in DOMAIN server : (\A m \in 1..(n - 1) : visited[m] # k) => stored[k] = server[k]
               /\ fits => \A m \in 1..(n - 1) :
                    GivesBack(stored, visited[m]) =
                      Slice(w.bytes, WordsBefore(server, visited, m), server[visited[m]].value.words)
<1> DEFINE visited == Visited(server, w.start, w.quantity)
           bytes == w.bytes
           written == ServeWrite(server, w.function, w.start, w.quantity, bytes)
           fits == 2 * WordsBefore(server, visited, Len(visited) + 1) = Len(bytes)
           n == FirstRefusing(server, visited, bytes)
<1>1. w.start \in Nat /\ w.quantity \in Nat /\ bytes \in Seq(0..(ByteSize - 1))
  BY ServedAssumption
<1>2. ServedList(server)
  BY ListOf
<1>3. visited \in Seq(0..Len(server)) /\ VisitedOnce(visited)
  BY <1>1, <1>2, VisitedType
<1>4. /\ AllThere(visited) /\ Refusing(server, visited, bytes) # {}
      /\ written.server = Stored(server, visited, bytes, n - 1)
  <2> DEFINE refusing == Refusing(server, visited, bytes)
             part == Stored(server, visited, bytes, FirstRefusing(server, visited, bytes) - 1)
             whole == Stored(server, visited, bytes, Len(visited))
  <2>1. \/ written.error \in {1, 3} /\ written.server = server
        \/ AllThere(visited) /\ refusing = {} /\ written.error = 0 /\ written.server = whole
        \/ AllThere(visited) /\ refusing # {} /\ written.error = 4 /\ written.server = part
    BY WriteOutcomes
  <2>2. written.error = 4
    OBVIOUS
  <2> HIDE DEF written, refusing, part, whole
  <2>3. AllThere(visited) /\ refusing # {} /\ written.server = part
    BY <2>1, <2>2
  <2> QED BY <2>3 DEF refusing, part
<1> HIDE DEF visited, written, bytes
<1>5. n \in Refusing(server, visited, bytes)
  <2>1. DOMAIN visited = 1..Len(visited) /\ Len(visited) \in Nat
    BY <1>3
  <2>2. Refusing(server, visited, bytes) \subseteq Nat
    BY <2>1 DEF Refusing
  <2>3. \E m \in Refusing(server, visited, bytes) : \A j \in Refusing(server, visited, bytes) : m <= j
    BY <2>2, <1>4, LeastElement
  <2> QED BY <2>3 DEF FirstRefusing
<1> HIDE DEF n
<1>6. n \in DOMAIN visited /\ WrittenNumber(server, visited, bytes, n) \in server[visited[n]].refused
  BY <1>5 DEF Refusing
<1>7. Len(visited) \in Nat /\ n \in 1..Len(visited) /\ n - 1 \in 0..Len(visited)
  BY <1>3, <1>6
<1>8. ASSUME NEW k \in DOMAIN server, \A m \in 1..(n - 1) : visited[m] # k
      PROVE  written.server[k] = server[k]
  BY <1>4, <1>8, StoredOthers
<1>9. VisitList(server, visited)
  BY <1>3, <1>4 DEF VisitList
<1>10. PICK g : WordSums(g, server, visited)
  BY <1>2, <1>9, WordSumsExist
<1>11. ASSUME fits, NEW m \in 1..(n - 1)
       PROVE  GivesBack(written.server, visited[m]) =
                Slice(bytes, WordsBefore(server, visited, m), server[visited[m]].value.words)
  <2>1. /\ WordsBefore(server, visited, m) = g[m - 1]
        /\ WordsBefore(server, visited, Len(visited) + 1) = g[(Len(visited) + 1) - 1]
    <3>1. m \in 1..(Len(visited) + 1) /\ Len(visited) + 1 \in 1..(Len(visited) + 1)
      BY <1>7
    <3> QED BY <3>1, <1>10 DEF WordSums
  <2>2. (Len(visited) + 1) - 1 = Len(visited)
    BY <1>7
  <2>3. Len(bytes) = 2 * g[Len(visited)]
    BY <1>11, <2>1, <2>2
  <2>4. GivesBack(Stored(server, visited, bytes, n - 1), visited[m])
          = Slice(bytes, g[m - 1], server[visited[m]].value.words)
    BY <1>1, <1>2, <1>7, <1>9, <1>10, <2>3, SliceKept
  <2> QED BY <2>1, <2>4, <1>4
<1> QED BY <1>6, <1>8, <1>11 DEF visited, written, bytes

-----------------------------------------------------------------------------
(* The answers of the Modbus client are those to its question.               *)

\* An answer is what the client computes for its question.
ModbusAnswered ==
  /\ question \in Questions
  /\ answer # NoAnswer =>
       /\ answer.topic = "poll" => /\ question.topic = "poll"
                                   /\ answer.shown = Poll(question.configs, Tables)
       /\ answer.topic = "switch" =>
            /\ question.topic = "switch"
            /\ answer.tables = SwitchWrite(question.configs, question.switch, question.state,
                                           question.multiple, Tables).tables
       /\ answer.topic = "command" =>
            /\ question.topic = "command"
            /\ answer.reply = LoopbackAnswer(Tables, [CommandFor(question.command)
                                                        EXCEPT !.unit = question.command.unit])
       /\ answer.topic = "served" =>
            LET w == question.write
            IN  /\ question.topic = "served"
                /\ answer.written = ServeWrite(question.server, w.function, w.start, w.quantity, w.bytes)
                /\ answer.read = ServeRead(answer.written.server, w.start, w.quantity)

\* Every answer of the Modbus client is that to its question.
LEMMA QuestionsAnswered == Calculating => []ModbusAnswered
<1>1. Asked => ModbusAnswered
  BY DEF Asked, ModbusAnswered
<1>2. ModbusAnswered /\ [Answering]_exchange => ModbusAnswered'
  <2> SUFFICES ASSUME ModbusAnswered, [Answering]_exchange PROVE ModbusAnswered'
    OBVIOUS
  <2> USE DEF ModbusAnswered
  <2>1. CASE AnswerPoll
    BY <2>1 DEF AnswerPoll, Answer
  <2>2. CASE AnswerSwitch
    BY <2>2 DEF AnswerSwitch, Answer
  <2>3. CASE AnswerCommand
    BY <2>3 DEF AnswerCommand, Answer
  <2>4. CASE AnswerServed
    BY <2>4 DEF AnswerServed, Answer
  <2>5. CASE AnswerBand
    BY <2>5 DEF AnswerBand, Answer
  <2>6. CASE AnswerFrame
    BY <2>6 DEF AnswerFrame, Answer
  <2>7. CASE AnswerFiles
    BY <2>7 DEF AnswerFiles, Answer
  <2>8. CASE UNCHANGED exchange
    BY <2>8 DEF exchange
  <2> QED BY <2>1, <2>2, <2>3, <2>4, <2>5, <2>6, <2>7, <2>8 DEF Answering, ModbusAnswering
<1> QED BY <1>1, <1>2, PTL DEF Calculating

\* The questions about switches name a switch of their configuration.
LEMMA SwitchQuestion ==
  ASSUME NEW c \in Configurations, NEW q \in SwitchQuestions(c)
  PROVE  /\ q.topic = "switch" /\ q.configs = c /\ q.switch \in Switches(c)
         /\ q.state \in BOOLEAN /\ q.multiple \in BOOLEAN
<1> DEFINE numbers == Switches(c)
<1>1. q \in [topic : {"switch"}, configs : {c}, switch : numbers, state : BOOLEAN, multiple : BOOLEAN]
  BY DEF SwitchQuestions
<1> HIDE DEF numbers
<1>2. q.topic = "switch" /\ q.configs = c /\ q.switch \in numbers /\ q.state \in BOOLEAN /\ q.multiple \in BOOLEAN
  BY <1>1
<1> QED BY <1>2 DEF numbers

\* What the questions about the client's topics hold.
LEMMA AskedOf ==
  ASSUME NEW q \in Questions
  PROVE  /\ q.topic = "poll" => q.configs \in Configurations
         /\ q.topic = "switch" => \E c \in Configurations : q \in SwitchQuestions(c)
         /\ q.topic = "command" => q.command \in Asks
         /\ q.topic = "served" => q.server \in RegisterLists /\ q.write \in ServedWrites
<1> DEFINE polls == [topic : {"poll"}, configs : Configurations]
           switches == UNION {SwitchQuestions(c) : c \in Configurations}
           commands == [topic : {"command"}, command : Asks]
           writes == [topic : {"served"}, server : RegisterLists, write : ServedWrites]
           bands == [topic : {"band"}, recording : Recordings]
           frames == [topic : {"frame"}, frame : Frames, filter : PeerFilters,
                      mode : {"gain", "calibration", "motion"}]
           Visits(s, c) == [topic : {"files"}, server : {s}, card : {c}, names : Shown(s, c),
                            method : {"get", "delete", "upload"}]
           visits == UNION {Visits(s, c) : s \in Servers, c \in Cards}
<1>1. Questions = polls \cup switches \cup commands \cup writes \cup bands \cup frames \cup visits
  BY DEF Questions, ModbusQuestions
<1>2. q \in polls => q.topic = "poll" /\ q.configs \in Configurations
  OBVIOUS
<1>3. q \in switches => q.topic = "switch" /\ \E c \in Configurations : q \in SwitchQuestions(c)
  <2> SUFFICES ASSUME q \in switches PROVE q.topic = "switch" /\ \E c \in Configurations : q \in SwitchQuestions(c)
    OBVIOUS
  <2>1. PICK c \in Configurations : q \in SwitchQuestions(c)
    OBVIOUS
  <2>2. q.topic = "switch"
    BY <2>1, SwitchQuestion
  <2> QED BY <2>1, <2>2
<1>4. q \in commands => q.topic = "command" /\ q.command \in Asks
  OBVIOUS
<1>5. q \in writes => q.topic = "served" /\ q.server \in RegisterLists /\ q.write \in ServedWrites
  OBVIOUS
<1>6. q \in bands => q.topic = "band"
  OBVIOUS
<1>7. q \in frames => q.topic = "frame"
  OBVIOUS
<1>8. q \in visits => q.topic = "files"
  <2>1. ASSUME NEW s \in Servers, NEW c \in Cards, q \in Visits(s, c) PROVE q.topic = "files"
    <3> DEFINE names == Shown(s, c)
    <3>1. q \in [topic : {"files"}, server : {s}, card : {c}, names : names, method : {"get", "delete", "upload"}]
      BY <2>1
    <3> HIDE DEF names
    <3> QED BY <3>1
  <2> HIDE DEF Visits
  <2> QED BY <2>1
<1> HIDE DEF polls, switches, commands, writes, bands, frames, visits
<1> QED BY <1>1, <1>2, <1>3, <1>4, <1>5, <1>6, <1>7, <1>8

\* Whatever the sensors are and however the ranges were cut, each shows the register it
\* is configured for, and none is left out that one command can reach.
THEOREM EverySensorReadsItsRegisterHolds == Calculating => []EverySensorReadsItsRegister
<1>1. ModbusAnswered => EverySensorReadsItsRegister
  <2> SUFFICES ASSUME ModbusAnswered, answer.topic = "poll", NEW i \in DOMAIN question.configs
               PROVE  LET c == question.configs[i]
                      IN  /\ answer.shown[i] \subseteq {Reading(c)}
                          /\ CellsOf(question.configs, c.type) <= MaxValues => answer.shown[i] # {}
    BY DEF EverySensorReadsItsRegister
  <2>1. answer # NoAnswer
    BY DEF NoAnswer
  <2>2. question.topic = "poll" /\ answer.shown = Poll(question.configs, Tables)
    BY <2>1 DEF ModbusAnswered
  <2>3. question.configs \in Configurations
    BY <2>2, AskedOf DEF ModbusAnswered
  <2> QED BY <2>2, <2>3, PollShows
<1> QED BY <1>1, QuestionsAnswered, PTL

\* A switch sets its own cell and no other, wherever the walk has moved its start and offset.
THEOREM SwitchReachesItsCellHolds == Calculating => []SwitchReachesItsCell
<1>1. ModbusAnswered => SwitchReachesItsCell
  <2> DEFINE q == question
             c == q.configs[q.switch]
             on == IF c.type = "coil" THEN 1 ELSE BitAnd(WordSize - 1, c.mask)
  <2> SUFFICES ASSUME ModbusAnswered, answer.topic = "switch",
                      c.type = "holding" => CellsOf(q.configs, c.type) <= MaxValues
               PROVE  answer.tables = [Tables EXCEPT ![TableOf[c.type]][CellFor(c)] = IF q.state THEN on ELSE 0]
    BY DEF SwitchReachesItsCell
  <2>1. answer # NoAnswer
    BY DEF NoAnswer
  <2>2. q.topic = "switch" /\ answer.tables = SwitchWrite(q.configs, q.switch, q.state, q.multiple, Tables).tables
    BY <2>1 DEF ModbusAnswered
  <2>3. PICK configs \in Configurations : q \in SwitchQuestions(configs)
    BY <2>2, AskedOf DEF ModbusAnswered
  <2>4. q.configs = configs /\ q.switch \in Switches(configs) /\ q.state \in BOOLEAN /\ q.multiple \in BOOLEAN
    BY <2>3, SwitchQuestion
  <2>5. SwitchWrite(q.configs, q.switch, q.state, q.multiple, Tables).tables =
          [Tables EXCEPT ![TableOf[c.type]][CellFor(c)] = IF q.state THEN on ELSE 0]
    BY <2>3, <2>4, SwitchSets
  <2> QED BY <2>2, <2>5
<1> QED BY <1>1, QuestionsAnswered, PTL

-----------------------------------------------------------------------------
(* Commands over the loopback have the outcome other clients are promised.   *)

\* Commands that are for the tables of this server.
ForTables(c) == c \in Asks /\ c.unit = UnitId /\ c.kind # "other"

\* Table t has n cells.
TableHas(t, n) ==
  n \in Nat /\ n <= AddressWrap /\ DOMAIN Tables[t] = 0..(n - 1)
  /\ Tables[t] = [a \in DOMAIN Tables[t] |-> Tables[t][a]]

\* Every table has a number of cells that addresses reach.
LEMMA TableSizes ==
  ASSUME NEW t \in TableNames
  PROVE  TableHas(t, Cardinality(DOMAIN Tables[t]))
<1>1. PICK n \in 0..AddressWrap : Tables[t] \in [0..(n - 1) -> Nat]
  BY CommandAssumption
<1>2. DOMAIN Tables[t] = 0..(n - 1) /\ AddressWrap \in Nat /\ Tables[t] = [a \in DOMAIN Tables[t] |-> Tables[t][a]]
  BY <1>1, DataAssumption
<1>3. n \in Nat /\ n <= AddressWrap
  BY <1>2
<1>4. Cardinality(0..(n - 1)) = n
  <2>1. Cardinality(0..(n - 1)) = IF 0 > n - 1 THEN 0 ELSE n - 1 - 0 + 1
    BY <1>3, FS_Interval
  <2> QED BY <1>3, <2>1
<1> QED BY <1>2, <1>3, <1>4 DEF TableHas

\* The cells of a request that is within its table.
LEMMA WithinTable ==
  ASSUME NEW c, ForTables(c), Promise(RequestFor(c))!InTable(RequestFor(c)), NEW n, TableHas(c.table, n),
         n = Cardinality(DOMAIN Tables[c.table])
  PROVE  c.start \in Nat /\ c.quantity \in Nat /\ c.quantity > 0 /\ c.start + c.quantity <= n
<1> DEFINE r == RequestFor(c)
<1>1. c.start \in Nat /\ c.quantity \in Nat /\ c.quantity > 0 /\ c.table \in TableNames
  BY CommandAssumption DEF ForTables
<1>2. r.start = c.start /\ r.quantity = c.quantity /\ r.table = c.table
  BY DEF RequestFor
<1> HIDE DEF r
<1>3. r.start + r.quantity <= [t \in TableNames |-> Cardinality(DOMAIN Tables[t])][r.table]
  BY DEF r, Promise!InTable
<1> QED BY <1>1, <1>2, <1>3

\* Reading a cell that is there gives that cell.
LEMMA CellIsThere ==
  ASSUME NEW t, NEW n, TableHas(t, n), NEW a \in Nat, a < n
  PROVE  Get(Tables, t, a) = Tables[t][a] /\ (a % AddressWrap) = a
<1>1. AddressWrap \in Nat /\ AddressWrap > 0 /\ a \in 0..(AddressWrap - 1) /\ a \in DOMAIN Tables[t]
  BY DataAssumption DEF TableHas
<1>2. (a % AddressWrap) = a
  BY <1>1, SmallMod
<1> QED BY <1>1, <1>2 DEF Get

\* The tables once there are values in the cells of table t from a on.
Filled(tables, t, a, q, values) ==
  /\ tables[t] = [b \in DOMAIN Tables[t] |-> IF b \in a..(a + q - 1) THEN values[b - a + 1] ELSE Tables[t][b]]
  /\ \A u \in TableNames : u # t => tables[u] = Tables[u]

\* Writing cells that are there writes those and leaves the others.
LEMMA PutAll ==
  ASSUME NEW t \in TableNames, NEW n, TableHas(t, n), NEW a \in Nat, NEW q \in Nat, a + q <= n,
         NEW values, DOMAIN values = 1..q
  PROVE  Filled(Put(Tables, t, a, values), t, a, q, values)
<1> DEFINE new == [b \in DOMAIN Tables[t] |->
                     LET at == {i \in DOMAIN values : ((a + i - 1) % AddressWrap) = b}
                     IN  IF at = {} THEN Tables[t][b] ELSE values[CHOOSE i \in at : \A j \in at : j <= i]]
<1>1. Put(Tables, t, a, values) = [Tables EXCEPT ![t] = new]
  BY DEF Put
<1>2. ASSUME NEW b \in DOMAIN Tables[t]
      PROVE  new[b] = IF b \in a..(a + q - 1) THEN values[b - a + 1] ELSE Tables[t][b]
  <2> DEFINE at == {i \in DOMAIN values : ((a + i - 1) % AddressWrap) = b}
  <2>1. n \in Nat /\ b \in 0..(n - 1)
    BY DEF TableHas
  <2>2. ASSUME NEW i \in 1..q PROVE ((a + i - 1) % AddressWrap) = a + i - 1
    <3> DEFINE x == a + i - 1
    <3>1. x \in Nat /\ x < n
      BY <2>1
    <3> HIDE DEF x
    <3>2. (x % AddressWrap) = x
      BY <3>1, CellIsThere
    <3> QED BY <3>2 DEF x
  <2>3. at = {i \in 1..q : a + i - 1 = b}
    BY <2>2
  <2>4. new[b] = IF at = {} THEN Tables[t][b] ELSE values[CHOOSE i \in at : \A j \in at : j <= i]
    OBVIOUS
  <2> HIDE DEF at, new
  <2>5. CASE b \in a..(a + q - 1)
    <3> DEFINE k == b - a + 1
    <3>1. k \in 1..q /\ a + k - 1 = b /\ \A i \in 1..q : a + i - 1 = b => i = k
      BY <2>1, <2>5
    <3> HIDE DEF k
    <3>2. at = {k} /\ k <= k
      BY <2>3, <3>1
    <3>3. (CHOOSE i \in at : \A j \in at : j <= i) = k
      BY <3>2
    <3>4. new[b] = values[k]
      BY <2>4, <3>2, <3>3
    <3> QED BY <2>5, <3>4 DEF k
  <2>6. CASE b \notin a..(a + q - 1)
    <3>1. \A i \in 1..q : a + i - 1 # b
      BY <2>6
    <3>2. at = {}
      BY <2>3, <3>1
    <3> QED BY <2>4, <2>6, <3>2
  <2> QED BY <2>5, <2>6
<1>3. DOMAIN Tables = TableNames
  BY CommandAssumption
<1>4. new = [b \in DOMAIN Tables[t] |-> IF b \in a..(a + q - 1) THEN values[b - a + 1] ELSE Tables[t][b]]
  <2> SUFFICES ASSUME NEW b \in DOMAIN Tables[t]
               PROVE  new[b] = IF b \in a..(a + q - 1) THEN values[b - a + 1] ELSE Tables[t][b]
    OBVIOUS
  <2> HIDE DEF new
  <2> QED BY <1>2
<1> HIDE DEF new
<1>5. Put(Tables, t, a, values)[t] = new /\ \A u \in TableNames : u # t => Put(Tables, t, a, values)[u] = Tables[u]
  BY <1>1, <1>3
<1> QED BY <1>4, <1>5 DEF Filled

\* A command for the unit of this device is left as it is.
LEMMA UnitKept ==
  ASSUME NEW f, NEW s, NEW q, NEW p
  PROVE  [[unit |-> UnitId, function |-> f, start |-> s, quantity |-> q, payload |-> p] EXCEPT !.unit = UnitId] =
         [unit |-> UnitId, function |-> f, start |-> s, quantity |-> q, payload |-> p]
OBVIOUS

\* What a command keeps of the promise.
Kept(c, reply) ==
  LET r == RequestFor(c)
  IN  /\ reply.error = 0
      /\ ValuesIn(r, reply.bytes) = Promise(r)!Answer(r).values
      /\ \A t \in TableNames : reply.tables[t] = Promise(r)!Effect(r, t)

\* A read over the loopback has the outcome that is promised.
LEMMA ReadKept ==
  ASSUME NEW c, ForTables(c), c.kind = "read", Promise(RequestFor(c))!InTable(RequestFor(c))
  PROVE  Kept(c, LoopbackAnswer(Tables, [CommandFor(c) EXCEPT !.unit = c.unit]))
<1> DEFINE r == RequestFor(c)
           type == CHOOSE t \in RegisterTypes : TableOf[t] = c.table
           n == Cardinality(DOMAIN Tables[c.table])
           command == ReadCommand(type, c.start, c.quantity)
           reply == LoopbackAnswer(Tables, command)
           cells == CellsFrom(type, c.start, c.quantity)
           q == c.quantity
           a == c.start
<1>1. c.table \in TableNames /\ q <= MaxValues /\ MaxValues \in Nat
  BY CommandAssumption, DataAssumption DEF ForTables
<1>2. type \in RegisterTypes /\ TableOf[type] = c.table
  <2>1. \E t \in RegisterTypes : TableOf[t] = c.table
    BY <1>1 DEF TableNames, RegisterTypes, TableOf
  <2> QED BY <2>1
<1>3. TableHas(c.table, n)
  BY <1>1, TableSizes
<1>4. a \in Nat /\ q \in Nat /\ q > 0 /\ a + q <= n /\ n \in Nat
  <2>1. n \in Nat
    BY <1>3 DEF TableHas
  <2> QED BY <1>3, <2>1, WithinTable
<1>5. [CommandFor(c) EXCEPT !.unit = c.unit] = command
  <2>1. CommandFor(c) = command
    BY DEF CommandFor
  <2>2. c.unit = UnitId
    BY DEF ForTables
  <2> HIDE DEF type
  <2>3. [ReadCommand(type, a, q) EXCEPT !.unit = UnitId] = ReadCommand(type, a, q)
    BY UnitKept DEF ReadCommand
  <2> QED BY <2>1, <2>2, <2>3
<1> HIDE DEF type, n
<1>6. reply.error = 0 /\ reply.tables = Tables
  <2>1. /\ command.unit = UnitId /\ command.function[1] = "read"
    BY DEF ReadCommand
  <2> HIDE DEF command
  <2>2. reply = ReadAnswer(Tables, command)
    BY <2>1 DEF LoopbackAnswer
  <2> QED BY <2>2 DEF ReadAnswer, Answered
<1>7. reply.bytes = IF type \in BitTypes THEN Pack(cells) ELSE BytesOfWords(cells)
  BY <1>2, ReadReply
<1>8. type \in BitTypes <=> c.table \in {"coils", "discrete"}
  BY <1>2 DEF BitTypes, RegisterTypes, TableOf
<1>9. \A i \in 1..q : cells[i] = Tables[c.table][a + i - 1]
  <2> SUFFICES ASSUME NEW i \in 1..q PROVE cells[i] = Tables[c.table][a + i - 1]
    OBVIOUS
  <2>1. cells[i] = Get(Tables, c.table, a + i - 1)
    BY <1>2 DEF CellsFrom
  <2> DEFINE x == a + i - 1
  <2>2. x \in Nat /\ x < n
    BY <1>4
  <2> HIDE DEF x
  <2>3. Get(Tables, c.table, x) = Tables[c.table][x]
    BY <1>3, <2>2, CellIsThere
  <2> QED BY <2>1, <2>3 DEF x
<1>10. r.kind = "read" /\ r.table = c.table /\ r.start = a /\ r.quantity = q
  BY DEF RequestFor
<1>11. r.start + r.quantity <= [t \in TableNames |-> Cardinality(DOMAIN Tables[t])][r.table]
  BY <1>1, <1>4, <1>10 DEF n
<1>12. \A i \in 1..q : (IF c.table \in {"coils", "discrete"} THEN CoilFromVector(i - 1, reply.bytes)
                        ELSE WordAt(reply.bytes, 2 * (i - 1))) = cells[i]
  <2>1. CASE type \in BitTypes
    <3>1. cells \in [1..q -> 0..1]
      BY <1>2, <2>1, CellsHold DEF CellsFrom
    <3> HIDE DEF cells, reply
    <3>2. cells \in Seq(0..1) /\ Len(cells) = q
      BY <1>4, <3>1, FunctionSeq
    <3>3. \A i \in 1..q : CoilFromVector(i - 1, Pack(cells)) = cells[i]
      BY <3>2, BitsKept
    <3> QED BY <1>7, <1>8, <2>1, <3>3
  <2>2. CASE type \notin BitTypes
    <3>1. cells \in [1..q -> 0..(WordSize - 1)]
      BY <1>2, <2>2, CellsHold DEF CellsFrom
    <3> HIDE DEF cells, reply
    <3>2. cells \in Seq(0..(WordSize - 1)) /\ Len(cells) = q
      BY <1>4, <3>1, FunctionSeq
    <3>3. cells \in Seq(Int)
      BY <3>2, WordsAreNumbers
    <3>4. \A i \in 1..q : WordAt(BytesOfWords(cells), 2 * (i - 1)) = cells[i]
      BY <3>2, <3>3, WordsKept
    <3> QED BY <1>7, <1>8, <2>2, <3>4
  <2> QED BY <2>1, <2>2
<1> HIDE DEF r, reply, cells, command
<1>13. ValuesIn(r, reply.bytes) = [i \in 1..q |-> Tables[c.table][a + i - 1]]
  <2>1. ValuesIn(r, reply.bytes) =
          [i \in 1..q |-> IF c.table \in {"coils", "discrete"} THEN CoilFromVector(i - 1, reply.bytes)
                          ELSE WordAt(reply.bytes, 2 * (i - 1))]
    BY <1>10 DEF ValuesIn
  <2> QED BY <1>9, <1>12, <2>1
<1>14. Promise(r)!Answer(r).values = [i \in 1..q |-> Tables[c.table][a + i - 1]]
  <2>1. Promise(r)!InTable(r)
    BY <1>11 DEF Promise!InTable
  <2>2. Promise(r)!Readable(r)
    <3>1. [t \in TableNames |-> MaxValues][r.table] = MaxValues
      BY <1>1, <1>10
    <3>2. q \in 1..MaxValues
      BY <1>1, <1>4
    <3> QED BY <1>10, <3>1, <3>2 DEF Promise!Readable
  <2>3. Promise(r)!Error(r) = 0
    BY <2>1, <2>2 DEF Promise!Error
  <2> QED BY <1>10, <2>3 DEF Promise!Answer
<1>15. \A t \in TableNames : reply.tables[t] = Promise(r)!Effect(r, t)
  <2> SUFFICES ASSUME NEW t \in TableNames PROVE Tables[t] = Promise(r)!Effect(r, t)
    BY <1>6
  <2>1. Promise(r)!Effect(r, t) = [b \in DOMAIN Tables[t] |-> Tables[t][b]]
    BY <1>10 DEF Promise!Effect
  <2>2. Tables[t] = [b \in DOMAIN Tables[t] |-> Tables[t][b]]
    BY TableSizes DEF TableHas
  <2> QED BY <2>1, <2>2
<1>16. Kept(c, reply)
  BY <1>6, <1>13, <1>14, <1>15 DEF Kept, r
<1> QED BY <1>5, <1>16 DEF reply

\* A command that sets the values of its request keeps the promise.
LEMMA WritingKeeps ==
  ASSUME NEW c, ForTables(c), c.kind \in {"single", "multiple"}, NEW command,
         Promise(RequestFor(c))!InTable(RequestFor(c)), Writes(command, c.table, c.start, c.values)
  PROVE  Kept(c, LoopbackAnswer(Tables, command))
<1> DEFINE r == RequestFor(c)
           n == Cardinality(DOMAIN Tables[c.table])
           reply == LoopbackAnswer(Tables, command)
           q == c.quantity
           a == c.start
<1>1. c.table \in TableNames /\ DOMAIN c.values = 1..q
  BY CommandAssumption DEF ForTables
<1>2. TableHas(c.table, n)
  BY <1>1, TableSizes
<1>3. a \in Nat /\ q \in Nat /\ q > 0 /\ a + q <= n /\ n \in Nat
  <2>1. n \in Nat
    BY <1>2 DEF TableHas
  <2> QED BY <1>2, <2>1, WithinTable
<1>4. reply.error = 0 /\ reply.tables = Put(Tables, c.table, a, c.values)
  BY DEF Writes
<1>5. /\ r.kind = "write" /\ r.table = c.table /\ r.start = a /\ r.quantity = q /\ r.values = c.values
  BY DEF RequestFor
<1>6. r.start + r.quantity <= [t \in TableNames |-> Cardinality(DOMAIN Tables[t])][r.table]
  BY <1>1, <1>3, <1>5
<1> HIDE DEF r, n, reply
<1>7. Promise(r)!InTable(r)
  BY <1>6 DEF Promise!InTable
<1>8. ValuesIn(r, reply.bytes) = <<>>
  <2>1. ValuesIn(r, reply.bytes) =
         [i \in 1..0 |-> IF r.table \in {"coils", "discrete"} THEN CoilFromVector(i - 1, reply.bytes)
                         ELSE WordAt(reply.bytes, 2 * (i - 1))]
    BY <1>5 DEF ValuesIn
  <2> QED BY <2>1
<1>9. Promise(r)!Answer(r).values = <<>>
  BY <1>5 DEF Promise!Answer
<1>10. ASSUME NEW t \in TableNames PROVE reply.tables[t] = Promise(r)!Effect(r, t)
  <2>1. Promise(r)!Effect(r, t) =
          [b \in DOMAIN Tables[t] |->
             IF t = c.table /\ b \in a..(a + q - 1) THEN c.values[b - a + 1] ELSE Tables[t][b]]
    BY <1>5, <1>7 DEF Promise!Effect, Promise!Cells
  <2>2. Filled(reply.tables, c.table, a, q, c.values)
    <3> DEFINE values == c.values
    <3>1. DOMAIN values = 1..q
      BY <1>1
    <3> HIDE DEF values
    <3>2. Filled(Put(Tables, c.table, a, values), c.table, a, q, values)
      BY <1>1, <1>2, <1>3, <3>1, PutAll
    <3> QED BY <1>4, <3>2 DEF values
  <2>3. CASE t = c.table
    BY <2>1, <2>2, <2>3 DEF Filled
  <2>4. CASE t # c.table
    <3>1. reply.tables[t] = Tables[t]
      BY <2>2, <2>4 DEF Filled
    <3>2. Tables[t] = [b \in DOMAIN Tables[t] |-> Tables[t][b]]
      BY TableSizes DEF TableHas
    <3> QED BY <2>1, <2>4, <3>1, <3>2
  <2> QED BY <2>3, <2>4
<1>11. Kept(c, reply)
  BY <1>4, <1>8, <1>9, <1>10 DEF Kept, r
<1> QED BY <1>11 DEF reply

\* A sequence of length one is its one element.
LEMMA OneValue ==
  ASSUME NEW S, NEW v \in Seq(S), Len(v) = 1
  PROVE  v[1] \in S /\ v = <<v[1]>>
OBVIOUS

\* So has a write.
LEMMA WriteKept ==
  ASSUME NEW c, ForTables(c), c.kind # "read", Promise(RequestFor(c))!InTable(RequestFor(c))
  PROVE  Kept(c, LoopbackAnswer(Tables, [CommandFor(c) EXCEPT !.unit = c.unit]))
<1> DEFINE v == c.values
           a == c.start
<1>1. /\ c.kind \in {"single", "multiple"} /\ c.table \in {"coils", "holding"} /\ c.unit = UnitId
      /\ v \in Seq(IF c.table = "coils" THEN 0..1 ELSE 0..(WordSize - 1))
      /\ Len(v) = c.quantity /\ (c.kind = "single" => c.quantity = 1) /\ c.quantity \in Nat /\ c.quantity > 0
  BY CommandAssumption DEF ForTables
<1> HIDE DEF v, a
<1>2. Writes(CommandFor(c), c.table, a, v) /\ [CommandFor(c) EXCEPT !.unit = c.unit] = CommandFor(c)
  <2>1. CASE c.kind = "single" /\ c.table = "coils"
    <3>1. v \in Seq(0..1) /\ Len(v) = 1
      BY <1>1, <2>1
    <3>2. v[1] \in 0..1 /\ v = <<v[1]>>
      BY <3>1
    <3>3. <<IF v[1] = 1 THEN 1 ELSE 0>> = v /\ (v[1] = 1) \in BOOLEAN
      BY <3>2
    <3>4. CommandFor(c) = WriteSingleCoil(a, v[1] = 1)
      BY <2>1 DEF CommandFor, v, a
    <3>5. Writes(WriteSingleCoil(a, v[1] = 1), "coils", a, <<IF v[1] = 1 THEN 1 ELSE 0>>)
      BY SingleCoilWrites
    <3>6. [WriteSingleCoil(a, v[1] = 1) EXCEPT !.unit = UnitId] = WriteSingleCoil(a, v[1] = 1)
      BY UnitKept DEF WriteSingleCoil
    <3> QED BY <1>1, <2>1, <3>3, <3>4, <3>5, <3>6
  <2>2. CASE c.kind = "single" /\ c.table = "holding"
    <3>1. v \in Seq(0..(WordSize - 1)) /\ Len(v) = 1
      BY <1>1, <2>2
    <3>2. v[1] \in 0..(WordSize - 1) /\ v = <<v[1]>>
      BY <3>1, OneValue
    <3>3. v[1] \in Int
      BY <3>2, Sizes
    <3>4. CommandFor(c) = WriteSingle(a, v[1])
      BY <2>2 DEF CommandFor, v, a
    <3>5. Writes(WriteSingle(a, v[1]), "holding", a, <<v[1]>>)
      BY <3>3, SingleWrites
    <3>6. [WriteSingle(a, v[1]) EXCEPT !.unit = UnitId] = WriteSingle(a, v[1])
      BY UnitKept DEF WriteSingle
    <3> QED BY <1>1, <2>2, <3>2, <3>4, <3>5, <3>6
  <2>3. CASE c.kind = "multiple" /\ c.table = "coils"
    <3>1. v \in Seq(0..1) /\ Len(v) > 0 /\ v = [i \in DOMAIN v |-> v[i]]
      BY <1>1, <2>3
    <3>2. CommandFor(c) = WriteMultipleCoils(a, v)
      <4>1. CommandFor(c) = WriteMultipleCoils(a, [i \in DOMAIN v |-> v[i]])
        BY <2>3 DEF CommandFor, v, a
      <4> QED BY <3>1, <4>1
    <3>3. Writes(WriteMultipleCoils(a, v), "coils", a, v)
      BY <3>1, MultipleCoilsWrite
    <3>4. [WriteMultipleCoils(a, v) EXCEPT !.unit = UnitId] = WriteMultipleCoils(a, v)
      BY UnitKept DEF WriteMultipleCoils
    <3> QED BY <1>1, <2>3, <3>2, <3>3, <3>4
  <2>4. CASE c.kind = "multiple" /\ c.table = "holding"
    <3>1. v \in Seq(0..(WordSize - 1))
      BY <1>1, <2>4
    <3>2. v \in Seq(Int)
      BY <3>1, WordsAreNumbers
    <3>3. CommandFor(c) = WriteMultiple(a, v)
      BY <2>4 DEF CommandFor, v, a
    <3>4. Writes(WriteMultiple(a, v), "holding", a, v)
      BY <3>2, MultipleWrites
    <3>5. [WriteMultiple(a, v) EXCEPT !.unit = UnitId] = WriteMultiple(a, v)
      BY UnitKept DEF WriteMultiple
    <3> QED BY <1>1, <2>4, <3>3, <3>4, <3>5
  <2> QED BY <1>1, <2>1, <2>2, <2>3, <2>4
<1>3. Kept(c, LoopbackAnswer(Tables, CommandFor(c)))
  BY <1>1, <1>2, WritingKeeps DEF v, a
<1> QED BY <1>2, <1>3

\* A command for cells that are there has the outcome the server promises its other clients.
THEOREM LoopbackKeepsPromiseHolds == Calculating => []LoopbackKeepsPromise
<1>1. ModbusAnswered => LoopbackKeepsPromise
  <2> DEFINE c == question.command
             r == RequestFor(c)
  <2> SUFFICES ASSUME ModbusAnswered, answer.topic = "command", c.unit = UnitId, c.kind # "other",
                      Promise(r)!InTable(r)
               PROVE  /\ answer.reply.error = 0
                      /\ ValuesIn(r, answer.reply.bytes) = Promise(r)!Answer(r).values
                      /\ \A t \in TableNames : answer.reply.tables[t] = Promise(r)!Effect(r, t)
    BY DEF LoopbackKeepsPromise
  <2>1. answer # NoAnswer
    BY DEF NoAnswer
  <2>2. question.topic = "command"
        /\ answer.reply = LoopbackAnswer(Tables, [CommandFor(c) EXCEPT !.unit = c.unit])
    BY <2>1 DEF ModbusAnswered
  <2>3. ForTables(c)
    BY <2>2, AskedOf DEF ModbusAnswered, ForTables
  <2>4. Kept(c, LoopbackAnswer(Tables, [CommandFor(c) EXCEPT !.unit = c.unit]))
    BY <2>3, ReadKept, WriteKept
  <2> QED BY <2>2, <2>4 DEF Kept
<1> QED BY <1>1, QuestionsAnswered, PTL

\* Whatever registers a controller serves, those that a request writes read back as they
\* were written; a request that is refused changes none of them or, where a write lambda
\* refuses, exactly those before it.
THEOREM WrittenRegistersReadBackHolds == Calculating => []WrittenRegistersReadBack
<1>1. ModbusAnswered => WrittenRegistersReadBack
  <2> DEFINE w == question.write
             server == question.server
             stored == answer.written.server
             visited == Visited(server, w.start, w.quantity)
             fits == 2 * WordsBefore(server, visited, Len(visited) + 1) = Len(w.bytes)
             Given(n) == GivesBack(stored, visited[n]) =
                           Slice(w.bytes, WordsBefore(server, visited, n), server[visited[n]].value.words)
  <2> SUFFICES ASSUME ModbusAnswered, answer.topic = "served"
               PROVE  CASE answer.written.error = 0 -> fits => answer.read = [error |-> 0, bytes |-> w.bytes]
                        [] answer.written.error = 4 ->
                             \E n \in DOMAIN visited :
                               /\ WrittenNumber(server, visited, w.bytes, n) \in server[visited[n]].refused
                               /\ \A k \in DOMAIN server :
                                    (\A m \in 1..(n - 1) : visited[m] # k) => stored[k] = server[k]
                               /\ fits => \A m \in 1..(n - 1) : Given(m)
                        [] OTHER -> stored = server
    BY DEF WrittenRegistersReadBack, GivesBack, Slice
  <2>1. answer # NoAnswer
    BY DEF NoAnswer
  <2>2. /\ question.topic = "served"
        /\ answer.written = ServeWrite(server, w.function, w.start, w.quantity, w.bytes)
        /\ answer.read = ServeRead(answer.written.server, w.start, w.quantity)
    BY <2>1 DEF ModbusAnswered
  <2>3. server \in RegisterLists /\ w \in ServedWrites
    BY <2>2, AskedOf DEF ModbusAnswered
  <2> HIDE DEF server, w
  <2>4. \/ answer.written.error \in {1, 3} /\ stored = server
        \/ answer.written.error = 0 \/ answer.written.error = 4
    BY <2>2, <2>3, WriteOutcomes
  <2> HIDE DEF stored, visited
  <2>5. CASE answer.written.error \in {1, 3} /\ stored = server
    BY <2>5
  <2>6. CASE answer.written.error = 0
    <3>1. ASSUME fits PROVE answer.read = [error |-> 0, bytes |-> w.bytes]
      BY <2>2, <2>3, <2>6, <3>1, WriteReadsBack DEF visited
    <3> QED BY <2>6, <3>1
  <2>7. CASE answer.written.error = 4
    <3>1. \E n \in DOMAIN visited :
            /\ WrittenNumber(server, visited, w.bytes, n) \in server[visited[n]].refused
            /\ \A k \in DOMAIN server : (\A m \in 1..(n - 1) : visited[m] # k) => stored[k] = server[k]
            /\ fits => \A m \in 1..(n - 1) : Given(m)
      BY <2>2, <2>3, <2>7, RefusedWrite DEF stored, visited
    <3> QED BY <2>7, <3>1
  <2> QED BY <2>4, <2>5, <2>6, <2>7
<1> QED BY <1>1, QuestionsAnswered, PTL
=============================================================================
