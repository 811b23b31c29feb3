---------------------------- MODULE ModbusServer ----------------------------
(***************************************************************************)
(* The Modbus TCP server: one client at a time, requests taken from a byte *)
(* stream, four tables of cells.  A pass of loop() either deals with the   *)
(* connection or carries out one request; nothing else touches the stream  *)
(* in between but the arrival of bytes, so a pass is one action, for the   *)
(* bytes that have arrived.  The two builds differ in what they do when    *)
(* bytes are missing: ESP-IDF gives up, Arduino reads -1.                  *)
(***************************************************************************)
EXTENDS Integers, Sequences, FiniteSets, SequencesExt

CONSTANTS
  Builds,       \* the builds considered: subsets of {"idf", "arduino"}
  UnitId,       \* unit_id_
  Size,         \* max_registers_ and max_coils_, by table
  MaxRegisters, \* how many registers one request may read; 125 in the code
  MaxCoils,     \* how many coils one request may read; 2000 in the code
  Requests,     \* the requests the clients send
  InPieces,     \* those of them that do not arrive whole
  AppWrites,    \* what the application writes to the tables
  Pieces,       \* bound: the sizes of a piece that is not the last
  MaxRequests,  \* bound: requests on one connection
  MaxUnserved   \* bound: requests sent and not yet answered

Tables == {"coils", "discrete", "holding", "input"}
Words == 0..65535

ASSUME ConstantsAssumption ==
  /\ Builds \subseteq {"idf", "arduino"} /\ InPieces \subseteq Requests /\ UnitId \in 0..255
  /\ Size \in [Tables -> Nat \ {0}]
  /\ MaxRegisters \in Nat /\ MaxCoils \in Nat
  /\ AppWrites \subseteq [table : Tables, address : Nat, value : Words]
  /\ \A w \in AppWrites : w.table \in {"coils", "discrete"} => w.value \in {0, 1}
  /\ Pieces \subseteq Nat \ {0} /\ MaxRequests \in Nat /\ MaxUnserved \in Nat

\* A request names what it asks for in words, and a write brings the values it names.
ASSUME RequestsAreMeant ==
  \A r \in Requests :
    /\ {r.id, r.protocol, r.start, r.quantity} \subseteq Words /\ r.unit \in 0..255
    /\ r.kind \in {"read", "write", "other"} /\ r.table \in Tables
    /\ r.single \in BOOLEAN /\ r.values \in Seq(Words)
    /\ r.kind = "write" =>
         /\ r.table \in {"coils", "holding"} /\ Len(r.values) = r.quantity
         /\ r.single => r.quantity = 1
         /\ r.table = "coils" => r.values \in Seq({0, 1})

VARIABLES
  build,    \* the build of the server
  socket,   \* client_socket_ / client_: "none", "open", or "closed" by the client
  waiting,  \* a client has connected and is not yet accepted
  stream,   \* bytes received and not yet read
  flight,   \* bytes sent and not yet received
  cells,    \* holding_registers_, input_registers_, coils_, discrete_inputs_
  told,     \* the application's copy of the coils and holding registers
  sent,     \* history: the requests of this connection
  replies   \* history: the responses written on this connection

connection == <<socket, waiting>>
vars == <<build, connection, stream, flight, cells, told, sent, replies>>

Writable == {"coils", "holding"}
Blank(t) == [a \in 0..(Size[t] - 1) |-> 0]

Init ==
  /\ build \in Builds
  /\ socket = "none" /\ waiting = FALSE
  /\ stream = <<>> /\ flight = <<>>
  /\ cells = [t \in Tables |-> Blank(t)]
  /\ told = [t \in Writable |-> Blank(t)]
  /\ sent = <<>> /\ replies = <<>>

---------------------------------------------------------------------------
(* Bytes and words.                                                        *)

\* What Arduino's client_.read() returns when nothing has arrived.  Its two reads
\* of a word are taken in the order they are written in.
NoByte == -1
NoWord == 65535
Padded(s, n) == [i \in 1..n |-> IF i <= Len(s) THEN s[i] ELSE NoByte]

Byte(s, i) == IF s[i] = NoByte THEN 255 ELSE s[i]
WordAt(s, i) == IF s[i + 1] = NoByte THEN NoWord ELSE s[i] * 256 + s[i + 1]

HiLo(w) == <<w \div 256, w % 256>>
BytesOf(values) ==
  [k \in 1..(2 * Len(values)) |->
     IF k % 2 = 1 THEN values[(k + 1) \div 2] \div 256 ELSE values[k \div 2] % 256]

\* Mutant: the first coil in the highest bit.
BitFromTop(b, i) == (b \div 2^(7 - i)) % 2

\* Bit i of byte b, and coils packed eight to a byte, the first lowest.
Bit(b, i) == (b \div 2^i) % 2
ByteCount(quantity) == (quantity + 7) \div 8
Packed(values) ==
  [k \in 1..ByteCount(Len(values)) |->
     LET Value(i) == IF 8 * (k - 1) + i < Len(values)
                       THEN values[8 * (k - 1) + i + 1] * 2^i ELSE 0
     IN  Value(0) + Value(1) + Value(2) + Value(3)
           + Value(4) + Value(5) + Value(6) + Value(7)]

---------------------------------------------------------------------------
(* The clients and the network.                                            *)

FunctionCode(r) ==
  CASE r.kind = "other" -> 23
    [] r.kind = "read" /\ r.table = "coils" -> 1
    [] r.kind = "read" /\ r.table = "discrete" -> 2
    [] r.kind = "read" /\ r.table = "holding" -> 3
    [] r.kind = "read" /\ r.table = "input" -> 4
    [] r.kind = "write" /\ r.table = "coils" -> IF r.single THEN 5 ELSE 15
    [] r.kind = "write" /\ r.table = "holding" -> IF r.single THEN 6 ELSE 16

Body(r) ==
  CASE FunctionCode(r) = 5 -> HiLo(r.start) \o <<255 * r.values[1], 0>>
    [] FunctionCode(r) = 6 -> HiLo(r.start) \o HiLo(r.values[1])
    [] FunctionCode(r) = 15 -> HiLo(r.start) \o HiLo(r.quantity)
                               \o <<ByteCount(r.quantity)>> \o Packed(r.values)
    [] FunctionCode(r) = 16 -> HiLo(r.start) \o HiLo(r.quantity)
                               \o <<2 * r.quantity>> \o BytesOf(r.values)
    [] OTHER -> HiLo(r.start) \o HiLo(r.quantity)

\* A request as it is sent: the MBAP header, the function code, the body.
Frame(r) ==
  HiLo(r.id) \o HiLo(r.protocol) \o HiLo(2 + Len(Body(r)))
    \o <<r.unit, FunctionCode(r)>> \o Body(r)

\* What a client sends is bytes.
ASSUME FramesAreBytes == \A r \in Requests : Frame(r) \in Seq(0..255)

ClientConnects ==
  /\ ~waiting /\ waiting' = TRUE
  /\ UNCHANGED <<build, socket, stream, flight, cells, told, sent, replies>>

ClientSends(r) ==
  /\ socket = "open" /\ Len(sent) < MaxRequests /\ Len(sent) - Len(replies) < MaxUnserved
  /\ sent' = Append(sent, r)
  /\ IF r \in InPieces \/ flight # <<>>
       THEN flight' = flight \o Frame(r) /\ UNCHANGED stream
       ELSE stream' = stream \o Frame(r) /\ UNCHANGED flight
  /\ UNCHANGED <<build, connection, cells, told, replies>>

Arrive(n) ==
  /\ n <= Len(flight)
  /\ stream' = stream \o SubSeq(flight, 1, n)
  /\ flight' = SubSeq(flight, n + 1, Len(flight))
  /\ UNCHANGED <<build, connection, cells, told, sent, replies>>

RestArrives == flight # <<>> /\ Arrive(Len(flight))

\* The client closes the connection, or it is lost with what has not been read.
ClientCloses ==
  /\ socket = "open" /\ socket' = "closed"
  /\ flight' = <<>> /\ stream' \in {stream, <<>>}
  /\ UNCHANGED <<build, waiting, cells, told, sent, replies>>

---------------------------------------------------------------------------
(* A pass of loop(): the connection.                                       *)

\* ESP-IDF looks at waiting clients only when it has none.  Arduino replaces a
\* client that has gone and turns away the others.
Connected == socket = "open" \/ (socket = "closed" /\ stream # <<>>)

Accept ==
  /\ waiting /\ waiting' = FALSE
  /\ IF build = "idf" THEN socket = "none" ELSE socket # "open"
  /\ socket' = "open" /\ stream' = <<>> /\ flight' = <<>>
  /\ sent' = <<>> /\ replies' = <<>>
  /\ UNCHANGED <<build, cells, told>>

TurnAway ==
  /\ build = "arduino" /\ waiting /\ Connected /\ waiting' = FALSE
  /\ UNCHANGED <<build, socket, stream, flight, cells, told, sent, replies>>

\* Mutant: a closed connection keeps its socket.
HangupKeepsSocket ==
  /\ build = "idf" /\ socket = "closed" /\ stream = <<>> /\ waiting
  /\ UNCHANGED vars

\* ESP-IDF takes a connection for closed when nothing is left to read.
Hangup ==
  /\ build = "idf" /\ socket = "closed" /\ stream = <<>>
  /\ socket' = "none"
  /\ UNCHANGED <<build, waiting, stream, flight, cells, told, sent, replies>>

---------------------------------------------------------------------------
(* A pass of loop(): one request.                                          *)

Id == WordAt(stream, 1)
Protocol == WordAt(stream, 3)
Unit == stream[7]
Function == stream[8]
Rest == SubSeq(stream, 9, Len(stream))

HeaderArrived == socket # "none" /\ Len(stream) >= 8 /\ (build = "idf" \/ Connected)
Accepted == Protocol = 0 /\ Unit \in {0, UnitId}

IsMultiple == Function \in {15, 16}

\* What the handler reads before it does anything.
Needed ==
  IF ~IsMultiple THEN 4
  ELSE IF Len(Rest) < 5 THEN 5 ELSE 5 + Rest[5]
Complete == build = "arduino" \/ Len(Rest) >= Needed

\* The body as the handler sees it: what is missing is -1.
Seen(n) == Padded(Rest, n)
Start == WordAt(Seen(4), 1)
Second == WordAt(Seen(4), 3)  \* the quantity, or the value of a single write
DataCount == Byte(Seen(5), 5)

Consume(n) == stream' = SubSeq(Rest, n + 1, Len(Rest))

Reply(code, data) ==
  replies' = Append(replies, [id |-> Id, unit |-> Unit, code |-> code, data |-> data])
Exception(code) == Reply(128 + Function, <<code>>)

Unchanged == UNCHANGED <<build, connection, flight, sent>>
TablesUnchanged == UNCHANGED <<cells, told>>

Ignore ==
  /\ HeaderArrived /\ ~Accepted
  /\ Consume(0)
  /\ Unchanged /\ TablesUnchanged /\ UNCHANGED replies

UnsupportedFunction ==
  /\ HeaderArrived /\ Accepted /\ Function \notin {1, 2, 3, 4, 5, 6, 15, 16}
  /\ Consume(0)
  /\ Exception(1)
  /\ Unchanged /\ TablesUnchanged

\* ESP-IDF: a read that finds too little returns at once, what it has taken is gone.
Truncated ==
  /\ HeaderArrived /\ Accepted /\ Function \in {1, 2, 3, 4, 5, 6, 15, 16} /\ ~Complete
  /\ stream' = <<>>
  /\ Unchanged /\ TablesUnchanged /\ UNCHANGED replies

Handles(codes) == HeaderArrived /\ Accepted /\ Function \in codes /\ Complete

Encoded(t, values) == IF t \in {"coils", "discrete"} THEN Packed(values) ELSE BytesOf(values)

Read(t, limit) ==
  /\ Consume(4)
  /\ \/ Second \notin 1..limit /\ Exception(3)
     \/ Second \in 1..limit /\ Start + Second > Size[t] /\ Exception(2)
     \/ /\ Second \in 1..limit /\ Start + Second <= Size[t]
        /\ LET data == Encoded(t, [i \in 1..Second |-> cells[t][Start + i - 1]])
           IN  Reply(Function, <<Len(data) % 256>> \o data)
  /\ Unchanged /\ TablesUnchanged

ReadCoils == Handles({1}) /\ Read("coils", MaxCoils)
ReadDiscreteInputs == Handles({2}) /\ Read("discrete", MaxCoils)
ReadHoldingRegisters == Handles({3}) /\ Read("holding", MaxRegisters)
ReadInputRegisters == Handles({4}) /\ Read("input", MaxRegisters)

\* Mutant: only the first cell is called back.
StoreTellsFirst(t, start, values) ==
  LET written == start .. (start + Len(values) - 1)
      After(f) == [a \in DOMAIN f \cup written |->
                     IF a \in written THEN values[a - start + 1] ELSE f[a]]
  IN  /\ cells' = [cells EXCEPT ![t] = After(@)]
      /\ told' = [told EXCEPT ![t] = [@ EXCEPT ![start] = values[1]]]

\* Write a run of cells and call the application back for each of them.  A cell
\* outside the table would show as one more address.
Store(t, start, values) ==
  LET written == start .. (start + Len(values) - 1)
      After(f) == [a \in DOMAIN f \cup written |->
                     IF a \in written THEN values[a - start + 1] ELSE f[a]]
  IN  /\ cells' = [cells EXCEPT ![t] = After(@)]
      /\ told' = [told EXCEPT ![t] = After(@)]

WriteSingle(t, value) ==
  /\ Consume(4)
  /\ \/ Start >= Size[t] /\ Exception(2) /\ TablesUnchanged
     \/ /\ Start < Size[t]
        /\ Store(t, Start, <<value>>)
        /\ Reply(Function, HiLo(Start) \o HiLo(Second))
  /\ Unchanged

CoilOn == 65280
WriteSingleCoil == Handles({5}) /\ WriteSingle("coils", IF Second = CoilOn THEN 1 ELSE 0)
WriteSingleRegister == Handles({6}) /\ WriteSingle("holding", Second)

\* The exception path drops the announced bytes, the other one the bytes used:
\* ESP-IDF has read the announced ones in either case.
WriteMultiple(t, used, values) ==
  /\ \/ /\ Start + Second > Size[t]
        /\ Consume(5 + DataCount) /\ Exception(2) /\ TablesUnchanged
     \/ /\ Start + Second <= Size[t]
        /\ Consume(5 + (IF build = "idf" THEN DataCount ELSE used))
        /\ Store(t, Start, values)
        /\ Reply(Function, HiLo(Start) \o HiLo(Second))
  /\ Unchanged

\* Values ESP-IDF takes from behind its buffer, when fewer bytes are announced than
\* the quantity needs, are whatever is there: one value stands for all of them.
Data(used) == SubSeq(Seen(5 + used), 6, 5 + used)
Outside(i) == build = "idf" /\ i > DataCount

WriteMultipleCoils ==
  /\ Handles({15})
  /\ \E stray \in {0, 1} :
       WriteMultiple("coils", ByteCount(Second),
         [i \in 1..Second |->
            IF Outside(ByteCount(i)) THEN stray
            ELSE Bit(Byte(Data(ByteCount(Second)), ByteCount(i)), (i - 1) % 8)])

WriteMultipleRegisters ==
  /\ Handles({16})
  /\ \E stray \in {0, NoWord} :
       WriteMultiple("holding", 2 * Second,
         [i \in 1..Second |->
            IF Outside(2 * i) THEN stray ELSE WordAt(Data(2 * Second), 2 * i - 1)])

Request ==
  \/ Ignore \/ UnsupportedFunction \/ Truncated
  \/ ReadCoils \/ ReadDiscreteInputs \/ ReadHoldingRegisters \/ ReadInputRegisters
  \/ WriteSingleCoil \/ WriteSingleRegister
  \/ WriteMultipleCoils \/ WriteMultipleRegisters

---------------------------------------------------------------------------
(* The application on the device.                                          *)

\* An address outside the table is ignored.
AppSets(w) ==
  /\ w.address < Size[w.table]
  /\ cells' = [cells EXCEPT ![w.table][w.address] = w.value]
  /\ told' = IF w.table \in Writable
               THEN [told EXCEPT ![w.table][w.address] = w.value] ELSE told
  /\ UNCHANGED <<build, connection, stream, flight, sent, replies>>

Next ==
  \/ ClientConnects \/ ClientCloses
  \/ \E r \in Requests : ClientSends(r)
  \/ \E n \in Pieces : Arrive(n)
  \/ RestArrives
  \/ Accept \/ TurnAway \/ Hangup
  \/ Request
  \/ \E w \in AppWrites : AppSets(w)

Spec == Init /\ [][Next]_vars

\* loop() runs again and again, and the network delivers what was sent.
FairSpec ==
  /\ Spec
  /\ WF_vars(Accept) /\ WF_vars(TurnAway) /\ WF_vars(Hangup) /\ WF_vars(Request)
  /\ WF_vars(RestArrives)

---------------------------------------------------------------------------
(* Correctness.                                                            *)

BytesOnly == stream \in Seq(0..255) /\ flight \in Seq(0..255)

\* The tables keep their addresses: nothing is written outside them, whatever is sent
\* and in whatever pieces (a write beyond a table would show as one more address).
TablesKeepTheirSize ==
  /\ DOMAIN cells = Tables /\ DOMAIN told = Writable
  /\ \A t \in Tables : DOMAIN cells[t] = 0..(Size[t] - 1)

TypeOK ==
  /\ build \in Builds
  /\ socket \in {"none", "open", "closed"} /\ waiting \in BOOLEAN
  /\ BytesOnly /\ TablesKeepTheirSize
  /\ sent \in Seq(Requests)

Served(r) == r.protocol = 0 /\ r.unit \in {0, UnitId} /\ r.kind # "other"
AllServed == \A i \in DOMAIN sent : Served(sent[i]) /\ sent[i] \notin InPieces
Unanswered == SubSeq(sent, Len(replies) + 1, Len(sent))

\* What a client reads out of the response to r; 255 when it is not one.
Decoded(r, reply) ==
  LET error == CASE reply.code = FunctionCode(r) -> 0
                 [] reply.code = 128 + FunctionCode(r) -> reply.data[1]
                 [] OTHER -> 255
      Value(i) == IF r.table \in {"coils", "discrete"}
                    THEN Bit(reply.data[1 + ByteCount(i)], (i - 1) % 8)
                    ELSE WordAt(reply.data, 2 * i)
  IN  [id |-> reply.id, error |-> error,
       values |-> IF r.kind = "read" /\ error = 0
                    THEN [i \in 1..r.quantity |-> Value(i)] ELSE <<>>]

Promise == INSTANCE RegisterFile WITH
  Limit <- [t \in Tables |-> IF t \in {"coils", "discrete"} THEN MaxCoils ELSE MaxRegisters],
  Word <- {w.value : w \in AppWrites},
  table <- cells,
  asked <- Unanswered,
  answers <- IF AllServed THEN [i \in 1..Len(replies) |-> Decoded(sent[i], replies[i])] ELSE <<>>,
  served <- AllServed

\* The server implements a register file: whatever a client pipelines, its requests
\* are carried out whole, in their order, and each answer decodes to what the tables
\* held at that moment or to the right exception, for as long as the client asks only
\* for what is served and its requests arrive whole (the eight handlers,
\* modbus_tcp_server.cpp 308-738).
ImplementsPromise == Promise!Spec

\* The application's copy, kept by the callbacks and its own writes, is what the
\* coils and holding registers hold, whatever arrives in whatever pieces.
ApplicationIsTold == \A t \in Writable : told[t] = cells[t]

\* Once the client has closed its connection, the one that waits is let in, unless
\* the first had sent something that is not served or did not arrive whole.
WaitingClientLetIn == (waiting /\ socket = "closed" /\ AllServed) ~> (~waiting \/ ~AllServed)

\* A request is answered while its connection stands, though it arrive in pieces: the
\* reads have a time-out of one second (modbus_tcp_server.cpp 184).
RequestsAnswered ==
  \A n \in 1..MaxRequests :
    (Len(sent) >= n /\ Served(sent[n])) ~> (Len(replies) >= n \/ socket # "open")
=============================================================================
