------------------------ MODULE ModbusCalculations ------------------------
(***************************************************************************)
(* The parts of the Modbus client that compute and do not interact: a      *)
(* question is put to one of them, and it answers.                         *)
(***************************************************************************)
EXTENDS ModbusData

CONSTANTS
  Tables,         \* the cells of the server behind the loopback
  Configurations, \* sequences of configured entities
  Asks,           \* what the controller asks: a kind, table, start, quantity, values, unit
  RegisterLists,  \* lists of registers that a controller serves
  ServedWrites    \* requests to write them

ASSUME DataAssumption ==
  /\ ByteWrap \in Nat /\ MaxValues \in Nat \ {0} /\ 2 * MaxValues <= ByteWrap
  /\ AddressWrap \in Nat \ {0}
  /\ \A configs \in Configurations : configs \in Seq(Range(configs)) /\ Supported(configs)
  /\ \A t \in {"coils", "discrete"} : \A a \in DOMAIN Tables[t] : Tables[t][a] \in 0..1
  /\ \A t \in {"holding", "input"} : \A a \in DOMAIN Tables[t] : Tables[t][a] \in 0..(WordSize - 1)

\* The tables of a server, and commands the controller makes for them.
ASSUME CommandAssumption ==
  /\ DOMAIN Tables = TableNames
  /\ \A t \in TableNames : \E n \in 0..AddressWrap : Tables[t] \in [0..(n - 1) -> Nat]
  /\ \A c \in Asks : c.unit = UnitId /\ c.kind # "other" =>
       /\ c.table \in TableNames /\ c.start \in Nat /\ c.quantity \in Nat \ {0}
       /\ \/ c.kind = "read" /\ c.quantity <= MaxValues
          \/ /\ c.kind \in {"single", "multiple"} /\ c.table \in {"coils", "holding"}
             /\ c.values \in Seq(IF c.table = "coils" THEN 0..1 ELSE 0..(WordSize - 1))
             /\ Len(c.values) = c.quantity /\ (c.kind = "single" => c.quantity = 1)

\* Registers that a controller serves, and requests to write them: one register has one
\* word's request.
ASSUME ServedAssumption ==
  /\ \A server \in RegisterLists :
       server \in Seq([address : Nat, value : ValueTypes, writable : BOOLEAN,
                       refused : SUBSET Int, number : Int])
  /\ \A w \in ServedWrites :
       /\ w.start \in Nat /\ w.quantity \in Nat /\ (w.function = "single" => w.quantity = 1)
       /\ w.bytes \in Seq(0..(ByteSize - 1))

VARIABLES question, answer
exchange == <<question, answer>>

NoAnswer == [topic |-> "none"]

Switches(configs) == {i \in DOMAIN configs : configs[i].kind = "switch"}

SwitchQuestions(configs) ==
  [topic : {"switch"}, configs : {configs}, switch : Switches(configs), state : BOOLEAN, multiple : BOOLEAN]

ModbusQuestions ==
  [topic : {"poll"}, configs : Configurations]
  \cup (UNION {SwitchQuestions(c) : c \in Configurations})
  \cup [topic : {"command"}, command : Asks]
  \cup [topic : {"served"}, server : RegisterLists, write : ServedWrites]

Answer(a) == answer = NoAnswer /\ answer' = a /\ UNCHANGED question

AnswerPoll ==
  /\ question.topic = "poll"
  /\ Answer([topic |-> "poll", shown |-> Poll(question.configs, Tables)])

AnswerSwitch ==
  /\ question.topic = "switch"
  /\ Answer([topic |-> "switch", tables |-> SwitchWrite(question.configs, question.switch,
               question.state, question.multiple, Tables).tables])

CommandFor(r) ==
  CASE r.kind = "read" ->
         ReadCommand(CHOOSE t \in RegisterTypes : TableOf[t] = r.table, r.start, r.quantity)
    [] r.kind = "single" /\ r.table = "coils" -> WriteSingleCoil(r.start, r.values[1] = 1)
    [] r.kind = "single" /\ r.table = "holding" -> WriteSingle(r.start, r.values[1])
    [] r.kind = "multiple" /\ r.table = "coils" ->
         WriteMultipleCoils(r.start, [i \in DOMAIN r.values |-> r.values[i]])
    [] r.kind = "multiple" /\ r.table = "holding" -> WriteMultiple(r.start, r.values)
    [] r.kind = "other" -> [WriteSingle(r.start, 0) EXCEPT !.function = <<"other", r.table>>]

AnswerCommand ==
  /\ question.topic = "command"
  /\ Answer([topic |-> "command",
             reply |-> LoopbackAnswer(Tables, [CommandFor(question.command)
                                                 EXCEPT !.unit = question.command.unit])])

AnswerServed ==
  /\ question.topic = "served"
  /\ LET w == question.write
         written == ServeWrite(question.server, w.function, w.start, w.quantity, w.bytes)
     IN  Answer([topic |-> "served", written |-> written,
                 read |-> ServeRead(written.server, w.start, w.quantity)])

ModbusAnswering == AnswerPoll \/ AnswerSwitch \/ AnswerCommand \/ AnswerServed

---------------------------------------------------------------------------
(* What the answers should be, told from the configuration and the tables  *)
(* alone.                                                                  *)

\* The number in words, the highest first.
NumberOf(words, signed) ==
  LET number[k \in 0..Len(words)] ==
        IF k = 0 THEN 0 ELSE number[k - 1] * WordSize + words[k]
  IN  IF signed THEN AsSigned(number[Len(words)], SizeOf(Len(words))) ELSE number[Len(words)]

\* A mask is a run of bits; it names a field of the number, without a sign unless it is all of it.
Field(c, words) ==
  LET low == LowestBit(c.mask, 4 * ByteBits)
  IN  IF c.value.words = 4 \/ c.mask \in {AllBits, SizeOf(c.value.words) - 1} THEN NumberOf(words, c.value.signed)
      ELSE (NumberOf(words, FALSE) \div Pow2[low]) % (c.mask \div Pow2[low] + 1)

\* The register an entity is configured for: an offset counts coils and, for a switch,
\* registers; elsewhere it counts bytes.
CellFor(c) ==
  c.address + (IF c.type \in BitTypes \/ c.kind = "switch" THEN c.offset ELSE c.offset \div 2)

Reading(c) ==
  LET cell(k) == Get(Tables, TableOf[c.type], CellFor(c) + k)
      words   == [k \in 1..c.value.words |-> cell(k - 1)]
  IN  IF c.kind = "sensor" THEN Field(c, IF c.value.reversed THEN Reverse(words) ELSE words)
      ELSE IF c.type \in BitTypes THEN cell(0)
      ELSE IF BitAnd(cell(0), c.mask) # 0 THEN 1 ELSE 0

\* Every sensor shows the value of the register it is configured for, however the
\* ranges were cut (modbustcp_controller.cpp:324-428, 236-259), and none is left out
\* unless there are more neighbours than one command may read (modbustcp.cpp:249).  It
\* is about the loopback's whole reply; the TCP path passes on nine bytes (211).
EverySensorReadsItsRegister ==
  answer.topic = "poll" => \A i \in DOMAIN question.configs :
    LET c == question.configs[i]
    IN  /\ answer.shown[i] \subseteq {Reading(c)}
        /\ CellsOf(question.configs, c.type) <= MaxValues => answer.shown[i] # {}

\* A switch sets the cell it is configured for and no other, although the walk has
\* rewritten its start and offset (modbustcp_switch.cpp:75-101), unless more registers are
\* counted than one command may read.
SwitchReachesItsCell ==
  answer.topic = "switch" =>
    LET c  == question.configs[question.switch]
        on == IF c.type = "coil" THEN 1 ELSE BitAnd(WordSize - 1, c.mask)
    IN  (c.type = "holding" => CellsOf(question.configs, c.type) <= MaxValues) =>
          answer.tables = [Tables EXCEPT ![TableOf[c.type]][CellFor(c)] = IF question.state THEN on ELSE 0]

Promise(r) == INSTANCE RegisterFile WITH
  Size <- [t \in TableNames |-> Cardinality(DOMAIN Tables[t])],
  Limit <- [t \in TableNames |-> MaxValues], Requests <- {}, Word <- {},
  table <- Tables, asked <- <<r>>, answers <- <<>>, served <- TRUE

\* The request of another client that a command amounts to.
RequestFor(c) ==
  [id |-> 0, kind |-> IF c.kind = "read" THEN "read" ELSE "write", table |-> c.table,
   start |-> c.start, quantity |-> c.quantity, values |-> c.values]

\* The values in the bytes of a reply.
ValuesIn(r, bytes) ==
  [i \in 1..(IF r.kind = "read" THEN r.quantity ELSE 0) |->
     IF r.table \in {"coils", "discrete"} THEN CoilFromVector(i - 1, bytes)
     ELSE WordAt(bytes, 2 * (i - 1))]

\* A command for cells that are there has the outcome that the server promises its
\* other clients, in the same tables (modbustcp.cpp:31-161).
LoopbackKeepsPromise ==
  answer.topic = "command" /\ question.command.unit = UnitId /\ question.command.kind # "other" =>
    LET r == RequestFor(question.command)
    IN  Promise(r)!InTable(r) =>
          /\ answer.reply.error = 0
          /\ ValuesIn(r, answer.reply.bytes) = Promise(r)!Answer(r).values
          /\ \A t \in TableNames : answer.reply.tables[t] = Promise(r)!Effect(r, t)

\* Registers that a controller serves read back as they were written, whatever their types.
\* A write that is refused for its form, or for a register that is missing or cannot be
\* written, changes none of them ("before writing to any of them"); one that a write lambda
\* refuses has written the registers before that one, and no others
\* (modbustcp_controller.cpp:109-226).
WrittenRegistersReadBack ==
  answer.topic = "served" =>
    LET w       == question.write
        server  == question.server
        stored  == answer.written.server
        visited == Visited(server, w.start, w.quantity)
        fits    == 2 * WordsBefore(server, visited, Len(visited) + 1) = Len(w.bytes)
        words(n) == [j \in 1..server[visited[n]].value.words |->
                       WordAt(w.bytes, 2 * (WordsBefore(server, visited, n) + j - 1))]
        Holds(n) == NumberToPayload(stored[visited[n]].number, stored[visited[n]].value) = words(n)
    IN  CASE answer.written.error = 0 -> fits => answer.read = [error |-> 0, bytes |-> w.bytes]
          [] answer.written.error = 4 ->
               \E n \in DOMAIN visited :
                 /\ WrittenNumber(server, visited, w.bytes, n) \in server[visited[n]].refused
                 /\ \A k \in DOMAIN server : (\A m \in 1..(n - 1) : visited[m] # k) => stored[k] = server[k]
                 /\ fits => \A m \in 1..(n - 1) : Holds(m)
          [] OTHER -> stored = server
=============================================================================
