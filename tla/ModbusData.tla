----------------------------- MODULE ModbusData -----------------------------
(***************************************************************************)
(* From an entity to its register and back: the sensors, binary sensors    *)
(* and switches of the client over the ranges and the loopback, and the    *)
(* registers a controller serves itself.                                   *)
(*                                                                         *)
(* A configured entity is a record of its kind ("sensor", "binary",        *)
(* "switch"), register type, address, offset, count, value type, bitmask,  *)
(* response size, skip_updates and force_new_range.                        *)
(***************************************************************************)
EXTENDS Loopback, RegisterRanges

CONSTANT MaxWritten   \* the most registers one request may write; 0x7B in the code

SensorSet(configs) == [i \in DOMAIN configs |-> Item(configs[i])]

\* parse_and_publish of the three kinds, with the offset the walk has left.
ParseSensor(c, offset, bytes) == PayloadToNumber(bytes, c.value, offset, c.mask)
ParseBinary(c, offset, bytes) ==
  IF c.type \in BitTypes THEN CoilFromVector(offset, bytes)
  ELSE IF BitAnd(WordAt(bytes, offset), c.mask) # 0 THEN 1 ELSE 0
ParseSwitch(c, offset, bytes) == ParseBinary(c, offset, bytes)

ParseAndPublish(c, offset, bytes) ==
  CASE c.kind = "sensor" -> ParseSensor(c, offset, bytes)
    [] c.kind = "binary" -> ParseBinary(c, offset, bytes)
    [] c.kind = "switch" -> ParseSwitch(c, offset, bytes)

\* Every range is polled once and its reply given to the sensors that are found for
\* it: what each of them shows then.
Poll(configs, tables) ==
  LET plan == CreateRegisterRanges(SensorSet(configs))
      Reply(r) == LoopbackAnswer(tables, ReadCommand(r.type, r.start, r.count)).bytes
      For(i) == {n \in DOMAIN plan.ranges :
                   /\ Sent(ReadCommand(plan.ranges[n].type, plan.ranges[n].start, plan.ranges[n].count))
                   /\ i \in FindSensors(plan.ranges, plan.ranges[n].type, plan.ranges[n].start)}
  IN  [i \in DOMAIN configs |->
         {ParseAndPublish(configs[i], plan.items[i].offset, Reply(plan.ranges[n])) : n \in For(i)}]

\* Mutant: a register is addressed by its byte offset.
SwitchCommandByBytes(c, item, state, multiple) ==
  LET word == IF state THEN BitAnd(WordSize - 1, c.mask) ELSE 0
  IN  IF c.type = "coil"
        THEN IF multiple THEN WriteMultipleCoils(item.start + item.offset, <<IF state THEN 1 ELSE 0>>)
                         ELSE WriteSingleCoil(item.start + item.offset, state)
      ELSE IF multiple THEN WriteMultiple(item.start + item.offset, <<word>>)
                       ELSE WriteSingle(item.start + item.offset, word)

\* The command of ModbusTCPSwitch::write_state, for an item as the walk has left it.
SwitchCommand(c, item, state, multiple) ==
  LET word == IF state THEN BitAnd(WordSize - 1, c.mask) ELSE 0
  IN  IF c.type = "coil"
        THEN IF multiple THEN WriteMultipleCoils(item.start + item.offset, <<IF state THEN 1 ELSE 0>>)
                         ELSE WriteSingleCoil(item.start + item.offset, state)
      ELSE IF multiple THEN WriteMultiple(item.start + item.offset \div 2, <<word>>)
                       ELSE WriteSingle(item.start + item.offset \div 2, word)

SwitchWrite(configs, i, state, multiple, tables) ==
  LoopbackAnswer(tables,
    SwitchCommand(configs[i], CreateRegisterRanges(SensorSet(configs)).items[i], state, multiple))

---------------------------------------------------------------------------
(* The registers a controller serves: server[k] has an address, a value    *)
(* type, whether it can be written, the numbers its write lambda refuses   *)
(* and the value its read lambda gives.                                    *)

At(server, a) ==
  LET found == {k \in DOMAIN server : server[k].address = a}
  IN  IF found = {} THEN 0 ELSE CHOOSE k \in found : \A j \in found : k <= j

\* One turn of the loop over the addresses of a request: it goes on behind the register
\* that is found, and ends where there is none.
Turn(server, end, reached) ==
  LET k == At(server, reached.address)
  IN  IF reached.address >= end THEN reached
      ELSE [address |-> IF k = 0 THEN end ELSE reached.address + server[k].value.words,
            visited |-> Append(reached.visited, k)]

\* The registers that a request walks through; 0 where there is none.
Visited(server, start, quantity) ==
  LET reached[n \in 0..quantity] ==
        IF n = 0 THEN [address |-> start, visited |-> <<>>]
        ELSE Turn(server, start + quantity, reached[n - 1])
  IN  reached[quantity].visited
AllThere(visited) == \A n \in DOMAIN visited : visited[n] # 0

\* on_modbus_read_registers
ServeRead(server, start, quantity) ==
  LET visited == Visited(server, start, quantity)
      WordsOf(k) == NumberToPayload(server[k].number, server[k].value)
  IN  IF AllThere(visited)
        THEN [error |-> 0, bytes |-> BytesOfWords(FlattenSeq([n \in DOMAIN visited |-> WordsOf(visited[n])]))]
        ELSE [error |-> 2, bytes |-> <<>>]

WordsBefore(server, visited, n) ==
  LET sum[k \in 0..(n - 1)] == IF k = 0 THEN 0 ELSE sum[k - 1] + server[visited[k]].value.words
  IN  sum[n - 1]

\* What the n-th register visited is given.
WrittenNumber(server, visited, bytes, n) ==
  PayloadToNumber(bytes, server[visited[n]].value, 2 * WordsBefore(server, visited, n), AllBits)

\* What the registers are after the first `upto` of those visited have taken their value.
Stored(server, visited, bytes, upto) ==
  [k \in DOMAIN server |->
     LET at == {n \in 1..upto : visited[n] = k}
     IN  IF at = {} THEN server[k]
         ELSE [server[k] EXCEPT !.number =
                 WrittenNumber(server, visited, bytes, CHOOSE n \in at : TRUE)]]

\* Mutant: nothing is looked up before the first register is written.
ServeWriteUnchecked(server, function, start, quantity, bytes) ==
  LET count   == IF function = "single" THEN 1 ELSE quantity
      visited == Visited(server, start, count)
      Refuse(exception) == [error |-> exception, server |-> server]
      Closed(n) == visited[n] = 0 \/ ~server[visited[n]].writable
      bad     == {n \in DOMAIN visited : \/ Closed(n)
                    \/ WrittenNumber(server, visited, bytes, n) \in server[visited[n]].refused}
      first   == CHOOSE n \in bad : \A m \in bad : n <= m
  IN  IF function \notin {"single", "multiple"} THEN Refuse(1)
      ELSE IF function = "multiple" /\ (quantity \notin 1..MaxWritten \/ Len(bytes) # 2 * quantity)
        THEN Refuse(3)
      ELSE IF bad = {} THEN [error |-> 0, server |-> Stored(server, visited, bytes, Len(visited))]
      ELSE [error |-> IF Closed(first) THEN 1 ELSE 4, server |-> Stored(server, visited, bytes, first - 1)]

\* on_modbus_write_registers: every register is looked up before one is written, and the
\* first write lambda that refuses its number ends it, behind those that took theirs.
ServeWrite(server, function, start, quantity, bytes) ==
  LET count    == IF function = "single" THEN 1 ELSE quantity
      visited  == Visited(server, start, count)
      Refuse(exception) == [error |-> exception, server |-> server]
      refusing == {n \in DOMAIN visited :
                     WrittenNumber(server, visited, bytes, n) \in server[visited[n]].refused}
      first    == CHOOSE n \in refusing : \A m \in refusing : n <= m
  IN  IF function \notin {"single", "multiple"} THEN Refuse(1)
      ELSE IF function = "multiple" /\ (quantity \notin 1..MaxWritten \/ Len(bytes) # 2 * quantity)
        THEN Refuse(3)
      ELSE IF ~(AllThere(visited) /\ \A n \in DOMAIN visited : server[visited[n]].writable)
        THEN Refuse(1)
      ELSE IF refusing = {} THEN [error |-> 0, server |-> Stored(server, visited, bytes, Len(visited))]
      ELSE [error |-> 4, server |-> Stored(server, visited, bytes, first - 1)]

---------------------------------------------------------------------------
(* Which configurations are considered: well-formed entities, and none of  *)
(* what the code does not get right (see the README): two widths, two      *)
(* offsets or a forced and an unforced range at one address; coils with an *)
(* offset of their own that have neighbours; more registers in a row than  *)
(* a byte counts.                                                          *)

\* All bits, or a run of them within the number.
MaskFits(mask, words) ==
  \/ mask = AllBits
  \/ \E low, width \in 0..(4 * ByteBits) :
       /\ width > 0 /\ low + width <= 2 * ByteBits * words /\ mask = Run(low, width)

\* What is shown lies within the registers that are counted.
WellFormed(c) ==
  /\ c.type \in RegisterTypes /\ c.address \in Nat /\ c.address + c.offset < AddressWrap
  /\ c.offset \in 0..(ByteWrap - 2) /\ c.skip \in Nat
  /\ c.mask \in 0..AllBits /\ c.force \in BOOLEAN /\ c.bytes = 0
  /\ \/ /\ c.kind = "sensor" /\ c.type \notin BitTypes /\ c.value \in ValueTypes
        /\ c.value.words = 4 \/ MaskFits(c.mask, c.value.words)
        /\ c.offset % 2 = 0 /\ c.count \in 1..(ByteWrap - 1) /\ c.offset + 2 * c.value.words <= 2 * c.count
     \/ c.kind = "binary" /\ (c.type \in BitTypes \/ c.offset = 0)
     \/ c.kind = "switch" /\ c.type \in {"coil", "holding"}

SameCell(c, d) == Item(c).type = Item(d).type /\ Item(c).start = Item(d).start
CellsOf(configs, type) ==
  LET sum[n \in 0..Len(configs)] ==
        IF n = 0 THEN 0
        ELSE sum[n - 1] + (IF configs[n].type = type THEN Item(configs[n]).count ELSE 0)
  IN  sum[Len(configs)]

Supported(configs) ==
  /\ \A i \in DOMAIN configs : WellFormed(configs[i])
  /\ \A i, j \in DOMAIN configs : i # j /\ SameCell(configs[i], configs[j]) =>
       /\ Item(configs[i]).count = Item(configs[j]).count
       /\ configs[i].force = configs[j].force
       /\ Item(configs[i]).offset = 0 \/ Item(configs[j]).offset = 0
  /\ \A i \in DOMAIN configs : Item(configs[i]).type \in BitTypes /\ Item(configs[i]).offset > 0 =>
       \A j \in DOMAIN configs \ {i} : configs[j].type # configs[i].type
  /\ \A t \in RegisterTypes : CellsOf(configs, t) < ByteWrap
=============================================================================
