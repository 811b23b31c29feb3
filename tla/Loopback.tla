------------------------------ MODULE Loopback ------------------------------
(***************************************************************************)
(* The internal loopback: a command of the controller is carried out on    *)
(* the tables of the Modbus server of the same device, inside send(), and  *)
(* the answer is dispatched before send() returns.                         *)
(* A request has the function it asks for, a start, a quantity and the     *)
(* bytes of its payload; an answer an error (0: none), the bytes of the    *)
(* reply and the tables afterwards.                                        *)
(***************************************************************************)
EXTENDS RegisterValues

CONSTANTS
  MaxValues,    \* the most values send() lets through; 128 in the code
  AddressWrap,  \* the values of a uint16_t address; 65536 in the code
  UnitId        \* unit_id_ of the server

TableNames == {"coils", "discrete", "holding", "input"}
TableOf == [coil |-> "coils", discrete |-> "discrete", holding |-> "holding", read |-> "input"]

---------------------------------------------------------------------------
(* The cells as the server's public methods give them: one that is not     *)
(* there reads as 0 and is not written.                                    *)

Get(tables, t, a) ==
  LET address == a % AddressWrap
  IN  IF address \in DOMAIN tables[t] THEN tables[t][address] ELSE 0

Put(tables, t, start, values) ==
  [tables EXCEPT ![t] = [a \in DOMAIN @ |->
     LET at == {i \in DOMAIN values : (start + i - 1) % AddressWrap = a}
     IN  IF at = {} THEN @[a] ELSE values[CHOOSE i \in at : \A j \in at : j <= i]]]

---------------------------------------------------------------------------
(* Bits in bytes, the first bit lowest.                                    *)

BitOf(byte, k) == (byte \div Pow2[k]) % 2
ByteCount(bits) == (bits + ByteBits - 1) \div ByteBits
PackByte(bits, n) ==
  LET value[k \in 0..ByteBits] ==
        IF k = 0 THEN 0
        ELSE value[k - 1] + (LET i == ByteBits * (n - 1) + k
                             IN  IF i <= Len(bits) THEN bits[i] * Pow2[k - 1] ELSE 0)
  IN  value[ByteBits]
Pack(bits) == [n \in 1..ByteCount(Len(bits)) |-> PackByte(bits, n)]
CoilFromVector(coil, bytes) == BitOf(bytes[coil \div ByteBits + 1], coil % ByteBits)

\* Coil i of a payload; a byte that is missing reads as off.
PayloadCoil(payload, i) ==
  IF i \div ByteBits < Len(payload) THEN CoilFromVector(i, payload) ELSE 0

---------------------------------------------------------------------------
(* The commands the controller makes and the loopback's answers.           *)

ReadCommand(type, start, quantity) ==
  [unit |-> UnitId, function |-> <<"read", TableOf[type]>>, start |-> start,
   quantity |-> quantity, payload |-> <<>>]
WriteSingleCoil(address, state) ==
  [unit |-> UnitId, function |-> <<"single", "coils">>, start |-> address, quantity |-> 1,
   payload |-> <<IF state THEN ByteSize - 1 ELSE 0, 0>>]
WriteMultipleCoils(address, states) ==
  [unit |-> UnitId, function |-> <<"multiple", "coils">>, start |-> address,
   quantity |-> Len(states), payload |-> Pack(states)]
WriteSingle(address, word) ==
  [unit |-> UnitId, function |-> <<"single", "holding">>, start |-> address, quantity |-> 1,
   payload |-> HiLo(word)]
WriteMultiple(address, words) ==
  [unit |-> UnitId, function |-> <<"multiple", "holding">>, start |-> address,
   quantity |-> Len(words), payload |-> BytesOfWords(words)]

Refused(tables, exception) == [error |-> exception, bytes |-> <<>>, tables |-> tables]
Answered(tables, bytes) == [error |-> 0, bytes |-> bytes, tables |-> tables]

Values(tables, r) == [i \in 1..r.quantity |-> Get(tables, r.function[2], r.start + i - 1)]
ReadAnswer(tables, r) ==
  Answered(tables, IF r.function[2] \in {"coils", "discrete"}
                     THEN Pack(Values(tables, r)) ELSE BytesOfWords(Values(tables, r)))

\* Mutant: the loop over the words starts at the second one.
WordsLate(r) == [i \in 1..r.quantity |-> WordAt(r.payload, IF i = r.quantity THEN 0 ELSE 2 * i)]

PayloadWords(r) == [i \in 1..r.quantity |-> WordAt(r.payload, 2 * (i - 1))]
PayloadCoils(r) == [i \in 1..r.quantity |-> PayloadCoil(r.payload, i - 1)]

\* The cells that a write sets, once its payload is long enough.
Written(r) ==
  CASE r.function = <<"single", "coils">> ->
         <<IF WordAt(r.payload, 0) = (ByteSize - 1) * ByteSize THEN 1 ELSE 0>>
    [] r.function = <<"single", "holding">> -> <<WordAt(r.payload, 0)>>
    [] r.function = <<"multiple", "coils">> -> PayloadCoils(r)
    [] r.function = <<"multiple", "holding">> -> PayloadWords(r)

PayloadNeeded(r) ==
  CASE r.function[1] = "single" -> 2
    [] r.function = <<"multiple", "coils">> -> 1     \* a payload at all
    [] r.function = <<"multiple", "holding">> -> 2 * r.quantity

Echo(r) ==
  HiLo(r.start) \o (IF r.function[1] = "single" THEN SubSeq(r.payload, 1, 2) ELSE HiLo(r.quantity))

\* process_internal_loopback_request_
LoopbackAnswer(tables, r) ==
  IF r.unit # UnitId THEN Refused(tables, 2)
  ELSE IF r.function[1] = "other" THEN Refused(tables, 1)
  ELSE IF r.function[1] = "read" THEN ReadAnswer(tables, r)
  ELSE IF Len(r.payload) < PayloadNeeded(r) THEN Refused(tables, 3)
  ELSE Answered(Put(tables, r.function[2], r.start, Written(r)), Echo(r))

\* send(): a command for too many values goes nowhere.
Sent(r) == r.quantity <= MaxValues
=============================================================================
