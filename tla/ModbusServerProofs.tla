------------------------- MODULE ModbusServerProofs -------------------------
(* For every size of the tables, every limit and every set of requests,     *)
(* complete or cut off anywhere, and both builds: the server writes within  *)
(* its tables, and the application is told of every write.  And as long as  *)
(* what a client asks for is served and arrives whole, the server, byte by  *)
(* byte, implements the register file: frames decode to the requests they   *)
(* encode, the stream is a queue of unanswered frames, each step answers    *)
(* the first of them or none.                                               *)
EXTENDS ModbusServer, SequenceTheorems, TLAPS

LEMMA SizesAreNumbers == \A t \in Tables : Size[t] \in Nat /\ Size[t] >= 1
BY ConstantsAssumption DEF ConstantsAssumption

Bytes == 0..255

LEMMA BytesOnlyMeans == BytesOnly <=> (stream \in Seq(Bytes) /\ flight \in Seq(Bytes))
BY DEF BytesOnly, Bytes

LEMMA BytesOnlyNext ==
  BytesOnly' <=> (stream' \in Seq(Bytes) /\ flight' \in Seq(Bytes))
BY DEF BytesOnly, Bytes

LEMMA ByteFacts == \A a \in Bytes, b \in Bytes : b # NoByte /\ a \in Nat /\ a * 256 + b \in Nat
BY DEF Bytes, NoByte

\* The end of a sequence of bytes, and so what a handler leaves of the stream.
LEMMA SuffixIsBytes ==
  ASSUME NEW s \in Seq(Bytes), NEW m \in Nat, m >= 1
  PROVE  SubSeq(s, m, Len(s)) \in Seq(Bytes)
<1>1. \A i \in m..Len(s) : s[i] \in Bytes
  <2>1. Len(s) \in Nat /\ \A i \in 1..Len(s) : s[i] \in Bytes
    OBVIOUS
  <2> QED
    BY <2>1
<1> QED
  BY <1>1, SubSeqProperties

LEMMA PrefixIsBytes ==
  ASSUME NEW s \in Seq(Bytes), NEW n \in Nat, n <= Len(s)
  PROVE  SubSeq(s, 1, n) \in Seq(Bytes)
<1>1. \A i \in 1..n : s[i] \in Bytes
  <2>1. Len(s) \in Nat /\ \A i \in 1..Len(s) : s[i] \in Bytes
    OBVIOUS
  <2> QED
    BY <2>1
<1> QED
  BY <1>1, SubSeqProperties

LEMMA RestIsBytes == ASSUME stream \in Seq(Bytes) PROVE Rest \in Seq(Bytes)
BY SuffixIsBytes DEF Rest

LEMMA ConsumeKeepsBytes ==
  ASSUME stream \in Seq(Bytes), NEW n \in Nat, Consume(n)
  PROVE  stream' \in Seq(Bytes)
<1>1. Rest \in Seq(Bytes) /\ n + 1 \in Nat /\ n + 1 >= 1
  BY RestIsBytes
<1> QED
  BY <1>1, SuffixIsBytes DEF Consume

\* A word that is read is a number, also where bytes are missing: they are missing at
\* the end.
LEMMA WordSeen ==
  ASSUME stream \in Seq(Bytes)
  PROVE  Start \in Nat /\ Second \in Nat /\ DataCount \in Nat
<1>1. Rest \in Seq(Bytes) /\ Len(Rest) \in Nat /\ \A i \in 1..Len(Rest) : Rest[i] \in Bytes
  BY RestIsBytes
<1>2. ASSUME NEW i \in {1, 3} PROVE WordAt(Seen(4), i) \in Nat
  <2>1. /\ Seen(4)[i] = IF i <= Len(Rest) THEN Rest[i] ELSE NoByte
        /\ Seen(4)[i + 1] = IF i + 1 <= Len(Rest) THEN Rest[i + 1] ELSE NoByte
    BY DEF Seen, Padded
  <2>2. CASE i + 1 <= Len(Rest)
    <3>1. Seen(4)[i] \in Bytes /\ Seen(4)[i + 1] \in Bytes
      BY <1>1, <2>1, <2>2
    <3> QED
      BY <3>1, ByteFacts DEF WordAt
  <2>3. CASE ~(i + 1 <= Len(Rest))
    <3>1. Seen(4)[i + 1] = NoByte /\ NoWord \in Nat
      BY <2>1, <2>3, SMT DEF NoWord
    <3> QED
      BY <3>1 DEF WordAt
  <2> QED
    BY <2>2, <2>3
<1>3. DataCount \in Nat
  <2>1. Seen(5)[5] = IF 5 <= Len(Rest) THEN Rest[5] ELSE NoByte
    BY DEF Seen, Padded
  <2> QED
    <3>1. CASE 5 <= Len(Rest)
      <4>1. Seen(5)[5] \in Bytes
        BY <1>1, <2>1, <3>1
      <4>2. Seen(5)[5] # NoByte /\ Seen(5)[5] \in Nat
        BY <4>1, ByteFacts
      <4> QED
        BY <4>2 DEF DataCount, Byte
    <3>2. CASE ~(5 <= Len(Rest))
      <4>1. Seen(5)[5] = NoByte
        BY <2>1, <3>2
      <4> QED
        BY <4>1 DEF DataCount, Byte
    <3> QED
      BY <3>1, <3>2
<1> QED
  BY <1>2, <1>3 DEF Start, Second

---------------------------------------------------------------------------
(* Writing.                                                                *)

\* The copy and the tables have their shape and agree.
Agreed == TablesKeepTheirSize /\ ApplicationIsTold

LEMMA StoreKeeps ==
  ASSUME Agreed, NEW t \in Writable, NEW start \in Nat, NEW values, Len(values) \in Nat,
         start + Len(values) <= Size[t], Store(t, start, values)
  PROVE  Agreed'
<1> DEFINE written == start .. (start + Len(values) - 1)
           After(f) == [a \in DOMAIN f \cup written |->
                          IF a \in written THEN values[a - start + 1] ELSE f[a]]
<1>1. cells' = [cells EXCEPT ![t] = After(cells[t])] /\ told' = [told EXCEPT ![t] = After(told[t])]
  BY DEF Store
<1>2. t \in Tables /\ DOMAIN cells = Tables /\ DOMAIN told = Writable
  BY DEF Agreed, TablesKeepTheirSize, Writable, Tables
<1>3. written \subseteq 0..(Size[t] - 1)
  BY <1>2, SizesAreNumbers
<1>4. DOMAIN After(cells[t]) = 0..(Size[t] - 1)
  BY <1>2, <1>3 DEF Agreed, TablesKeepTheirSize
<1>5. After(told[t]) = After(cells[t])
  BY DEF Agreed, ApplicationIsTold
<1> HIDE DEF After
<1>6. \A u \in Tables : cells'[u] = IF u = t THEN After(cells[t]) ELSE cells[u]
  BY <1>1, <1>2
<1>7. \A u \in Writable : told'[u] = IF u = t THEN After(told[t]) ELSE told[u]
  BY <1>1, <1>2
<1>8. DOMAIN cells' = Tables /\ DOMAIN told' = Writable
  BY <1>1, <1>2
<1>9. TablesKeepTheirSize'
  BY <1>4, <1>6, <1>8 DEF Agreed, TablesKeepTheirSize
<1>10. ApplicationIsTold'
  BY <1>5, <1>6, <1>7 DEF Agreed, ApplicationIsTold, Writable, Tables
<1> QED
  BY <1>9, <1>10 DEF Agreed

LEMMA NothingStored == ASSUME Agreed, TablesUnchanged PROVE Agreed'
BY DEF TablesUnchanged, Agreed, TablesKeepTheirSize, ApplicationIsTold

LEMMA WriteSingleKeeps ==
  ASSUME BytesOnly, Agreed, NEW t \in Writable, NEW value, WriteSingle(t, value)
  PROVE  BytesOnly' /\ Agreed'
<1>1. Start \in Nat
  BY WordSeen, BytesOnlyMeans
<1>2. stream' \in Seq(Bytes) /\ UNCHANGED flight
  BY ConsumeKeepsBytes, BytesOnlyMeans DEF WriteSingle, Unchanged
<1>3. ASSUME TablesUnchanged PROVE Agreed'
  BY <1>3, NothingStored
<1>4. ASSUME Start < Size[t], Store(t, Start, <<value>>) PROVE Agreed'
  <2>1. Size[t] \in Nat
    BY SizesAreNumbers DEF Writable, Tables
  <2>2. Len(<<value>>) = 1 /\ Start + 1 <= Size[t]
    BY <1>1, <1>4, <2>1
  <2> QED
    BY <1>1, <1>4, <2>2, StoreKeeps
<1>5. TablesUnchanged \/ (Start < Size[t] /\ Store(t, Start, <<value>>))
  BY DEF WriteSingle
<1> QED
  BY <1>2, <1>3, <1>4, <1>5, BytesOnlyMeans, BytesOnlyNext

LEMMA WriteMultipleKeeps ==
  ASSUME BytesOnly, Agreed, NEW t \in Writable, NEW used \in Nat, NEW values,
         Len(values) = Second, WriteMultiple(t, used, values)
  PROVE  BytesOnly' /\ Agreed'
<1>1. Start \in Nat /\ Second \in Nat /\ DataCount \in Nat
  BY WordSeen, BytesOnlyMeans
<1>2. stream' \in Seq(Bytes)
  <2>1. PICK n \in {DataCount, used} : Consume(5 + n)
    BY DEF WriteMultiple
  <2>2. 5 + n \in Nat
    BY <1>1
  <2> QED
    BY <2>1, <2>2, ConsumeKeepsBytes, BytesOnlyMeans
<1>3. ASSUME TablesUnchanged PROVE Agreed'
  BY <1>3, NothingStored
<1>4. ASSUME Start + Second <= Size[t], Store(t, Start, values) PROVE Agreed'
  BY <1>1, <1>4, StoreKeeps
<1>5. TablesUnchanged \/ (Start + Second <= Size[t] /\ Store(t, Start, values))
  BY DEF WriteMultiple
<1>6. UNCHANGED flight
  BY DEF WriteMultiple, Unchanged
<1> QED
  BY <1>2, <1>3, <1>4, <1>5, <1>6, BytesOnlyMeans, BytesOnlyNext

LEMMA ReadKeeps ==
  ASSUME BytesOnly, Agreed, NEW t, NEW limit, Read(t, limit)
  PROVE  BytesOnly' /\ Agreed'
<1>1. stream' \in Seq(Bytes) /\ UNCHANGED flight
  BY ConsumeKeepsBytes, BytesOnlyMeans DEF Read, Unchanged
<1>2. Agreed'
  BY NothingStored DEF Read
<1> QED
  BY <1>1, <1>2, BytesOnlyMeans, BytesOnlyNext

---------------------------------------------------------------------------
(* The handlers.                                                           *)

LEMMA NoHandlerKeeps ==
  ASSUME BytesOnly, Agreed, Ignore \/ UnsupportedFunction \/ Truncated
  PROVE  BytesOnly' /\ Agreed'
<1>1. stream' \in Seq(Bytes)
  <2>1. CASE Consume(0)
    BY <2>1, ConsumeKeepsBytes, BytesOnlyMeans
  <2>2. CASE stream' = <<>>
    BY <2>2
  <2> QED
    BY <2>1, <2>2 DEF Ignore, UnsupportedFunction, Truncated
<1>2. UNCHANGED flight /\ TablesUnchanged
  BY DEF Ignore, UnsupportedFunction, Truncated, Unchanged
<1> QED
  BY <1>1, <1>2, NothingStored, BytesOnlyMeans, BytesOnlyNext

LEMMA ReadsKeep ==
  ASSUME BytesOnly, Agreed,
         ReadCoils \/ ReadDiscreteInputs \/ ReadHoldingRegisters \/ ReadInputRegisters
  PROVE  BytesOnly' /\ Agreed'
BY ReadKeeps DEF ReadCoils, ReadDiscreteInputs, ReadHoldingRegisters, ReadInputRegisters

LEMMA SingleWritesKeep ==
  ASSUME BytesOnly, Agreed, WriteSingleCoil \/ WriteSingleRegister
  PROVE  BytesOnly' /\ Agreed'
<1>1. "coils" \in Writable /\ "holding" \in Writable
  BY DEF Writable
<1> QED
  BY <1>1, WriteSingleKeeps DEF WriteSingleCoil, WriteSingleRegister

LEMMA MultipleWritesKeep ==
  ASSUME BytesOnly, Agreed, WriteMultipleCoils \/ WriteMultipleRegisters
  PROVE  BytesOnly' /\ Agreed'
<1>1. "coils" \in Writable /\ "holding" \in Writable
  BY DEF Writable
<1>2. Second \in Nat
  BY WordSeen, BytesOnlyMeans
<1>3. ByteCount(Second) \in Nat /\ 2 * Second \in Nat
  BY <1>2 DEF ByteCount
<1>4. CASE WriteMultipleCoils
  <2>1. PICK stray \in {0, 1} :
          WriteMultiple("coils", ByteCount(Second),
            [i \in 1..Second |->
               IF Outside(ByteCount(i)) THEN stray
               ELSE Bit(Byte(Data(ByteCount(Second)), ByteCount(i)), (i - 1) % 8)])
    BY <1>4 DEF WriteMultipleCoils
  <2> DEFINE values == [i \in 1..Second |->
               IF Outside(ByteCount(i)) THEN stray
               ELSE Bit(Byte(Data(ByteCount(Second)), ByteCount(i)), (i - 1) % 8)]
  <2>2. Len(values) = Second
    BY <1>2
  <2>3. WriteMultiple("coils", ByteCount(Second), values)
    BY <2>1
  <2> HIDE DEF values
  <2> QED
    BY <1>1, <1>3, <2>2, <2>3, WriteMultipleKeeps
<1>5. CASE WriteMultipleRegisters
  <2>1. PICK stray \in {0, NoWord} :
          WriteMultiple("holding", 2 * Second,
            [i \in 1..Second |->
               IF Outside(2 * i) THEN stray ELSE WordAt(Data(2 * Second), 2 * i - 1)])
    BY <1>5 DEF WriteMultipleRegisters
  <2> DEFINE values == [i \in 1..Second |->
               IF Outside(2 * i) THEN stray ELSE WordAt(Data(2 * Second), 2 * i - 1)]
  <2>2. Len(values) = Second
    BY <1>2
  <2>3. WriteMultiple("holding", 2 * Second, values)
    BY <2>1
  <2> HIDE DEF values
  <2> QED
    BY <1>1, <1>3, <2>2, <2>3, WriteMultipleKeeps
<1> QED
  BY <1>4, <1>5

\* An address the application names outside its table is ignored.
LEMMA AppSetsKeeps ==
  ASSUME BytesOnly, Agreed, NEW w \in AppWrites, AppSets(w)
  PROVE  BytesOnly' /\ Agreed'
<1>1. w.table \in Tables
  BY ConstantsAssumption DEF ConstantsAssumption
<1>2. DOMAIN cells = Tables /\ DOMAIN told = Writable
  BY DEF Agreed, TablesKeepTheirSize
<1> DEFINE Set(f) == [f EXCEPT ![w.address] = w.value]
<1>3. cells' = [cells EXCEPT ![w.table] = Set(cells[w.table])]
  BY DEF AppSets
<1>4. told' = IF w.table \in Writable THEN [told EXCEPT ![w.table] = Set(told[w.table])] ELSE told
  BY DEF AppSets
<1>5. \A f : DOMAIN Set(f) = DOMAIN f
  OBVIOUS
<1> HIDE DEF Set
<1>6. \A u \in Tables : cells'[u] = IF u = w.table THEN Set(cells[u]) ELSE cells[u]
  BY <1>1, <1>2, <1>3
<1>7. \A u \in Writable : told'[u] = IF u = w.table THEN Set(told[u]) ELSE told[u]
  BY <1>2, <1>4
<1>8. DOMAIN cells' = Tables /\ DOMAIN told' = Writable
  BY <1>2, <1>3, <1>4
<1>9. TablesKeepTheirSize'
  BY <1>5, <1>6, <1>8 DEF Agreed, TablesKeepTheirSize
<1>10. ApplicationIsTold'
  BY <1>6, <1>7 DEF Agreed, ApplicationIsTold, Writable, Tables
<1> QED
  BY <1>9, <1>10 DEF Agreed, AppSets, BytesOnly

LEMMA NetworkKeepsBytes ==
  ASSUME BytesOnly,
         \/ ClientConnects \/ ClientCloses \/ Accept \/ TurnAway \/ Hangup
         \/ \E r \in Requests : ClientSends(r)
         \/ \E n \in Nat : Arrive(n)
  PROVE  BytesOnly'
<1>0. stream \in Seq(Bytes) /\ flight \in Seq(Bytes)
  BY BytesOnlyMeans
<1>1. CASE ClientConnects \/ ClientCloses \/ Accept \/ TurnAway \/ Hangup
  <2>1. stream' \in {stream, <<>>} /\ flight' \in {flight, <<>>}
    BY <1>1 DEF ClientConnects, ClientCloses, Accept, TurnAway, Hangup
  <2>2. <<>> \in Seq(Bytes)
    OBVIOUS
  <2> QED
    BY <1>0, <2>1, <2>2, BytesOnlyMeans, BytesOnlyNext
<1>2. ASSUME NEW r \in Requests, ClientSends(r) PROVE BytesOnly'
  <2>1. Frame(r) \in Seq(Bytes)
    BY FramesAreBytes DEF Bytes
  <2>2. stream' \in {stream, stream \o Frame(r)} /\ flight' \in {flight, flight \o Frame(r)}
    BY <1>2 DEF ClientSends
  <2>3. stream \o Frame(r) \in Seq(Bytes) /\ flight \o Frame(r) \in Seq(Bytes)
    BY <1>0, <2>1, ConcatProperties
  <2> QED
    BY <1>0, <2>2, <2>3, BytesOnlyMeans, BytesOnlyNext
<1>3. ASSUME NEW n \in Nat, Arrive(n) PROVE BytesOnly'
  <2>1. SubSeq(flight, 1, n) \in Seq(Bytes)
    BY <1>0, <1>3, PrefixIsBytes DEF Arrive
  <2>2. SubSeq(flight, n + 1, Len(flight)) \in Seq(Bytes)
    <3>1. n + 1 \in Nat /\ n + 1 >= 1
      OBVIOUS
    <3> QED
      BY <1>0, <3>1, SuffixIsBytes
  <2>3. stream \o SubSeq(flight, 1, n) \in Seq(Bytes)
    BY <1>0, <2>1, ConcatProperties
  <2> QED
    BY <1>3, <2>2, <2>3, BytesOnlyMeans, BytesOnlyNext DEF Arrive
<1> QED
  BY <1>1, <1>2, <1>3

---------------------------------------------------------------------------
IInv == BytesOnly /\ Agreed

LEMMA InitIInv == Init => IInv
<1> SUFFICES ASSUME Init PROVE IInv
  OBVIOUS
<1>1. BytesOnly
  BY DEF Init, BytesOnly
<1>2. TablesKeepTheirSize
  BY DEF Init, TablesKeepTheirSize, Blank
<1>3. ApplicationIsTold
  BY DEF Init, ApplicationIsTold, Writable, Tables
<1> QED
  BY <1>1, <1>2, <1>3 DEF IInv, Agreed

LEMMA StepIInv == IInv /\ [Next]_vars => IInv'
<1> SUFFICES ASSUME IInv, [Next]_vars PROVE IInv'
  OBVIOUS
<1>1. CASE \/ ClientConnects \/ ClientCloses \/ Accept \/ TurnAway \/ Hangup
           \/ \E r \in Requests : ClientSends(r)
           \/ \E n \in Nat : Arrive(n)
  <2>1. TablesUnchanged
    BY <1>1 DEF ClientConnects, ClientCloses, Accept, TurnAway, Hangup, ClientSends, Arrive,
       TablesUnchanged
  <2> QED
    BY <1>1, <2>1, NetworkKeepsBytes, NothingStored DEF IInv
<1>2. CASE (\E n \in Pieces : Arrive(n)) \/ RestArrives
  <2>1. Len(flight) \in Nat
    BY DEF IInv, BytesOnly
  <2>2. Pieces \subseteq Nat
    BY ConstantsAssumption DEF ConstantsAssumption
  <2>3. \E n \in Nat : Arrive(n)
    BY <1>2, <2>1, <2>2 DEF RestArrives
  <2> QED
    BY <1>1, <2>3
<1>3. CASE Request
  BY <1>3, NoHandlerKeeps, ReadsKeep, SingleWritesKeep, MultipleWritesKeep DEF Request, IInv
<1>4. ASSUME NEW w \in AppWrites, AppSets(w) PROVE IInv'
  BY <1>4, AppSetsKeeps DEF IInv
<1>5. CASE UNCHANGED vars
  BY <1>5, NothingStored DEF vars, IInv, BytesOnly, TablesUnchanged
<1> QED
  BY <1>1, <1>2, <1>3, <1>4, <1>5 DEF Next

LEMMA IInvHolds == Spec => []IInv
<1> QED
  BY InitIInv, StepIInv, PTL DEF Spec

\* No request reaches outside the tables, complete, cut off, out of step or nonsense:
\* every handler compares the range with the table before it writes, and a word that
\* Arduino reads where nothing has come is 65535 and fails the comparison
\* (modbus_tcp_server.cpp 503-738).
THEOREM TablesKeepTheirSizeHolds == Spec => []TablesKeepTheirSize
<1>1. IInv => TablesKeepTheirSize
  BY DEF IInv, Agreed
<1> QED
  BY <1>1, IInvHolds, PTL

\* The callbacks name every cell that any handler writes, and the application's own
\* writes do so too: its copy is never behind.
THEOREM ApplicationIsToldHolds == Spec => []ApplicationIsTold
<1>1. IInv => ApplicationIsTold
  BY DEF IInv, Agreed
<1> QED
  BY <1>1, IInvHolds, PTL

---------------------------------------------------------------------------
(* The promise.  First what a frame says, byte by byte.                     *)

\* A word is put together again from its two bytes.
LEMMA Joined ==
  ASSUME NEW w \in Nat
  PROVE  /\ (w \div 256) * 256 + (w % 256) = w
         /\ w \div 256 \in Nat /\ w % 256 \in Nat /\ w % 256 # NoByte
<1>1. (w \div 256) * 256 + (w % 256) = w
  <2> DEFINE q == w \div 256
             m == w % 256
  <2>1. m = w - 256 * q /\ q \in Int
    OBVIOUS
  <2> HIDE DEF q, m
  <2>2. q * 256 + m = w
    BY <2>1
  <2> QED BY <2>2, Zenon DEF q, m
<1>2. w \div 256 \in Nat
  OBVIOUS
<1>3. w % 256 \in Nat /\ w % 256 # NoByte
  BY DEF NoByte
<1> QED BY <1>1, <1>2, <1>3

LEMMA Pair ==
  ASSUME NEW w \in Nat
  PROVE  /\ HiLo(w) \in Seq(Nat) /\ Len(HiLo(w)) = 2
         /\ HiLo(w)[1] = w \div 256 /\ HiLo(w)[2] = w % 256
BY Joined DEF HiLo

LEMMA Joins ==
  ASSUME NEW s \in Seq(Nat), NEW t \in Seq(Nat)
  PROVE  /\ s \o t \in Seq(Nat) /\ Len(s \o t) = Len(s) + Len(t)
         /\ \A i \in 1..Len(s) : (s \o t)[i] = s[i]
         /\ \A i \in 1..Len(t) : (s \o t)[Len(s) + i] = t[i]
OBVIOUS

\* What is known of a request.
Asked(r) ==
  /\ r.id \in Nat /\ r.protocol \in Nat /\ r.start \in Nat /\ r.quantity \in Nat
  /\ r.unit \in Nat /\ r.table \in Tables /\ r.single \in BOOLEAN /\ r.values \in Seq(Nat)
  /\ r.kind \in {"read", "write", "other"}
  /\ r.kind = "write" =>
       /\ r.table \in {"coils", "holding"} /\ Len(r.values) = r.quantity
       /\ r.single => r.quantity = 1
       /\ r.table = "coils" => r.values \in Seq({0, 1})

LEMMA RequestsAreAsked == \A r \in Requests : Asked(r)
<1>1. Words \subseteq Nat /\ 0..255 \subseteq Nat
  BY DEF Words
<1>2. \A v : v \in Seq(Words) => v \in Seq(Nat)
  <2> SUFFICES ASSUME NEW v \in Seq(Words) PROVE v \in Seq(Nat)
    OBVIOUS
  <2> HIDE DEF Words
  <2> QED BY <1>1, SeqMonotonic
<1> HIDE DEF Words
<1>3. ASSUME NEW r \in Requests PROVE Asked(r)
  <2>1. {r.id, r.protocol, r.start, r.quantity} \subseteq Words /\ r.unit \in 0..255
    BY RequestsAreMeant, Zenon
  <2>2. /\ r.kind \in {"read", "write", "other"} /\ r.table \in Tables
        /\ r.single \in BOOLEAN /\ r.values \in Seq(Words)
        /\ r.kind = "write" =>
             /\ r.table \in {"coils", "holding"} /\ Len(r.values) = r.quantity
             /\ r.single => r.quantity = 1
             /\ r.table = "coils" => r.values \in Seq({0, 1})
    BY RequestsAreMeant, Zenon
  <2> QED BY <1>1, <1>2, <2>1, <2>2, Zenon DEF Asked
<1> QED BY <1>3

\* The function codes tell the requests apart.
LEMMA Codes ==
  ASSUME NEW r, Asked(r)
  PROVE  LET c == FunctionCode(r)
         IN  /\ c \in Nat /\ (r.kind # "other" => c \in {1, 2, 3, 4, 5, 6, 15, 16})
             /\ c = 1 => r.kind = "read" /\ r.table = "coils"
             /\ c = 2 => r.kind = "read" /\ r.table = "discrete"
             /\ c = 3 => r.kind = "read" /\ r.table = "holding"
             /\ c = 4 => r.kind = "read" /\ r.table = "input"
             /\ c = 5 => r.kind = "write" /\ r.table = "coils" /\ r.single
             /\ c = 6 => r.kind = "write" /\ r.table = "holding" /\ r.single
             /\ c = 15 => r.kind = "write" /\ r.table = "coils" /\ ~r.single
             /\ c = 16 => r.kind = "write" /\ r.table = "holding" /\ ~r.single
BY DEF FunctionCode, Asked, Tables

LEMMA PackedBytes ==
  ASSUME NEW v \in Seq({0, 1})
  PROVE  Packed(v) \in Seq(Nat) /\ Len(Packed(v)) = ByteCount(Len(v))
<1>1. ByteCount(Len(v)) \in Nat
  BY DEF ByteCount
<1> DEFINE Value(k, i) == IF 8 * (k - 1) + i < Len(v) THEN v[8 * (k - 1) + i + 1] * 2^i ELSE 0
<1>2. ASSUME NEW k \in 1..ByteCount(Len(v)), NEW i \in 0..7 PROVE Value(k, i) \in Nat
  <2>1. 2^i \in Nat
    <3>1. /\ 2^0 \in Nat /\ 2^1 \in Nat /\ 2^2 \in Nat /\ 2^3 \in Nat
          /\ 2^4 \in Nat /\ 2^5 \in Nat /\ 2^6 \in Nat /\ 2^7 \in Nat
      OBVIOUS
    <3>2. i = 0 \/ i = 1 \/ i = 2 \/ i = 3 \/ i = 4 \/ i = 5 \/ i = 6 \/ i = 7
      OBVIOUS
    <3> QED BY <3>1, <3>2, Zenon
  <2>2. CASE 8 * (k - 1) + i < Len(v)
    <3>1. 8 * (k - 1) + i + 1 \in 1..Len(v)
      BY <2>2
    <3>2. v[8 * (k - 1) + i + 1] \in {0, 1}
      BY <3>1
    <3> QED BY <2>1, <2>2, <3>2
  <2> QED BY <2>2
<1>3. \A k \in 1..ByteCount(Len(v)) :
        Value(k, 0) + Value(k, 1) + Value(k, 2) + Value(k, 3)
          + Value(k, 4) + Value(k, 5) + Value(k, 6) + Value(k, 7) \in Nat
  <2> HIDE DEF Value
  <2>1. 0 \in 0..7 /\ 1 \in 0..7 /\ 2 \in 0..7 /\ 3 \in 0..7 /\ 4 \in 0..7 /\ 5 \in 0..7 /\ 6 \in 0..7 /\ 7 \in 0..7
    OBVIOUS
  <2>2. ASSUME NEW k \in 1..ByteCount(Len(v))
        PROVE  Value(k, 0) + Value(k, 1) + Value(k, 2) + Value(k, 3)
                 + Value(k, 4) + Value(k, 5) + Value(k, 6) + Value(k, 7) \in Nat
    <3>1. /\ Value(k, 0) \in Nat /\ Value(k, 1) \in Nat /\ Value(k, 2) \in Nat
          /\ Value(k, 3) \in Nat /\ Value(k, 4) \in Nat /\ Value(k, 5) \in Nat
          /\ Value(k, 6) \in Nat /\ Value(k, 7) \in Nat
      BY <1>2, <2>1, Zenon
    <3> DEFINE a == Value(k, 0)
               b == Value(k, 1)
               c == Value(k, 2)
               d == Value(k, 3)
               e == Value(k, 4)
               f == Value(k, 5)
               g == Value(k, 6)
               h == Value(k, 7)
    <3>2. /\ a \in Nat /\ b \in Nat /\ c \in Nat /\ d \in Nat
          /\ e \in Nat /\ f \in Nat /\ g \in Nat /\ h \in Nat
      BY <3>1
    <3> HIDE DEF a, b, c, d, e, f, g, h
    <3>3. a + b + c + d + e + f + g + h \in Nat
      BY <3>2
    <3> QED BY <3>3 DEF a, b, c, d, e, f, g, h
  <2> QED BY <2>2
<1>4. Packed(v) = [k \in 1..ByteCount(Len(v)) |->
                    Value(k, 0) + Value(k, 1) + Value(k, 2) + Value(k, 3)
                      + Value(k, 4) + Value(k, 5) + Value(k, 6) + Value(k, 7)]
  BY Zenon DEF Packed
<1> DEFINE b(k) == Value(k, 0) + Value(k, 1) + Value(k, 2) + Value(k, 3)
                      + Value(k, 4) + Value(k, 5) + Value(k, 6) + Value(k, 7)
<1>5. Packed(v) = [k \in 1..ByteCount(Len(v)) |-> b(k)] /\ \A k \in 1..ByteCount(Len(v)) : b(k) \in Nat
  BY <1>3, <1>4, Zenon
<1> HIDE DEF b
<1> QED BY <1>1, <1>5

LEMMA BytesOfBytes ==
  ASSUME NEW v \in Seq(Nat)
  PROVE  /\ BytesOf(v) \in Seq(Nat) /\ Len(BytesOf(v)) = 2 * Len(v)
         /\ \A i \in 1..Len(v) :
              BytesOf(v)[2 * i - 1] = v[i] \div 256 /\ BytesOf(v)[2 * i] = v[i] % 256
<1>1. 2 * Len(v) \in Nat /\ Len(v) \in Nat
  OBVIOUS
<1> DEFINE b(k) == IF k % 2 = 1 THEN v[(k + 1) \div 2] \div 256 ELSE v[k \div 2] % 256
<1>2. ASSUME NEW k \in 1..(2 * Len(v)) PROVE b(k) \in Nat
  <2>1. CASE k % 2 = 1
    <3>1. (k + 1) \div 2 \in 1..Len(v)
      BY <1>1, <2>1
    <3>2. v[(k + 1) \div 2] \in Nat
      BY <3>1
    <3> QED BY <2>1, <3>2
  <2>2. CASE k % 2 # 1
    <3>1. k \div 2 \in 1..Len(v)
      BY <1>1, <2>2
    <3>2. v[k \div 2] \in Nat
      BY <3>1
    <3> QED BY <2>2, <3>2
  <2> QED BY <2>1, <2>2
<1>3. BytesOf(v) = [k \in 1..(2 * Len(v)) |-> b(k)]
  BY DEF BytesOf
<1>4. ASSUME NEW i \in 1..Len(v)
      PROVE  BytesOf(v)[2 * i - 1] = v[i] \div 256 /\ BytesOf(v)[2 * i] = v[i] % 256
  <2>1. /\ 2 * i - 1 \in 1..(2 * Len(v)) /\ 2 * i \in 1..(2 * Len(v))
        /\ (2 * i - 1) % 2 = 1 /\ ((2 * i - 1) + 1) \div 2 = i
        /\ (2 * i) % 2 # 1 /\ (2 * i) \div 2 = i
    BY <1>1
  <2> QED BY <1>3, <2>1
<1>5. BytesOf(v) \in Seq(Nat) /\ Len(BytesOf(v)) = 2 * Len(v)
  <2> HIDE DEF b
  <2> QED BY <1>1, <1>2, <1>3
<1> QED BY <1>4, <1>5

\* Every bit of a byte can be taken out of it again.
LEMMA BitOut ==
  ASSUME NEW p \in Nat, p > 0, NEW k \in Nat, NEW a \in {0, 1}, NEW m \in Nat, m < p
  PROVE  ((p * (2 * k + a) + m) \div p) % 2 = a
<1>1. (p * (2 * k + a) + m) \div p = 2 * k + a
  <2> DEFINE q == 2 * k + a
  <2>1. q \in Nat
    OBVIOUS
  <2> HIDE DEF q
  <2>2. (p * q + m) \div p = q
    BY <2>1
  <2> QED BY <2>2 DEF q
<1>2. (2 * k + a) % 2 = a
  OBVIOUS
<1> QED BY <1>1, <1>2

Octet(bit) ==
  bit[0] * 2^0 + bit[1] * 2^1 + bit[2] * 2^2 + bit[3] * 2^3
    + bit[4] * 2^4 + bit[5] * 2^5 + bit[6] * 2^6 + bit[7] * 2^7

LEMMA BitsApart ==
  ASSUME NEW bit \in [0..7 -> {0, 1}], NEW j \in 0..7
  PROVE  Bit(Octet(bit), j) = bit[j]
<1> DEFINE s == Octet(bit)
           a == bit[0]
           b == bit[1]
           c == bit[2]
           d == bit[3]
           e == bit[4]
           f == bit[5]
           g == bit[6]
           h == bit[7]
<1>0. /\ a \in {0, 1} /\ b \in {0, 1} /\ c \in {0, 1} /\ d \in {0, 1}
      /\ e \in {0, 1} /\ f \in {0, 1} /\ g \in {0, 1} /\ h \in {0, 1}
  OBVIOUS
<1>1. s = a + 2 * b + 4 * c + 8 * d + 16 * e + 32 * f + 64 * g + 128 * h
  BY <1>0 DEF Octet
<1> HIDE DEF s, a, b, c, d, e, f, g, h
<1>2. Bit(s, 0) = a
  <2> DEFINE k == b + 2 * c + 4 * d + 8 * e + 16 * f + 32 * g + 64 * h
             m == 0
  <2>1. 2^0 = 1 /\ 1 \in Nat /\ 1 > 0 /\ k \in Nat /\ m \in Nat /\ m < 1
    BY <1>0
  <2>2. s = 1 * (2 * k + a) + m
    BY <1>0, <1>1
  <2> HIDE DEF k, m
  <2>3. ((1 * (2 * k + a) + m) \div 1) % 2 = a
    BY <1>0, <2>1, BitOut
  <2> QED BY <2>1, <2>2, <2>3, Zenon DEF Bit
<1>3. Bit(s, 1) = b
  <2> DEFINE k == c + 2 * d + 4 * e + 8 * f + 16 * g + 32 * h
             m == a
  <2>1. 2^1 = 2 /\ 2 \in Nat /\ 2 > 0 /\ k \in Nat /\ m \in Nat /\ m < 2
    BY <1>0
  <2>2. s = 2 * (2 * k + b) + m
    BY <1>0, <1>1
  <2> HIDE DEF k, m
  <2>3. ((2 * (2 * k + b) + m) \div 2) % 2 = b
    BY <1>0, <2>1, BitOut
  <2> QED BY <2>1, <2>2, <2>3, Zenon DEF Bit
<1>4. Bit(s, 2) = c
  <2> DEFINE k == d + 2 * e + 4 * f + 8 * g + 16 * h
             m == a + 2 * b
  <2>1. 2^2 = 4 /\ 4 \in Nat /\ 4 > 0 /\ k \in Nat /\ m \in Nat /\ m < 4
    BY <1>0
  <2>2. s = 4 * (2 * k + c) + m
    BY <1>0, <1>1
  <2> HIDE DEF k, m
  <2>3. ((4 * (2 * k + c) + m) \div 4) % 2 = c
    BY <1>0, <2>1, BitOut
  <2> QED BY <2>1, <2>2, <2>3, Zenon DEF Bit
<1>5. Bit(s, 3) = d
  <2> DEFINE k == e + 2 * f + 4 * g + 8 * h
             m == a + 2 * b + 4 * c
  <2>1. 2^3 = 8 /\ 8 \in Nat /\ 8 > 0 /\ k \in Nat /\ m \in Nat /\ m < 8
    BY <1>0
  <2>2. s = 8 * (2 * k + d) + m
    BY <1>0, <1>1
  <2> HIDE DEF k, m
  <2>3. ((8 * (2 * k + d) + m) \div 8) % 2 = d
    BY <1>0, <2>1, BitOut
  <2> QED BY <2>1, <2>2, <2>3, Zenon DEF Bit
<1>6. Bit(s, 4) = e
  <2> DEFINE k == f + 2 * g + 4 * h
             m == a + 2 * b + 4 * c + 8 * d
  <2>1. 2^4 = 16 /\ 16 \in Nat /\ 16 > 0 /\ k \in Nat /\ m \in Nat /\ m < 16
    BY <1>0
  <2>2. s = 16 * (2 * k + e) + m
    BY <1>0, <1>1
  <2> HIDE DEF k, m
  <2>3. ((16 * (2 * k + e) + m) \div 16) % 2 = e
    BY <1>0, <2>1, BitOut
  <2> QED BY <2>1, <2>2, <2>3, Zenon DEF Bit
<1>7. Bit(s, 5) = f
  <2> DEFINE k == g + 2 * h
             m == a + 2 * b + 4 * c + 8 * d + 16 * e
  <2>1. 2^5 = 32 /\ 32 \in Nat /\ 32 > 0 /\ k \in Nat /\ m \in Nat /\ m < 32
    BY <1>0
  <2>2. s = 32 * (2 * k + f) + m
    BY <1>0, <1>1
  <2> HIDE DEF k, m
  <2>3. ((32 * (2 * k + f) + m) \div 32) % 2 = f
    BY <1>0, <2>1, BitOut
  <2> QED BY <2>1, <2>2, <2>3, Zenon DEF Bit
<1>8. Bit(s, 6) = g
  <2> DEFINE k == h
             m == a + 2 * b + 4 * c + 8 * d + 16 * e + 32 * f
  <2>1. 2^6 = 64 /\ 64 \in Nat /\ 64 > 0 /\ k \in Nat /\ m \in Nat /\ m < 64
    BY <1>0
  <2>2. s = 64 * (2 * k + g) + m
    BY <1>0, <1>1
  <2> HIDE DEF k, m
  <2>3. ((64 * (2 * k + g) + m) \div 64) % 2 = g
    BY <1>0, <2>1, BitOut
  <2> QED BY <2>1, <2>2, <2>3, Zenon DEF Bit
<1>9. Bit(s, 7) = h
  <2> DEFINE k == 0
             m == a + 2 * b + 4 * c + 8 * d + 16 * e + 32 * f + 64 * g
  <2>1. 2^7 = 128 /\ 128 \in Nat /\ 128 > 0 /\ k \in Nat /\ m \in Nat /\ m < 128
    BY <1>0
  <2>2. s = 128 * (2 * k + h) + m
    BY <1>0, <1>1
  <2> HIDE DEF k, m
  <2>3. ((128 * (2 * k + h) + m) \div 128) % 2 = h
    BY <1>0, <2>1, BitOut
  <2> QED BY <2>1, <2>2, <2>3, Zenon DEF Bit
<1>10. j = 0 \/ j = 1 \/ j = 2 \/ j = 3 \/ j = 4 \/ j = 5 \/ j = 6 \/ j = 7
  OBVIOUS
<1> QED BY <1>2, <1>3, <1>4, <1>5, <1>6, <1>7, <1>8, <1>9, <1>10, Zenon
        DEF s, a, b, c, d, e, f, g, h

LEMMA PackedBack ==
  ASSUME NEW v \in Seq({0, 1}), NEW i \in 1..Len(v)
  PROVE  /\ ByteCount(i) \in 1..ByteCount(Len(v))
         /\ Bit(Packed(v)[ByteCount(i)], (i - 1) % 8) = v[i]
<1> DEFINE k == ByteCount(i)
           j == (i - 1) % 8
           bit(m) == IF 8 * (k - 1) + m < Len(v) THEN v[8 * (k - 1) + m + 1] ELSE 0
           p == Packed(v)[k]
<1>1. Len(v) \in Nat /\ i \in Nat /\ 1 <= i /\ i <= Len(v)
  OBVIOUS
<1>2. k \in 1..ByteCount(Len(v))
  BY <1>1 DEF ByteCount
<1>3. j \in 0..7 /\ 8 * (k - 1) + j = i - 1
  BY <1>1 DEF ByteCount
<1> HIDE DEF k, j
<1>4. ASSUME NEW m \in 0..7 PROVE bit(m) \in {0, 1}
  <2>1. CASE 8 * (k - 1) + m < Len(v)
    <3>1. 8 * (k - 1) + m + 1 \in 1..Len(v)
      BY <1>2, <2>1
    <3> QED BY <2>1, <3>1
  <2> QED BY <2>1
<1> DEFINE Value(m) == IF 8 * (k - 1) + m < Len(v) THEN v[8 * (k - 1) + m + 1] * 2^m ELSE 0
<1>5. p = Value(0) + Value(1) + Value(2) + Value(3) + Value(4) + Value(5) + Value(6) + Value(7)
  BY <1>2, Zenon DEF Packed
<1>6. ASSUME NEW m, 2^m \in Nat PROVE Value(m) = bit(m) * 2^m
  BY <1>6
<1>7. /\ 2^0 \in Nat /\ 2^1 \in Nat /\ 2^2 \in Nat /\ 2^3 \in Nat
      /\ 2^4 \in Nat /\ 2^5 \in Nat /\ 2^6 \in Nat /\ 2^7 \in Nat
  OBVIOUS
<1>8. /\ Value(0) = bit(0) * 2^0 /\ Value(1) = bit(1) * 2^1 /\ Value(2) = bit(2) * 2^2
      /\ Value(3) = bit(3) * 2^3 /\ Value(4) = bit(4) * 2^4 /\ Value(5) = bit(5) * 2^5
      /\ Value(6) = bit(6) * 2^6 /\ Value(7) = bit(7) * 2^7
  <2> HIDE DEF Value, bit
  <2> QED BY <1>6, <1>7, Zenon
<1>9. bit(j) = v[i]
  <2>1. 8 * (k - 1) + j < Len(v) /\ 8 * (k - 1) + j + 1 = i
    BY <1>1, <1>3
  <2> QED BY <2>1, Zenon
<1> HIDE DEF Value, bit
<1> DEFINE bits == [m \in 0..7 |-> bit(m)]
<1>10. bits \in [0..7 -> {0, 1}]
  BY <1>4
<1>11. \A m \in 0..7 : bits[m] = bit(m)
  OBVIOUS
<1> HIDE DEF bits
<1>12. 0 \in 0..7 /\ 1 \in 0..7 /\ 2 \in 0..7 /\ 3 \in 0..7 /\ 4 \in 0..7 /\ 5 \in 0..7 /\ 6 \in 0..7 /\ 7 \in 0..7
  OBVIOUS
<1>13. p = Octet(bits)
  BY <1>5, <1>8, <1>11, <1>12, Zenon DEF Octet
<1>14. Bit(p, j) = bit(j)
  BY <1>3, <1>10, <1>11, <1>13, BitsApart, Zenon
<1> QED BY <1>2, <1>9, <1>14 DEF k, j

LEMMA BytesBack ==
  ASSUME NEW v \in Seq(Nat), NEW i \in 1..Len(v), NEW s, NEW k,
         s[k] = BytesOf(v)[2 * i - 1], s[k + 1] = BytesOf(v)[2 * i]
  PROVE  WordAt(s, k) = v[i]
<1>1. v[i] \in Nat
  OBVIOUS
<1>2. s[k] = v[i] \div 256 /\ s[k + 1] = v[i] % 256
  BY BytesOfBytes
<1> QED BY <1>1, <1>2, Joined DEF WordAt

\* Where a frame has what.
LEMMA FrameLayout ==
  ASSUME NEW r, Asked(r), Body(r) \in Seq(Nat)
  PROVE  /\ Frame(r) \in Seq(Nat) /\ Len(Frame(r)) = 8 + Len(Body(r))
         /\ WordAt(Frame(r), 1) = r.id /\ WordAt(Frame(r), 3) = r.protocol
         /\ Frame(r)[7] = r.unit /\ Frame(r)[8] = FunctionCode(r)
         /\ \A k \in 1..Len(Body(r)) : Frame(r)[8 + k] = Body(r)[k]
<1> DEFINE b == Body(r)
           n == 2 + Len(b)
           x == HiLo(r.id)
           y == HiLo(r.protocol)
           z == HiLo(n)
           u == <<r.unit, FunctionCode(r)>>
           xy == x \o y
           xyz == xy \o z
           head == xyz \o u
           f == head \o b
<1>1. r.id \in Nat /\ r.protocol \in Nat /\ r.unit \in Nat /\ FunctionCode(r) \in Nat
  BY Codes DEF Asked
<1>2. b \in Seq(Nat) /\ n \in Nat /\ Len(b) \in Nat
  OBVIOUS
<1>3. u \in Seq(Nat) /\ Len(u) = 2 /\ u[1] = r.unit /\ u[2] = FunctionCode(r)
  BY <1>1
<1>4. Frame(r) = f
  BY Zenon DEF Frame
<1> HIDE DEF b, n, u
<1>5. x \in Seq(Nat) /\ Len(x) = 2 /\ x[1] = r.id \div 256 /\ x[2] = r.id % 256
  <2> DEFINE w == r.id
  <2>1. w \in Nat
    BY <1>1
  <2> HIDE DEF w
  <2>2. /\ HiLo(w) \in Seq(Nat) /\ Len(HiLo(w)) = 2
        /\ HiLo(w)[1] = w \div 256 /\ HiLo(w)[2] = w % 256
    BY <2>1, Pair
  <2> QED BY <2>2, Zenon DEF w
<1>6. /\ y \in Seq(Nat) /\ Len(y) = 2
      /\ y[1] = r.protocol \div 256 /\ y[2] = r.protocol % 256
  BY <1>1, Pair
<1>7. z \in Seq(Nat) /\ Len(z) = 2
  BY <1>2, Pair
<1> HIDE DEF x, y, z
<1>8. /\ xy \in Seq(Nat) /\ Len(xy) = 4
      /\ xy[1] = x[1] /\ xy[2] = x[2] /\ xy[3] = y[1] /\ xy[4] = y[2]
  <2>0. x \in Seq(Nat) /\ y \in Seq(Nat)
    BY <1>5, <1>6, Zenon
  <2>1. xy \in Seq(Nat) /\ Len(xy) = Len(x) + Len(y)
    BY <2>0, Joins, Zenon
  <2>2. \A i \in 1..Len(y) : xy[Len(x) + i] = y[i]
    BY <2>0, Joins, Zenon
  <2>3. \A i \in 1..Len(x) : xy[i] = x[i]
    BY <2>0, Joins, Zenon
  <2> HIDE DEF xy
  <2> QED BY <1>5, <1>6, <2>1, <2>2, <2>3
<1> HIDE DEF xy
<1>9. xyz \in Seq(Nat) /\ Len(xyz) = 6 /\ \A i \in 1..4 : xyz[i] = xy[i]
  <2>1. /\ xyz \in Seq(Nat) /\ Len(xyz) = Len(xy) + Len(z)
        /\ \A i \in 1..Len(xy) : xyz[i] = xy[i]
    BY <1>7, <1>8, Joins, Zenon
  <2> HIDE DEF xyz
  <2> QED BY <1>7, <1>8, <2>1
<1> HIDE DEF xyz
<1>10. /\ head \in Seq(Nat) /\ Len(head) = 8 /\ head[7] = u[1] /\ head[8] = u[2]
       /\ \A i \in 1..4 : head[i] = xyz[i]
  <2>1. /\ head \in Seq(Nat) /\ Len(head) = Len(xyz) + Len(u)
        /\ \A i \in 1..Len(xyz) : head[i] = xyz[i]
        /\ \A i \in 1..Len(u) : head[Len(xyz) + i] = u[i]
    BY <1>3, <1>9, Joins, Zenon
  <2> HIDE DEF head
  <2> QED BY <1>3, <1>9, <2>1
<1> HIDE DEF head
<1>11. /\ f \in Seq(Nat) /\ Len(f) = 8 + Len(b)
       /\ \A i \in 1..8 : f[i] = head[i]
       /\ \A i \in 1..Len(b) : f[8 + i] = b[i]
  <2>1. /\ f \in Seq(Nat) /\ Len(f) = Len(head) + Len(b)
        /\ \A i \in 1..Len(head) : f[i] = head[i]
        /\ \A i \in 1..Len(b) : f[Len(head) + i] = b[i]
    BY <1>2, <1>10, Joins, Zenon
  <2> HIDE DEF f
  <2> QED BY <1>2, <1>10, <2>1
<1> HIDE DEF f
<1>12. 1 \in 1..4 /\ 2 \in 1..4 /\ 3 \in 1..4 /\ 4 \in 1..4
  OBVIOUS
<1>13. 1 \in 1..8 /\ 2 \in 1..8 /\ 3 \in 1..8 /\ 4 \in 1..8 /\ 7 \in 1..8 /\ 8 \in 1..8
  OBVIOUS
<1>14. f[1] = xy[1] /\ f[2] = xy[2] /\ f[3] = xy[3] /\ f[4] = xy[4]
  <2>1. \A i \in 1..4 : xyz[i] = xy[i]
    BY <1>9, Zenon
  <2>2. \A i \in 1..4 : head[i] = xyz[i]
    BY <1>10, Zenon
  <2>3. \A i \in 1..8 : f[i] = head[i]
    BY <1>11, Zenon
  <2>4. 1..4 \subseteq 1..8
    OBVIOUS
  <2>5. \A i \in 1..4 : f[i] = xy[i]
    BY <2>1, <2>2, <2>3, <2>4, Zenon
  <2> QED BY <1>12, <2>5, Zenon
<1>15. /\ f[1] = r.id \div 256 /\ f[2] = r.id % 256
       /\ f[3] = r.protocol \div 256 /\ f[4] = r.protocol % 256
  BY <1>5, <1>6, <1>8, <1>14, Zenon
<1>16. f[7] = r.unit /\ f[8] = FunctionCode(r)
  BY <1>3, <1>10, <1>11, <1>13, Zenon
<1>17. WordAt(f, 1) = r.id
  BY <1>1, <1>15, Joined DEF WordAt
<1>18. WordAt(f, 3) = r.protocol
  BY <1>1, <1>15, Joined DEF WordAt
<1> QED BY <1>4, <1>11, <1>16, <1>17, <1>18, Zenon DEF b

\* A stretch of a sequence.
LEMMA Stretch ==
  ASSUME NEW s \in Seq(Nat), NEW m \in Nat, NEW l, l = Len(s), m <= l
  PROVE  /\ SubSeq(s, m + 1, l) \in Seq(Nat) /\ Len(SubSeq(s, m + 1, l)) = l - m
         /\ \A i \in 1..(l - m) : SubSeq(s, m + 1, l)[i] = s[m + i]
OBVIOUS

\* What the handlers see when the stream begins with the frame of r.
LEMMA FrameSeen ==
  ASSUME NEW r, Asked(r), Body(r) \in Seq(Nat), NEW g \in Seq(Nat), stream = Frame(r) \o g
  PROVE  /\ Id = r.id /\ Protocol = r.protocol /\ Unit = r.unit /\ Function = FunctionCode(r)
         /\ stream \in Seq(Nat) /\ Len(stream) >= 8
         /\ Rest \in Seq(Nat) /\ Len(Rest) = Len(Body(r)) + Len(g)
         /\ \A k \in 1..Len(Body(r)) : Rest[k] = Body(r)[k]
         /\ Consume(Len(Body(r))) => stream' = g
<1> DEFINE f == Frame(r)
           b == Body(r)
           m == Len(b)
           l == Len(g)
<1>1. /\ f \in Seq(Nat) /\ Len(f) = 8 + m
      /\ WordAt(f, 1) = r.id /\ WordAt(f, 3) = r.protocol
      /\ f[7] = r.unit /\ f[8] = FunctionCode(r)
      /\ \A k \in 1..m : f[8 + k] = b[k]
  BY FrameLayout
<1>2. m \in Nat /\ l \in Nat
  OBVIOUS
<1>3. stream = f \o g
  OBVIOUS
<1> HIDE DEF f, b, m, l
<1>4. stream \in Seq(Nat) /\ Len(stream) = Len(f) + Len(g)
  BY <1>1, <1>3, Joins, Zenon
<1>5. \A i \in 1..Len(f) : stream[i] = f[i]
  <2>1. f \in Seq(Nat) /\ g \in Seq(Nat)
    BY <1>1, Zenon
  <2>2. \A i \in 1..Len(f) : (f \o g)[i] = f[i]
    BY <2>1, Joins, Zenon
  <2> QED BY <1>3, <2>2, Zenon
<1>6. \A i \in 1..Len(g) : stream[Len(f) + i] = g[i]
  <2>1. f \in Seq(Nat) /\ g \in Seq(Nat)
    BY <1>1, Zenon
  <2>2. \A i \in 1..Len(g) : (f \o g)[Len(f) + i] = g[i]
    BY <2>1, Joins, Zenon
  <2> QED BY <1>3, <2>2, Zenon
<1>7. Len(stream) = 8 + m + l
  BY <1>1, <1>4 DEF l
<1>8. \A i \in 1..8 : stream[i] = f[i]
  <2>1. Len(f) = 8 + m
    BY <1>1, Zenon
  <2>2. 1..8 \subseteq 1..Len(f)
    BY <1>2, <2>1
  <2> QED BY <1>5, <2>2, Zenon
<1>9. \A i \in 1..m : stream[8 + i] = b[i]
  <2>1. ASSUME NEW i \in 1..m PROVE 8 + i \in 1..Len(f)
    BY <1>1, <1>2
  <2> QED BY <1>1, <1>5, <2>1, Zenon
<1>10. \A i \in 1..l : stream[8 + m + i] = g[i]
  BY <1>1, <1>6, Zenon DEF l
<1>11. Id = r.id /\ Protocol = r.protocol /\ Unit = r.unit /\ Function = FunctionCode(r)
  <2>1. 1 \in 1..8 /\ 2 \in 1..8 /\ 3 \in 1..8 /\ 4 \in 1..8 /\ 7 \in 1..8 /\ 8 \in 1..8
    OBVIOUS
  <2>2. 1 + 1 = 2 /\ 3 + 1 = 4
    OBVIOUS
  <2>3. stream[1] = f[1] /\ stream[2] = f[2] /\ stream[3] = f[3] /\ stream[4] = f[4]
    BY <1>8, <2>1, Zenon
  <2>4. stream[7] = f[7] /\ stream[8] = f[8]
    BY <1>8, <2>1, Zenon
  <2>5. WordAt(stream, 1) = WordAt(f, 1) /\ WordAt(stream, 3) = WordAt(f, 3)
    BY <2>2, <2>3, Zenon DEF WordAt
  <2> QED BY <1>1, <2>4, <2>5, Zenon DEF Id, Protocol, Unit, Function
<1>12. Rest \in Seq(Nat) /\ Len(Rest) = m + l /\ \A i \in 1..(m + l) : Rest[i] = stream[8 + i]
  <2> DEFINE n == Len(stream)
  <2>1. 8 \in Nat /\ 8 <= n /\ n = Len(stream) /\ n - 8 = m + l /\ 8 + 1 = 9
    BY <1>2, <1>7
  <2>2. Rest = SubSeq(stream, 9, n)
    BY Zenon DEF Rest
  <2> HIDE DEF n
  <2>3. /\ SubSeq(stream, 8 + 1, n) \in Seq(Nat)
        /\ Len(SubSeq(stream, 8 + 1, n)) = n - 8
    BY <1>4, <2>1, Stretch, Zenon
  <2>4. ASSUME NEW i \in 1..(n - 8) PROVE SubSeq(stream, 8 + 1, n)[i] = stream[8 + i]
    <3>1. stream \in Seq(Nat)
      BY <1>4, Zenon
    <3>2. \A j \in 1..(n - 8) : SubSeq(stream, 8 + 1, n)[j] = stream[8 + j]
      BY ONLY <2>1, <3>1, Stretch, Zenon
    <3> QED BY <3>2, Zenon
  <2> QED BY <2>1, <2>2, <2>3, <2>4, Zenon
<1>13. \A k \in 1..m : Rest[k] = b[k]
  <2>1. 1..m \subseteq 1..(m + l)
    BY <1>2
  <2> QED BY <1>9, <1>12, <2>1, Zenon
<1>14. ASSUME Consume(m) PROVE stream' = g
  <2> DEFINE n == Len(Rest)
  <2>1. m <= n /\ n = Len(Rest) /\ n - m = l
    BY <1>2, <1>12
  <2>2. stream' = SubSeq(Rest, m + 1, n)
    BY <1>14, Zenon DEF Consume
  <2> HIDE DEF n
  <2>3. /\ SubSeq(Rest, m + 1, n) \in Seq(Nat)
        /\ Len(SubSeq(Rest, m + 1, n)) = n - m
    BY <1>2, <1>12, <2>1, Stretch, Zenon
  <2>6. ASSUME NEW i \in 1..(n - m) PROVE SubSeq(Rest, m + 1, n)[i] = Rest[m + i]
    <3>1. Rest \in Seq(Nat) /\ m \in Nat
      BY <1>2, <1>12, Zenon
    <3>2. \A j \in 1..(n - m) : SubSeq(Rest, m + 1, n)[j] = Rest[m + j]
      BY ONLY <2>1, <3>1, Stretch, Zenon
    <3> QED BY <3>2, Zenon
  <2>4. stream' \in Seq(Nat) /\ Len(stream') = l /\ \A i \in 1..l : stream'[i] = Rest[m + i]
    BY <2>1, <2>2, <2>3, <2>6, Zenon
  <2>5. ASSUME NEW i \in 1..l PROVE stream'[i] = g[i]
    <3>1. m + i \in 1..(m + l) /\ 8 + (m + i) = 8 + m + i
      BY <1>2
    <3> QED BY <1>10, <1>12, <2>4, <3>1, Zenon
  <2> QED BY <2>4, <2>5, SeqEqual, Zenon DEF l
<1>15. Len(stream) >= 8
  BY <1>2, <1>7
<1> QED BY <1>4, <1>11, <1>12, <1>13, <1>14, <1>15, Zenon DEF b, m, l

LEMMA Quad ==
  ASSUME NEW p \in Nat, NEW q \in Nat
  PROVE  /\ HiLo(p) \o HiLo(q) \in Seq(Nat) /\ Len(HiLo(p) \o HiLo(q)) = 4
         /\ WordAt(HiLo(p) \o HiLo(q), 1) = p /\ WordAt(HiLo(p) \o HiLo(q), 3) = q
<1> DEFINE x == HiLo(p)
           y == HiLo(q)
           u == x \o y
<1>1. x \in Seq(Nat) /\ Len(x) = 2 /\ x[1] = p \div 256 /\ x[2] = p % 256
  BY Pair, Zenon
<1>2. y \in Seq(Nat) /\ Len(y) = 2 /\ y[1] = q \div 256 /\ y[2] = q % 256
  BY Pair, Zenon
<1> HIDE DEF x, y
<1>3. u \in Seq(Nat) /\ Len(u) = Len(x) + Len(y)
  BY <1>1, <1>2, Joins, Zenon
<1>4. \A i \in 1..Len(x) : u[i] = x[i]
  BY <1>1, <1>2, Joins, Zenon
<1>5. \A i \in 1..Len(y) : u[Len(x) + i] = y[i]
  <2>1. x \in Seq(Nat) /\ y \in Seq(Nat)
    BY <1>1, <1>2, Zenon
  <2> QED BY <2>1, Joins, Zenon
<1> HIDE DEF u
<1>6. u[1] = x[1] /\ u[2] = x[2] /\ u[3] = y[1] /\ u[4] = y[2] /\ Len(u) = 4
  BY <1>1, <1>2, <1>3, <1>4, <1>5
<1>7. /\ u[1] = p \div 256 /\ u[1 + 1] = p % 256
      /\ u[3] = q \div 256 /\ u[3 + 1] = q % 256
  <2>1. 1 + 1 = 2 /\ 3 + 1 = 4
    OBVIOUS
  <2> QED BY <1>1, <1>2, <1>6, <2>1, Zenon
<1>8. WordAt(u, 1) = p
  BY <1>7, Joined DEF WordAt
<1>9. WordAt(u, 3) = q
  BY <1>7, Joined DEF WordAt
<1> QED BY <1>3, <1>6, <1>8, <1>9, Zenon DEF u, x, y

\* The second word of a body, and the bytes that follow it when several cells are written.
SecondWord(r) ==
  IF FunctionCode(r) = 5 THEN CoilOn * r.values[1]
  ELSE IF FunctionCode(r) = 6 THEN r.values[1] ELSE r.quantity
Payload(r) == IF FunctionCode(r) = 15 THEN Packed(r.values) ELSE BytesOf(r.values)
IsMultipleWrite(r) == FunctionCode(r) \in {15, 16}

LEMMA SwitchWord ==
  ASSUME NEW v \in {0, 1}
  PROVE  HiLo(CoilOn * v) = <<255 * v, 0>> /\ CoilOn * v \in Nat
<1>1. CASE v = 0
  BY <1>1 DEF HiLo, CoilOn
<1>2. CASE v = 1
  BY <1>2 DEF HiLo, CoilOn
<1> QED BY <1>1, <1>2

LEMMA BodyForm ==
  ASSUME NEW r, Asked(r)
  PROVE  /\ SecondWord(r) \in Nat
         /\ ~IsMultipleWrite(r) => Body(r) = HiLo(r.start) \o HiLo(SecondWord(r))
         /\ IsMultipleWrite(r) =>
              /\ Payload(r) \in Seq(Nat)
              /\ Body(r) = HiLo(r.start) \o HiLo(SecondWord(r))
                           \o <<Len(Payload(r))>> \o Payload(r)
              /\ Len(Payload(r)) = IF FunctionCode(r) = 15 THEN ByteCount(r.quantity)
                                                         ELSE 2 * r.quantity
<1> DEFINE c == FunctionCode(r)
<1>1. /\ c \in Nat
      /\ c = 5 => r.kind = "write" /\ r.table = "coils" /\ r.single
      /\ c = 6 => r.kind = "write" /\ r.table = "holding" /\ r.single
      /\ c = 15 => r.kind = "write" /\ r.table = "coils" /\ ~r.single
      /\ c = 16 => r.kind = "write" /\ r.table = "holding" /\ ~r.single
  BY Codes
<1> HIDE DEF c
<1>2. CASE c = 5
  <2>1. r.values \in Seq({0, 1}) /\ Len(r.values) = 1
    BY <1>1, <1>2 DEF Asked
  <2>2. r.values[1] \in {0, 1}
    BY <2>1
  <2>3. HiLo(CoilOn * r.values[1]) = <<255 * r.values[1], 0>> /\ CoilOn * r.values[1] \in Nat
    BY <2>2, SwitchWord
  <2>4. SecondWord(r) = CoilOn * r.values[1]
    BY <1>2, Zenon DEF SecondWord, c
  <2>5. Body(r) = HiLo(r.start) \o <<255 * r.values[1], 0>>
    <3>1. FunctionCode(r) = 5 /\ FunctionCode(r) # 6 /\ FunctionCode(r) # 15 /\ FunctionCode(r) # 16
      BY <1>2 DEF c
    <3> QED BY <3>1, Zenon DEF Body
  <2>6. ~IsMultipleWrite(r)
    BY <1>2 DEF IsMultipleWrite, c
  <2> QED BY <2>3, <2>4, <2>5, <2>6, Zenon
<1>3. CASE c = 6
  <2>1. r.values \in Seq(Nat) /\ Len(r.values) = 1
    BY <1>1, <1>3 DEF Asked
  <2>2. r.values[1] \in Nat
    BY <2>1
  <2>3. SecondWord(r) = r.values[1]
    BY <1>3 DEF SecondWord, c
  <2>4. Body(r) = HiLo(r.start) \o HiLo(r.values[1])
    BY <1>3 DEF Body, c
  <2>5. ~IsMultipleWrite(r)
    BY <1>3 DEF IsMultipleWrite, c
  <2> QED BY <2>2, <2>3, <2>4, <2>5, Zenon
<1>4. CASE c = 15
  <2>1. r.values \in Seq({0, 1}) /\ Len(r.values) = r.quantity /\ r.quantity \in Nat
    BY <1>1, <1>4 DEF Asked
  <2>2. SecondWord(r) = r.quantity /\ Payload(r) = Packed(r.values)
    BY <1>4 DEF SecondWord, Payload, c
  <2>3. Packed(r.values) \in Seq(Nat) /\ Len(Packed(r.values)) = ByteCount(r.quantity)
    BY <2>1, PackedBytes
  <2>4. Body(r) = HiLo(r.start) \o HiLo(r.quantity) \o <<ByteCount(r.quantity)>> \o Packed(r.values)
    <3>1. FunctionCode(r) = 15 /\ FunctionCode(r) # 5 /\ FunctionCode(r) # 6 /\ FunctionCode(r) # 16
      BY <1>4 DEF c
    <3> QED BY <3>1, Zenon DEF Body
  <2>5. IsMultipleWrite(r)
    BY <1>4 DEF IsMultipleWrite, c
  <2> QED BY <1>4, <2>1, <2>2, <2>3, <2>4, <2>5, Zenon DEF c
<1>5. CASE c = 16
  <2>1. r.values \in Seq(Nat) /\ Len(r.values) = r.quantity /\ r.quantity \in Nat
    BY <1>1, <1>5 DEF Asked
  <2>2. SecondWord(r) = r.quantity /\ Payload(r) = BytesOf(r.values)
    BY <1>5 DEF SecondWord, Payload, c
  <2>3. BytesOf(r.values) \in Seq(Nat) /\ Len(BytesOf(r.values)) = 2 * r.quantity
    BY <2>1, BytesOfBytes
  <2>4. Body(r) = HiLo(r.start) \o HiLo(r.quantity) \o <<2 * r.quantity>> \o BytesOf(r.values)
    <3>1. FunctionCode(r) = 16 /\ FunctionCode(r) # 5 /\ FunctionCode(r) # 6 /\ FunctionCode(r) # 15
      BY <1>5 DEF c
    <3> QED BY <3>1, Zenon DEF Body
  <2>5. IsMultipleWrite(r) /\ FunctionCode(r) # 15
    BY <1>5 DEF IsMultipleWrite, c
  <2> QED BY <2>1, <2>2, <2>3, <2>4, <2>5, Zenon
<1>6. CASE c \notin {5, 6, 15, 16}
  <2>1. SecondWord(r) = r.quantity /\ r.quantity \in Nat
    BY <1>6 DEF SecondWord, c, Asked
  <2>2. Body(r) = HiLo(r.start) \o HiLo(r.quantity)
    BY <1>6 DEF Body, c
  <2>3. ~IsMultipleWrite(r)
    BY <1>6 DEF IsMultipleWrite, c
  <2> QED BY <2>1, <2>2, <2>3, Zenon
<1> QED BY <1>2, <1>3, <1>4, <1>5, <1>6

LEMMA BodyLayout ==
  ASSUME NEW r, Asked(r)
  PROVE  /\ Body(r) \in Seq(Nat) /\ Len(Body(r)) >= 4
         /\ WordAt(Body(r), 1) = r.start /\ WordAt(Body(r), 3) = SecondWord(r)
         /\ ~IsMultipleWrite(r) => Len(Body(r)) = 4
         /\ IsMultipleWrite(r) =>
              /\ Len(Body(r)) = 5 + Len(Payload(r)) /\ Body(r)[5] = Len(Payload(r))
              /\ \A k \in 1..Len(Payload(r)) : Body(r)[5 + k] = Payload(r)[k]
<1> DEFINE u == HiLo(r.start) \o HiLo(SecondWord(r))
           b == Body(r)
<1>1. SecondWord(r) \in Nat /\ r.start \in Nat
  BY BodyForm DEF Asked
<1>2. /\ u \in Seq(Nat) /\ Len(u) = 4
      /\ WordAt(u, 1) = r.start /\ WordAt(u, 3) = SecondWord(r)
  BY <1>1, Quad, Zenon
<1>3. CASE ~IsMultipleWrite(r)
  <2>1. b = u
    BY <1>3, BodyForm, Zenon
  <2> HIDE DEF u, b
  <2>2. /\ b \in Seq(Nat) /\ Len(b) >= 4 /\ Len(b) = 4
        /\ WordAt(b, 1) = r.start /\ WordAt(b, 3) = SecondWord(r)
    <3>1. 4 >= 4
      OBVIOUS
    <3> QED BY <1>2, <2>1, <3>1, Zenon
  <2> QED BY <1>3, <2>2, Zenon DEF b
<1>4. CASE IsMultipleWrite(r)
  <2> DEFINE d == Payload(r)
             n == Len(d)
             v == <<n>>
             uv == u \o v
  <2>1. b = uv \o d /\ d \in Seq(Nat)
    BY <1>4, BodyForm, Zenon
  <2>2. n \in Nat
    BY <2>1
  <2> HIDE DEF u, b, d
  <2>3. v \in Seq(Nat) /\ Len(v) = 1 /\ v[1] = n
    <3> HIDE DEF n
    <3> QED BY <2>2
  <2> HIDE DEF v
  <2>4. uv \in Seq(Nat) /\ Len(uv) = Len(u) + Len(v)
    BY <1>2, <2>3, Joins, Zenon
  <2>5. \A i \in 1..Len(u) : uv[i] = u[i]
    BY <1>2, <2>3, Joins, Zenon
  <2>6. \A i \in 1..Len(v) : uv[Len(u) + i] = v[i]
    <3>1. u \in Seq(Nat) /\ v \in Seq(Nat)
      BY <1>2, <2>3, Zenon
    <3> QED BY <3>1, Joins, Zenon
  <2> HIDE DEF uv
  <2>7. Len(uv) = 5 /\ uv[5] = n /\ uv[1] = u[1] /\ uv[2] = u[2] /\ uv[3] = u[3] /\ uv[4] = u[4]
    <3> HIDE DEF n
    <3> QED BY <1>2, <2>3, <2>4, <2>5, <2>6
  <2>8. b \in Seq(Nat) /\ Len(b) = Len(uv) + Len(d)
    BY <2>1, <2>4, Joins, Zenon
  <2>9. \A i \in 1..Len(uv) : b[i] = uv[i]
    <3>1. \A i \in 1..Len(uv) : (uv \o d)[i] = uv[i]
      BY <2>1, <2>4, Joins, Zenon
    <3> QED BY <2>1, <3>1, Zenon
  <2>10. \A i \in 1..Len(d) : b[Len(uv) + i] = d[i]
    <3>1. \A i \in 1..Len(d) : (uv \o d)[Len(uv) + i] = d[i]
      <4>1. uv \in Seq(Nat) /\ d \in Seq(Nat)
        BY <2>1, <2>4, Zenon
      <4> QED BY <4>1, Joins, Zenon
    <3> QED BY <2>1, <3>1, Zenon
  <2>11. b[1] = u[1] /\ b[2] = u[2] /\ b[3] = u[3] /\ b[4] = u[4] /\ b[5] = n
    <3>1. 1 \in 1..5 /\ 2 \in 1..5 /\ 3 \in 1..5 /\ 4 \in 1..5 /\ 5 \in 1..5
      OBVIOUS
    <3> QED BY <2>7, <2>9, <3>1, Zenon
  <2>12. WordAt(b, 1) = WordAt(u, 1) /\ WordAt(b, 3) = WordAt(u, 3)
    <3>1. 1 + 1 = 2 /\ 3 + 1 = 4
      OBVIOUS
    <3> QED BY <2>11, <3>1, Zenon DEF WordAt
  <2>13. Len(b) = 5 + n /\ Len(b) >= 4
    <3> HIDE DEF n
    <3> QED BY <2>2, <2>7, <2>8 DEF n
  <2>14. \A k \in 1..n : b[5 + k] = d[k]
    BY <2>7, <2>10, Zenon
  <2> QED BY <1>2, <1>4, <2>8, <2>11, <2>12, <2>13, <2>14, Zenon DEF b, d
<1> QED BY <1>3, <1>4

LEMMA SeenIs ==
  ASSUME NEW n \in Nat, Rest \in Seq(Nat), n <= Len(Rest)
  PROVE  Seen(n) \in Seq(Nat) /\ Len(Seen(n)) = n /\ \A i \in 1..n : Seen(n)[i] = Rest[i]
<1> DEFINE s == Rest
<1>1. Seen(n) = [i \in 1..n |-> IF i <= Len(s) THEN s[i] ELSE NoByte]
  BY DEF Seen, Padded
<1>2. s \in Seq(Nat) /\ n <= Len(s) /\ Len(s) \in Nat
  OBVIOUS
<1> HIDE DEF s
<1>3. ASSUME NEW i \in 1..n PROVE i <= Len(s) /\ s[i] \in Nat
  <2>1. i <= Len(s) /\ i \in 1..Len(s)
    BY <1>2
  <2> QED BY <1>2, <2>1, ElementOfSeq
<1>4. Seen(n) = [i \in 1..n |-> s[i]]
  BY <1>1, <1>3
<1> QED BY <1>3, <1>4 DEF s

\* What the handlers read of a body that has come whole.
LEMMA BodySeen ==
  ASSUME NEW r, Asked(r), Rest \in Seq(Nat), Len(Rest) >= Len(Body(r)),
         \A k \in 1..Len(Body(r)) : Rest[k] = Body(r)[k]
  PROVE  /\ Start = r.start /\ Second = SecondWord(r)
         /\ IsMultipleWrite(r) =>
              /\ DataCount = Len(Payload(r)) /\ Rest[5] = Len(Payload(r))
              /\ Data(Len(Payload(r))) = Payload(r)
<1> DEFINE b == Body(r)
           d == Payload(r)
           n == Len(d)
<1>1. /\ b \in Seq(Nat) /\ Len(b) >= 4
      /\ WordAt(b, 1) = r.start /\ WordAt(b, 3) = SecondWord(r)
      /\ IsMultipleWrite(r) =>
           Len(b) = 5 + n /\ b[5] = n /\ \A k \in 1..n : b[5 + k] = d[k]
  BY BodyLayout
<1>2. IsMultipleWrite(r) => d \in Seq(Nat)
  BY BodyForm
<1>3. Rest \in Seq(Nat) /\ Len(Rest) >= Len(b) /\ \A k \in 1..Len(b) : Rest[k] = b[k]
  OBVIOUS
<1> HIDE DEF b, d
<1>4. Len(b) \in Nat /\ Len(Rest) \in Nat
  BY <1>1, <1>3, LenProperties, Zenon
<1>5. Start = r.start /\ Second = SecondWord(r)
  <2> DEFINE s == Seen(4)
  <2>1. \A i \in 1..4 : s[i] = Rest[i]
    <3>1. 4 \in Nat /\ 4 <= Len(Rest)
      BY <1>1, <1>3, <1>4
    <3> QED BY <1>3, <3>1, SeenIs, Zenon
  <2>2. 1..4 \subseteq 1..Len(b)
    BY <1>1, <1>4
  <2>3. \A i \in 1..4 : s[i] = b[i]
    BY <1>3, <2>1, <2>2, Zenon
  <2> HIDE DEF s
  <2>4. 1 \in 1..4 /\ 2 \in 1..4 /\ 3 \in 1..4 /\ 4 \in 1..4 /\ 1 + 1 = 2 /\ 3 + 1 = 4
    OBVIOUS
  <2>5. s[1] = b[1] /\ s[2] = b[2] /\ s[3] = b[3] /\ s[4] = b[4]
    BY <2>3, <2>4, Zenon
  <2>6. WordAt(s, 1) = WordAt(b, 1) /\ WordAt(s, 3) = WordAt(b, 3)
    BY <2>4, <2>5, Zenon DEF WordAt
  <2> QED BY <1>1, <2>6, Zenon DEF Start, Second, s
<1>6. ASSUME IsMultipleWrite(r)
      PROVE  DataCount = n /\ Rest[5] = n /\ Data(n) = d
  <2>1. /\ Len(b) = 5 + n /\ b[5] = n /\ n \in Nat /\ d \in Seq(Nat)
        /\ \A k \in 1..n : b[5 + k] = d[k]
    BY <1>1, <1>2, <1>6
  <2>2. Rest[5] = n
    <3>1. 5 \in 1..Len(b)
      BY <2>1
    <3> QED BY <1>3, <2>1, <3>1, Zenon
  <2>3. DataCount = n
    <3>1. 5 \in Nat /\ 5 <= Len(Rest) /\ 5 \in 1..5
      BY <1>3, <1>4, <2>1
    <3>2. Seen(5)[5] = n
      BY <1>3, <2>2, <3>1, SeenIs, Zenon
    <3>3. n # NoByte
      BY <2>1 DEF NoByte
    <3> QED BY <3>2, <3>3, Zenon DEF DataCount, Byte
  <2>4. Data(n) = d
    <3> DEFINE s == Seen(5 + n)
               l == 5 + n
    <3> HIDE DEF n
    <3>1. l \in Nat /\ l <= Len(Rest) /\ 5 \in Nat /\ 5 <= l /\ l - 5 = n /\ 5 + 1 = 6 /\ Len(b) = l
      BY <1>3, <1>4, <2>1
    <3> HIDE DEF l
    <3>2. s \in Seq(Nat) /\ Len(s) = l
      BY <1>3, <3>1, SeenIs, Zenon DEF l
    <3>3. \A i \in 1..l : s[i] = Rest[i]
      BY <1>3, <3>1, SeenIs, Zenon DEF l
    <3> HIDE DEF s
    <3>4. SubSeq(s, 5 + 1, l) \in Seq(Nat) /\ Len(SubSeq(s, 5 + 1, l)) = l - 5
      BY <3>1, <3>2, Stretch, Zenon
    <3>5. \A i \in 1..(l - 5) : SubSeq(s, 5 + 1, l)[i] = s[5 + i]
      <4> DEFINE m == 5
      <4>1. s \in Seq(Nat) /\ l = Len(s) /\ m \in Nat /\ m <= l
        BY <3>1, <3>2, Zenon
      <4> HIDE DEF m
      <4>2. \A i \in 1..(l - m) : SubSeq(s, m + 1, l)[i] = s[m + i]
        BY ONLY <4>1, Stretch, Zenon
      <4> QED BY <4>2, Zenon DEF m
    <3>6. Data(n) = SubSeq(s, 5 + 1, l)
      BY <3>1, Zenon DEF Data, s, l
    <3>7. Data(n) \in Seq(Nat) /\ Len(Data(n)) = n /\ \A i \in 1..n : Data(n)[i] = s[5 + i]
      BY <3>1, <3>4, <3>5, <3>6, Zenon
    <3>8. ASSUME NEW i \in 1..n PROVE Data(n)[i] = d[i]
      <4>1. 5 + i \in 1..l
        BY <2>1 DEF l
      <4> QED BY <1>3, <2>1, <3>1, <3>3, <3>7, <4>1, Zenon
    <3>9. Len(d) = n
      BY DEF n
    <3> QED BY <2>1, <3>7, <3>8, <3>9, SeqEqual, Zenon
  <2> QED BY <2>2, <2>3, <2>4
<1> QED BY <1>5, <1>6, Zenon DEF d

---------------------------------------------------------------------------
(* What the tables hold.                                                   *)

BitTables == {"coils", "discrete"}
Values(t) == IF t \in BitTables THEN {0, 1} ELSE Nat

\* The tables hold bits and words, whatever has been written.
CellsTyped ==
  /\ cells = [t \in Tables |-> [a \in 0..(Size[t] - 1) |-> cells[t][a]]]
  /\ \A t \in Tables : \A a \in 0..(Size[t] - 1) : cells[t][a] \in Values(t)

LEMMA BytesAreNumbers == \A b \in Bytes : b \in Int /\ b \in Nat /\ b # NoByte
BY DEF Bytes, NoByte

\* The data as they are seen: what is missing is missing at the end.
LEMMA DataIs ==
  ASSUME stream \in Seq(Bytes), NEW used \in Nat, NEW k \in 1..used
  PROVE  Data(used)[k] = IF 5 + k <= Len(Rest) THEN Rest[5 + k] ELSE NoByte
<1> DEFINE s == Rest
           l == 5 + used
           p == [i \in 1..l |-> IF i <= Len(s) THEN s[i] ELSE NoByte]
<1>1. s \in Seq(Bytes) /\ l \in Nat
  BY RestIsBytes
<1>2. Seen(l) = p
  BY Zenon DEF Seen, Padded
<1>3. Data(used) = SubSeq(p, 6, l)
  BY <1>2, Zenon DEF Data
<1>4. p \in Seq(Int) /\ Len(p) = l
  <2>1. ASSUME NEW i \in 1..l PROVE (IF i <= Len(s) THEN s[i] ELSE NoByte) \in Int
    <3>1. CASE i <= Len(s)
      <4>1. i \in 1..Len(s)
        BY <1>1, <3>1
      <4>2. s[i] \in Bytes
        BY <1>1, <4>1, ElementOfSeq
      <4>3. s[i] \in Int
        BY <4>2, BytesAreNumbers, Zenon
      <4> QED BY <3>1, <4>3, Zenon
    <3>2. CASE ~(i <= Len(s))
      BY <3>2 DEF NoByte
    <3> QED BY <3>1, <3>2
  <2> HIDE DEF s, l
  <2> QED BY <1>1, <2>1
<1>5. p[5 + k] = IF 5 + k <= Len(s) THEN s[5 + k] ELSE NoByte
  <2>1. 5 + k \in 1..l
    OBVIOUS
  <2> QED BY <2>1, Zenon
<1>6. SubSeq(p, 6, l)[k] = p[5 + k]
  <2>1. l \in Nat /\ k \in Nat /\ 1 <= k /\ k <= l - 5
    OBVIOUS
  <2> HIDE DEF p, l
  <2> QED BY <1>4, <2>1
<1> QED BY <1>3, <1>5, <1>6, Zenon

LEMMA Retyped ==
  ASSUME NEW F, cells' = [t \in Tables |-> [a \in 0..(Size[t] - 1) |-> F[t][a]]],
         \A t \in Tables : \A a \in 0..(Size[t] - 1) : F[t][a] \in Values(t)
  PROVE  CellsTyped'
<1>1. \A t \in Tables : \A a \in 0..(Size[t] - 1) : cells'[t][a] = F[t][a]
  BY Zenon
<1>2. cells' = [t \in Tables |-> [a \in 0..(Size[t] - 1) |-> cells'[t][a]]]
  BY <1>1, Zenon
<1>3. \A t \in Tables : \A a \in 0..(Size[t] - 1) : cells'[t][a] \in Values(t)
  BY <1>1, Zenon
<1> QED BY <1>2, <1>3, Zenon DEF CellsTyped

\* What the tables hold when a run of cells has been written.
Written(t, start, values) ==
  [u \in Tables |->
     [a \in 0..(Size[u] - 1) |->
        IF u = t /\ a \in start .. (start + Len(values) - 1)
          THEN values[a - start + 1] ELSE cells[u][a]]]

LEMMA StoreWrites ==
  ASSUME CellsTyped, NEW t \in Writable, NEW start \in Nat, NEW values, Len(values) \in Nat,
         start + Len(values) <= Size[t], Store(t, start, values)
  PROVE  cells' = Written(t, start, values)
<1> DEFINE written == start .. (start + Len(values) - 1)
           Table(u) == 0..(Size[u] - 1)
           After(f) == [a \in DOMAIN f \cup written |->
                          IF a \in written THEN values[a - start + 1] ELSE f[a]]
<1>1. cells' = [cells EXCEPT ![t] = After(cells[t])]
  BY DEF Store
<1>2. t \in Tables
  BY DEF Writable, Tables
<1>3. cells = [u \in Tables |-> [a \in Table(u) |-> cells[u][a]]]
  BY DEF CellsTyped
<1>4. written \subseteq Table(t)
  BY <1>2, SizesAreNumbers
<1> HIDE DEF written, Table
<1>5. DOMAIN cells = Tables /\ \A u \in Tables : cells[u] = [a \in Table(u) |-> cells[u][a]]
  BY <1>3, Zenon
<1>6. After(cells[t]) = [a \in Table(t) |->
                           IF a \in written THEN values[a - start + 1] ELSE cells[t][a]]
  <2>1. DOMAIN cells[t] = Table(t)
    <3> DEFINE g == cells[t]
    <3>1. g = [a \in Table(t) |-> g[a]]
      BY <1>2, <1>5, Zenon
    <3> HIDE DEF g
    <3>2. DOMAIN g = Table(t)
      BY <3>1, Zenon
    <3> QED BY <3>2, Zenon DEF g
  <2>2. DOMAIN cells[t] \cup written = Table(t)
    BY <1>4, <2>1
  <2> QED BY <2>2
<1> HIDE DEF After
<1>7. cells' = [u \in Tables |-> IF u = t THEN After(cells[t]) ELSE cells[u]]
  BY <1>1, <1>5
<1>8. ASSUME NEW u \in Tables
      PROVE  (IF u = t THEN After(cells[t]) ELSE cells[u]) =
             [a \in Table(u) |-> IF u = t /\ a \in written
                                   THEN values[a - start + 1] ELSE cells[u][a]]
  <2>1. CASE u = t
    BY <1>6, <2>1
  <2>2. CASE u # t
    BY <1>5, <2>2
  <2> QED BY <2>1, <2>2
<1>9. cells' = [u \in Tables |->
                  [a \in Table(u) |-> IF u = t /\ a \in written
                                        THEN values[a - start + 1] ELSE cells[u][a]]]
  BY <1>7, <1>8, Zenon
<1> QED BY <1>9, Zenon DEF Written, Table, written

LEMMA StoreKeepsTypes ==
  ASSUME CellsTyped, NEW t \in Writable, NEW start \in Nat, NEW values, Len(values) \in Nat,
         start + Len(values) <= Size[t], Store(t, start, values),
         \A i \in 1..Len(values) : values[i] \in Values(t)
  PROVE  CellsTyped'
<1> DEFINE F == Written(t, start, values)
           n == Len(values)
<1>1. cells' = F /\ n \in Nat
  BY StoreWrites, Zenon
<1>2. \A u \in Tables : \A a \in 0..(Size[u] - 1) : cells[u][a] \in Values(u)
  BY Zenon DEF CellsTyped
<1>3. ASSUME NEW u \in Tables, NEW a \in 0..(Size[u] - 1) PROVE F[u][a] \in Values(u)
  <2>1. F[u][a] = IF u = t /\ a \in start .. (start + n - 1)
                    THEN values[a - start + 1] ELSE cells[u][a]
    BY Zenon DEF Written
  <2>2. CASE u = t /\ a \in start .. (start + n - 1)
    <3>1. a - start + 1 \in 1..n
      BY <1>1, <2>2
    <3> QED BY <2>1, <2>2, <3>1, Zenon
  <2>3. CASE ~(u = t /\ a \in start .. (start + n - 1))
    BY <1>2, <2>1, <2>3, Zenon
  <2> QED BY <2>2, <2>3
<1>4. F = [u \in Tables |-> [a \in 0..(Size[u] - 1) |-> F[u][a]]]
  BY Zenon DEF Written
<1> HIDE DEF F
<1> QED BY <1>1, <1>3, <1>4, Retyped, Zenon

\* What the tables hold when the application has set a cell.
LEMMA AppSetsWrites ==
  ASSUME CellsTyped, NEW w \in AppWrites, AppSets(w)
  PROVE  /\ w.table \in Tables /\ w.address \in 0..(Size[w.table] - 1)
         /\ w.value \in Values(w.table)
         /\ cells' = [cells EXCEPT ![w.table][w.address] = w.value]
<1>1. w.table \in Tables /\ w.address \in Nat /\ w.value \in Words
  BY ConstantsAssumption DEF ConstantsAssumption
<1>2. w.address < Size[w.table] /\ Size[w.table] \in Nat
  BY <1>1, SizesAreNumbers DEF AppSets
<1>3. w.address \in 0..(Size[w.table] - 1)
  BY <1>1, <1>2
<1>4. w.value \in Values(w.table)
  <2>1. w.table \in BitTables => w.value \in {0, 1}
    BY ConstantsAssumption, Zenon DEF ConstantsAssumption, BitTables
  <2>2. w.value \in Nat
    <3>1. Words \subseteq Nat
      BY DEF Words
    <3> QED BY <1>1, <3>1, Zenon
  <2> QED BY <2>1, <2>2, Zenon DEF Values
<1>5. cells' = [cells EXCEPT ![w.table][w.address] = w.value]
  BY Zenon DEF AppSets
<1> QED BY <1>1, <1>3, <1>4, <1>5, Zenon

LEMMA AppSetsKeepsTypes ==
  ASSUME CellsTyped, NEW w \in AppWrites, AppSets(w)
  PROVE  CellsTyped'
<1> DEFINE t == w.table
           b == w.address
           v == w.value
           Table(u) == 0..(Size[u] - 1)
<1>1. /\ t \in Tables /\ b \in Table(t) /\ v \in Values(t)
      /\ cells' = [cells EXCEPT ![t][b] = v]
  BY AppSetsWrites, Zenon
<1>2. cells = [u \in Tables |-> [a \in Table(u) |-> cells[u][a]]]
  BY Zenon DEF CellsTyped
<1>3. \A u \in Tables : \A a \in Table(u) : cells[u][a] \in Values(u)
  BY Zenon DEF CellsTyped
<1> HIDE DEF t, b, v, Table
<1> DEFINE F == [u \in Tables |-> [a \in Table(u) |-> IF u = t /\ a = b THEN v ELSE cells[u][a]]]
<1>4. DOMAIN cells = Tables /\ \A u \in Tables : cells[u] = [a \in Table(u) |-> cells[u][a]]
  BY <1>2, Zenon
<1>5. [cells[t] EXCEPT ![b] = v] = [a \in Table(t) |-> IF a = b THEN v ELSE cells[t][a]]
  <2> DEFINE g == cells[t]
  <2>1. g = [a \in Table(t) |-> g[a]]
    BY <1>1, <1>4, Zenon
  <2> HIDE DEF g
  <2>2. [g EXCEPT ![b] = v] = [a \in Table(t) |-> IF a = b THEN v ELSE g[a]]
    BY <1>1, <2>1
  <2> QED BY <2>2, Zenon DEF g
<1> DEFINE G == [cells[t] EXCEPT ![b] = v]
<1>6. cells' = [cells EXCEPT ![t] = G]
  BY <1>1
<1> HIDE DEF G
<1>7. cells' = [u \in Tables |-> IF u = t THEN G ELSE cells[u]]
  BY <1>4, <1>6
<1>8. ASSUME NEW u \in Tables
      PROVE  (IF u = t THEN G ELSE cells[u]) =
             [a \in Table(u) |-> IF u = t /\ a = b THEN v ELSE cells[u][a]]
  <2>1. CASE u = t
    BY <1>5, <2>1 DEF G
  <2>2. CASE u # t
    BY <1>4, <2>2
  <2> QED BY <2>1, <2>2
<1>9. cells' = F
  BY <1>7, <1>8, Zenon
<1>10. \A u \in Tables : \A a \in Table(u) : F[u][a] = IF u = t /\ a = b THEN v ELSE cells[u][a]
  BY Zenon
<1>11. F = [u \in Tables |-> [a \in Table(u) |-> F[u][a]]]
  BY Zenon
<1> HIDE DEF F
<1>12. \A u \in Tables : \A a \in Table(u) : F[u][a] \in Values(u)
  BY <1>1, <1>3, <1>10, Zenon
<1> QED BY <1>9, <1>11, <1>12, Retyped, Zenon DEF Table

LEMMA BitsSeen ==
  ASSUME NEW b \in Int, NEW j \in 0..7
  PROVE  Bit(b, j) \in {0, 1}
<1> DEFINE p == 2^j
<1>1. /\ 2^0 \in Nat /\ 2^1 \in Nat /\ 2^2 \in Nat /\ 2^3 \in Nat
      /\ 2^4 \in Nat /\ 2^5 \in Nat /\ 2^6 \in Nat /\ 2^7 \in Nat
  OBVIOUS
<1>2. /\ 2^0 > 0 /\ 2^1 > 0 /\ 2^2 > 0 /\ 2^3 > 0
      /\ 2^4 > 0 /\ 2^5 > 0 /\ 2^6 > 0 /\ 2^7 > 0
  OBVIOUS
<1>3. j = 0 \/ j = 1 \/ j = 2 \/ j = 3 \/ j = 4 \/ j = 5 \/ j = 6 \/ j = 7
  OBVIOUS
<1>4. p \in Nat /\ p > 0
  <2>1. p \in Nat
    BY <1>1, <1>3, Zenon
  <2>2. p > 0
    BY <1>2, <1>3, Zenon
  <2> QED BY <2>1, <2>2
<1> HIDE DEF p
<1>5. b \div p \in Int
  BY <1>4
<1> DEFINE q == b \div p
<1> HIDE DEF q
<1>6. q \in Int
  BY <1>5 DEF q
<1>7. q % 2 \in {0, 1}
  BY <1>6
<1> QED BY <1>7, Zenon DEF Bit, p, q

\* The bits and the words that a write takes are bits and words, missing or not.
LEMMA CoilsSeen ==
  ASSUME stream \in Seq(Bytes), NEW stray \in {0, 1}, NEW i \in 1..Second
  PROVE  (IF Outside(ByteCount(i)) THEN stray
          ELSE Bit(Byte(Data(ByteCount(Second)), ByteCount(i)), (i - 1) % 8)) \in {0, 1}
<1> DEFINE used == ByteCount(Second)
           k == ByteCount(i)
           j == (i - 1) % 8
<1>1. Second \in Nat
  BY WordSeen
<1>2. used \in Nat /\ k \in 1..used /\ j \in 0..7
  BY <1>1 DEF ByteCount
<1> HIDE DEF used, k, j
<1>3. Rest \in Seq(Bytes) /\ Len(Rest) \in Nat
  BY RestIsBytes, LenProperties
<1>4. Byte(Data(used), k) \in Int
  <2>1. Data(used)[k] = IF 5 + k <= Len(Rest) THEN Rest[5 + k] ELSE NoByte
    BY <1>2, DataIs
  <2>2. CASE 5 + k <= Len(Rest)
    <3>1. 5 + k \in 1..Len(Rest)
      BY <1>2, <1>3, <2>2
    <3>2. Rest[5 + k] \in Bytes
      BY <1>3, <3>1, ElementOfSeq
    <3> QED BY <2>1, <2>2, <3>2, BytesAreNumbers, Zenon DEF Byte
  <2>3. CASE ~(5 + k <= Len(Rest))
    <3>1. Data(used)[k] = NoByte /\ 255 \in Int
      BY <2>1, <2>3
    <3> QED BY <3>1, Zenon DEF Byte
  <2> QED BY <2>2, <2>3
<1>5. Bit(Byte(Data(used), k), j) \in {0, 1}
  BY <1>2, <1>4, BitsSeen, Zenon
<1> QED BY <1>5, Zenon DEF used, k, j

LEMMA RegistersSeen ==
  ASSUME stream \in Seq(Bytes), NEW stray \in {0, NoWord}, NEW i \in 1..Second
  PROVE  (IF Outside(2 * i) THEN stray ELSE WordAt(Data(2 * Second), 2 * i - 1)) \in Nat
<1> DEFINE used == 2 * Second
           k == 2 * i - 1
           d == Data(used)
<1>1. Second \in Nat
  BY WordSeen
<1>2. used \in Nat /\ k \in 1..used /\ k + 1 \in 1..used /\ k \in Nat
  BY <1>1
<1> HIDE DEF used, k
<1>3. Rest \in Seq(Bytes) /\ Len(Rest) \in Nat
  BY RestIsBytes, LenProperties
<1>4. d[k] = IF 5 + k <= Len(Rest) THEN Rest[5 + k] ELSE NoByte
  BY <1>2, DataIs
<1>5. d[k + 1] = IF 5 + (k + 1) <= Len(Rest) THEN Rest[5 + (k + 1)] ELSE NoByte
  BY <1>2, DataIs
<1>6. NoWord \in Nat /\ stray \in Nat
  BY DEF NoWord
<1> HIDE DEF d
<1>7. CASE 5 + (k + 1) <= Len(Rest)
  <2>1. 5 + k <= Len(Rest) /\ 5 + k \in 1..Len(Rest) /\ 5 + (k + 1) \in 1..Len(Rest)
    BY <1>2, <1>3, <1>7
  <2>2. Rest[5 + k] \in Bytes /\ Rest[5 + (k + 1)] \in Bytes
    BY <1>3, <2>1, ElementOfSeq
  <2>3. d[k] \in Bytes /\ d[k + 1] \in Bytes
    BY <1>4, <1>5, <1>7, <2>1, <2>2, Zenon
  <2>4. WordAt(d, k) \in Nat
    BY <2>3, ByteFacts, Zenon DEF WordAt
  <2> QED BY <1>6, <2>4, Zenon DEF d, used, k
<1>8. CASE ~(5 + (k + 1) <= Len(Rest))
  <2>1. WordAt(d, k) = NoWord
    BY <1>5, <1>8, Zenon DEF WordAt
  <2> QED BY <1>6, <2>1, Zenon DEF d, used, k
<1> QED BY <1>7, <1>8

LEMMA WriteSingleKeepsTypes ==
  ASSUME BytesOnly, CellsTyped, NEW t \in Writable, NEW value \in Values(t), WriteSingle(t, value)
  PROVE  CellsTyped'
<1>1. Start \in Nat
  BY WordSeen, BytesOnlyMeans
<1>2. CASE TablesUnchanged
  BY <1>2 DEF TablesUnchanged, CellsTyped
<1>3. CASE Start < Size[t] /\ Store(t, Start, <<value>>)
  <2> DEFINE v == <<value>>
  <2>1. Size[t] \in Nat
    BY SizesAreNumbers DEF Writable, Tables
  <2>2. Len(v) = 1 /\ Len(v) \in Nat /\ v[1] = value
    OBVIOUS
  <2> HIDE DEF v
  <2>3. Start + Len(v) <= Size[t]
    BY <1>1, <1>3, <2>1, <2>2
  <2>4. \A i \in 1..Len(v) : v[i] \in Values(t)
    <3>1. ASSUME NEW i \in 1..Len(v) PROVE i = 1
      BY <2>2
    <3> QED BY <2>2, <3>1, Zenon
  <2>5. Store(t, Start, v)
    BY <1>3 DEF v
  <2> QED BY <1>1, <2>2, <2>3, <2>4, <2>5, StoreKeepsTypes, Zenon
<1>4. TablesUnchanged \/ (Start < Size[t] /\ Store(t, Start, <<value>>))
  BY Zenon DEF WriteSingle
<1> QED BY <1>2, <1>3, <1>4

LEMMA WriteMultipleKeepsTypes ==
  ASSUME BytesOnly, CellsTyped, NEW t \in Writable, NEW used, NEW values,
         Len(values) = Second, \A i \in 1..Second : values[i] \in Values(t),
         WriteMultiple(t, used, values)
  PROVE  CellsTyped'
<1>1. Start \in Nat /\ Second \in Nat
  BY WordSeen, BytesOnlyMeans
<1>2. CASE TablesUnchanged
  BY <1>2 DEF TablesUnchanged, CellsTyped
<1>3. CASE Start + Second <= Size[t] /\ Store(t, Start, values)
  <2>1. Len(values) \in Nat /\ Start + Len(values) <= Size[t]
    BY <1>1, <1>3
  <2>2. \A i \in 1..Len(values) : values[i] \in Values(t)
    BY Zenon
  <2> QED BY <1>1, <1>3, <2>1, <2>2, StoreKeepsTypes, Zenon
<1>4. TablesUnchanged \/ (Start + Second <= Size[t] /\ Store(t, Start, values))
  BY Zenon DEF WriteMultiple
<1> QED BY <1>2, <1>3, <1>4

LEMMA StepKeepsTypes ==
  ASSUME BytesOnly, CellsTyped, [Next]_vars
  PROVE  CellsTyped'
<1>1. CASE UNCHANGED cells
  BY <1>1 DEF CellsTyped
<1>2. "coils" \in Writable /\ Values("coils") = {0, 1}
  BY DEF Writable, Values, BitTables
<1>3. "holding" \in Writable /\ Values("holding") = Nat
  BY DEF Writable, Values, BitTables
<1>4. stream \in Seq(Bytes)
  BY BytesOnlyMeans
<1>5. Second \in Nat
  BY <1>4, WordSeen
<1>6. CASE WriteSingleCoil
  <2> DEFINE value == IF Second = CoilOn THEN 1 ELSE 0
  <2>1. value \in Values("coils")
    BY <1>2
  <2>2. WriteSingle("coils", value)
    BY <1>6, Zenon DEF WriteSingleCoil
  <2> HIDE DEF value
  <2> QED BY <1>2, <2>1, <2>2, WriteSingleKeepsTypes, Zenon
<1>7. CASE WriteSingleRegister
  <2>1. WriteSingle("holding", Second)
    BY <1>7, Zenon DEF WriteSingleRegister
  <2> QED BY <1>3, <1>5, <2>1, WriteSingleKeepsTypes, Zenon
<1>8. CASE WriteMultipleCoils
  <2>1. PICK stray \in {0, 1} :
          WriteMultiple("coils", ByteCount(Second),
            [i \in 1..Second |->
               IF Outside(ByteCount(i)) THEN stray
               ELSE Bit(Byte(Data(ByteCount(Second)), ByteCount(i)), (i - 1) % 8)])
    BY <1>8, Zenon DEF WriteMultipleCoils
  <2> DEFINE v(i) == IF Outside(ByteCount(i)) THEN stray
                     ELSE Bit(Byte(Data(ByteCount(Second)), ByteCount(i)), (i - 1) % 8)
             values == [i \in 1..Second |-> v(i)]
  <2>2. ASSUME NEW i \in 1..Second PROVE v(i) \in {0, 1}
    BY <1>4, CoilsSeen, Zenon
  <2>3. WriteMultiple("coils", ByteCount(Second), values)
    BY <2>1, Zenon
  <2> HIDE DEF v
  <2>4. Len(values) = Second
    BY <1>5
  <2>5. \A i \in 1..Second : values[i] \in Values("coils")
    BY <1>2, <2>2, Zenon
  <2> HIDE DEF values
  <2> QED BY <1>2, <2>3, <2>4, <2>5, WriteMultipleKeepsTypes, Zenon
<1>9. CASE WriteMultipleRegisters
  <2>1. PICK stray \in {0, NoWord} :
          WriteMultiple("holding", 2 * Second,
            [i \in 1..Second |->
               IF Outside(2 * i) THEN stray ELSE WordAt(Data(2 * Second), 2 * i - 1)])
    BY <1>9, Zenon DEF WriteMultipleRegisters
  <2> DEFINE v(i) == IF Outside(2 * i) THEN stray ELSE WordAt(Data(2 * Second), 2 * i - 1)
             values == [i \in 1..Second |-> v(i)]
  <2>2. ASSUME NEW i \in 1..Second PROVE v(i) \in Nat
    BY <1>4, RegistersSeen, Zenon
  <2>3. WriteMultiple("holding", 2 * Second, values)
    BY <2>1, Zenon
  <2> HIDE DEF v
  <2>4. Len(values) = Second
    BY <1>5
  <2>5. \A i \in 1..Second : values[i] \in Values("holding")
    BY <1>3, <2>2, Zenon
  <2> HIDE DEF values
  <2> QED BY <1>3, <2>3, <2>4, <2>5, WriteMultipleKeepsTypes, Zenon
<1>10. ASSUME NEW w \in AppWrites, AppSets(w) PROVE CellsTyped'
  BY <1>10, AppSetsKeepsTypes
<1>11. CASE \/ ClientConnects \/ ClientCloses \/ Accept \/ TurnAway \/ Hangup
            \/ (\E r \in Requests : ClientSends(r)) \/ (\E n \in Pieces : Arrive(n)) \/ RestArrives
            \/ UNCHANGED vars
  BY <1>1, <1>11 DEF ClientConnects, ClientCloses, Accept, TurnAway, Hangup, ClientSends, Arrive,
     RestArrives, vars
<1>12. CASE \/ Ignore \/ UnsupportedFunction \/ Truncated
            \/ ReadCoils \/ ReadDiscreteInputs \/ ReadHoldingRegisters \/ ReadInputRegisters
  BY <1>1, <1>12 DEF Ignore, UnsupportedFunction, Truncated, TablesUnchanged, Read,
     ReadCoils, ReadDiscreteInputs, ReadHoldingRegisters, ReadInputRegisters
<1> QED
  BY <1>6, <1>7, <1>8, <1>9, <1>10, <1>11, <1>12 DEF Next, Request

LEMMA InitTypes == Init => CellsTyped
<1> SUFFICES ASSUME Init PROVE CellsTyped
  OBVIOUS
<1>1. cells = [t \in Tables |-> [a \in 0..(Size[t] - 1) |-> 0]]
  BY Zenon DEF Init, Blank
<1>2. \A t \in Tables : \A a \in 0..(Size[t] - 1) : cells[t][a] = 0
  BY <1>1, Zenon
<1>3. \A t : 0 \in Values(t)
  BY DEF Values
<1>4. cells = [t \in Tables |-> [a \in 0..(Size[t] - 1) |-> cells[t][a]]]
  BY <1>1, <1>2, Zenon
<1> QED BY <1>2, <1>3, <1>4, Zenon DEF CellsTyped

---------------------------------------------------------------------------
(* What a request does to the tables, and what its answer says.            *)

TablesAfter(r) == [t \in Tables |-> Promise!Effect(r, t)]

LEMMA EffectIs ==
  ASSUME CellsTyped, NEW r, NEW t \in Tables
  PROVE  Promise!Effect(r, t) =
         [a \in 0..(Size[t] - 1) |->
            IF r.kind = "write" /\ t = r.table /\ Promise!InTable(r)
               /\ a \in r.start .. (r.start + r.quantity - 1)
              THEN r.values[a - r.start + 1] ELSE cells[t][a]]
<1> DEFINE g == cells[t]
<1>1. cells = [u \in Tables |-> [a \in 0..(Size[u] - 1) |-> cells[u][a]]]
  BY Zenon DEF CellsTyped
<1>2. g = [a \in 0..(Size[t] - 1) |-> g[a]]
  BY <1>1, Zenon
<1> HIDE DEF g
<1>3. DOMAIN g = 0..(Size[t] - 1)
  BY <1>2, Zenon
<1>4. DOMAIN cells[t] = 0..(Size[t] - 1)
  BY <1>3, Zenon DEF g
<1> QED BY <1>4, Zenon DEF Promise!Effect, Promise!Cells

LEMMA NothingWritten ==
  ASSUME CellsTyped, NEW r, r.kind # "write" \/ ~Promise!InTable(r)
  PROVE  TablesAfter(r) = cells
<1>1. cells = [u \in Tables |-> [a \in 0..(Size[u] - 1) |-> cells[u][a]]]
  BY Zenon DEF CellsTyped
<1>2. ASSUME NEW t \in Tables
      PROVE  Promise!Effect(r, t) = [a \in 0..(Size[t] - 1) |-> cells[t][a]]
  <2>1. Promise!Effect(r, t) =
         [a \in 0..(Size[t] - 1) |->
            IF r.kind = "write" /\ t = r.table /\ Promise!InTable(r)
               /\ a \in r.start .. (r.start + r.quantity - 1)
              THEN r.values[a - r.start + 1] ELSE cells[t][a]]
    BY EffectIs, Zenon
  <2> QED BY <2>1, Zenon
<1> QED BY <1>1, <1>2, Zenon DEF TablesAfter

LEMMA WrittenIs ==
  ASSUME CellsTyped, NEW r, Asked(r), r.kind = "write", Promise!InTable(r),
         NEW v, Len(v) = r.quantity, \A i \in 1..r.quantity : v[i] = r.values[i]
  PROVE  TablesAfter(r) = Written(r.table, r.start, v)
<1> DEFINE written == r.start .. (r.start + r.quantity - 1)
<1>1. r.start \in Nat /\ r.quantity \in Nat
  BY DEF Asked
<1>2. \A a \in written : v[a - r.start + 1] = r.values[a - r.start + 1]
  <2>1. ASSUME NEW a \in written PROVE a - r.start + 1 \in 1..r.quantity
    BY <1>1
  <2> QED BY <2>1, Zenon
<1>3. ASSUME NEW t \in Tables
      PROVE  Promise!Effect(r, t) =
             [a \in 0..(Size[t] - 1) |->
               IF t = r.table /\ a \in written THEN v[a - r.start + 1] ELSE cells[t][a]]
  <2>1. Promise!Effect(r, t) =
         [a \in 0..(Size[t] - 1) |->
            IF r.kind = "write" /\ t = r.table /\ Promise!InTable(r) /\ a \in written
              THEN r.values[a - r.start + 1] ELSE cells[t][a]]
    BY EffectIs, Zenon
  <2> HIDE DEF written
  <2> QED BY <1>2, <2>1, Zenon
<1> QED BY <1>3, Zenon DEF TablesAfter, Written

LEMMA ErrorIs ==
  ASSUME NEW r, Asked(r)
  PROVE  Promise!Error(r) =
         IF r.kind = "read"
            /\ r.quantity \notin 1..(IF r.table \in BitTables THEN MaxCoils ELSE MaxRegisters)
           THEN 3
         ELSE IF r.start + r.quantity <= Size[r.table] THEN 0 ELSE 2
BY Zenon DEF Promise!Error, Promise!Readable, Promise!InTable, BitTables, Asked

\* An exception is read as the promised one.
LEMMA ExceptionDecoded ==
  ASSUME NEW r, Asked(r), NEW c, Promise!Error(r) = c, c # 0,
         NEW reply, reply = [id |-> r.id, unit |-> r.unit, code |-> 128 + FunctionCode(r),
                             data |-> <<c>>]
  PROVE  Decoded(r, reply) = Promise!Answer(r)
<1>1. FunctionCode(r) \in Nat
  BY Codes
<1>2. 128 + FunctionCode(r) # FunctionCode(r)
  BY <1>1
<1>3. reply.id = r.id /\ reply.code = 128 + FunctionCode(r) /\ reply.data[1] = c
  BY Zenon
<1>4. Promise!Answer(r) = [id |-> r.id, error |-> c, values |-> <<>>]
  BY Zenon DEF Promise!Answer
<1>5. (CASE reply.code = FunctionCode(r) -> 0
         [] reply.code = 128 + FunctionCode(r) -> reply.data[1]
         [] OTHER -> 255) = c
  BY <1>2, <1>3, Zenon
<1>6. Decoded(r, reply) = [id |-> r.id, error |-> c, values |-> <<>>]
  BY <1>3, <1>5, Zenon DEF Decoded
<1> QED BY <1>4, <1>6, Zenon

\* So is the answer to a write.
LEMMA WriteDecoded ==
  ASSUME NEW r, Asked(r), r.kind = "write", Promise!Error(r) = 0, NEW data,
         NEW reply, reply = [id |-> r.id, unit |-> r.unit, code |-> FunctionCode(r), data |-> data]
  PROVE  Decoded(r, reply) = Promise!Answer(r)
<1>1. FunctionCode(r) \in Nat
  BY Codes
<1>2. 128 + FunctionCode(r) # FunctionCode(r)
  BY <1>1
<1>3. reply.id = r.id /\ reply.code = FunctionCode(r)
  BY Zenon
<1>4. r.kind # "read"
  OBVIOUS
<1>5. Promise!Answer(r) = [id |-> r.id, error |-> 0, values |-> <<>>]
  BY <1>4, Zenon DEF Promise!Answer
<1>6. (CASE reply.code = FunctionCode(r) -> 0
         [] reply.code = 128 + FunctionCode(r) -> reply.data[1]
         [] OTHER -> 255) = 0
  BY <1>2, <1>3, Zenon
<1>7. Decoded(r, reply) = [id |-> r.id, error |-> 0, values |-> <<>>]
  BY <1>3, <1>4, <1>6, Zenon DEF Decoded
<1> QED BY <1>5, <1>7, Zenon

\* The data of a reply begin with their number.
LEMMA Counted ==
  ASSUME NEW d \in Seq(Nat), NEW k \in 1..Len(d)
  PROVE  (<<Len(d) % 256>> \o d)[1 + k] = d[k]
<1> DEFINE n == Len(d) % 256
           s == <<n>>
<1>1. n \in Nat
  OBVIOUS
<1> HIDE DEF n
<1>2. s \in Seq(Nat) /\ Len(s) = 1
  BY <1>1
<1> HIDE DEF s
<1>3. \A i \in 1..Len(d) : (s \o d)[Len(s) + i] = d[i]
  BY <1>2, Joins, Zenon
<1> QED BY <1>2, <1>3, Zenon DEF s, n

LEMMA BitsDecoded ==
  ASSUME NEW v \in Seq({0, 1}), NEW i \in 1..Len(v)
  PROVE  Bit((<<Len(Packed(v)) % 256>> \o Packed(v))[1 + ByteCount(i)], (i - 1) % 8) = v[i]
<1>1. Packed(v) \in Seq(Nat) /\ Len(Packed(v)) = ByteCount(Len(v))
  BY PackedBytes
<1>2. /\ ByteCount(i) \in 1..ByteCount(Len(v))
      /\ Bit(Packed(v)[ByteCount(i)], (i - 1) % 8) = v[i]
  BY PackedBack
<1>3. (<<Len(Packed(v)) % 256>> \o Packed(v))[1 + ByteCount(i)] = Packed(v)[ByteCount(i)]
  BY <1>1, <1>2, Counted, Zenon
<1> QED BY <1>2, <1>3, Zenon

LEMMA WordsDecoded ==
  ASSUME NEW v \in Seq(Nat), NEW i \in 1..Len(v)
  PROVE  WordAt(<<Len(BytesOf(v)) % 256>> \o BytesOf(v), 2 * i) = v[i]
<1> DEFINE d == BytesOf(v)
           s == <<Len(d) % 256>> \o d
<1>1. d \in Seq(Nat) /\ Len(d) = 2 * Len(v)
  BY BytesOfBytes
<1> HIDE DEF d
<1>2. /\ 2 * i - 1 \in 1..Len(d) /\ 2 * i \in 1..Len(d)
      /\ 1 + (2 * i - 1) = 2 * i /\ 1 + 2 * i = 2 * i + 1
  <2>1. /\ 2 * i - 1 \in 1..(2 * Len(v)) /\ 2 * i \in 1..(2 * Len(v))
        /\ 1 + (2 * i - 1) = 2 * i /\ 1 + 2 * i = 2 * i + 1
    OBVIOUS
  <2> QED BY <1>1, <2>1, Zenon
<1>3. s[1 + (2 * i - 1)] = d[2 * i - 1]
  BY <1>1, <1>2, Counted, Zenon
<1>4. s[1 + 2 * i] = d[2 * i]
  BY <1>1, <1>2, Counted, Zenon
<1> HIDE DEF s
<1>5. s[2 * i] = BytesOf(v)[2 * i - 1] /\ s[2 * i + 1] = BytesOf(v)[2 * i]
  BY <1>2, <1>3, <1>4, Zenon DEF d
<1>6. WordAt(s, 2 * i) = v[i]
  BY <1>5, BytesBack, Zenon
<1> QED BY <1>6, Zenon DEF s, d

LEMMA ReadDecoded ==
  ASSUME CellsTyped, NEW r, Asked(r), r.kind = "read", Promise!Error(r) = 0,
         NEW data,
         data = Encoded(r.table, [i \in 1..r.quantity |-> cells[r.table][r.start + i - 1]]),
         NEW reply, reply = [id |-> r.id, unit |-> r.unit, code |-> FunctionCode(r),
                             data |-> <<Len(data) % 256>> \o data]
  PROVE  Decoded(r, reply) = Promise!Answer(r)
<1> DEFINE t == r.table
           n == r.quantity
           v == [i \in 1..n |-> cells[t][r.start + i - 1]]
<1>1. r.start \in Nat /\ n \in Nat /\ t \in Tables /\ Size[t] \in Nat
  BY SizesAreNumbers DEF Asked
<1>2. r.start + n <= Size[t]
  <2>1. 3 # 0 /\ 2 # 0
    OBVIOUS
  <2> QED BY <2>1, ErrorIs, Zenon
<1>3. ASSUME NEW i \in 1..n PROVE cells[t][r.start + i - 1] \in Values(t)
  <2> DEFINE start == r.start
             size == Size[t]
  <2>1. start \in Nat /\ size \in Nat /\ start + n <= size /\ n \in Nat
    BY <1>1, <1>2
  <2> HIDE DEF start, size, n, v
  <2>2. start + i - 1 \in 0..(size - 1)
    BY <2>1
  <2> QED BY <1>1, <2>2, Zenon DEF CellsTyped, start, size
<1>4. data = Encoded(t, v)
  BY Zenon
<1>5. reply.id = r.id /\ reply.code = FunctionCode(r) /\ reply.data = <<Len(data) % 256>> \o data
  BY Zenon
<1> HIDE DEF n, t
<1>6. v \in Seq(Values(t)) /\ Len(v) = n
  <2> DEFINE c(i) == cells[t][r.start + i - 1]
  <2>1. \A i \in 1..n : c(i) \in Values(t)
    BY <1>3, Zenon
  <2>2. v = [i \in 1..n |-> c(i)]
    BY Zenon
  <2> HIDE DEF c, v
  <2> QED BY <1>1, <2>1, <2>2
<1>7. \A i \in 1..n : v[i] = cells[t][r.start + i - 1]
  BY Zenon
<1> HIDE DEF v
<1> DEFINE Value(i) == IF t \in BitTables THEN Bit(reply.data[1 + ByteCount(i)], (i - 1) % 8)
                       ELSE WordAt(reply.data, 2 * i)
<1>8. ASSUME NEW i \in 1..n PROVE Value(i) = v[i]
  <2>1. i \in 1..Len(v)
    BY <1>6, Zenon
  <2>2. CASE t \in BitTables
    <3>1. v \in Seq({0, 1}) /\ data = Packed(v)
      BY <1>4, <1>6, <2>2, Zenon DEF Values, Encoded, BitTables
    <3>2. reply.data = <<Len(Packed(v)) % 256>> \o Packed(v)
      BY <1>5, <3>1, Zenon
    <3>3. Bit(reply.data[1 + ByteCount(i)], (i - 1) % 8) = v[i]
      <4>1. Bit((<<Len(Packed(v)) % 256>> \o Packed(v))[1 + ByteCount(i)], (i - 1) % 8) = v[i]
        BY <2>1, <3>1, BitsDecoded, Zenon
      <4> QED BY <3>2, <4>1, Zenon
    <3> QED BY <2>2, <3>3, Zenon
  <2>3. CASE t \notin BitTables
    <3>1. v \in Seq(Nat) /\ data = BytesOf(v)
      BY <1>4, <1>6, <2>3, Zenon DEF Values, Encoded, BitTables
    <3>2. reply.data = <<Len(BytesOf(v)) % 256>> \o BytesOf(v)
      BY <1>5, <3>1, Zenon
    <3>3. WordAt(reply.data, 2 * i) = v[i]
      <4>1. WordAt(<<Len(BytesOf(v)) % 256>> \o BytesOf(v), 2 * i) = v[i]
        BY <2>1, <3>1, WordsDecoded, Zenon
      <4> QED BY <3>2, <4>1, Zenon
    <3> QED BY <2>3, <3>3, Zenon
  <2> QED BY <2>2, <2>3
<1>9. (CASE reply.code = FunctionCode(r) -> 0
         [] reply.code = 128 + FunctionCode(r) -> reply.data[1]
         [] OTHER -> 255) = 0
  <2>1. FunctionCode(r) \in Nat
    BY Codes
  <2>2. 128 + FunctionCode(r) # FunctionCode(r)
    BY <2>1
  <2> QED BY <1>5, <2>2, Zenon
<1>10. Decoded(r, reply) = [id |-> r.id, error |-> 0, values |-> [i \in 1..n |-> Value(i)]]
  BY <1>5, <1>9, Zenon DEF Decoded, BitTables, n, t
<1> HIDE DEF Value
<1>11. [i \in 1..n |-> Value(i)] = [i \in 1..n |-> cells[t][r.start + i - 1]]
  BY <1>7, <1>8, Zenon
<1>12. Promise!Answer(r) = [id |-> r.id, error |-> 0,
                            values |-> [i \in 1..n |-> cells[t][r.start + i - 1]]]
  BY Zenon DEF Promise!Answer, n, t
<1> QED BY <1>10, <1>11, <1>12, Zenon

---------------------------------------------------------------------------
(* The handlers carry out the request at the head of the stream.           *)

\* The handlers see the request r, and g behind it.
Sees(r, g) ==
  /\ Id = r.id /\ Unit = r.unit /\ Function = FunctionCode(r)
  /\ Start = r.start /\ Second = SecondWord(r)
  /\ Accepted /\ Complete /\ Function \in {1, 2, 3, 4, 5, 6, 15, 16}
  /\ ~IsMultipleWrite(r) /\ Consume(4) => stream' = g
  /\ IsMultipleWrite(r) =>
       /\ DataCount = Len(Payload(r)) /\ Data(Len(Payload(r))) = Payload(r)
       /\ Consume(5 + Len(Payload(r))) => stream' = g

LEMMA RequestSeen ==
  ASSUME NEW r, Asked(r), Served(r), NEW g \in Seq(Nat), stream = Frame(r) \o g
  PROVE  Sees(r, g)
<1> DEFINE b == Body(r)
           m == Len(b)
           n == Len(Payload(r))
<1>1. /\ b \in Seq(Nat) /\ m >= 4 /\ (~IsMultipleWrite(r) => m = 4)
      /\ IsMultipleWrite(r) => m = 5 + n
  BY BodyLayout, Zenon
<1>2. /\ Id = r.id /\ Protocol = r.protocol /\ Unit = r.unit /\ Function = FunctionCode(r)
      /\ Rest \in Seq(Nat) /\ Len(Rest) = m + Len(g)
      /\ \A k \in 1..m : Rest[k] = b[k]
      /\ Consume(m) => stream' = g
  BY <1>1, FrameSeen, Zenon
<1>3. m \in Nat /\ Len(g) \in Nat
  BY <1>1, LenProperties, Zenon
<1>4. Len(Rest) >= m
  <2> HIDE DEF m
  <2> QED BY <1>2, <1>3
<1>5. /\ Start = r.start /\ Second = SecondWord(r)
      /\ IsMultipleWrite(r) =>
           DataCount = n /\ Rest[5] = n /\ Data(n) = Payload(r)
  BY <1>2, <1>4, BodySeen, Zenon
<1>6. Accepted
  BY <1>2, Zenon DEF Accepted, Served
<1>7. Function \in {1, 2, 3, 4, 5, 6, 15, 16}
  <2>1. r.kind # "other"
    BY DEF Served
  <2>2. FunctionCode(r) \in {1, 2, 3, 4, 5, 6, 15, 16}
    BY <2>1, Codes, Zenon
  <2> QED BY <1>2, <2>2, Zenon
<1>8. Complete
  <2>1. IsMultiple <=> IsMultipleWrite(r)
    BY <1>2, Zenon DEF IsMultiple, IsMultipleWrite
  <2>2. CASE ~IsMultipleWrite(r)
    <3>1. Needed = 4
      BY <2>1, <2>2, Zenon DEF Needed
    <3>2. Len(Rest) >= 4
      <4> HIDE DEF m
      <4> QED BY <1>1, <1>2, <1>3
    <3> QED BY <3>1, <3>2, Zenon DEF Complete
  <2>3. CASE IsMultipleWrite(r)
    <3>1. n \in Nat
      BY <2>3, BodyForm, LenProperties, Zenon
    <3>2. ~(Len(Rest) < 5) /\ Len(Rest) >= 5 + n
      <4> HIDE DEF m, n
      <4> QED BY <1>1, <1>2, <1>3, <2>3, <3>1
    <3>3. Needed = 5 + n
      BY <1>5, <2>1, <2>3, <3>2, Zenon DEF Needed
    <3> QED BY <3>2, <3>3, Zenon DEF Complete
  <2> QED BY <2>2, <2>3
<1>9. ~IsMultipleWrite(r) /\ Consume(4) => stream' = g
  BY <1>1, <1>2, Zenon
<1>10. IsMultipleWrite(r) /\ Consume(5 + n) => stream' = g
  BY <1>1, <1>2, Zenon
<1> QED BY <1>2, <1>5, <1>6, <1>7, <1>8, <1>9, <1>10, Zenon DEF Sees

\* The request is carried out and answered as promised.
Carried(r, g) ==
  /\ stream' = g /\ UNCHANGED <<build, connection, flight, sent>>
  /\ cells' = TablesAfter(r)
  /\ \E reply : replies' = Append(replies, reply) /\ Decoded(r, reply) = Promise!Answer(r)

LEMMA ExceptionCarried ==
  ASSUME CellsTyped, NEW r, Asked(r), NEW g, Sees(r, g), NEW c, Promise!Error(r) = c, c # 0,
         r.kind # "write" \/ ~Promise!InTable(r),
         stream' = g, Exception(c), Unchanged, TablesUnchanged
  PROVE  Carried(r, g)
<1> DEFINE reply == [id |-> r.id, unit |-> r.unit, code |-> 128 + FunctionCode(r), data |-> <<c>>]
<1>1. Id = r.id /\ Unit = r.unit /\ Function = FunctionCode(r)
  BY Zenon DEF Sees
<1>2. replies' = Append(replies, reply)
  BY <1>1, Zenon DEF Exception, Reply
<1>3. Decoded(r, reply) = Promise!Answer(r)
  BY ExceptionDecoded, Zenon
<1>4. cells' = TablesAfter(r)
  BY NothingWritten, Zenon DEF TablesUnchanged
<1> QED BY <1>2, <1>3, <1>4, Zenon DEF Carried, Unchanged

LEMMA ReadCarried ==
  ASSUME CellsTyped, NEW r, Asked(r), NEW g, Sees(r, g), r.kind = "read",
         NEW limit, limit = (IF r.table \in BitTables THEN MaxCoils ELSE MaxRegisters),
         Read(r.table, limit)
  PROVE  Carried(r, g)
<1>1. /\ Id = r.id /\ Unit = r.unit /\ Function = FunctionCode(r) /\ Start = r.start
  BY Zenon DEF Sees
<1>2. ~IsMultipleWrite(r) /\ SecondWord(r) = r.quantity
  <2>1. r.kind # "write"
    OBVIOUS
  <2>2. FunctionCode(r) # 5 /\ FunctionCode(r) # 6 /\ FunctionCode(r) # 15 /\ FunctionCode(r) # 16
    BY <2>1, Codes, Zenon
  <2> QED BY <2>2, Zenon DEF IsMultipleWrite, SecondWord
<1>3. Second = r.quantity
  BY <1>2, Zenon DEF Sees
<1>4. stream' = g
  BY <1>2, Zenon DEF Sees, Read
<1>5. Unchanged /\ TablesUnchanged
  BY Zenon DEF Read
<1>6. Promise!Error(r) = IF r.quantity \notin 1..limit THEN 3
                         ELSE IF r.start + r.quantity <= Size[r.table] THEN 0 ELSE 2
  BY ErrorIs, Zenon
<1>7. 3 # 0 /\ 2 # 0 /\ r.kind # "write"
  OBVIOUS
<1>8. CASE r.quantity \notin 1..limit
  <2>1. Exception(3)
    BY <1>3, <1>8, Zenon DEF Read
  <2>2. Promise!Error(r) = 3
    BY <1>6, <1>8, Zenon
  <2> QED BY <1>4, <1>5, <1>7, <2>1, <2>2, ExceptionCarried, Zenon
<1>9. CASE r.quantity \in 1..limit /\ ~(r.start + r.quantity <= Size[r.table])
  <2>1. Exception(2)
    BY <1>1, <1>3, <1>9, Zenon DEF Read
  <2>2. Promise!Error(r) = 2
    BY <1>6, <1>9, Zenon
  <2> QED BY <1>4, <1>5, <1>7, <2>1, <2>2, ExceptionCarried, Zenon
<1>10. CASE r.quantity \in 1..limit /\ r.start + r.quantity <= Size[r.table]
  <2> DEFINE data == Encoded(r.table,
                       [i \in 1..r.quantity |-> cells[r.table][r.start + i - 1]])
             reply == [id |-> r.id, unit |-> r.unit, code |-> FunctionCode(r),
                       data |-> <<Len(data) % 256>> \o data]
  <2>1. ~(r.start + r.quantity > Size[r.table])
    <3>1. r.start \in Nat /\ r.quantity \in Nat /\ Size[r.table] \in Nat
      BY SizesAreNumbers DEF Asked
    <3> DEFINE p == r.start
               q == r.quantity
               s == Size[r.table]
    <3>2. p \in Nat /\ q \in Nat /\ s \in Nat /\ p + q <= s
      BY <1>10, <3>1
    <3> HIDE DEF p, q, s
    <3>3. ~(p + q > s)
      BY <3>2
    <3> QED BY <3>3 DEF p, q, s
  <2>2. Reply(Function, <<Len(data) % 256>> \o data)
    <3>1. \/ Second \notin 1..limit
          \/ Second \in 1..limit /\ Start + Second > Size[r.table]
          \/ LET d == Encoded(r.table,
                              [i \in 1..Second |-> cells[r.table][Start + i - 1]])
             IN  Reply(Function, <<Len(d) % 256>> \o d)
      BY Zenon DEF Read
    <3> QED BY <1>1, <1>3, <1>10, <2>1, <3>1, Zenon
  <2>3. replies' = Append(replies, reply)
    BY <1>1, <2>2, Zenon DEF Reply
  <2>4. Promise!Error(r) = 0
    BY <1>6, <1>10, Zenon
  <2>5. Decoded(r, reply) = Promise!Answer(r)
    BY <2>4, ReadDecoded, Zenon
  <2>6. cells' = TablesAfter(r)
    BY <1>5, <1>7, NothingWritten, Zenon DEF TablesUnchanged
  <2> HIDE DEF reply
  <2> QED BY <1>4, <1>5, <2>3, <2>5, <2>6, Zenon DEF Carried, Unchanged
<1> QED BY <1>8, <1>9, <1>10, Zenon

LEMMA StoreCarried ==
  ASSUME CellsTyped, NEW r, Asked(r), r.kind = "write", Promise!InTable(r),
         NEW g, Sees(r, g), stream' = g, NEW v, Len(v) = r.quantity,
         \A i \in 1..r.quantity : v[i] = r.values[i],
         Store(r.table, r.start, v), NEW data, Reply(Function, data), Unchanged
  PROVE  Carried(r, g)
<1> DEFINE reply == [id |-> r.id, unit |-> r.unit, code |-> FunctionCode(r), data |-> data]
<1>1. r.start \in Nat /\ r.quantity \in Nat /\ r.table \in Writable
  BY DEF Asked, Writable
<1>2. r.start + r.quantity <= Size[r.table]
  BY Zenon DEF Promise!InTable
<1>3. cells' = Written(r.table, r.start, v)
  BY <1>1, <1>2, StoreWrites, Zenon
<1>4. cells' = TablesAfter(r)
  BY <1>3, WrittenIs, Zenon
<1>5. Id = r.id /\ Unit = r.unit /\ Function = FunctionCode(r)
  BY Zenon DEF Sees
<1>6. replies' = Append(replies, reply)
  BY <1>5, Zenon DEF Reply
<1>7. Promise!Error(r) = 0
  <2>1. r.kind # "read"
    OBVIOUS
  <2> QED BY <1>2, <2>1, ErrorIs, Zenon
<1>8. Decoded(r, reply) = Promise!Answer(r)
  BY <1>7, WriteDecoded, Zenon
<1> HIDE DEF reply
<1> QED BY <1>4, <1>6, <1>8, Zenon DEF Carried, Unchanged

\* A write that reaches beyond its table is refused.
LEMMA RefusalCarried ==
  ASSUME CellsTyped, NEW r, Asked(r), r.kind = "write", ~(r.start + r.quantity <= Size[r.table]),
         NEW g, Sees(r, g), stream' = g, Exception(2), Unchanged, TablesUnchanged
  PROVE  Carried(r, g)
<1>1. r.kind # "read" /\ 2 # 0
  OBVIOUS
<1>2. Promise!Error(r) = 2
  BY <1>1, ErrorIs, Zenon
<1>3. ~Promise!InTable(r)
  BY Zenon DEF Promise!InTable
<1> QED BY <1>1, <1>2, <1>3, ExceptionCarried, Zenon

LEMMA WriteSingleCarried ==
  ASSUME CellsTyped, NEW r, Asked(r), NEW g, Sees(r, g), FunctionCode(r) \in {5, 6},
         NEW value, value = r.values[1], WriteSingle(r.table, value)
  PROVE  Carried(r, g)
<1>1. r.kind = "write" /\ r.single /\ ~IsMultipleWrite(r)
  BY Codes DEF IsMultipleWrite
<1>2. /\ r.quantity = 1 /\ r.start \in Nat /\ r.quantity \in Nat
      /\ r.table \in Tables /\ r.table \in Writable
  BY <1>1 DEF Asked, Writable
<1>3. Start = r.start
  BY Zenon DEF Sees
<1>4. stream' = g
  BY <1>1, Zenon DEF Sees, WriteSingle
<1>5. Unchanged
  BY Zenon DEF WriteSingle
<1> DEFINE p == r.start
           s == Size[r.table]
<1>6. p \in Nat /\ s \in Nat
  BY <1>2, SizesAreNumbers
<1> HIDE DEF p, s
<1>7. (p >= s <=> ~(p + 1 <= s)) /\ (p < s <=> p + 1 <= s)
  BY <1>6
<1>8. CASE Start >= Size[r.table] /\ Exception(2) /\ TablesUnchanged
  <2>1. ~(r.start + r.quantity <= Size[r.table])
    BY <1>2, <1>3, <1>7, <1>8, Zenon DEF p, s
  <2> QED BY <1>1, <1>4, <1>5, <1>8, <2>1, RefusalCarried, Zenon
<1>9. CASE /\ Start < Size[r.table] /\ Store(r.table, Start, <<value>>)
           /\ Reply(Function, HiLo(Start) \o HiLo(Second))
  <2>1. Promise!InTable(r)
    BY <1>2, <1>3, <1>7, <1>9, Zenon DEF p, s, Promise!InTable
  <2> DEFINE v == <<value>>
  <2>2. Len(v) = 1 /\ v[1] = value
    OBVIOUS
  <2>3. Store(r.table, r.start, v)
    BY <1>3, <1>9, Zenon
  <2> HIDE DEF v
  <2>4. Len(v) = r.quantity
    BY <1>2, <2>2, Zenon
  <2>5. ASSUME NEW i \in 1..r.quantity PROVE v[i] = r.values[i]
    <3>1. i = 1
      BY <1>2
    <3> QED BY <2>2, <3>1, Zenon
  <2> QED BY <1>1, <1>4, <1>5, <1>9, <2>1, <2>3, <2>4, <2>5, StoreCarried, Zenon
<1>10. \/ Start >= Size[r.table] /\ Exception(2) /\ TablesUnchanged
       \/ /\ Start < Size[r.table] /\ Store(r.table, Start, <<value>>)
          /\ Reply(Function, HiLo(Start) \o HiLo(Second))
  BY Zenon DEF WriteSingle
<1> QED BY <1>8, <1>9, <1>10, Zenon

LEMMA WriteMultipleCarried ==
  ASSUME CellsTyped, NEW r, Asked(r), NEW g, Sees(r, g), FunctionCode(r) \in {15, 16},
         NEW v, Len(v) = r.quantity, \A i \in 1..r.quantity : v[i] = r.values[i],
         NEW used, used = Len(Payload(r)), WriteMultiple(r.table, used, v)
  PROVE  Carried(r, g)
<1>1. /\ r.kind = "write" /\ IsMultipleWrite(r) /\ SecondWord(r) = r.quantity
  BY Codes DEF IsMultipleWrite, SecondWord
<1>2. r.start \in Nat /\ r.quantity \in Nat /\ r.table \in Tables
  BY DEF Asked
<1>3. Start = r.start /\ Second = r.quantity /\ DataCount = used
  BY <1>1, Zenon DEF Sees
<1>4. Unchanged
  BY Zenon DEF WriteMultiple
<1>5. Consume(5 + used) => stream' = g
  BY <1>1, Zenon DEF Sees
<1> DEFINE p == r.start
           q == r.quantity
           s == Size[r.table]
<1>6. p \in Nat /\ q \in Nat /\ s \in Nat
  BY <1>2, SizesAreNumbers
<1> HIDE DEF p, q, s
<1>7. p + q > s <=> ~(p + q <= s)
  BY <1>6
<1>8. CASE /\ Start + Second > Size[r.table]
           /\ Consume(5 + DataCount) /\ Exception(2) /\ TablesUnchanged
  <2>1. ~(r.start + r.quantity <= Size[r.table])
    BY <1>3, <1>7, <1>8, Zenon DEF p, q, s
  <2>2. stream' = g
    BY <1>3, <1>5, <1>8, Zenon
  <2> QED BY <1>1, <1>4, <1>8, <2>1, <2>2, RefusalCarried, Zenon
<1>9. CASE /\ Start + Second <= Size[r.table]
           /\ Consume(5 + (IF build = "idf" THEN DataCount ELSE used))
           /\ Store(r.table, Start, v)
           /\ Reply(Function, HiLo(Start) \o HiLo(Second))
  <2>1. Promise!InTable(r)
    BY <1>3, <1>9, Zenon DEF Promise!InTable
  <2>2. stream' = g
    BY <1>3, <1>5, <1>9, Zenon
  <2>3. Store(r.table, r.start, v)
    BY <1>3, <1>9, Zenon
  <2> QED BY <1>1, <1>4, <1>9, <2>1, <2>2, <2>3, StoreCarried, Zenon
<1>10. \/ /\ Start + Second > Size[r.table]
          /\ Consume(5 + DataCount) /\ Exception(2) /\ TablesUnchanged
       \/ /\ Start + Second <= Size[r.table]
          /\ Consume(5 + (IF build = "idf" THEN DataCount ELSE used))
          /\ Store(r.table, Start, v)
          /\ Reply(Function, HiLo(Start) \o HiLo(Second))
  BY Zenon DEF WriteMultiple
<1> QED BY <1>8, <1>9, <1>10, Zenon

LEMMA CoilsCarried ==
  ASSUME CellsTyped, NEW r, Asked(r), NEW g, Sees(r, g), WriteMultipleCoils
  PROVE  Carried(r, g)
<1>1. FunctionCode(r) = 15
  BY Zenon DEF WriteMultipleCoils, Handles, Sees
<1>2. /\ FunctionCode(r) \in {15, 16} /\ IsMultipleWrite(r)
      /\ r.kind = "write" /\ r.table = "coils"
  BY <1>1, Codes, Zenon DEF IsMultipleWrite
<1>3. r.values \in Seq({0, 1}) /\ Len(r.values) = r.quantity /\ r.quantity \in Nat
  BY <1>2 DEF Asked
<1>4. Payload(r) = Packed(r.values)
  BY <1>1, Zenon DEF Payload
<1> DEFINE used == ByteCount(Second)
<1>5. Packed(r.values) \in Seq(Nat) /\ Len(Packed(r.values)) = ByteCount(r.quantity)
  BY <1>3, PackedBytes, Zenon
<1>6. Second = r.quantity
  <2>1. FunctionCode(r) # 5 /\ FunctionCode(r) # 6
    BY <1>1
  <2> QED BY <2>1, Zenon DEF Sees, SecondWord
<1>7. used = Len(Payload(r)) /\ Data(used) = Packed(r.values) /\ DataCount = used
  BY <1>2, <1>4, <1>5, <1>6, Zenon DEF Sees
<1>8. PICK stray \in {0, 1} :
        WriteMultiple("coils", used,
          [i \in 1..Second |->
             IF Outside(ByteCount(i)) THEN stray
             ELSE Bit(Byte(Data(used), ByteCount(i)), (i - 1) % 8)])
  BY Zenon DEF WriteMultipleCoils
<1> HIDE DEF used
<1> DEFINE value(i) == IF Outside(ByteCount(i)) THEN stray
                       ELSE Bit(Byte(Data(used), ByteCount(i)), (i - 1) % 8)
           v == [i \in 1..Second |-> value(i)]
<1>9. WriteMultiple(r.table, used, v)
  BY <1>2, <1>8, Zenon
<1>10. ASSUME NEW i \in 1..r.quantity PROVE value(i) = r.values[i]
  <2>1. i \in 1..Len(r.values)
    BY <1>3, Zenon
  <2>2. /\ ByteCount(i) \in 1..ByteCount(Len(r.values))
        /\ Bit(Packed(r.values)[ByteCount(i)], (i - 1) % 8) = r.values[i]
    BY <1>3, <2>1, PackedBack, Zenon
  <2>3. ByteCount(i) \in 1..used
    BY <1>3, <1>6, <2>2, Zenon DEF used
  <2>4. used \in Nat
    BY <1>3, <1>6 DEF used, ByteCount
  <2> DEFINE k == ByteCount(i)
  <2> HIDE DEF k
  <2>5. ~(k > used)
    BY <2>3, <2>4 DEF k
  <2>6. ~Outside(k)
    BY <1>7, <2>5, Zenon DEF Outside
  <2>7. Packed(r.values)[k] \in Nat
    <3>1. k \in 1..Len(Packed(r.values))
      BY <1>3, <1>5, <2>2, Zenon DEF k
    <3> QED BY <1>5, <3>1, ElementOfSeq, Zenon
  <2>8. Packed(r.values)[k] # NoByte
    <3> DEFINE a == Packed(r.values)[k]
    <3>1. a \in Nat
      BY <2>7
    <3> HIDE DEF a
    <3>2. a # NoByte
      BY <3>1 DEF NoByte
    <3> QED BY <3>2 DEF a
  <2>9. Byte(Data(used), k) = Packed(r.values)[k]
    BY <1>7, <2>8, Zenon DEF Byte
  <2>10. value(i) = Bit(Byte(Data(used), k), (i - 1) % 8)
    BY <2>6, Zenon DEF k
  <2> QED BY <2>2, <2>9, <2>10, Zenon DEF k
<1> HIDE DEF value
<1>11. Len(v) = r.quantity /\ \A i \in 1..r.quantity : v[i] = r.values[i]
  <2>1. v = [i \in 1..r.quantity |-> value(i)]
    BY <1>6, Zenon
  <2> HIDE DEF v
  <2>2. Len(v) = r.quantity
    BY <1>3, <2>1
  <2> QED BY <1>10, <2>1, <2>2, Zenon
<1> HIDE DEF v
<1> QED BY <1>2, <1>7, <1>9, <1>11, WriteMultipleCarried, Zenon

LEMMA RegistersCarried ==
  ASSUME CellsTyped, NEW r, Asked(r), NEW g, Sees(r, g), WriteMultipleRegisters
  PROVE  Carried(r, g)
<1>1. FunctionCode(r) = 16
  BY Zenon DEF WriteMultipleRegisters, Handles, Sees
<1>0. FunctionCode(r) # 15 /\ FunctionCode(r) # 5 /\ FunctionCode(r) # 6
  BY <1>1
<1>2. /\ FunctionCode(r) \in {15, 16} /\ IsMultipleWrite(r)
      /\ r.kind = "write" /\ r.table = "holding"
  BY <1>1, Codes, Zenon DEF IsMultipleWrite
<1>3. r.values \in Seq(Nat) /\ Len(r.values) = r.quantity /\ r.quantity \in Nat
  BY <1>2 DEF Asked
<1>4. Payload(r) = BytesOf(r.values)
  BY <1>0, Zenon DEF Payload
<1> DEFINE used == 2 * Second
<1>5. /\ BytesOf(r.values) \in Seq(Nat) /\ Len(BytesOf(r.values)) = 2 * r.quantity
  BY <1>3, BytesOfBytes, Zenon
<1>6. Second = r.quantity
  BY <1>0, Zenon DEF Sees, SecondWord
<1>7. used = Len(Payload(r)) /\ Data(used) = BytesOf(r.values) /\ DataCount = used
  BY <1>2, <1>4, <1>5, <1>6, Zenon DEF Sees
<1>8. PICK stray \in {0, NoWord} :
        WriteMultiple("holding", used,
          [i \in 1..Second |->
             IF Outside(2 * i) THEN stray ELSE WordAt(Data(used), 2 * i - 1)])
  BY Zenon DEF WriteMultipleRegisters
<1> HIDE DEF used
<1> DEFINE value(i) == IF Outside(2 * i) THEN stray ELSE WordAt(Data(used), 2 * i - 1)
           v == [i \in 1..Second |-> value(i)]
<1>9. WriteMultiple(r.table, used, v)
  BY <1>2, <1>8, Zenon
<1>10. ASSUME NEW i \in 1..r.quantity PROVE value(i) = r.values[i]
  <2>1. i \in 1..Len(r.values)
    BY <1>3, Zenon
  <2>2. used = 2 * r.quantity
    BY <1>6, Zenon DEF used
  <2>3. ~(2 * i > used) /\ (2 * i - 1) + 1 = 2 * i
    <3> DEFINE q == r.quantity
    <3>1. q \in Nat /\ i \in 1..q /\ used = 2 * q
      BY <1>3, <2>2
    <3> HIDE DEF q
    <3> QED BY <3>1
  <2>4. ~Outside(2 * i)
    BY <1>7, <2>3, Zenon DEF Outside
  <2> DEFINE d == BytesOf(r.values)
             k == 2 * i - 1
  <2>5. d[k + 1] = BytesOf(r.values)[2 * i] /\ d[k] = BytesOf(r.values)[2 * i - 1]
    BY <2>3, Zenon
  <2> HIDE DEF d, k
  <2>6. WordAt(d, k) = r.values[i]
    <3> DEFINE w == r.values
    <3>1. /\ w \in Seq(Nat) /\ i \in 1..Len(w)
          /\ d[k] = BytesOf(w)[2 * i - 1] /\ d[k + 1] = BytesOf(w)[2 * i]
      BY <1>3, <2>1, <2>5, Zenon
    <3> HIDE DEF w
    <3>2. WordAt(d, k) = w[i]
      BY ONLY <3>1, BytesBack, Zenon
    <3> QED BY <3>2, Zenon DEF w
  <2>7. value(i) = WordAt(Data(used), 2 * i - 1)
    BY <2>4, Zenon
  <2> QED BY <1>7, <2>6, <2>7, Zenon DEF d, k
<1> HIDE DEF value
<1>11. Len(v) = r.quantity /\ \A i \in 1..r.quantity : v[i] = r.values[i]
  <2>1. v = [i \in 1..r.quantity |-> value(i)]
    BY <1>6, Zenon
  <2> HIDE DEF v
  <2>2. Len(v) = r.quantity
    BY <1>3, <2>1
  <2> QED BY <1>10, <2>1, <2>2, Zenon
<1> HIDE DEF v
<1> QED BY <1>2, <1>7, <1>9, <1>11, WriteMultipleCarried, Zenon

LEMMA RequestCarried ==
  ASSUME CellsTyped, NEW r, Asked(r), NEW g, Sees(r, g), Request
  PROVE  Carried(r, g)
<1>0. /\ Function = FunctionCode(r) /\ Accepted /\ Complete
      /\ Function \in {1, 2, 3, 4, 5, 6, 15, 16} /\ Second = SecondWord(r)
  BY Zenon DEF Sees
<1>1. ~Ignore /\ ~UnsupportedFunction /\ ~Truncated
  BY <1>0, Zenon DEF Ignore, UnsupportedFunction, Truncated
<1>2. CASE ReadCoils
  <2>1. FunctionCode(r) = 1 /\ Read("coils", MaxCoils)
    BY <1>0, <1>2, Zenon DEF ReadCoils, Handles
  <2>2. r.kind = "read" /\ r.table = "coils"
    BY <2>1, Codes, Zenon
  <2>3. MaxCoils = (IF r.table \in BitTables THEN MaxCoils ELSE MaxRegisters)
    BY <2>2 DEF BitTables
  <2> QED BY <2>1, <2>2, <2>3, ReadCarried, Zenon
<1>3. CASE ReadDiscreteInputs
  <2>1. FunctionCode(r) = 2 /\ Read("discrete", MaxCoils)
    BY <1>0, <1>3, Zenon DEF ReadDiscreteInputs, Handles
  <2>2. r.kind = "read" /\ r.table = "discrete"
    BY <2>1, Codes, Zenon
  <2>3. MaxCoils = (IF r.table \in BitTables THEN MaxCoils ELSE MaxRegisters)
    BY <2>2 DEF BitTables
  <2> QED BY <2>1, <2>2, <2>3, ReadCarried, Zenon
<1>4. CASE ReadHoldingRegisters
  <2>1. FunctionCode(r) = 3 /\ Read("holding", MaxRegisters)
    BY <1>0, <1>4, Zenon DEF ReadHoldingRegisters, Handles
  <2>2. r.kind = "read" /\ r.table = "holding"
    BY <2>1, Codes, Zenon
  <2>3. MaxRegisters = (IF r.table \in BitTables THEN MaxCoils ELSE MaxRegisters)
    BY <2>2 DEF BitTables
  <2> QED BY <2>1, <2>2, <2>3, ReadCarried, Zenon
<1>5. CASE ReadInputRegisters
  <2>1. FunctionCode(r) = 4 /\ Read("input", MaxRegisters)
    BY <1>0, <1>5, Zenon DEF ReadInputRegisters, Handles
  <2>2. r.kind = "read" /\ r.table = "input"
    BY <2>1, Codes, Zenon
  <2>3. MaxRegisters = (IF r.table \in BitTables THEN MaxCoils ELSE MaxRegisters)
    BY <2>2 DEF BitTables
  <2> QED BY <2>1, <2>2, <2>3, ReadCarried, Zenon
<1>6. CASE WriteSingleCoil
  <2> DEFINE value == IF Second = CoilOn THEN 1 ELSE 0
  <2>1. FunctionCode(r) = 5 /\ WriteSingle("coils", value)
    BY <1>0, <1>6, Zenon DEF WriteSingleCoil, Handles
  <2>2. r.kind = "write" /\ r.table = "coils" /\ r.single
    BY <2>1, Codes, Zenon
  <2>3. r.values \in Seq({0, 1}) /\ Len(r.values) = 1
    BY <2>2 DEF Asked
  <2>4. r.values[1] \in {0, 1}
    BY <2>3
  <2>5. Second = CoilOn * r.values[1]
    BY <1>0, <2>1, Zenon DEF SecondWord
  <2> DEFINE a == r.values[1]
  <2>6. value = a
    <3>1. a \in {0, 1} /\ Second = CoilOn * a
      BY <2>4, <2>5
    <3> HIDE DEF a
    <3> QED BY <3>1 DEF CoilOn
  <2> HIDE DEF value
  <2> QED BY <2>1, <2>2, <2>6, WriteSingleCarried, Zenon
<1>7. CASE WriteSingleRegister
  <2>1. FunctionCode(r) = 6 /\ WriteSingle("holding", Second)
    BY <1>0, <1>7, Zenon DEF WriteSingleRegister, Handles
  <2>2. r.table = "holding" /\ FunctionCode(r) # 5
    BY <2>1, Codes
  <2>3. Second = r.values[1]
    BY <1>0, <2>1, <2>2, Zenon DEF SecondWord
  <2> QED BY <2>1, <2>2, <2>3, WriteSingleCarried, Zenon
<1>8. CASE WriteMultipleCoils
  BY <1>8, CoilsCarried
<1>9. CASE WriteMultipleRegisters
  BY <1>9, RegistersCarried
<1> QED BY <1>1, <1>2, <1>3, <1>4, <1>5, <1>6, <1>7, <1>8, <1>9, Zenon DEF Request

---------------------------------------------------------------------------
(* The refinement: what is in the stream is what has not been answered.     *)

\* The stream holds the frames of the requests not yet answered, one after the other:
\* f[i] is what there is of it when the first i - 1 requests have been answered.
Queue(f) ==
  /\ f[Len(sent) + 1] = <<>>
  /\ \A i \in (Len(replies) + 1) .. (Len(sent) + 1) : f[i] \in Seq(Nat)
  /\ \A i \in (Len(replies) + 1) .. Len(sent) : f[i] = Frame(sent[i]) \o f[i + 1]
  /\ stream = f[Len(replies) + 1]

Pending ==
  /\ flight = <<>> /\ Len(replies) <= Len(sent) /\ \E S : replies \in Seq(S)
  /\ (socket # "open" /\ stream = <<>>) \/ \E f : Queue(f)

RInv == IInv /\ CellsTyped /\ sent \in Seq(Requests) /\ (AllServed => Pending)

LEMMA Appended ==
  ASSUME NEW S, NEW s \in Seq(S), NEW e
  PROVE  /\ \E T : Append(s, e) \in Seq(T)
         /\ Len(Append(s, e)) = Len(s) + 1 /\ Append(s, e)[Len(s) + 1] = e
         /\ \A i \in 1..Len(s) : Append(s, e)[i] = s[i]
<1> DEFINE T == S \cup {e}
<1>1. s \in Seq(T) /\ e \in T
  BY SeqMonotonic
<1> HIDE DEF T
<1>2. Append(s, e) \in Seq(T)
  BY <1>1
<1>3. /\ Len(Append(s, e)) = Len(s) + 1 /\ Append(s, e)[Len(s) + 1] = e
      /\ \A i \in 1..Len(s) : Append(s, e)[i] = s[i]
  BY <1>1
<1> QED BY <1>2, <1>3, Zenon

LEMMA SentMore ==
  ASSUME sent \in Seq(Requests), NEW r \in Requests, sent' = Append(sent, r), AllServed'
  PROVE  AllServed /\ Served(r) /\ r \notin InPieces
<1> DEFINE n == Len(sent)
<1>1. /\ Len(sent') = n + 1 /\ sent'[n + 1] = r /\ n \in Nat
      /\ \A i \in 1..n : sent'[i] = sent[i]
  <2>1. n \in Nat
    BY LenProperties, Zenon
  <2>2. Len(Append(sent, r)) = n + 1 /\ Append(sent, r)[n + 1] = r
    BY Appended, Zenon
  <2>3. \A i \in 1..n : Append(sent, r)[i] = sent[i]
    BY AppendProperties
  <2> QED BY <2>1, <2>2, <2>3, Zenon
<1>2. sent' \in Seq(Requests)
  BY AppendProperties, Zenon
<1>3. DOMAIN sent = 1..n /\ DOMAIN sent' = 1..Len(sent')
  BY <1>2, LenProperties, Zenon
<1> HIDE DEF n
<1>4. n + 1 \in 1..(n + 1) /\ 1..n \subseteq 1..(n + 1)
  BY <1>1
<1>5. \A i \in 1..(n + 1) : Served(sent'[i]) /\ sent'[i] \notin InPieces
  BY <1>1, <1>3, Zenon DEF AllServed, Served
<1>6. Served(r) /\ r \notin InPieces
  BY <1>1, <1>4, <1>5, Zenon
<1>7. \A i \in 1..n : Served(sent[i]) /\ sent[i] \notin InPieces
  BY <1>1, <1>4, <1>5, Zenon
<1> QED BY <1>3, <1>6, <1>7, Zenon DEF AllServed

LEMMA RequestsHaveFrames ==
  ASSUME NEW r \in Requests
  PROVE  Asked(r) /\ Frame(r) \in Seq(Nat) /\ Len(Frame(r)) >= 8
<1>1. Asked(r)
  BY RequestsAreAsked
<1>2. Body(r) \in Seq(Nat) /\ Len(Body(r)) >= 4
  BY <1>1, BodyLayout, Zenon
<1>3. Frame(r) \in Seq(Nat) /\ Len(Frame(r)) = 8 + Len(Body(r)) /\ Len(Body(r)) \in Nat
  BY <1>1, <1>2, FrameLayout, LenProperties, Zenon
<1> QED BY <1>1, <1>3

LEMMA Regrouped ==
  ASSUME NEW a \in Seq(Nat), NEW b \in Seq(Nat), NEW c \in Seq(Nat)
  PROVE  (a \o b) \o c = a \o (b \o c)
BY ConcatAssociative, SMT

\* One more frame at the end of the stream.
LEMMA QueueGrows ==
  ASSUME sent \in Seq(Requests), NEW r \in Requests, sent' = Append(sent, r),
         Len(replies) \in Nat, Len(replies) <= Len(sent), replies' = replies,
         NEW f, Queue(f), stream' = stream \o Frame(r)
  PROVE  \E g : Queue(g)'
<1> DEFINE n == Len(replies)
           m == Len(sent)
           w == Frame(r)
           h == [i \in 1..(m + 2) |-> IF i = m + 2 THEN <<>> ELSE f[i] \o w]
<1>1. /\ Len(sent') = m + 1 /\ sent'[m + 1] = r /\ m \in Nat /\ n \in Nat /\ n <= m
      /\ \A i \in 1..m : sent'[i] = sent[i]
  <2>1. m \in Nat
    BY LenProperties, Zenon
  <2>2. Len(Append(sent, r)) = m + 1 /\ Append(sent, r)[m + 1] = r
    BY Appended, Zenon
  <2>3. \A i \in 1..m : Append(sent, r)[i] = sent[i]
    BY AppendProperties
  <2> QED BY <2>1, <2>2, <2>3, Zenon
<1>2. w \in Seq(Nat)
  BY RequestsHaveFrames, Zenon
<1>3. /\ f[m + 1] = <<>> /\ stream = f[n + 1]
      /\ \A i \in (n + 1) .. (m + 1) : f[i] \in Seq(Nat)
      /\ \A i \in (n + 1) .. m : f[i] = Frame(sent[i]) \o f[i + 1]
  BY Zenon DEF Queue
<1>4. \A i \in (n + 1) .. m : sent[i] \in Requests
  <2>1. ASSUME NEW i \in (n + 1) .. m PROVE i \in 1..m
    BY <1>1
  <2> QED BY <2>1, ElementOfSeq, Zenon
<1>5. Len(replies') = n
  BY Zenon
<1> HIDE DEF n, m, w
<1>0. PICK g : g = h
  BY Zenon
<1>6. \A i \in (n + 1) .. (m + 1) : g[i] = f[i] \o w
  <2>1. ASSUME NEW i \in (n + 1) .. (m + 1) PROVE i \in 1..(m + 2) /\ i # m + 2
    BY <1>1
  <2> QED BY <1>0, <2>1, Zenon
<1>7. g[m + 2] = <<>>
  <2>1. m + 2 \in 1..(m + 2)
    BY <1>1
  <2> QED BY <1>0, <2>1, Zenon
<1> HIDE DEF h
<1>8. (m + 1) + 1 = m + 2 /\ m + 1 \in (n + 1) .. (m + 1) /\ n + 1 \in (n + 1) .. (m + 1)
  BY <1>1
<1>9. \A i \in (n + 1) .. (m + 2) : g[i] \in Seq(Nat)
  <2>1. ASSUME NEW i \in (n + 1) .. (m + 2), i # m + 2 PROVE i \in (n + 1) .. (m + 1)
    BY <1>1, <2>1
  <2>2. \A i \in (n + 1) .. (m + 1) : f[i] \o w \in Seq(Nat)
    BY <1>2, <1>3, ConcatProperties, Zenon
  <2>3. <<>> \in Seq(Nat)
    OBVIOUS
  <2>4. ASSUME NEW i \in (n + 1) .. (m + 2) PROVE g[i] \in Seq(Nat)
    <3>1. CASE i = m + 2
      BY <1>7, <2>3, <3>1, Zenon
    <3>2. CASE i # m + 2
      BY <1>6, <2>1, <2>2, <3>2, Zenon
    <3> QED BY <3>1, <3>2
  <2> QED BY <2>4
<1>10. ASSUME NEW i \in (n + 1) .. (m + 1) PROVE g[i] = Frame(sent'[i]) \o g[i + 1]
  <2>1. CASE i = m + 1
    <3>1. f[m + 1] \o w = w /\ w = w \o <<>>
      BY <1>2, <1>3
    <3>2. Frame(sent'[m + 1]) = w
      BY <1>1, Zenon DEF w
    <3> QED BY <1>6, <1>7, <1>8, <2>1, <3>1, <3>2, Zenon
  <2>2. CASE i # m + 1
    <3>1. i \in (n + 1) .. m /\ i \in 1..m /\ i + 1 \in (n + 1) .. (m + 1)
      BY <1>1, <2>2
    <3>2. sent'[i] = sent[i] /\ f[i] = Frame(sent[i]) \o f[i + 1] /\ f[i + 1] \in Seq(Nat)
      BY <1>1, <1>3, <3>1, Zenon
    <3>3. Frame(sent[i]) \in Seq(Nat)
      BY <1>4, <3>1, RequestsHaveFrames, Zenon
    <3>4. (Frame(sent[i]) \o f[i + 1]) \o w = Frame(sent[i]) \o (f[i + 1] \o w)
      BY <1>2, <3>2, <3>3, Regrouped, Zenon
    <3>5. g[i] = f[i] \o w /\ g[i + 1] = f[i + 1] \o w
      BY <1>6, <3>1, Zenon
    <3> QED BY <3>2, <3>4, <3>5, Zenon
  <2> QED BY <2>1, <2>2
<1>11. stream' = g[n + 1]
  BY <1>3, <1>6, <1>8, Zenon DEF w
<1>12. (m + 1) + 1 = m + 2 /\ Len(sent') + 1 = m + 2
  BY <1>1, <1>8, Zenon
<1>13. Queue(g)'
  <2>1. g[Len(sent') + 1] = <<>>
    BY <1>7, <1>12, Zenon
  <2>2. \A i \in (Len(replies') + 1) .. (Len(sent') + 1) : g[i] \in Seq(Nat)
    BY <1>5, <1>9, <1>12, Zenon
  <2>3. \A i \in (Len(replies') + 1) .. Len(sent') : g[i] = Frame(sent'[i]) \o g[i + 1]
    <3>1. Len(sent') = m + 1
      BY <1>1, Zenon
    <3> QED BY <1>5, <1>10, <3>1, Zenon
  <2>4. stream' = g[Len(replies') + 1]
    BY <1>5, <1>11, Zenon
  <2> QED BY <2>1, <2>2, <2>3, <2>4 DEF Queue
<1> QED BY <1>13, Zenon

\* The first request in the stream has been answered.
LEMMA QueueShrinks ==
  ASSUME NEW f, Queue(f), Len(replies) \in Nat, Len(replies) < Len(sent),
         sent' = sent, Len(replies') = Len(replies) + 1, stream' = f[Len(replies) + 2]
  PROVE  Queue(f)'
<1> DEFINE n == Len(replies)
           m == Len(sent)
<1>1. /\ f[m + 1] = <<>>
      /\ \A i \in (n + 1) .. (m + 1) : f[i] \in Seq(Nat)
      /\ \A i \in (n + 1) .. m : f[i] = Frame(sent[i]) \o f[i + 1]
  BY Zenon DEF Queue
<1>2. Len(replies') = n + 1 /\ Len(sent') = m /\ stream' = f[n + 2] /\ n \in Nat
  BY Zenon
<1> HIDE DEF n, m
<1>3. ((n + 1) + 1) .. (m + 1) \subseteq (n + 1) .. (m + 1) /\ (n + 1) + 1 = n + 2
  BY <1>2
<1>4. ((n + 1) + 1) .. m \subseteq (n + 1) .. m
  BY <1>2
<1>5. f[Len(sent') + 1] = <<>>
  BY <1>1, <1>2, Zenon
<1>6. \A i \in (Len(replies') + 1) .. (Len(sent') + 1) : f[i] \in Seq(Nat)
  BY <1>1, <1>2, <1>3, Zenon
<1>7. \A i \in (Len(replies') + 1) .. Len(sent') : f[i] = Frame(sent'[i]) \o f[i + 1]
  BY <1>1, <1>2, <1>4, Zenon
<1>8. stream' = f[Len(replies') + 1]
  BY <1>2, <1>3, Zenon
<1> QED BY <1>5, <1>6, <1>7, <1>8 DEF Queue

\* What is left of a sequence, when it grows and when its head is taken.
LEMMA TailGrows ==
  ASSUME NEW S, NEW s \in Seq(S), NEW e \in S, NEW n \in Nat, n <= Len(s)
  PROVE  SubSeq(Append(s, e), n + 1, Len(s) + 1) = Append(SubSeq(s, n + 1, Len(s)), e)
<1> DEFINE m == Len(s)
           u == Append(s, e)
           a == SubSeq(u, n + 1, m + 1)
           b == SubSeq(s, n + 1, m)
           c == Append(b, e)
<1>1. m \in Nat /\ n <= m /\ n <= m + 1 /\ m = Len(s) /\ n \in Nat
  OBVIOUS
<1> HIDE DEF m
<1>2. u \in Seq(S) /\ Len(u) = m + 1 /\ u[m + 1] = e /\ \A i \in 1..m : u[i] = s[i]
  BY <1>1, AppendProperties
<1> HIDE DEF u
<1>3. a \in Seq(S) /\ Len(a) = (m + 1) - n
  BY <1>1, <1>2
<1>4. \A i \in 1..((m + 1) - n) : a[i] = u[n + i]
  BY <1>1, <1>2
<1>5. b \in Seq(S) /\ Len(b) = m - n
  BY <1>1
<1>6. \A i \in 1..(m - n) : b[i] = s[n + i]
  BY <1>1
<1> HIDE DEF a, b
<1>7. c \in Seq(S) /\ Len(c) = Len(b) + 1 /\ c[Len(b) + 1] = e
  BY <1>5, AppendProperties
<1>8. \A i \in 1..Len(b) : c[i] = b[i]
  BY <1>5, AppendProperties
<1> HIDE DEF c
<1>9. Len(c) = (m + 1) - n /\ c[(m + 1) - n] = e
  <2>1. (m - n) + 1 = (m + 1) - n
    BY <1>1
  <2> QED BY <1>5, <1>7, <2>1, Zenon
<1>10. ASSUME NEW i \in 1..((m + 1) - n) PROVE a[i] = c[i]
  <2>1. CASE i = (m + 1) - n
    <3>1. n + i = m + 1
      BY <1>1, <2>1
    <3> QED BY <1>2, <1>4, <1>9, <2>1, <3>1, Zenon
  <2>2. CASE i # (m + 1) - n
    <3>1. i \in 1..(m - n) /\ n + i \in 1..m
      BY <1>1, <2>2
    <3> QED BY <1>2, <1>4, <1>5, <1>6, <1>8, <3>1, Zenon
  <2> QED BY <2>1, <2>2
<1> QED BY <1>3, <1>7, <1>9, <1>10, SeqEqual, Zenon DEF a, c, u, b, m

LEMMA HeadAndTail ==
  ASSUME NEW S, NEW s \in Seq(S), NEW n \in Nat, n < Len(s)
  PROVE  LET u == SubSeq(s, n + 1, Len(s))
         IN  /\ u # <<>> /\ Head(u) = s[n + 1]
             /\ Tail(u) = SubSeq(s, (n + 1) + 1, Len(s))
<1> DEFINE m == Len(s)
           u == SubSeq(s, n + 1, m)
           a == Tail(u)
           b == SubSeq(s, (n + 1) + 1, m)
<1>1. m \in Nat /\ n <= m /\ n + 1 <= m /\ n + 1 \in Nat /\ m = Len(s)
  OBVIOUS
<1> HIDE DEF m
<1>2. u \in Seq(S) /\ Len(u) = m - n
  BY <1>1
<1>3. \A i \in 1..(m - n) : u[i] = s[n + i]
  BY <1>1
<1>4. b \in Seq(S) /\ Len(b) = m - (n + 1)
  BY <1>1
<1>5. \A i \in 1..(m - (n + 1)) : b[i] = s[(n + 1) + i]
  BY <1>1
<1> HIDE DEF u, b
<1>6. u # <<>> /\ Len(u) >= 1 /\ 1 \in 1..(m - n)
  BY <1>1, <1>2
<1>7. Head(u) = u[1]
  BY <1>2, <1>6
<1>8. a \in Seq(S) /\ Len(a) = Len(u) - 1 /\ \A i \in 1..Len(a) : a[i] = u[i + 1]
  BY <1>2, <1>6, HeadTailProperties
<1> HIDE DEF a
<1>9. Len(a) = m - (n + 1)
  <2>1. Len(a) = (m - n) - 1
    BY <1>2, <1>8, Zenon
  <2>2. (m - n) - 1 = m - (n + 1)
    BY <1>1
  <2> QED BY <2>1, <2>2, Zenon
<1>10. ASSUME NEW i \in 1..(m - (n + 1)) PROVE a[i] = b[i]
  <2>1. i + 1 \in 1..(m - n) /\ n + (i + 1) = (n + 1) + i
    BY <1>1
  <2> QED BY <1>3, <1>5, <1>8, <1>9, <2>1, Zenon
<1>11. a = b
  BY <1>4, <1>8, <1>9, <1>10, SeqEqual, Zenon
<1> QED BY <1>3, <1>6, <1>7, <1>11, Zenon DEF u, a, b, m

\* What the promise says of a step in its own terms.
Answers == [i \in 1..Len(replies) |-> Decoded(sent[i], replies[i])]

LEMMA PromiseStutters ==
  ASSUME UNCHANGED <<cells, sent, replies>>
  PROVE  UNCHANGED Promise!vars
BY Zenon DEF Promise!vars, Unanswered, AllServed

LEMMA NothingIsPromised == ASSUME ~AllServed' PROVE Promise!NothingPromised
<1>1. AllServed' = FALSE
  BY DEF AllServed
<1> QED BY <1>1 DEF Promise!NothingPromised

LEMMA AskIsAsk ==
  ASSUME sent \in Seq(Requests), Len(replies) \in Nat, Len(replies) <= Len(sent),
         AllServed, AllServed', NEW r \in Requests, sent' = Append(sent, r),
         UNCHANGED <<cells, replies>>
  PROVE  Promise!Ask(r)
<1> DEFINE n == Len(replies)
           m == Len(sent)
<1>1. m \in Nat /\ n \in Nat /\ n <= m /\ n' = n
  BY LenProperties, Zenon
<1>2. Unanswered' = Append(Unanswered, r)
  <2>1. Len(sent') = m + 1
    BY AppendProperties
  <2>2. SubSeq(Append(sent, r), n + 1, m + 1) = Append(SubSeq(sent, n + 1, m), r)
    BY <1>1, TailGrows, Zenon
  <2> QED BY <2>1, <2>2, Zenon DEF Unanswered
<1>3. Answers' = Answers
  <2>1. \A i \in 1..m : sent'[i] = sent[i]
    BY AppendProperties
  <2>2. 1..n \subseteq 1..m
    BY <1>1
  <2>3. \A i \in 1..n : Decoded(sent'[i], replies'[i]) = Decoded(sent[i], replies[i])
    BY <2>1, <2>2, Zenon
  <2> QED BY <2>3, Zenon DEF Answers
<1>4. AllServed' = TRUE /\ AllServed = TRUE
  BY DEF AllServed
<1> QED BY <1>2, <1>3, <1>4 DEF Promise!Ask, Answers

LEMMA ServeIsServe ==
  ASSUME sent \in Seq(Requests), NEW S, replies \in Seq(S), Len(replies) < Len(sent),
         AllServed, NEW reply, replies' = Append(replies, reply), sent' = sent,
         Decoded(sent[Len(replies) + 1], reply) = Promise!Answer(sent[Len(replies) + 1]),
         DOMAIN cells = Tables, cells' = TablesAfter(sent[Len(replies) + 1])
  PROVE  Promise!Serve
<1> DEFINE n == Len(replies)
           m == Len(sent)
           r == sent[n + 1]
<1>1. m \in Nat /\ n \in Nat /\ n < m
  BY LenProperties, Zenon
<1>2. /\ Len(replies') = n + 1 /\ replies'[n + 1] = reply
      /\ \A i \in 1..n : replies'[i] = replies[i]
  <2>1. Len(Append(replies, reply)) = n + 1 /\ Append(replies, reply)[n + 1] = reply
    BY Appended, Zenon
  <2>2. \A i \in 1..n : Append(replies, reply)[i] = replies[i]
    <3> DEFINE T == S \cup {reply}
    <3>1. replies \in Seq(T) /\ reply \in T
      BY SeqMonotonic
    <3> HIDE DEF T
    <3> QED BY <3>1, AppendProperties
  <2> QED BY <2>1, <2>2, Zenon
<1>3. Unanswered # <<>> /\ Head(Unanswered) = r /\ Tail(Unanswered) = SubSeq(sent, (n + 1) + 1, m)
  BY <1>1, HeadAndTail, Zenon DEF Unanswered
<1>4. Unanswered' = Tail(Unanswered)
  <2>1. Unanswered' = SubSeq(sent', Len(replies') + 1, Len(sent'))
    BY DEF Unanswered
  <2> QED BY <1>2, <1>3, <2>1, Zenon
<1>5. cells' = [t \in DOMAIN cells |-> Promise!Effect(Head(Unanswered), t)]
  BY <1>3, Zenon DEF TablesAfter
<1>6. Answers' = Append(Answers, Promise!Answer(Head(Unanswered)))
  <2> DEFINE d == Promise!Answer(r)
             c(i) == Decoded(sent[i], replies[i])
  <2>1. Decoded(r, reply) = d
    BY Zenon
  <2>2. Answers = [i \in 1..n |-> c(i)]
    BY Zenon DEF Answers
  <2>3. Answers' = [i \in 1..(n + 1) |-> Decoded(sent'[i], replies'[i])]
    BY <1>2 DEF Answers
  <2> HIDE DEF d
  <2>4. \A i \in 1..n : Decoded(sent'[i], replies'[i]) = c(i)
    BY <1>2, Zenon
  <2>5. Decoded(sent'[n + 1], replies'[n + 1]) = d
    BY <1>2, <2>1, Zenon
  <2> HIDE DEF c, n
  <2>6. \A i \in 1..(n + 1) : i # n + 1 => i \in 1..n
    BY <1>1
  <2>7. Answers' = [i \in 1..(n + 1) |-> IF i = n + 1 THEN d ELSE c(i)]
    BY <2>3, <2>4, <2>5, <2>6, Zenon
  <2>8. Append([i \in 1..n |-> c(i)], d) = [i \in 1..(n + 1) |-> IF i = n + 1 THEN d ELSE c(i)]
    BY <1>1
  <2>9. Answers' = Append(Answers, d)
    BY <2>2, <2>7, <2>8, Zenon
  <2> QED BY <1>3, <2>9, Zenon DEF d, n
<1>7. AllServed' = AllServed
  BY Zenon DEF AllServed
<1>8. AllServed' /\ UNCHANGED AllServed
  BY <1>7, Zenon
<1> QED BY <1>3, <1>4, <1>5, <1>6, <1>8 DEF Promise!Serve, Answers

\* What a step that leaves the tables and the connection's history alone means.
LEMMA QuietStep ==
  ASSUME RInv, AllServed', IInv', CellsTyped', UNCHANGED <<cells, sent, replies, flight>>,
         \/ UNCHANGED <<socket, stream>>
         \/ socket' # "open" /\ stream' \in {stream, <<>>}
  PROVE  RInv' /\ UNCHANGED Promise!vars
<1>1. AllServed
  BY DEF AllServed
<1>2. Pending /\ sent' \in Seq(Requests)
  BY <1>1, Zenon DEF RInv
<1>3. UNCHANGED Promise!vars
  BY PromiseStutters, Zenon
<1>4. flight' = <<>> /\ Len(replies') <= Len(sent') /\ \E S : replies' \in Seq(S)
  BY <1>2, Zenon DEF Pending
<1>5. (socket' # "open" /\ stream' = <<>>) \/ \E f : Queue(f)'
  <2>1. CASE stream' = <<>> /\ socket' # "open"
    BY <2>1
  <2>2. CASE stream' = stream /\ \E f : Queue(f)
    <3>1. PICK f : Queue(f)
      BY <2>2
    <3>2. Queue(f)'
      BY <2>2, <3>1 DEF Queue
    <3> QED BY <3>2
  <2>3. CASE stream' = stream /\ socket # "open" /\ stream = <<>>
    <3>1. socket' # "open"
      BY <2>3
    <3> QED BY <2>3, <3>1
  <2> QED BY <1>2, <2>1, <2>2, <2>3, Zenon DEF Pending
<1>6. Pending'
  BY <1>4, <1>5 DEF Pending
<1> QED BY <1>2, <1>3, <1>6 DEF RInv

LEMMA AcceptRefines ==
  ASSUME IInv', CellsTyped', Accept
  PROVE  RInv' /\ Promise!NewConnection
<1>1. /\ sent' = <<>> /\ replies' = <<>> /\ stream' = <<>> /\ flight' = <<>> /\ cells' = cells
  BY Zenon DEF Accept
<1>2. Len(<<>>) = 0 /\ 0 <= 0 /\ <<>> \in Seq(Nat) /\ <<>> \in Seq(Requests)
  OBVIOUS
<1>3. \E f : Queue(f)'
  <2>0. PICK f : f = [i \in {1} |-> <<>>]
    BY Zenon
  <2>1. f[1] = <<>>
    BY <2>0
  <2>2. f[Len(sent') + 1] = <<>> /\ stream' = f[Len(replies') + 1]
    BY <1>1, <2>1
  <2>3. \A i \in (Len(replies') + 1) .. (Len(sent') + 1) : f[i] \in Seq(Nat)
    <3>1. \A i \in (Len(replies') + 1) .. (Len(sent') + 1) : i = 1
      BY <1>1
    <3> QED BY <1>2, <2>1, <3>1, Zenon
  <2>4. \A i \in (Len(replies') + 1) .. Len(sent') : f[i] = Frame(sent'[i]) \o f[i + 1]
    BY <1>1
  <2>5. Queue(f)'
    BY <2>2, <2>3, <2>4 DEF Queue
  <2> QED BY <2>5
<1>4. Pending'
  BY <1>1, <1>2, <1>3 DEF Pending
<1>5. Unanswered' = <<>>
  BY <1>1 DEF Unanswered
<1>6. AllServed'
  BY <1>1 DEF AllServed
<1>7. Answers' = <<>>
  BY <1>1 DEF Answers
<1>8. AllServed' = TRUE
  BY <1>6 DEF AllServed
<1> QED BY <1>1, <1>2, <1>4, <1>5, <1>6, <1>7, <1>8 DEF RInv, Promise!NewConnection, Answers

LEMMA SendRefines ==
  ASSUME RInv, AllServed', IInv', CellsTyped', NEW r \in Requests, ClientSends(r)
  PROVE  RInv' /\ Promise!Ask(r)
<1>1. /\ sent' = Append(sent, r) /\ replies' = replies /\ cells' = cells
      /\ socket = "open" /\ socket' = "open"
  BY Zenon DEF ClientSends, connection
<1>2. sent \in Seq(Requests) /\ sent' \in Seq(Requests)
  BY <1>1, AppendProperties DEF RInv
<1>3. AllServed /\ r \notin InPieces
  BY <1>1, <1>2, SentMore, Zenon
<1>4. Pending
  BY <1>3 DEF RInv
<1>5. PICK S : replies \in Seq(S)
  BY <1>4 DEF Pending
<1>6. Len(replies) \in Nat /\ Len(replies) <= Len(sent) /\ flight = <<>> /\ Len(sent) \in Nat
  BY <1>2, <1>4, <1>5, LenProperties, Zenon DEF Pending
<1>7. stream' = stream \o Frame(r) /\ flight' = <<>>
  BY <1>3, <1>6, Zenon DEF ClientSends
<1>8. PICK f : Queue(f)
  BY <1>1, <1>4, Zenon DEF Pending
<1>9. \E g : Queue(g)'
  BY <1>1, <1>2, <1>6, <1>7, <1>8, QueueGrows, Zenon
<1>10. Len(replies') <= Len(sent')
  <2>1. Len(sent') = Len(sent) + 1
    BY <1>1, <1>2, AppendProperties
  <2> DEFINE n == Len(replies)
             m == Len(sent)
  <2>2. n \in Nat /\ m \in Nat /\ n <= m
    BY <1>6
  <2> HIDE DEF n, m
  <2>3. n <= m + 1
    BY <2>2
  <2> QED BY <1>1, <2>1, <2>3, Zenon DEF n, m
<1>11. Pending'
  <2>1. \E T : replies' \in Seq(T)
    BY <1>1, <1>5, Zenon
  <2> QED BY <1>7, <1>9, <1>10, <2>1 DEF Pending
<1>12. Promise!Ask(r)
  BY <1>1, <1>2, <1>3, <1>6, AskIsAsk, Zenon
<1> QED BY <1>2, <1>11, <1>12 DEF RInv

LEMMA RequestRefines ==
  ASSUME RInv, AllServed', IInv', CellsTyped', Request
  PROVE  RInv' /\ Promise!Serve
<1>0. UNCHANGED <<flight, sent>>
  BY DEF Request, Ignore, UnsupportedFunction, Truncated, ReadCoils, ReadDiscreteInputs,
     ReadHoldingRegisters, ReadInputRegisters, WriteSingleCoil, WriteSingleRegister,
     WriteMultipleCoils, WriteMultipleRegisters, Read, WriteSingle, WriteMultiple, Unchanged
<1>1. AllServed
  BY <1>0 DEF AllServed
<1>2. Pending /\ sent \in Seq(Requests) /\ CellsTyped
  BY <1>1 DEF RInv
<1>3. Len(stream) >= 8
  BY Zenon DEF Request, Ignore, UnsupportedFunction, Truncated, ReadCoils, ReadDiscreteInputs,
     ReadHoldingRegisters, ReadInputRegisters, WriteSingleCoil, WriteSingleRegister,
     WriteMultipleCoils, WriteMultipleRegisters, Handles, HeaderArrived
<1>4. stream # <<>>
  BY <1>3
<1>5. PICK f : Queue(f)
  BY <1>2, <1>4, Zenon DEF Pending
<1>6. PICK S : replies \in Seq(S)
  BY <1>2 DEF Pending
<1> DEFINE n == Len(replies)
           m == Len(sent)
<1>7. n \in Nat /\ m \in Nat /\ n <= m /\ flight = <<>>
  BY <1>2, <1>6, LenProperties, Zenon DEF Pending
<1>8. /\ f[m + 1] = <<>> /\ stream = f[n + 1]
      /\ \A i \in (n + 1) .. (m + 1) : f[i] \in Seq(Nat)
      /\ \A i \in (n + 1) .. m : f[i] = Frame(sent[i]) \o f[i + 1]
  BY <1>5, Zenon DEF Queue
<1> HIDE DEF n, m
<1>9. n < m
  <2>1. n # m
    BY <1>4, <1>8, Zenon
  <2> QED BY <1>7, <2>1
<1>10. /\ n + 1 \in (n + 1) .. m /\ (n + 1) + 1 \in (n + 1) .. (m + 1) /\ n + 1 \in 1..m
       /\ (n + 1) + 1 = n + 2 /\ n + 1 <= m
  BY <1>7, <1>9
<1> DEFINE r == sent[n + 1]
           g == f[n + 2]
<1>11. r \in Requests
  <2>1. n + 1 \in 1..Len(sent)
    BY <1>10, Zenon DEF m
  <2> QED BY <1>2, <2>1, ElementOfSeq, Zenon
<1>12. stream = Frame(r) \o g /\ g \in Seq(Nat)
  BY <1>8, <1>10, Zenon
<1>13. Served(r)
  <2>1. n + 1 \in DOMAIN sent
    BY <1>2, <1>10, LenProperties, Zenon DEF m
  <2> QED BY <1>1, <2>1, Zenon DEF AllServed
<1>14. Asked(r)
  BY <1>11, RequestsAreAsked, Zenon
<1> HIDE DEF g
<1>15. Sees(r, g)
  BY <1>12, <1>13, <1>14, RequestSeen, Zenon
<1>16. Carried(r, g)
  BY <1>2, <1>14, <1>15, RequestCarried, Zenon
<1>17. PICK reply : replies' = Append(replies, reply) /\ Decoded(r, reply) = Promise!Answer(r)
  BY <1>16, Zenon DEF Carried
<1>18. /\ stream' = g /\ cells' = TablesAfter(r) /\ sent' = sent /\ flight' = flight
       /\ socket' = socket
  BY <1>16, Zenon DEF Carried, connection
<1>19. Promise!Serve
  <2>1. DOMAIN cells = Tables
    BY <1>2, Zenon DEF CellsTyped
  <2> QED BY <1>1, <1>2, <1>6, <1>9, <1>17, <1>18, <2>1, ServeIsServe, Zenon DEF n, m
<1>20. Len(replies') = n + 1 /\ \E T : replies' \in Seq(T)
  BY <1>6, <1>17, Appended, Zenon DEF n
<1>21. Queue(f)'
  BY <1>5, <1>7, <1>9, <1>18, <1>20, QueueShrinks, Zenon DEF n, m, g
<1>22. Pending'
  <2>1. Len(replies') <= Len(sent') /\ flight' = <<>>
    BY <1>7, <1>10, <1>18, <1>20, Zenon DEF m
  <2> QED BY <1>20, <1>21, <2>1 DEF Pending
<1>23. sent' \in Seq(Requests)
  BY <1>2, <1>18, Zenon
<1> QED BY <1>19, <1>22, <1>23 DEF RInv

LEMMA AppRefines ==
  ASSUME RInv, AllServed', IInv', CellsTyped', NEW w \in AppWrites, AppSets(w)
  PROVE  RInv' /\ Promise!Next
<1>1. UNCHANGED <<stream, flight, sent, replies, socket>>
  BY DEF AppSets, connection
<1>2. AllServed
  BY <1>1 DEF AllServed
<1>3. Pending /\ sent' \in Seq(Requests) /\ CellsTyped
  BY <1>1, <1>2, Zenon DEF RInv
<1>4. Pending'
  <2>1. CASE socket # "open" /\ stream = <<>>
    <3>1. socket' # "open" /\ stream' = <<>>
      BY <1>1, <2>1
    <3> QED BY <1>1, <1>3, <3>1 DEF Pending
  <2>2. CASE \E f : Queue(f)
    <3>1. PICK f : Queue(f)
      BY <2>2
    <3>2. Queue(f)'
      BY <1>1, <3>1 DEF Queue
    <3> QED BY <1>1, <1>3, <3>2 DEF Pending
  <2> QED BY <1>3, <2>1, <2>2 DEF Pending
<1> DEFINE t == w.table
           a == w.address
           v == w.value
<1>5. /\ t \in Tables /\ a \in 0..(Size[t] - 1)
      /\ cells' = [cells EXCEPT ![t][a] = v]
  BY <1>3, AppSetsWrites, Zenon
<1>6. DOMAIN Size = Tables
  BY ConstantsAssumption DEF ConstantsAssumption
<1>7. a \in DOMAIN cells[t]
  <2>1. TablesKeepTheirSize
    BY DEF RInv, IInv, Agreed
  <2> QED BY <1>5, <2>1, Zenon DEF TablesKeepTheirSize
<1>8. v \in {u.value : u \in AppWrites}
  BY Zenon
<1>9. Unanswered' = Unanswered /\ Answers' = Answers /\ AllServed' = AllServed
  BY <1>1, Zenon DEF Unanswered, Answers, AllServed
<1> HIDE DEF t, a, v
<1>10. Promise!Set(t, a, v)
  BY <1>5, <1>9, Zenon DEF Promise!Set, Answers
<1>11. Promise!Next
  BY <1>5, <1>6, <1>7, <1>8, <1>10, Zenon DEF Promise!Next
<1> QED BY <1>3, <1>4, <1>11 DEF RInv

LEMMA StepRefines ==
  ASSUME RInv, [Next]_vars
  PROVE  RInv' /\ [Promise!Next]_(Promise!vars)
<1>1. IInv' /\ CellsTyped'
  BY StepIInv, StepKeepsTypes DEF RInv, IInv
<1>2. sent' \in Seq(Requests)
  <2>1. CASE \E r \in Requests : ClientSends(r)
    BY <2>1, AppendProperties DEF RInv, ClientSends
  <2>2. CASE Accept
    BY <2>2 DEF Accept
  <2>3. CASE UNCHANGED sent
    BY <2>3 DEF RInv
  <2>4. \/ \E r \in Requests : ClientSends(r)
        \/ Accept \/ UNCHANGED sent
    BY DEF Next, vars, ClientConnects, ClientCloses, Arrive, RestArrives, TurnAway, Hangup,
       Request, Ignore, UnsupportedFunction, Truncated, ReadCoils, ReadDiscreteInputs,
       ReadHoldingRegisters, ReadInputRegisters, WriteSingleCoil, WriteSingleRegister,
       WriteMultipleCoils, WriteMultipleRegisters, Read, WriteSingle, WriteMultiple,
       Unchanged, AppSets
  <2> QED BY <2>1, <2>2, <2>3, <2>4
<1>3. CASE ~AllServed'
  BY <1>1, <1>2, <1>3, NothingIsPromised DEF RInv, Promise!Next
<1>4. CASE AllServed'
  <2>1. CASE \/ ClientConnects \/ ClientCloses \/ TurnAway \/ Hangup \/ UNCHANGED vars
    <3>1. UNCHANGED <<cells, sent, replies>>
      BY <2>1 DEF ClientConnects, ClientCloses, TurnAway, Hangup, vars
    <3>2. AllServed
      BY <1>4, <3>1 DEF AllServed
    <3>3. flight = <<>>
      BY <3>2 DEF RInv, Pending
    <3>4. /\ UNCHANGED flight
          /\ UNCHANGED <<socket, stream>> \/ (socket' # "open" /\ stream' \in {stream, <<>>})
      BY <2>1, <3>3 DEF ClientConnects, ClientCloses, TurnAway, Hangup, vars, connection
    <3> QED BY <1>1, <1>4, <3>1, <3>4, QuietStep
  <2>2. CASE Accept
    BY <1>1, <2>2, AcceptRefines DEF Promise!Next
  <2>3. ASSUME NEW r \in Requests, ClientSends(r) PROVE RInv' /\ [Promise!Next]_(Promise!vars)
    BY <1>1, <1>4, <2>3, SendRefines DEF Promise!Next
  <2>4. CASE Request
    BY <1>1, <1>4, <2>4, RequestRefines DEF Promise!Next
  <2>5. ASSUME NEW w \in AppWrites, AppSets(w) PROVE RInv' /\ [Promise!Next]_(Promise!vars)
    BY <1>1, <1>4, <2>5, AppRefines
  <2>6. CASE (\E n \in Pieces : Arrive(n)) \/ RestArrives
    <3>1. AllServed
      BY <1>4, <2>6 DEF AllServed, Arrive, RestArrives
    <3>2. flight = <<>>
      BY <3>1 DEF RInv, Pending
    <3>3. \A n \in Pieces : n \in Nat /\ n # 0
      BY ConstantsAssumption DEF ConstantsAssumption
    <3>4. ~RestArrives
      BY <3>2 DEF RestArrives
    <3>5. ASSUME NEW n \in Pieces, Arrive(n) PROVE FALSE
      <4>1. n <= 0
        BY <3>2, <3>5 DEF Arrive
      <4> QED BY <3>3, <4>1
    <3> QED BY <2>6, <3>4, <3>5
  <2> QED BY <2>1, <2>2, <2>3, <2>4, <2>5, <2>6 DEF Next
<1> QED BY <1>3, <1>4

LEMMA InitRefines == Init => RInv /\ Promise!Init
<1> SUFFICES ASSUME Init PROVE RInv /\ Promise!Init
  OBVIOUS
<1>1. IInv /\ CellsTyped
  BY InitIInv, InitTypes
<1>2. /\ sent = <<>> /\ replies = <<>> /\ stream = <<>> /\ flight = <<>> /\ socket = "none"
      /\ cells = [t \in Tables |-> [a \in 0..(Size[t] - 1) |-> 0]]
  BY DEF Init, Blank
<1>3. Pending
  <2>1. replies \in Seq(Nat) /\ Len(replies) <= Len(sent)
    BY <1>2
  <2> QED BY <1>2, <2>1 DEF Pending
<1>4. AllServed = TRUE
  BY <1>2 DEF AllServed
<1>5. Unanswered = <<>> /\ Answers = <<>> /\ sent \in Seq(Requests)
  BY <1>2 DEF Unanswered, Answers
<1>6. DOMAIN Size = Tables
  BY ConstantsAssumption DEF ConstantsAssumption
<1>7. Promise!Init
  BY <1>2, <1>4, <1>5, <1>6 DEF Promise!Init, Answers
<1> QED BY <1>1, <1>3, <1>5, <1>7 DEF RInv

\* The server implements the register file: every frame that a client pipelines is taken
\* from the stream whole and in its order, the cells are written as it says, and what is
\* written back decodes to the promised answer, for all sizes, limits and requests, in
\* both builds (the eight handlers, modbus_tcp_server.cpp 308-738).
THEOREM ImplementsPromiseHolds == Spec => ImplementsPromise
<1>1. Init => RInv /\ Promise!Init
  BY InitRefines
<1>2. RInv /\ [Next]_vars => RInv' /\ [Promise!Next]_(Promise!vars)
  BY StepRefines
<1> QED
  BY <1>1, <1>2, PTL DEF Spec, ImplementsPromise, Promise!Spec

=============================================================================
