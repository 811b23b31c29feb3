--------------------------- MODULE MCCalculations ---------------------------
(* Small tables, recordings, frames and cards for Calculations: words of     *)
(* four bits, ranges of up to four registers, offsets that wrap at eight.    *)
EXTENDS Calculations, Bitwise

MCAnd(a, b) == a & b

MCTables ==
  [coils |-> [a \in 0..4 |-> (a + 1) % 2],
   discrete |-> [a \in 0..4 |-> IF a \in {1, 2} THEN 1 ELSE 0],
   holding |-> [a \in 0..5 |-> (9 + 5 * a) % 16],
   input |-> [a \in 0..5 |-> (14 + 7 * a) % 16]]

Word  == ValueType(1, FALSE, FALSE)
SWord == ValueType(1, TRUE, FALSE)
DWord == ValueType(2, TRUE, FALSE)
DWordR == ValueType(2, FALSE, TRUE)

Entity(kind, type, address, offset, value, mask, force) ==
  [kind |-> kind, type |-> type, address |-> address, offset |-> offset, count |-> value.words,
   value |-> value, mask |-> mask, bytes |-> 0, skip |-> 0, force |-> force]

MCEntities ==
  {Entity("sensor", "holding", a, 0, Word, AllBits, f) : a \in 0..2, f \in BOOLEAN}
  \cup {Entity("sensor", "holding", a, 0, v, AllBits, FALSE) : a \in 0..1, v \in {DWord, DWordR}}
  \cup {Entity("sensor", "holding", 1, 0, SWord, m, FALSE) : m \in {AllBits, 15, 12, 6}}
  \cup {[Entity("sensor", "holding", a, 2, SWord, AllBits, FALSE) EXCEPT !.count = 2] : a \in 0..1}
  \cup {Entity("binary", "holding", 1, 0, Word, 4, FALSE), Entity("binary", "coil", 1, 0, Word, AllBits, FALSE),
        Entity("binary", "discrete", 0, 2, Word, AllBits, FALSE), Entity("sensor", "read", 1, 0, Word, AllBits, FALSE)}
  \cup {Entity("switch", "coil", a, o, Word, AllBits, FALSE) : a \in {0, 2}, o \in 0..1}
  \cup {Entity("switch", "holding", a, o, Word, 13, FALSE) : a \in {0, 2}, o \in 0..1}

MCConfigurations ==
  {c \in UNION {[1..n -> MCEntities] : n \in 1..3} : Supported(c)}
  \cup {<<Entity("sensor", "holding", 2, 0, ValueType(4, FALSE, r), AllBits, FALSE),
          Entity("sensor", "holding", 0, 0, DWord, AllBits, FALSE)>> : r \in BOOLEAN}
  \cup {<<Entity("sensor", "holding", 0, 0, ValueType(4, FALSE, FALSE), AllBits, FALSE),
          Entity("switch", "holding", a, 0, Word, 13, FALSE)>> : a \in 3..4}

Ask(kind, table, start, quantity, values) ==
  [kind |-> kind, table |-> table, start |-> start, quantity |-> quantity, values |-> values,
   unit |-> UnitId]

MCAsks ==
  {Ask("read", t, s, q, <<>>) : t \in TableNames, s \in 0..3, q \in 1..MaxValues}
  \cup {Ask("single", "coils", s, 1, <<v>>) : s \in 0..5, v \in 0..1}
  \cup {Ask("single", "holding", s, 1, <<v>>) : s \in 0..6, v \in {3, 12}}
  \cup {Ask("multiple", "coils", s, 3, v) : s \in 0..3, v \in [1..3 -> 0..1]}
  \cup {Ask("multiple", "holding", s, 2, v) : s \in 0..5, v \in [1..2 -> {0, 5, 11}]}
  \cup {Ask("other", "holding", 0, 1, <<0>>)}
  \cup {[Ask("read", "holding", 0, 1, <<>>) EXCEPT !.unit = UnitId + 1]}

Register(address, value, writable, refused) ==
  [address |-> address, value |-> value, writable |-> writable, refused |-> refused, number |-> 1]
MCRegisterLists ==
  {<<Register(0, v, TRUE, {}), Register(v.words, u, r # {9}, r), Register(v.words + u.words, Word, TRUE, {9})>> :
     v \in ValueTypes, u \in ValueTypes, r \in {{}, {9}, 0..15}}
MCServedWrites ==
  {[function |-> f, start |-> s, quantity |-> q, bytes |-> BytesOfWords([k \in 1..q |-> (n * k) % WordSize])] :
     f \in {"multiple"}, s \in 0..1, q \in 1..6, n \in {3, 13}}
  \cup {[function |-> "single", start |-> s, quantity |-> 1, bytes |-> <<3, 1>>] : s \in 0..4}
  \cup {[function |-> f, start |-> 0, quantity |-> q, bytes |-> <<2, 1>>] :
          f \in {"multiple", "other"}, q \in {0, 2, 9}}

\* Six subcarriers, three of them usable beside the middle one, in six packets.
MCSpread(values, cv) ==
  LET v == ScaledVariance(values)
  IN  IF ~cv THEN v ELSE IF Total(values) = 0 THEN 0 ELSE (4 * v) \div Total(values)
MCDeviation(values) == ScaledVariance(values)
MCEntropy(values) == Cardinality({values[k] : k \in DOMAIN values}) - 1
MCScore(d, mean) == (100 * d * (3 + mean)) \div (mean * mean)

Profiles ==
  {<<4, 4, 4, 4, 4, 4>>, <<5, 4, 5, 4, 5, 4>>, <<3, 3, 9, 3, 3, 3>>, <<6, 6, 6, 7, 2, 7>>, <<0, 0, 0, 0, 0, 0>>}
Quiet == {<<4, 4, 4, 4, 4, 4>>, <<3, 3, 9, 3, 3, 3>>, <<6, 6, 6, 7, 2, 7>>}
Recording(a, b, c, d, readable, hint, tie, setting) ==
  [packets |-> [n \in 1..6 |-> [sc \in 0..5 |-> (<<a, b, c, a, d, c>>)[sc + 1][n]]],
   readable |-> readable, hint |-> hint, tie |-> tie, setting |-> setting]
MCRecordings ==
  {Recording(a, b, c, d, 6, hint, tie, s) :
     a \in Quiet, b \in Profiles, c \in Profiles, d \in Quiet, hint \in {<<1, 2>>, <<4>>},
     tie \in {"up"}, s \in {[cv |-> FALSE, hampel |-> 3], [cv |-> TRUE, hampel |-> 0]}}
  \cup {Recording(p, p, q, q, r, hint, "down", [cv |-> FALSE, hampel |-> 0]) :
     p \in Profiles, q \in Profiles, r \in 4..6, hint \in {<<1, 2>>, <<2, 4>>, <<>>}}

MCFrames ==
  [mac : {"peer", "broadcast", "ap", "sibling", "fifth", "stranger"},
   layout : {"full", "short", "double", "shortDouble", "stub", "other"}, wide : {FALSE}]
  \cup [mac : {"peer"}, layout : {"full", "short", "wide"}, wide : {TRUE}]
Peers == [set |-> TRUE, peer |-> "peer", broadcast |-> TRUE, accessPoint |-> TRUE, bssid |-> "ap", extra |-> <<>>]
MCPeerFilters ==
  {[Peers EXCEPT !.set = FALSE], AddExtraPeer(AddExtraPeer(Peers, "sibling"), "fifth")}

Root == [prefix |-> <<"file">>, root |-> <<"/">>, deletion |-> TRUE, download |-> TRUE, upload |-> TRUE]
MCServers ==
  {[Root EXCEPT !.prefix = p, !.root = r] :
     p \in {<<"file">>, <<"sd", "/", "file">>}, r \in {<<"/">>, <<>>, <<"/", "data">>, <<"/", "data", "/">>}}
  \cup {[Root EXCEPT !.deletion = FALSE, !.upload = FALSE], [Root EXCEPT !.download = FALSE]}
MCChunks == <<"a", "b">>
MCCards ==
  {(<<>> :> Folder) @@ (<<"data">> :> Folder) @@ (<<"data", "log">> :> File(<<"l">>)) @@
   (<<"data", "data">> :> Folder) @@ (<<"data", "data", "log">> :> File(<<"m", "n">>))}
=============================================================================
