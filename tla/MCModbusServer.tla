-------------------------- MODULE MCModbusServer --------------------------
(* A small instance of ModbusServer: tables that a request can overrun, a   *)
(* coil read that crosses a byte, requests for every handler and for each   *)
(* of its exceptions.                                                       *)
EXTENDS ModbusServer

MCSize == [t \in Tables |-> IF t = "coils" THEN 10 ELSE IF t = "discrete" THEN 2 ELSE 3]

Asks(kind, table, start, quantity, single, values) ==
  [id |-> 256 + start, protocol |-> 0, unit |-> 1, kind |-> kind, table |-> table,
   start |-> start, quantity |-> quantity, single |-> single, values |-> values]

ReadsAt(table, start, quantity) == Asks("read", table, start, quantity, FALSE, <<>>)
Writes(table, start, values) == Asks("write", table, start, Len(values), FALSE, values)
WritesOne(table, start, value) == Asks("write", table, start, 1, TRUE, <<value>>)

Pattern == <<1, 0, 0, 0, 0, 0, 0, 0, 1>>

\* One request that arrives in pieces.
MCInPieces == {[ReadsAt("holding", 1, 2) EXCEPT !.id = 0]}

MCRequests ==
  {ReadsAt("holding", 1, 2), ReadsAt("holding", 2, 2), ReadsAt("holding", 0, 0),
   ReadsAt("input", 2, 1), ReadsAt("discrete", 1, 1), ReadsAt("coils", 0, 10),
   WritesOne("holding", 2, 515), WritesOne("holding", 3, 515),
   Writes("holding", 1, <<258, 515>>), Writes("holding", 2, <<258, 515>>),
   WritesOne("coils", 9, 1), Writes("coils", 1, Pattern)}
  \cup MCInPieces
  \cup {[ReadsAt("holding", 0, 1) EXCEPT !.unit = 2],
        [ReadsAt("holding", 0, 1) EXCEPT !.kind = "other"]}

\* The values coincide, to keep the tables' contents few: input registers and discrete
\* inputs stay 0 where the tables a wrong read would take hold something else.
MCAppWrites == {[table |-> "holding", address |-> 2, value |-> 515]}

===========================================================================
