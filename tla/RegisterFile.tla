---------------------------- MODULE RegisterFile ----------------------------
(***************************************************************************)
(* What a Modbus server promises its client: four tables of cells, and     *)
(* requests that are carried out one at a time, whole, in the order they   *)
(* were sent, each with one answer.  Nothing is promised to a client that  *)
(* has sent what the server does not serve.                                *)
(***************************************************************************)
EXTENDS Naturals, Sequences

CONSTANTS
  Size,     \* Size[t]: the number of cells of table t
  Limit,    \* Limit[t]: how many cells of table t one request may read
  Requests, \* what a client may ask
  Word      \* the values of a cell

VARIABLES
  table,    \* table[t][a]: the cell at address a of table t
  asked,    \* the requests not yet carried out
  answers,  \* what has been answered on this connection
  served    \* all the client has sent is what this server serves

vars == <<table, asked, answers, served>>

Init ==
  /\ table = [t \in DOMAIN Size |-> [a \in 0..(Size[t] - 1) |-> 0]]
  /\ asked = <<>> /\ answers = <<>> /\ served = TRUE

Cells(r) == r.start .. (r.start + r.quantity - 1)
InTable(r) == r.start + r.quantity <= Size[r.table]
Readable(r) == r.quantity \in 1..Limit[r.table]

\* An answer names its request and gives an exception or the values read.
Error(r) ==
  IF r.kind = "read" /\ ~Readable(r) THEN 3 ELSE IF InTable(r) THEN 0 ELSE 2

Answer(r) ==
  [id |-> r.id, error |-> Error(r),
   values |-> IF r.kind = "read" /\ Error(r) = 0
                THEN [i \in 1..r.quantity |-> table[r.table][r.start + i - 1]]
                ELSE <<>>]

\* The cells of table t after request r.
Effect(r, t) ==
  [a \in DOMAIN table[t] |->
     IF r.kind = "write" /\ t = r.table /\ InTable(r) /\ a \in Cells(r)
       THEN r.values[a - r.start + 1] ELSE table[t][a]]

Ask(r) ==
  /\ asked' = Append(asked, r)
  /\ UNCHANGED <<table, answers, served>>

Serve ==
  /\ asked # <<>> /\ asked' = Tail(asked)
  /\ answers' = Append(answers, Answer(Head(asked)))
  /\ table' = [t \in DOMAIN table |-> Effect(Head(asked), t)]
  /\ UNCHANGED served

\* The application on the device writes a cell.
Set(t, a, v) ==
  /\ table' = [table EXCEPT ![t][a] = v]
  /\ UNCHANGED <<asked, answers, served>>

NewConnection ==
  /\ asked' = <<>> /\ answers' = <<>> /\ served' = TRUE
  /\ UNCHANGED table

NothingPromised == served' = FALSE

Next ==
  \/ \E r \in Requests : Ask(r)
  \/ Serve \/ NewConnection \/ NothingPromised
  \/ \E t \in DOMAIN Size : \E a \in DOMAIN table[t], v \in Word : Set(t, a, v)

Spec == Init /\ [][Next]_vars
=============================================================================
