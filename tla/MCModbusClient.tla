--------------------------- MODULE MCModbusClient ---------------------------
(***************************************************************************)
(* Small instances of ModbusClient: two ranges read the registers "r1" and *)
(* "r2" (the second on every other update), a switch writes "w1".          *)
(***************************************************************************)
EXTENDS ModbusClient

MCRead == {"r1", "r2"}
MCWrite == {"w1"}
MCPayloads == {"p1", "p2"}

Poll(k) == [key |-> k, payload |-> "empty"]
MCRangeCommand == <<Poll("r1"), Poll("r2")>>
MCSkipUpdates == <<0, 1>>
MCOneRange == <<Poll("r1")>>
MCNoSkip == <<0>>

Writes == [key : MCWrite, payload : MCPayloads]

CustomOverlap == Writes \cup {[key |-> "x1", payload |-> "p2"]}
=============================================================================
