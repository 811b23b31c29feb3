-------------------------- MODULE MCModbusManager --------------------------
(* A small instance of ModbusManager.  Three counter values tell a stale    *)
(* answer, the written value and a fresh answer apart; two outputs allow a  *)
(* safe mode that reaches only one of them.                                 *)
EXTENDS ModbusManager
=============================================================================
