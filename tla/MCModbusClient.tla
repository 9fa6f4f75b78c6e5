--------------------------- MODULE MCModbusClient ---------------------------
(* Model-checking instances of ModbusClient; the values are in the cfgs.  *)
EXTENDS ModbusClient
=============================================================================
