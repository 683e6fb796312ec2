------------------------------ MODULE MCModbus ------------------------------
(* Model values for Modbus masters on one device.                          *)
EXTENDS Modbus

CONSTANTS m1, m2, ra, rb
=============================================================================
