---------------------------- MODULE MCSerialPort ----------------------------
(***************************************************************************)
(* SerialPort for TLC: two ports, the rates 9600 and 1200, a FIFO of two.  *)
(***************************************************************************)
EXTENDS SerialPort
=============================================================================
