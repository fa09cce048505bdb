------------------------------ MODULE MCUart ------------------------------
(* An instance of Uart for TLC. *)
EXTENDS Uart
===========================================================================
