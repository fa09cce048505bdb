------------------------------ MODULE MCProc ------------------------------
(* An instance of Proc for TLC: three slots, so that the last two pids come *)
(* in slots that were used before.                                          *)
EXTENDS Proc
===========================================================================
