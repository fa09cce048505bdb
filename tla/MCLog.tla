------------------------------ MODULE MCLog -------------------------------
(* Small instances of Log for TLC. *)
EXTENDS Log, TLC

Interchangeable == Permutations(Procs \ {InitProc}) \cup Permutations(Blocks)
===========================================================================
