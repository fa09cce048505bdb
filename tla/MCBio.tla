------------------------------- MODULE MCBio ------------------------------
(* An instance of Bio for TLC. *)
EXTENDS Bio, TLC

CONSTANTS p1, p2

\* One process works on two buffers at a time, the other on one.
OneAndTwo == (p1 :> 1) @@ (p2 :> 2)

Symmetry == Permutations(Bufs) \cup Permutations(Blocks)
===========================================================================
