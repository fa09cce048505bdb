----------------------------- MODULE MCBlocks -----------------------------
(* An instance of Blocks for TLC: an image with one file, of five words. *)
EXTENDS Blocks

CONSTANTS p1, p2

Symmetry == Permutations(Procs)

OneFile == <<[name |-> "f", size |-> 5]>>
===========================================================================
