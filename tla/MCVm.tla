------------------------------- MODULE MCVm -------------------------------
(* An instance of Vm for TLC: a program with two segments; CPUs are alike. *)
EXTENDS Vm, TLC

Program == <<1, 3>>
Symmetry == Permutations(Cpus)
Live == <<free, pt, procs, reg, cpu, panic,
          [c \in Cpus |-> IF cpu[c] = None THEN 0 ELSE <<ttbr[c], tlb[c], stale[c]>>]>>
===========================================================================
