------------------------------- MODULE MCTraps --------------------------------
(* Traps, interrupts and spinlocks for TLC. *)
EXTENDS Traps, TLC

Symmetry == Permutations(CPUs) \cup Permutations(Threads)
==============================================================================
