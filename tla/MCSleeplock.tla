----------------------------- MODULE MCSleeplock -----------------------------
(* Instances of the sleep-lock for TLC. *)
EXTENDS Sleeplock, TLC

Symmetry == Permutations(Procs)
==============================================================================
