------------------------------ MODULE MCBcache -------------------------------
(* Instances of the buffer cache for TLC. *)
EXTENDS Bcache, TLC

Symmetry == Permutations(Procs) \cup Permutations(Blocks)
==============================================================================
