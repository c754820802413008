------------------------------ MODULE MCVirtio -------------------------------
(* Instances of the disk driver for TLC. *)
EXTENDS Virtio, TLC

Symmetry == Permutations(Procs)
==============================================================================
