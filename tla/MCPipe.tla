------------------------------- MODULE MCPipe --------------------------------
(* Instances of the pipe for TLC. *)
EXTENDS Pipe, TLC

Symmetry == Permutations(Writers) \cup Permutations(Readers)

(* No step depends on a slot outside the queue or on a byte read before. *)
WhatCounts == <<lock, Queue, nread, nwrite, readopen, writeopen, freed, rref, wref, killed, pc, left>>
==============================================================================
