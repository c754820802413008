----------------------------- MODULE BoundedFifo -----------------------------
(***************************************************************************)
(* What a pipe promises: bytes leave it in the order they entered, none    *)
(* twice, none skipped, and no more than its size are inside.              *)
(***************************************************************************)
EXTENDS Integers, Sequences

CONSTANTS Readers, Bytes, Size

VARIABLES queue,   \* the bytes inside
          got      \* the last byte each reader took, or -1

vars == <<queue, got>>

Init == queue = <<>> /\ got = [r \in Readers |-> -1]

Put(b) ==
  /\ Len(queue) < Size
  /\ queue' = Append(queue, b)
  /\ UNCHANGED got

Get(r) ==
  /\ queue # <<>>
  /\ queue' = Tail(queue)
  /\ got' = [got EXCEPT ![r] = Head(queue)]

Next == (\E b \in Bytes : Put(b)) \/ (\E r \in Readers : Get(r))

Spec == Init /\ [][Next]_vars
==============================================================================
