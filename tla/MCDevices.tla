------------------------------ MODULE MCDevices -------------------------------
(* The devices for TLC: two processes that read, write and sleep. *)
EXTENDS Devices, TLC

CONSTANTS p1, p2

Call(c, n) == [call |-> c, n |-> n]
MCCalls == (p1 :> {Call("read", 2), Call("write", 3), Call("sleep", 1)}) @@
           (p2 :> {Call("read", 1), Call("write", 2), Call("sleep", 2)})

(* Lines are typed and read; characters are written while a key is echoed, by *)
(* one process or by two; three calls of two processes fill the buffer; two   *)
(* processes sleep.                                                           *)
Bound(keys, reads, writes, sleeps) ==
  [key |-> keys, read |-> reads, write |-> writes, sleep |-> sleeps]
MCBounds == { Bound(5, 2, 0, 0), Bound(1, 1, 1, 0), Bound(1, 0, 2, 0), Bound(0, 0, 3, 0),
              Bound(0, 0, 0, 3) }
==============================================================================
