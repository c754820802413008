------------------------------- MODULE Virtio --------------------------------
(***************************************************************************)
(* The disk driver of kernel/virtio_disk.c with the device on the other    *)
(* side of its rings.  Each process has a locked buffer for a block of its *)
(* own, and asks the driver again and again to read or to write it.        *)
(*                                                                         *)
(* A step is a critical section of disk.vdisk_lock, one pass of the        *)
(* interrupt handler's loop, which holds that lock throughout, or a step   *)
(* of the device, which holds none.  The device serves the requests it has *)
(* taken from the available ring in any order.  sleep() and wakeup() are   *)
(* single steps (module Sleeplock).                                        *)
(*                                                                         *)
(* A ring entry that has been consumed, and the type of a request that is  *)
(* finished, are forgotten: whoever used them again would find None.       *)
(*                                                                         *)
(* An operator named *_bug is a plausible mistake in the one it precedes;  *)
(* no action uses it.                                                      *)
(***************************************************************************)
EXTENDS Integers, FiniteSets, FiniteSetsExt

CONSTANTS Procs, Vals, None,
          NUM,       \* descriptors, and entries of each ring
          IDX        \* 2^16: the rings' counters wrap here

Desc == 0..(NUM - 1)

ASSUME RingAssumption ==
  /\ NUM \in Nat \ {0} /\ IDX \in Nat \ {0} /\ IDX % NUM = 0 /\ IDX > NUM
  /\ None \notin Procs \cup Desc

VARIABLES
  free,                 \* the descriptors with disk.free[i] = 1
  addr, link,           \* desc[i]: the buffer of a data descriptor; the next one, or None
  type,                 \* disk.ops[i].type
  status,               \* disk.info[i].status
  info,                 \* disk.info[i].b
  avail, avail_idx,     \* disk.avail->ring, disk.avail->idx
  used, usedidx,        \* disk.used->ring, disk.used->idx
  used_idx,             \* disk.used_idx: how far the driver has looked
  seen, taken,          \* device: how far it has looked; heads it is working on
  irq,                  \* device: VIRTIO_MMIO_INTERRUPT_STATUS
  intr,                 \* the handler holds vdisk_lock
  bdisk,                \* b->disk of each process's buffer
  data, block,          \* contents of each buffer; of its block on the disk
  pc, idx0,             \* where each process is; its local idx[0]
  panicked

rings == <<avail, avail_idx, used, usedidx, used_idx>>
device == <<seen, taken, irq, block>>
req == <<addr, link, type, status, info>>
vars == <<free, req, rings, device, intr, bdisk, data, pc, idx0, panicked>>

(* virtio_disk_init() *)
Init ==
  /\ free = Desc
  /\ addr = [d \in Desc |-> None]
  /\ link = [d \in Desc |-> None]
  /\ type = [d \in Desc |-> None]
  /\ status = [d \in Desc |-> 0]
  /\ info = [d \in Desc |-> None]
  /\ avail = [k \in Desc |-> None] /\ avail_idx = 0
  /\ used = [k \in Desc |-> None] /\ usedidx = 0
  /\ used_idx = 0
  /\ seen = 0 /\ taken = {} /\ irq = 0
  /\ intr = 0
  /\ bdisk = [p \in Procs |-> 0]
  /\ data \in [Procs -> {CHOOSE v \in Vals : TRUE}] /\ block = data
  /\ pc = [p \in Procs |-> "out"]
  /\ idx0 = [p \in Procs |-> None]
  /\ panicked = 0

------------------------------------------------------------------------------
(* alloc_desc(), three times: the lowest free descriptors. *)
idx == LET i0 == Min(free)
           i1 == Min(free \ {i0})
       IN  <<i0, i1, Min(free \ {i0, i1})>>

(* wakeup(&disk.free[0]) *)
wakeup_free(f) == [p \in Procs |-> IF f[p] = "nodesc" THEN "alloc" ELSE f[p]]

(* The descriptors that free_chain(i) visits, then None. *)
Chain(i) ==
  LET follow == [d \in Desc \cup {None} |-> IF d = None THEN None ELSE link[d]]
      visit[k \in 1..NUM] == IF k = 1 THEN i ELSE follow[visit[k - 1]]
  IN  visit

plus1(k) == (k + 1) % IDX

(* desc[idx[2]].flags has no VRING_DESC_F_NEXT *)
last_link == None

------------------------------------------------------------------------------
(* virtio_disk_rw(), up to the sleep on the buffer: the descriptors are     *)
(* filled in, the head is put on the ring, then the ring's index published. *)
submit(p, t, v) ==
  /\ pc[p] \in {"out", "alloc"}
  /\ intr = 0
  /\ Cardinality(free) >= 3
  /\ free' = free \ {idx[1], idx[2], idx[3]}
  /\ type' = [type EXCEPT ![idx[1]] = t]
  /\ addr' = [addr EXCEPT ![idx[2]] = p]
  /\ link' = [link EXCEPT ![idx[1]] = idx[2], ![idx[2]] = idx[3], ![idx[3]] = last_link]
  /\ status' = [status EXCEPT ![idx[1]] = 255]
  /\ info' = [info EXCEPT ![idx[1]] = p]
  /\ bdisk' = [bdisk EXCEPT ![p] = 1]
  /\ data' = [data EXCEPT ![p] = v]
  /\ avail' = [avail EXCEPT ![avail_idx % NUM] = idx[1]]
  /\ avail_idx' = plus1(avail_idx)
  /\ idx0' = [idx0 EXCEPT ![p] = idx[1]]
  /\ pc' = [pc EXCEPT ![p] = "asleep"]
  /\ UNCHANGED <<used, usedidx, used_idx, device, intr, panicked>>

(* alloc3_desc() fails: what it got it gives back, waking the others that   *)
(* wait for descriptors; then sleep(&disk.free[0]).                         *)
given_back == free

no_desc(p) ==
  /\ pc[p] \in {"out", "alloc"}
  /\ intr = 0
  /\ Cardinality(free) < 3
  /\ free' = given_back
  /\ pc' = [(IF free = {} THEN pc ELSE wakeup_free(pc)) EXCEPT ![p] = "nodesc"]
  /\ UNCHANGED <<req, rings, device, intr, bdisk, data, idx0, panicked>>

(* virtio_disk_rw() after its sleep: b->disk is tested again; the chain is  *)
(* freed, and free_desc() panics on a descriptor that is free already.      *)
still_busy_bug(p) == FALSE     \* if instead of while
still_busy(p) == bdisk[p] = 1

sleep_again(p) ==
  /\ pc[p] = "woken"
  /\ intr = 0
  /\ still_busy(p)
  /\ pc' = [pc EXCEPT ![p] = "asleep"]
  /\ UNCHANGED <<free, req, rings, device, intr, bdisk, data, idx0, panicked>>

free_chain_wakes(f) == wakeup_free(f)

finish(p) ==
  LET c == Chain(idx0[p])
      freed == {c[k] : k \in 1..NUM} \ {None}
      twice == \E j, k \in 1..NUM : j < k /\ c[j] = c[k] /\ c[j] # None
  IN
  /\ pc[p] = "woken"
  /\ intr = 0
  /\ ~still_busy(p)
  /\ info' = [info EXCEPT ![idx0[p]] = None]
  /\ panicked' = IF twice \/ freed \cap free # {} THEN 1 ELSE panicked
  /\ free' = free \cup freed
  /\ addr' = [d \in Desc |-> IF d \in freed THEN None ELSE addr[d]]
  /\ link' = [d \in Desc |-> IF d \in freed THEN None ELSE link[d]]
  /\ type' = [type EXCEPT ![idx0[p]] = None]
  /\ idx0' = [idx0 EXCEPT ![p] = None]
  /\ pc' = [free_chain_wakes(pc) EXCEPT ![p] = "out"]
  /\ UNCHANGED <<status, rings, device, intr, bdisk, data>>

------------------------------------------------------------------------------
(* virtio_disk_intr(): the interrupt is acknowledged first. *)
virtio_disk_intr ==
  /\ irq = 1 /\ intr = 0
  /\ intr' = 1
  /\ irq' = 0
  /\ UNCHANGED <<free, req, rings, seen, taken, block, bdisk, data, pc, idx0, panicked>>

(* One entry of the used ring.  Without a buffer, info[id].b is null.       *)
finished_id == used[used_idx % NUM]

intr_loop ==
  LET id == finished_id
      p == info[id]
  IN
  /\ intr = 1
  /\ used_idx # usedidx
  /\ used_idx' = plus1(used_idx)
  /\ used' = [used EXCEPT ![used_idx % NUM] = None]
  /\ IF id = None \/ status[id] # 0 \/ p = None
       THEN panicked' = 1 /\ UNCHANGED <<bdisk, pc>>
       ELSE /\ bdisk' = [bdisk EXCEPT ![p] = 0]
            /\ pc' = IF pc[p] = "asleep" THEN [pc EXCEPT ![p] = "woken"] ELSE pc
            /\ UNCHANGED panicked
  /\ UNCHANGED <<free, req, avail, avail_idx, usedidx, device, intr, data, idx0>>

intr_end_bug ==                \* acknowledges here, some time after its last look
  /\ intr = 1
  /\ intr' = 0
  /\ irq' = 0
  /\ UNCHANGED <<free, req, rings, seen, taken, block, bdisk, data, pc, idx0, panicked>>
intr_end ==
  /\ intr = 1
  /\ used_idx = usedidx
  /\ intr' = 0
  /\ UNCHANGED <<free, req, rings, device, bdisk, data, pc, idx0, panicked>>

(* kill() wakes a process wherever it sleeps. *)
kill(p) ==
  /\ \/ pc[p] = "asleep" /\ pc' = [pc EXCEPT ![p] = "woken"]
     \/ pc[p] = "nodesc" /\ pc' = [pc EXCEPT ![p] = "alloc"]
  /\ UNCHANGED <<free, req, rings, device, intr, bdisk, data, idx0, panicked>>

------------------------------------------------------------------------------
(* The device takes a request from the available ring. *)
device_take ==
  /\ seen # avail_idx
  /\ taken' = taken \cup {avail[seen % NUM]}
  /\ avail' = [avail EXCEPT ![seen % NUM] = None]
  /\ seen' = plus1(seen)
  /\ UNCHANGED <<free, req, avail_idx, used, usedidx, used_idx, irq, block, intr, bdisk, data, pc, idx0, panicked>>

(* It transfers the buffer its second descriptor points to, writes the      *)
(* status, puts the request on the used ring and raises an interrupt.       *)
device_serve(id) ==
  LET p == addr[link[id]] IN
  /\ id \in taken
  /\ taken' = taken \ {id}
  /\ IF type[id] = "IN"
       THEN data' = [data EXCEPT ![p] = block[p]] /\ UNCHANGED block
       ELSE block' = [block EXCEPT ![p] = data[p]] /\ UNCHANGED data
  /\ status' = [status EXCEPT ![id] = 0]
  /\ used' = [used EXCEPT ![usedidx % NUM] = id]
  /\ usedidx' = plus1(usedidx)
  /\ irq' = 1
  /\ UNCHANGED <<free, addr, link, type, info, avail, avail_idx, used_idx, seen, intr, bdisk,
                 pc, idx0, panicked>>

Next ==
  /\ panicked = 0
  /\ \/ \E p \in Procs :
          \/ \E t \in {"IN", "OUT"}, v \in Vals : submit(p, t, v)
          \/ no_desc(p) \/ sleep_again(p) \/ finish(p) \/ kill(p)
     \/ virtio_disk_intr \/ intr_loop \/ intr_end
     \/ device_take \/ \E id \in Desc : device_serve(id)

Spec == Init /\ [][Next]_vars

------------------------------------------------------------------------------
Busy == {p \in Procs : pc[p] \in {"asleep", "woken"}}
DescOf(p) == {Chain(idx0[p])[k] : k \in 1..NUM} \ {None}

\* virtio_disk_rw() returns when the transfer is done, not before: buffer and
\* block agree, whatever the order in which the device serves its requests.
InSync == \A p \in Procs \ Busy : data[p] = block[p]

\* No descriptor is leaked or in two chains, and every request in progress
\* has its own buffer in its chain until it is finished.
DescConserved ==
  /\ \A p \in Busy : /\ Cardinality(DescOf(p)) = 3
                      /\ info[idx0[p]] = p /\ addr[link[idx0[p]]] = p
  /\ \A p, q \in Busy : p # q => DescOf(p) \cap DescOf(q) = {}
  /\ Desc \ free = UNION {DescOf(p) : p \in Busy}

\* A finished request that the handler has not seen has an interrupt pending
\* or the handler at work: the race with the device "is harmless".
NoLostCompletion == used_idx # usedidx => irq = 1 \/ intr = 1

\* Nobody sleeps for descriptors while there are enough.
DescSleeps == \A p \in Procs : pc[p] = "nodesc" => Cardinality(free) < 3

\* Neither free_desc() nor the handler finds anything wrong, a returned
\* transfer is done, and descriptors belong to one request at a time.
Transfers == panicked = 0 /\ InSync /\ DescConserved

\* No process waits for an interrupt that will not come, or for descriptors
\* that are there.
SleepsForACause == NoLostCompletion /\ DescSleeps
==============================================================================
