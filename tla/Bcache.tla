------------------------------- MODULE Bcache --------------------------------
(***************************************************************************)
(* The buffer cache of kernel/bio.c: reference counts, sleep-locks and the *)
(* doubly linked list of buffers, under processes that read a block,       *)
(* change it through the log, which pins it, write it home and release it. *)
(*                                                                         *)
(* A step is a critical section of bcache.lock, the taking or the release  *)
(* of a buffer's sleep-lock, or a disk transfer.  A process holds one      *)
(* buffer at a time.                                                       *)
(*                                                                         *)
(* An operator named *_bug is a plausible mistake in the one it precedes;  *)
(* no action uses it.                                                      *)
(***************************************************************************)
EXTENDS Integers, FiniteSets, Sequences, SequencesExt

CONSTANTS Procs, Blocks, Vals,
          NBUF,       \* number of buffers
          None,       \* no block, no owner, no buffer
          MaxPins     \* buffers the log pins at most: its size

Bufs == 1..NBUF
head == 0             \* bcache.head
Nodes == Bufs \cup {head}

ASSUME BcacheAssumption ==
  /\ None \notin Blocks \cup Procs \cup Nodes
  /\ NBUF \in Nat \ {0} /\ MaxPins \in Nat
  /\ IsFiniteSet(Procs)

VARIABLES
  blockno, valid, refcnt, data, next, prev,   \* struct buf
  owner,      \* the process that holds b->lock
  pinned,     \* the log has pinned the buffer
  disk,       \* the blocks on the disk
  pc,         \* where each process is
  want, b,    \* each process: the blockno it asked for, the buffer it got
  panicked,   \* bget(): no buffers
  latest,     \* history: the last value given to each block
  recent      \* history: the buffers, most recently used first

list == <<next, prev, recent>>
vars == <<blockno, valid, refcnt, data, list, owner, pinned, disk, pc, want, b, panicked,
          latest>>

(* binit() pushes the buffers one after the other at the front. *)
Init ==
  /\ blockno = [x \in Bufs |-> None]
  /\ valid = [x \in Bufs |-> 0]
  /\ refcnt = [x \in Bufs |-> 0]
  /\ data \in [Bufs -> {CHOOSE v \in Vals : TRUE}]
  /\ next = [x \in Nodes |-> IF x = head THEN NBUF ELSE x - 1]
  /\ prev = [x \in Nodes |-> IF x = NBUF THEN head ELSE x + 1]
  /\ recent = [k \in 1..NBUF |-> NBUF + 1 - k]
  /\ owner = [x \in Bufs |-> None]
  /\ pinned = [x \in Bufs |-> 0]
  /\ disk \in [Blocks -> Vals]
  /\ latest = disk
  /\ pc = [p \in Procs |-> "out"]
  /\ want = [p \in Procs |-> None]
  /\ b = [p \in Procs |-> None]
  /\ panicked = 0

------------------------------------------------------------------------------
Step(p, from, to) == pc[p] = from /\ pc' = [pc EXCEPT ![p] = to]

(* The nodes met from the head along link f, up to the head again. *)
Walk(f) ==
  LET walk[k \in 0..NBUF] == IF k = 0 THEN <<f[head]>>
                             ELSE Append(walk[k - 1], f[Last(walk[k - 1])])
  IN  walk[NBUF]

(* The first node of S on that walk, or None. *)
First(f, S) ==
  LET w == Walk(f)
      hits == {k \in 1..NBUF : w[k] # head /\ w[k] \in S}
  IN  IF hits = {} THEN None ELSE w[CHOOSE k \in hits : \A j \in hits : k <= j]

unused == {x \in Bufs : refcnt[x] = 0}

(* bget(), first loop: the buffer that has the block. *)
cached(blk) == First(next, {y \in Bufs : blockno[y] = blk})

take_ref(x) == [refcnt EXCEPT ![x] = @ + 1]

bget_cached(p, blk) ==
  LET x == cached(blk) IN
  /\ Step(p, "out", "acquire")
  /\ x # None
  /\ refcnt' = take_ref(x)
  /\ b' = [b EXCEPT ![p] = x]
  /\ want' = [want EXCEPT ![p] = blk]
  /\ UNCHANGED <<blockno, valid, data, list, owner, pinned, disk, panicked, latest>>

(* bget(), second loop: recycle the least recently used unused buffer.      *)
(* b->valid is cleared, b->data left as it is.                              *)
recycled_bug(x) == valid                \* still valid for the old block
recycled(x) == [valid EXCEPT ![x] = 0]

bget_recycle(p, blk) ==
  LET x == First(prev, unused) IN
  /\ cached(blk) = None
  /\ x # None
  /\ Step(p, "out", "acquire")
  /\ blockno' = [blockno EXCEPT ![x] = blk]
  /\ valid' = recycled(x)
  /\ refcnt' = [refcnt EXCEPT ![x] = 1]
  /\ b' = [b EXCEPT ![p] = x]
  /\ want' = [want EXCEPT ![p] = blk]
  /\ UNCHANGED <<data, list, owner, pinned, disk, panicked, latest>>

(* bget(): panic("bget: no buffers") *)
bget_panic(p, blk) ==
  /\ pc[p] = "out"
  /\ cached(blk) = None
  /\ First(prev, unused) = None
  /\ panicked' = 1
  /\ UNCHANGED <<blockno, valid, refcnt, data, list, owner, pinned, disk, pc, want, b, latest>>

bget(p, blk) == bget_cached(p, blk) \/ bget_recycle(p, blk) \/ bget_panic(p, blk)

(* acquiresleep(&b->lock) *)
acquiresleep(p) ==
  /\ Step(p, "acquire", "bread")
  /\ owner[b[p]] = None
  /\ owner' = [owner EXCEPT ![b[p]] = p]
  /\ UNCHANGED <<blockno, valid, refcnt, data, list, pinned, disk, want, b, panicked, latest>>

(* bread(): virtio_disk_rw(b, 0) unless the buffer is valid. *)
bread(p) ==
  LET x == b[p] IN
  /\ Step(p, "bread", "held")
  /\ data' = IF valid[x] = 1 THEN data ELSE [data EXCEPT ![x] = disk[blockno[x]]]
  /\ valid' = [valid EXCEPT ![x] = 1]
  /\ UNCHANGED <<blockno, refcnt, list, owner, pinned, disk, want, b, panicked, latest>>

(* The holder changes the buffer and calls log_write(), which bpin()s a     *)
(* buffer that is not yet in the log.                                       *)
bpin(x) == [refcnt EXCEPT ![x] = @ + 1]

log_write(p, v) ==
  LET x == b[p] IN
  /\ pc[p] = "held"
  /\ pinned[x] = 0 => Cardinality({y \in Bufs : pinned[y] = 1}) < MaxPins
  /\ data' = [data EXCEPT ![x] = v]
  /\ latest' = [latest EXCEPT ![blockno[x]] = v]
  /\ refcnt' = IF pinned[x] = 0 THEN bpin(x) ELSE refcnt
  /\ pinned' = [pinned EXCEPT ![x] = 1]
  /\ UNCHANGED <<blockno, valid, list, owner, disk, pc, want, b, panicked>>

(* install_trans(): bwrite() of the home block, then bunpin(). *)
bunpin(x) == [refcnt EXCEPT ![x] = @ - 1]

transfer(x) == [disk EXCEPT ![blockno[x]] = data[x]]

bwrite(p) ==
  LET x == b[p] IN
  /\ pc[p] = "held"
  /\ pinned[x] = 1
  /\ disk' = transfer(x)
  /\ refcnt' = bunpin(x)
  /\ pinned' = [pinned EXCEPT ![x] = 0]
  /\ UNCHANGED <<blockno, valid, data, list, owner, pc, want, b, panicked, latest>>

(* brelse(): releasesleep(&b->lock), before the reference is dropped. *)
brelse(p) ==
  /\ Step(p, "held", "brelse")
  /\ owner' = [owner EXCEPT ![b[p]] = None]
  /\ UNCHANGED <<blockno, valid, refcnt, data, list, pinned, disk, want, b, panicked, latest>>

(* The six assignments that move x to the front of the list. *)
unlink(x) == <<[next EXCEPT ![prev[x]] = next[x]], [prev EXCEPT ![next[x]] = prev[x]]>>
to_front_bug(x) ==             \* head.next->prev = b comes after head.next = b
  LET n == unlink(x)[1]  q == unlink(x)[2]
  IN  /\ next' = [n EXCEPT ![x] = n[head], ![head] = x]
      /\ prev' = [q EXCEPT ![x] = x]
to_front(x) ==
  LET n == unlink(x)[1]  q == unlink(x)[2]
  IN  /\ next' = [n EXCEPT ![x] = n[head], ![head] = x]
      /\ prev' = [q EXCEPT ![x] = head, ![n[head]] = x]

(* recent, with x moved to its front. *)
used(x) ==
  LET i == CHOOSE k \in 1..NBUF : recent[k] = x
  IN  [k \in 1..NBUF |-> IF k = 1 THEN x ELSE IF k <= i THEN recent[k - 1] ELSE recent[k]]

(* brelse(): drop the reference under bcache.lock. *)
brelse_deref(p) ==
  LET x == b[p] IN
  /\ Step(p, "brelse", "out")
  /\ refcnt' = [refcnt EXCEPT ![x] = @ - 1]
  /\ IF refcnt[x] = 1
       THEN to_front(x) /\ recent' = used(x)
       ELSE UNCHANGED list
  /\ b' = [b EXCEPT ![p] = None]
  /\ want' = [want EXCEPT ![p] = None]
  /\ UNCHANGED <<blockno, valid, data, owner, pinned, disk, panicked, latest>>

(* panic() loops for ever; the other processes are taken to stop with it. *)
panic == panicked = 1 /\ UNCHANGED vars

Next ==
  \/ /\ panicked = 0
     /\ \E p \in Procs :
          \/ \E blk \in Blocks : bget(p, blk)
          \/ acquiresleep(p) \/ bread(p)
          \/ \E v \in Vals : log_write(p, v)
          \/ bwrite(p) \/ brelse(p) \/ brelse_deref(p)
  \/ panic

Spec == Init /\ [][Next]_vars

------------------------------------------------------------------------------
\* A block is in at most one buffer: the cache is "a synchronization point
\* for disk blocks used by multiple processes".
OneCopy ==
  \A x, y \in Bufs : blockno[x] = blockno[y] /\ blockno[x] # None => x = y

\* bread() returns the block that was asked for, locked by its caller alone,
\* with the last value anybody gave it, however often it was recycled between.
HeldIsLatest ==
  \A p \in Procs :
    pc[p] = "held" => /\ blockno[b[p]] = want[p]
                      /\ owner[b[p]] = p
                      /\ data[b[p]] = latest[want[p]]

\* A block that no buffer has pinned is on the disk as last written.
HomeCurrent ==
  \A blk \in Blocks :
    (\A x \in Bufs : blockno[x] = blk => pinned[x] = 0) => disk[blk] = latest[blk]

\* The linked list holds every buffer once, the same both ways, in the order
\* of use ("head.next is most recent, head.prev is least").
ListSorted ==
  Walk(next) = Append(recent, head) /\ Walk(prev) = Append(Reverse(recent), head)

\* bget() panics only when each buffer really is pinned by the log or in use
\* by a process: no reference is left behind by brelse() or bunpin().
PanicOnlyFull ==
  panicked = 1 => \A x \in Bufs : pinned[x] = 1 \/ \E p \in Procs : b[p] = x

\* The cache is coherent: one copy of a block, the last value for whoever
\* holds it, and the same on the disk when the log has not pinned it.
Coherent == OneCopy /\ HeldIsLatest /\ HomeCurrent

\* The scans of bget() over the list see every buffer, in the order of use,
\* and find one unless all are really taken.
ScansSeeAll == ListSorted /\ PanicOnlyFull
==============================================================================
