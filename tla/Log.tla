--------------------------------- MODULE Log ---------------------------------
(***************************************************************************)
(* The redo log of kernel/log.c: system calls bracketed by begin_op() and  *)
(* end_op(), the group commit, and recovery after a crash.                 *)
(*                                                                         *)
(* A step of a process is one critical section of log.lock or one block    *)
(* written to the disk; a crash can fall between any two steps and inside  *)
(* any block write.  Simplifications:                                      *)
(*  - a block's contents are one value of Vals; the number of a block and  *)
(*    the buffer that holds it are the same thing (module Bcache is about  *)
(*    the difference);                                                     *)
(*  - bread(), the change of b->data and log_write() are one step: the     *)
(*    caller holds the buffer's sleep-lock from the first to the last;     *)
(*  - a crash can leave any value in the home or log block that is being   *)
(*    written, but the header (n and LOGSIZE numbers, 124 bytes) lies in   *)
(*    one sector and is written entirely or not at all.                    *)
(***************************************************************************)
EXTENDS Integers, Sequences, FiniteSets

CONSTANTS
  Procs,        \* processes that make file-system calls
  Blocks,       \* home blocks: everything the file system writes
  Vals,         \* contents of a block
  Zero,         \* what mkfs leaves in an unused block
  NoBuf,        \* the block is not in the buffer cache
  MAXOPBLOCKS,  \* param.h:13, what begin_op() reserves for a call
  LOGSIZE,      \* param.h:14
  NLOG,         \* sb.nlog: blocks of the on-disk log, the header included
  OPBLOCKS      \* the most distinct blocks a system call does write

ASSUME ProcsAssumption == IsFiniteSet(Procs)
ASSUME ValsAssumption == Zero \in Vals /\ NoBuf \notin Vals
ASSUME SizeAssumption ==
  /\ MAXOPBLOCKS \in Nat \ {0}
  /\ LOGSIZE \in Nat
  /\ NLOG \in Nat \ {0}
  /\ OPBLOCKS \in Nat
\* A call writes fewer blocks than begin_op() reserves for it (module FileData,
\* OpFits); one reservation is less than the log, and mkfs makes the log
\* LOGSIZE blocks, of which the header takes one.
ASSUME RoomAssumption ==
  OPBLOCKS < MAXOPBLOCKS /\ MAXOPBLOCKS < LOGSIZE /\ LOGSIZE <= NLOG

VARIABLES
  home,         \* disk: the home blocks
  dlog,         \* disk: the data blocks of the log
  dhead,        \* disk: the header, the block numbers of a committed group
  cache,        \* the buffer cache, NoBuf where the block is not cached
  pin,          \* references to a buffer that log_write() took with bpin()
  lh,           \* log.lh
  outstanding,  \* log.outstanding
  committing,   \* log.committing
  tail,         \* the loop index of write_log() and install_trans()
  pc,           \* where each process is
  wrote,        \* the distinct blocks a process wrote in its current call
  boot,         \* recovery: "read_head", "install", then "up"
  panicked      \* the kernel has called panic()

disk == <<home, dlog, dhead>>
vars == <<home, dlog, dhead, cache, pin, lh, outstanding, committing, tail,
          pc, wrote, boot, panicked>>

LogBlocks == 1..(NLOG - 1)
Logged == {lh[i] : i \in 1..Len(lh)}
Active == {p \in Procs : pc[p] = "op"}
CommitPC == {"write_log", "install", "end_commit"}
Installing == \E p \in Procs : pc[p] = "install"

\* What bread(b) returns: the cached contents, else what the disk holds.
View(b) == IF cache[b] = NoBuf THEN home[b] ELSE cache[b]

Running == boot = "up" /\ panicked = 0

------------------------------------------------------------------------------
(* Helpers of the operations, one per idea of the code. *)

\* begin_op()'s test: this call might exhaust the log's space.
\* (An operator named *_bug is a plausible mistake in the one it precedes;
\* no action uses it.)
log_full_bug == Len(lh) + outstanding * MAXOPBLOCKS > LOGSIZE
log_full == Len(lh) + (outstanding + 1) * MAXOPBLOCKS > LOGSIZE

\* begin_op()'s two reasons to sleep.
must_wait == committing = 1 \/ log_full

\* commit()'s test.
nothing_to_commit == Len(lh) = 0

\* log_write()'s panic, tested before absorption.
too_big == Len(lh) >= LOGSIZE \/ Len(lh) >= NLOG - 1

\* wakeup(&log): every process asleep in begin_op() tries again.
wakeup_bug(pcs) == pcs
wakeup(pcs) == [p \in Procs |-> IF pcs[p] = "asleep" THEN "begin_op" ELSE pcs[p]]

\* commit() writes the header once every log block is written.
log_written_bug == TRUE
log_written == tail > Len(lh)

\* commit() and recover_from_log() erase the header once every home block is
\* written.
installed == tail > Len(lh)

\* One iteration of install_trans(): read the log block, write its home.
InstallBlock ==
  /\ tail <= Len(lh)
  /\ home' = [home EXCEPT ![lh[tail]] = dlog[tail]]
  /\ cache' = [cache EXCEPT ![lh[tail]] = dlog[tail]]
  /\ tail' = tail + 1
  /\ UNCHANGED <<dlog, dhead, lh, outstanding, committing, wrote, panicked>>

------------------------------------------------------------------------------
Init ==
  /\ home = [b \in Blocks |-> Zero]
  /\ dlog = [i \in LogBlocks |-> Zero]
  /\ dhead = <<>>
  /\ cache = [b \in Blocks |-> NoBuf]
  /\ pin = [b \in Blocks |-> 0]
  /\ lh = <<>>
  /\ outstanding = 0
  /\ committing = 0
  /\ tail = 1
  /\ pc = [p \in Procs |-> "user"]
  /\ wrote = [p \in Procs |-> {}]
  /\ boot = "read_head"
  /\ panicked = 0

(* begin_op(): one pass of its loop, entered or resumed after sleep(). *)
begin_op(p) ==
  /\ Running
  /\ pc[p] \in {"user", "begin_op"}
  /\ IF must_wait
       THEN /\ pc' = [pc EXCEPT ![p] = "asleep"]
            /\ UNCHANGED outstanding
       ELSE /\ outstanding' = outstanding + 1
            /\ pc' = [pc EXCEPT ![p] = "op"]
  /\ wrote' = [wrote EXCEPT ![p] = {}]
  /\ UNCHANGED <<disk, cache, pin, lh, committing, tail, boot, panicked>>

\* Record block b in log.lh and pin its buffer, unless it is there already.
absorb_bug(b) ==
  /\ lh' = IF b \in Logged THEN lh ELSE Append(lh, b)
  /\ UNCHANGED pin
absorb(b) ==
  IF b \in Logged THEN UNCHANGED <<lh, pin>>
                  ELSE /\ lh' = Append(lh, b)
                       /\ pin' = [pin EXCEPT ![b] = @ + 1]

(* A block changed in the cache and handed to log_write(). *)
log_write(p, b, v) ==
  /\ Running
  /\ pc[p] = "op"
  /\ b \in wrote[p] \/ Cardinality(wrote[p]) < OPBLOCKS
  /\ cache' = [cache EXCEPT ![b] = v]
  /\ wrote' = [wrote EXCEPT ![p] = @ \cup {b}]
  /\ IF too_big \/ outstanding < 1
       THEN /\ panicked' = 1
            /\ UNCHANGED <<lh, pin>>
       ELSE /\ absorb(b)
            /\ UNCHANGED panicked
  /\ UNCHANGED <<disk, outstanding, committing, tail, pc, boot>>

(* end_op() up to its first release of log.lock; the last call to end goes *)
(* on to commit().                                                         *)
end_op(p) ==
  /\ Running
  /\ pc[p] = "op"
  /\ outstanding' = outstanding - 1
  /\ IF committing = 1
       THEN /\ panicked' = 1
            /\ UNCHANGED <<pc, committing, tail>>
       ELSE /\ UNCHANGED panicked
            /\ IF outstanding' = 0
                 THEN /\ committing' = 1
                      /\ tail' = 1
                      /\ pc' = [pc EXCEPT ![p] = IF nothing_to_commit THEN "end_commit"
                                                 ELSE "write_log"]
                 ELSE /\ pc' = wakeup([pc EXCEPT ![p] = "user"])
                      /\ UNCHANGED <<committing, tail>>
  /\ UNCHANGED <<disk, cache, pin, lh, wrote, boot>>

(* commit(): one log block written by write_log(). *)
write_log(p) ==
  /\ Running
  /\ pc[p] = "write_log"
  /\ tail <= Len(lh)
  /\ dlog' = [dlog EXCEPT ![tail] = View(lh[tail])]
  /\ tail' = tail + 1
  /\ UNCHANGED <<home, dhead, cache, pin, lh, outstanding, committing, pc,
                 wrote, boot, panicked>>

(* commit(): the header, "the true point at which the transaction commits". *)
write_head(p) ==
  /\ Running
  /\ pc[p] = "write_log"
  /\ log_written
  /\ dhead' = lh
  /\ tail' = 1
  /\ pc' = [pc EXCEPT ![p] = "install"]
  /\ UNCHANGED <<home, dlog, cache, pin, lh, outstanding, committing, wrote,
                 boot, panicked>>

(* commit(): one home block written by install_trans(0). *)
install_trans(p) ==
  /\ Running
  /\ pc[p] = "install"
  /\ InstallBlock
  /\ pin' = [pin EXCEPT ![lh[tail]] = @ - 1]
  /\ UNCHANGED <<pc, boot>>

(* commit(): log.lh.n = 0 and the second write_head(). *)
erase(p) ==
  /\ Running
  /\ pc[p] = "install"
  /\ installed
  /\ lh' = <<>>
  /\ dhead' = <<>>
  /\ pc' = [pc EXCEPT ![p] = "end_commit"]
  /\ UNCHANGED <<home, dlog, cache, pin, outstanding, committing, tail, wrote,
                 boot, panicked>>

(* The end of end_op(), after commit(). *)
end_commit(p) ==
  /\ Running
  /\ pc[p] = "end_commit"
  /\ committing' = 0
  /\ pc' = wakeup([pc EXCEPT ![p] = "user"])
  /\ UNCHANGED <<disk, cache, pin, lh, outstanding, tail, wrote, boot, panicked>>

(* initlog() -> recover_from_log(): read_head(), install_trans(1), and the *)
(* header cleared.  No process runs before fsinit() returns.               *)
read_head ==
  /\ boot = "read_head"
  /\ lh' = dhead
  /\ tail' = 1
  /\ boot' = "install"
  /\ UNCHANGED <<disk, cache, pin, outstanding, committing, pc, wrote, panicked>>

recover_install ==
  /\ boot = "install"
  /\ InstallBlock
  /\ UNCHANGED <<pin, pc, boot>>

recover_erase ==
  /\ boot = "install"
  /\ installed
  /\ lh' = <<>>
  /\ dhead' = <<>>
  /\ boot' = "up"
  /\ UNCHANGED <<home, dlog, cache, pin, outstanding, committing, tail, pc,
                 wrote, panicked>>

------------------------------------------------------------------------------
(* The buffer cache (kernel/bio.c) as the log sees it: bread() of a block   *)
(* that is not cached, and the recycling of a buffer nobody references.     *)
bread(b) ==
  /\ Running
  /\ cache[b] = NoBuf
  /\ cache' = [cache EXCEPT ![b] = home[b]]
  /\ UNCHANGED <<disk, pin, lh, outstanding, committing, tail, pc, wrote, boot,
                 panicked>>

recycle(b) ==
  /\ Running
  /\ cache[b] # NoBuf
  /\ pin[b] = 0
  /\ cache' = [cache EXCEPT ![b] = NoBuf]
  /\ UNCHANGED <<disk, pin, lh, outstanding, committing, tail, pc, wrote, boot,
                 panicked>>

(* A crash (or the reboot after a panic): memory is lost.  The block being *)
(* written, if there is one, holds anything.                               *)
torn ==
  \/ UNCHANGED <<home, dlog>>
  \/ \E p \in Procs, v \in Vals :
       \/ /\ pc[p] = "write_log" /\ tail <= Len(lh)
          /\ dlog' = [dlog EXCEPT ![tail] = v]
          /\ UNCHANGED home
       \/ /\ pc[p] = "install" /\ tail <= Len(lh)
          /\ home' = [home EXCEPT ![lh[tail]] = v]
          /\ UNCHANGED dlog
  \/ \E v \in Vals :
       /\ boot = "install" /\ tail <= Len(lh)
       /\ home' = [home EXCEPT ![lh[tail]] = v]
       /\ UNCHANGED dlog

crash ==
  /\ torn
  /\ UNCHANGED dhead
  /\ cache' = [b \in Blocks |-> NoBuf]
  /\ pin' = [b \in Blocks |-> 0]
  /\ lh' = <<>>
  /\ outstanding' = 0
  /\ committing' = 0
  /\ tail' = 1
  /\ pc' = [p \in Procs |-> "user"]
  /\ wrote' = [p \in Procs |-> {}]
  /\ boot' = "read_head"
  /\ panicked' = 0

------------------------------------------------------------------------------
op(p) == end_op(p) \/ \E b \in Blocks, v \in Vals : log_write(p, b, v)

commit(p) ==
  write_log(p) \/ write_head(p) \/ install_trans(p) \/ erase(p) \/ end_commit(p)

recover_from_log == read_head \/ recover_install \/ recover_erase

Next ==
  \/ \E p \in Procs : begin_op(p) \/ op(p) \/ commit(p)
  \/ recover_from_log
  \/ \E b \in Blocks : bread(b) \/ recycle(b)
  \/ crash

Spec == Init /\ [][Next]_vars

(* Fairness: the scheduler runs every process that can run, a system call  *)
(* ends, and the disk completes its writes.  Crashes are never required.   *)
Fairness ==
  /\ WF_vars(recover_from_log)
  /\ \A p \in Procs : /\ WF_vars(pc[p] = "begin_op" /\ begin_op(p))
                      /\ WF_vars(end_op(p))
                      /\ WF_vars(commit(p))

FairSpec == Spec /\ Fairness

------------------------------------------------------------------------------
(* Properties *)

\* The type of every variable of the log, of the disk and of the cache.
TypeOK ==
  /\ home \in [Blocks -> Vals]
  /\ dlog \in [LogBlocks -> Vals]
  /\ dhead \in Seq(Blocks)
  /\ cache \in [Blocks -> Vals \cup {NoBuf}]
  /\ pin \in [Blocks -> Nat]
  /\ lh \in Seq(Blocks)
  /\ outstanding \in Nat
  /\ committing \in {0, 1}
  /\ tail \in Nat \ {0}
  /\ pc \in [Procs -> {"user", "begin_op", "asleep", "op"} \cup CommitPC]
  /\ wrote \in [Procs -> SUBSET Blocks]
  /\ boot \in {"read_head", "install", "up"}
  /\ panicked \in {0, 1}

\* No panic of log.c is reached: end_op() never finds a commit in progress,
\* log_write() always finds room for the blocks begin_op() let in.
NoPanic == panicked = 0

\* A process asleep in begin_op() has a reason to be: each step that removes
\* the reason (a smaller reservation, the end of a commit) calls wakeup().
NoLostWakeup ==
  \A p \in Procs : pc[p] = "asleep" => must_wait

\* A buffer is pinned, once, exactly while it holds a logged change that
\* install_trans() has not yet written home: it can be neither recycled
\* before nor leaked after.
PinnedWhileLogged ==
  Running =>
    \A b \in Blocks :
      pin[b] = IF \E i \in 1..Len(lh) : lh[i] = b /\ (Installing => i >= tail)
                 THEN 1 ELSE 0

\* What the disk holds once recovery has run: a committed group that is
\* not yet erased is laid over the home blocks.
Stable ==
  [b \in Blocks |->
     IF \E i \in 1..Len(dhead) : dhead[i] = b
       THEN dlog[CHOOSE i \in 1..Len(dhead) : dhead[i] = b]
       ELSE home[b]]

Current == [b \in Blocks |-> IF boot = "up" THEN View(b) ELSE Stable[b]]

\* With no system call in progress and no commit under way, everything the
\* calls wrote survives a crash: the last end_op() returns only then.
QuiescentDurable ==
  (Running /\ committing = 0 /\ Active = {}) => Stable = Current

AD == INSTANCE AtomicDisk
        WITH stable <- Stable, current <- Current, active <- Active

\* log.c, cache and crashes included, implements the abstract atomic disk:
\* the durable contents change only when a group of finished calls commits,
\* and a crash at any point goes back to exactly the last group.
CrashAtomic == AD!Spec

\* A process that waits in begin_op() is eventually woken, commits end.
WaitersWake == \A p \in Procs : pc[p] = "asleep" ~> pc[p] # "asleep"
=============================================================================
