-------------------------------- MODULE Pipe ---------------------------------
(***************************************************************************)
(* A pipe of kernel/pipe.c between processes that write to it and          *)
(* processes that read from it, with the reference counts of its two ends  *)
(* in kernel/file.c.  Each process has one descriptor of its end.          *)
(*                                                                         *)
(* A step is one pass of a loop: pi->lock is held over many of them, and   *)
(* kill() may come between any two, also between the test of killed() and  *)
(* the sleep() after it.  sleep() releases pi->lock and sleeps in one step,*)
(* and wakeup() is one step (module Sleeplock).                            *)
(*                                                                         *)
(* An operator named *_bug is a plausible mistake in the one it precedes;  *)
(* no action uses it.                                                      *)
(***************************************************************************)
EXTENDS Integers, FiniteSets, Sequences

CONSTANTS Writers, Readers,   \* the processes that have the two ends open
          Killable,           \* the processes that may be killed
          Bytes,              \* values of a byte
          None,
          PIPESIZE,
          UINT,               \* 2^32: unsigned counters wrap here
          MaxN                \* bound of the count passed to read() and write()

Procs == Writers \cup Readers

ASSUME RoleAssumption ==
  /\ IsFiniteSet(Writers) /\ Writers # {} /\ IsFiniteSet(Readers) /\ Readers # {}
  /\ Writers \cap Readers = {} /\ None \notin Procs /\ Killable \subseteq Procs
ASSUME SizeAssumption ==
  /\ PIPESIZE \in Nat \ {0} /\ UINT \in Nat /\ Bytes # {} /\ MaxN \in Nat \ {0}
  /\ UINT > PIPESIZE /\ UINT % PIPESIZE = 0

VARIABLES
  lock,                 \* owner of pi->lock
  data, nread, nwrite, readopen, writeopen,   \* struct pipe
  freed,                \* kfree(pi) has been called
  rref, wref,           \* f->ref of the two files
  killed,               \* p->killed
  pc,                   \* where each process is; "rmark", "wmark": about to call
                        \* sleep(); "rsleep", "wsleep": asleep
  left,                 \* n - i in piperead() and pipewrite()
  ch                    \* piperead()'s local ch

pipe == <<data, nread, nwrite, readopen, writeopen, freed>>
vars == <<lock, pipe, rref, wref, killed, pc, left, ch>>

(* pipealloc(), after fork() has given every process its end. *)
Init ==
  /\ lock = None
  /\ data \in [0..(PIPESIZE - 1) -> {CHOOSE b \in Bytes : TRUE}]
  /\ nread = 0 /\ nwrite = 0
  /\ readopen = 1 /\ writeopen = 1
  /\ freed = 0
  /\ rref = Cardinality(Readers) /\ wref = Cardinality(Writers)
  /\ killed = [p \in Procs |-> 0]
  /\ pc = [p \in Procs |-> "user"]
  /\ left = [p \in Procs |-> 0]
  /\ ch = [r \in Readers |-> -1]

------------------------------------------------------------------------------
Step(p, from, to) == pc[p] = from /\ pc' = [pc EXCEPT ![p] = to]

(* wakeup(): the processes asleep on a channel are about to acquire pi->lock. *)
Woken == [rsleep |-> "rwoken", wsleep |-> "wwoken"]
wakeup(f, c) == [p \in Procs |-> IF f[p] = c THEN Woken[c] ELSE f[p]]

full_bug == nwrite = nread + PIPESIZE            \* sum not reduced to 32 bits
full == nwrite = (nread + PIPESIZE) % UINT
empty == nread = nwrite

slot(k) == k % PIPESIZE

(* The end of a call: release(&pi->lock) and back to user mode. *)
Return(p, f) ==
  /\ lock' = None
  /\ pc' = [f EXCEPT ![p] = "user"]
  /\ left' = [left EXCEPT ![p] = 0]

(* usertrap() makes a killed process exit: it only closes its descriptor.   *)
Syscall(p) == pc[p] = "user" /\ killed[p] = 0

------------------------------------------------------------------------------
(* pipewrite() *)
pipewrite(w) ==
  /\ Syscall(w)
  /\ lock = None
  /\ lock' = w
  /\ \E k \in 0..MaxN : left' = [left EXCEPT ![w] = k]
  /\ Step(w, "user", "write")
  /\ UNCHANGED <<pipe, rref, wref, killed, ch>>

write_fails(w) ==
  /\ pc[w] = "write"
  /\ left[w] > 0
  /\ readopen = 0 \/ killed[w] = 1
  /\ Return(w, pc)
  /\ UNCHANGED <<pipe, rref, wref, killed, ch>>

write_full(w) ==
  /\ pc[w] = "write"
  /\ left[w] > 0
  /\ readopen = 1 /\ killed[w] = 0
  /\ full
  /\ pc' = [wakeup(pc, "rsleep") EXCEPT ![w] = "wmark"]
  /\ UNCHANGED <<lock, pipe, rref, wref, killed, left, ch>>

write_byte(w) ==
  /\ pc[w] = "write"
  /\ left[w] > 0
  /\ readopen = 1 /\ killed[w] = 0
  /\ ~full
  /\ \/ \E b \in Bytes :
          /\ data' = [data EXCEPT ![slot(nwrite)] = b]
          /\ nwrite' = (nwrite + 1) % UINT
          /\ left' = [left EXCEPT ![w] = @ - 1]
          /\ UNCHANGED pc
     \/ Step(w, "write", "wdone") /\ UNCHANGED <<data, nwrite, left>>    \* copyin() failed
  /\ UNCHANGED <<lock, nread, readopen, writeopen, freed, rref, wref, killed, ch>>

write_done(w) ==
  /\ pc[w] = "wdone" \/ (pc[w] = "write" /\ left[w] = 0)
  /\ Return(w, wakeup(pc, "rsleep"))
  /\ UNCHANGED <<pipe, rref, wref, killed, ch>>

------------------------------------------------------------------------------
(* piperead() *)
piperead(r) ==
  /\ Syscall(r)
  /\ lock = None
  /\ lock' = r
  /\ \E k \in 0..MaxN : left' = [left EXCEPT ![r] = k]
  /\ Step(r, "user", "read")
  /\ UNCHANGED <<pipe, rref, wref, killed, ch>>

read_empty(r) ==
  /\ pc[r] = "read"
  /\ empty /\ writeopen = 1
  /\ IF killed[r] = 1
       THEN Return(r, pc)
       ELSE Step(r, "read", "rmark") /\ UNCHANGED <<lock, left>>
  /\ UNCHANGED <<pipe, rref, wref, killed, ch>>

read_ready(r) ==
  /\ ~(empty /\ writeopen = 1)
  /\ Step(r, "read", "copy")
  /\ UNCHANGED <<lock, pipe, rref, wref, killed, left, ch>>

(* A byte that copyout() cannot deliver has left the pipe. *)
read_byte(r) ==
  /\ pc[r] = "copy"
  /\ left[r] > 0
  /\ ~empty
  /\ ch' = [ch EXCEPT ![r] = data[slot(nread)]]
  /\ nread' = (nread + 1) % UINT
  /\ \/ left' = [left EXCEPT ![r] = @ - 1] /\ UNCHANGED pc
     \/ Step(r, "copy", "rdone") /\ UNCHANGED left
  /\ UNCHANGED <<lock, data, nwrite, readopen, writeopen, freed, rref, wref, killed>>

read_done_bug(r) ==            \* no wakeup(&pi->nwrite)
  /\ pc[r] = "rdone" \/ (pc[r] = "copy" /\ (left[r] = 0 \/ empty))
  /\ Return(r, pc)
  /\ UNCHANGED <<pipe, rref, wref, killed, ch>>
read_done(r) ==
  /\ pc[r] = "rdone" \/ (pc[r] = "copy" /\ (left[r] = 0 \/ empty))
  /\ Return(r, wakeup(pc, "wsleep"))
  /\ UNCHANGED <<pipe, rref, wref, killed, ch>>

(* sleep(): releases pi->lock, SLEEPING. *)
sleep(p) ==
  /\ lock' = None
  /\ Step(p, "rmark", "rsleep") \/ Step(p, "wmark", "wsleep")
  /\ UNCHANGED <<pipe, rref, wref, killed, left, ch>>

(* The last line of sleep(): acquire(lk), then the loop's test again. *)
reacquire(p) ==
  /\ lock = None
  /\ lock' = p
  /\ Step(p, "rwoken", "read") \/ Step(p, "wwoken", "write")
  /\ UNCHANGED <<pipe, rref, wref, killed, left, ch>>

------------------------------------------------------------------------------
(* fileclose(), from close() or exit(): the last reference closes the end. *)
last_bug(ref) == ref > 0       \* every close closes the pipe's end
last(ref) == ref - 1 = 0

fileclose(p) ==
  /\ IF p \in Writers
       THEN /\ wref' = wref - 1 /\ UNCHANGED rref
            /\ Step(p, "user", IF last(wref) THEN "close" ELSE "closed")
       ELSE /\ rref' = rref - 1 /\ UNCHANGED wref
            /\ Step(p, "user", IF last(rref) THEN "close" ELSE "closed")
  /\ UNCHANGED <<lock, pipe, killed, left, ch>>

(* pipeclose(): wakes the other side, and frees the pipe if it was last. *)
pipeclose(p) ==
  /\ pc[p] = "close"
  /\ lock = None
  /\ writeopen' = IF p \in Writers THEN 0 ELSE writeopen
  /\ readopen' = IF p \in Writers THEN readopen ELSE 0
  /\ pc' = [wakeup(pc, IF p \in Writers THEN "rsleep" ELSE "wsleep") EXCEPT ![p] = "closed"]
  /\ freed' = IF readopen' = 0 /\ writeopen' = 0 THEN 1 ELSE freed
  /\ UNCHANGED <<lock, data, nread, nwrite, rref, wref, killed, left, ch>>

(* kill() marks a process, and wakes it if it sleeps. *)
kill(p) ==
  /\ killed[p] = 0
  /\ pc[p] # "closed"
  /\ killed' = [killed EXCEPT ![p] = 1]
  /\ pc' = IF pc[p] \in DOMAIN Woken THEN [pc EXCEPT ![p] = Woken[pc[p]]] ELSE pc
  /\ UNCHANGED <<lock, pipe, rref, wref, left, ch>>

------------------------------------------------------------------------------
write_rest(w) == write_fails(w) \/ write_full(w) \/ write_byte(w) \/ write_done(w)
read_rest(r) == read_empty(r) \/ read_ready(r) \/ read_byte(r) \/ read_done(r)

Next ==
  \/ \E w \in Writers : pipewrite(w) \/ write_rest(w)
  \/ \E r \in Readers : piperead(r) \/ read_rest(r)
  \/ \E p \in Procs : sleep(p) \/ reacquire(p) \/ fileclose(p) \/ pipeclose(p)
  \/ \E p \in Killable : kill(p)

Spec == Init /\ [][Next]_vars

------------------------------------------------------------------------------
Used == (nwrite - nread) % UINT

Queue == [k \in 1..Used |-> data[slot(nread + k - 1)]]

Fifo == INSTANCE BoundedFifo WITH queue <- Queue, got <- ch, Size <- PIPESIZE

\* The ring buffer is a queue of PIPESIZE bytes, also when the counters wrap.
IsFifo == Fifo!Spec

\* No process is in, or on its way into, a call on a pipe that has been freed,
\* and the page is freed once both ends are closed.
NoUseAfterFree ==
  /\ freed = 1 => \A p \in Procs : pc[p] = "closed"
  /\ (\A p \in Procs : pc[p] = "closed") => freed = 1

\* A reader sleeps only while the pipe is empty and may still be written to,
\* or while the writer that filled it is about to wake it.
ReaderSleeps ==
  \A r \in Readers :
    pc[r] = "rsleep" => \/ empty /\ writeopen = 1
                        \/ \E w \in Writers : lock = w

\* The same of every reader as long as no writer has been killed: a killed
\* writer leaves pipewrite() without the wakeup() for what it has written.
ReaderWaits == (\A w \in Writers : killed[w] = 0) => ReaderSleeps

\* A writer sleeps only while the pipe is full and may still be read from, or
\* while the reader that made room is about to wake it.
WriterSleeps ==
  \A w \in Writers :
    pc[w] = "wsleep" => \/ full /\ readopen = 1
                        \/ \E r \in Readers : lock = r

\* Nobody sleeps on a pipe without a cause, the reader of a killed writer's
\* bytes aside.
SleepsForACause == ReaderWaits /\ WriterSleeps
==============================================================================
