------------------------------ MODULE Sleeplock ------------------------------
(***************************************************************************)
(* sleep() and wakeup() of kernel/proc.c under their simplest client, the  *)
(* sleep-lock of kernel/sleeplock.c, at the grain of single spinlock       *)
(* operations: lk->lk protects the condition, p->lock the sleeper's state, *)
(* and p->lock is handed to the scheduler across swtch().                  *)
(*                                                                         *)
(* A pass of wakeup()'s loop (acquire p->lock, test, release) is one step, *)
(* and the order in which it visits the table is left open.  There are as  *)
(* many CPUs as processes, so RUNNABLE only means not yet picked.          *)
(*                                                                         *)
(* An operator named *_bug is a plausible mistake in the one it precedes;  *)
(* no action uses it.                                                      *)
(***************************************************************************)
EXTENDS Integers

CONSTANTS Procs,   \* processes that use the sleep-lock
          None     \* no owner

ASSUME NoneAssumption == None \notin Procs

VARIABLES
  lk,       \* owner of the spinlock lk->lk
  locked,   \* lk->locked
  pid,      \* lk->pid: the process that holds the sleep-lock
  plock,    \* owner of p->lock: p, or p's CPU once p is in sched()
  state,    \* p->state
  chan,     \* p->chan = lk
  pc,       \* where each process is
  todo      \* the processes that a running wakeup() has still to visit

vars == <<lk, locked, pid, plock, state, chan, pc, todo>>

Step(p, from, to) == pc[p] = from /\ pc' = [pc EXCEPT ![p] = to]

Init ==
  /\ lk = None
  /\ locked = 0
  /\ pid = None
  /\ plock = [p \in Procs |-> None]
  /\ state = [p \in Procs |-> "RUNNING"]
  /\ chan = [p \in Procs |-> 0]
  /\ pc = [p \in Procs |-> "out"]
  /\ todo = [p \in Procs |-> {}]

------------------------------------------------------------------------------
(* acquiresleep(): acquire(&lk->lk), then the loop's test. *)
acquiresleep(p) ==
  /\ lk = None
  /\ lk' = p
  /\ Step(p, "out", "test")
  /\ UNCHANGED <<locked, pid, plock, state, chan, todo>>

(* The lock is free: take it and release(&lk->lk). *)
take(p) ==
  /\ locked = 0
  /\ locked' = 1
  /\ pid' = p
  /\ lk' = None
  /\ Step(p, "test", "held")
  /\ UNCHANGED <<plock, state, chan, todo>>

(* The lock is taken: sleep(lk, &lk->lk) starts with acquire(&p->lock). *)
sleep_acquire_bug(p) ==        \* releases lk without holding p->lock
  /\ locked = 1
  /\ lk' = None
  /\ Step(p, "test", "sleep")
  /\ UNCHANGED <<locked, pid, plock, state, chan, todo>>
sleep_acquire(p) ==
  /\ locked = 1
  /\ plock[p] = None
  /\ plock' = [plock EXCEPT ![p] = p]
  /\ Step(p, "test", "release_lk")
  /\ UNCHANGED <<lk, locked, pid, state, chan, todo>>

(* sleep(): release(lk). *)
sleep_release(p) ==
  /\ lk' = None
  /\ Step(p, "release_lk", "sleep")
  /\ UNCHANGED <<locked, pid, plock, state, chan, todo>>

(* sleep(): p->chan and p->state, and the call of sched(). *)
sleep_state(p) ==
  /\ chan' = [chan EXCEPT ![p] = 1]
  /\ state' = [state EXCEPT ![p] = "SLEEPING"]
  /\ Step(p, "sleep", "sched")
  /\ UNCHANGED <<lk, locked, pid, plock, todo>>

(* swtch() to the scheduler, which releases p->lock for the process. *)
sched(p) ==
  /\ plock' = [plock EXCEPT ![p] = None]
  /\ Step(p, "sched", "off")
  /\ UNCHANGED <<lk, locked, pid, state, chan, todo>>

(* scheduler() picks the process under p->lock; back in sleep(), the       *)
(* process clears p->chan and releases p->lock.                            *)
scheduler(p) ==
  /\ state[p] = "RUNNABLE"
  /\ plock[p] = None
  /\ state' = [state EXCEPT ![p] = "RUNNING"]
  /\ chan' = [chan EXCEPT ![p] = 0]
  /\ Step(p, "off", "reacquire")
  /\ UNCHANGED <<lk, locked, pid, plock, todo>>

(* The last line of sleep(), acquire(lk), and back to acquiresleep()'s loop. *)
sleep_reacquire_bug(p) ==      \* acquiresleep() with if instead of while
  /\ lk = None
  /\ locked' = 1
  /\ pid' = p
  /\ Step(p, "reacquire", "held")
  /\ UNCHANGED <<lk, plock, state, chan, todo>>
sleep_reacquire(p) ==
  /\ lk = None
  /\ lk' = p
  /\ Step(p, "reacquire", "test")
  /\ UNCHANGED <<locked, pid, plock, state, chan, todo>>

(* releasesleep(): acquire(&lk->lk), free the lock, call wakeup(lk). *)
releasesleep(p) ==
  /\ lk = None
  /\ lk' = p
  /\ locked' = 0
  /\ pid' = None
  /\ todo' = [todo EXCEPT ![p] = Procs \ {p}]
  /\ Step(p, "held", "wakeup")
  /\ UNCHANGED <<plock, state, chan>>

(* wakeup(): one process of the table. *)
wakeup(p, q) ==
  /\ pc[p] = "wakeup"
  /\ q \in todo[p]
  /\ plock[q] = None
  /\ state' = IF state[q] = "SLEEPING" /\ chan[q] = 1
                THEN [state EXCEPT ![q] = "RUNNABLE"] ELSE state
  /\ todo' = [todo EXCEPT ![p] = @ \ {q}]
  /\ UNCHANGED <<lk, locked, pid, plock, chan, pc>>

(* releasesleep(): release(&lk->lk). *)
release_lk(p) ==
  /\ todo[p] = {}
  /\ lk' = None
  /\ Step(p, "wakeup", "out")
  /\ UNCHANGED <<locked, pid, plock, state, chan, todo>>

(* kill() of a sleeping process wakes it although the lock is not free. *)
kill(q) ==
  /\ plock[q] = None
  /\ state[q] = "SLEEPING"
  /\ state' = [state EXCEPT ![q] = "RUNNABLE"]
  /\ UNCHANGED <<lk, locked, pid, plock, chan, pc, todo>>

------------------------------------------------------------------------------
sleep(p) == sleep_acquire(p) \/ sleep_release(p) \/ sleep_state(p) \/ sched(p)

Next ==
  \E p \in Procs :
    \/ acquiresleep(p) \/ take(p) \/ sleep(p) \/ scheduler(p) \/ sleep_reacquire(p)
    \/ releasesleep(p) \/ release_lk(p) \/ kill(p)
    \/ \E q \in Procs : wakeup(p, q)

Spec == Init /\ [][Next]_vars

------------------------------------------------------------------------------
\* The values of every variable.
TypeOK ==
  /\ lk \in Procs \cup {None}
  /\ locked \in {0, 1}
  /\ pid \in Procs \cup {None}
  /\ plock \in [Procs -> Procs \cup {None}]
  /\ state \in [Procs -> {"RUNNING", "SLEEPING", "RUNNABLE"}]
  /\ chan \in [Procs -> {0, 1}]
  /\ pc \in [Procs -> {"out", "test", "release_lk", "sleep", "sched", "off",
                       "reacquire", "held", "wakeup"}]
  /\ todo \in [Procs -> SUBSET Procs]

\* At most one process is between acquiresleep() and releasesleep(), and
\* holdingsleep() is true of that one only.
Mutex ==
  \A p \in Procs : pc[p] = "held" <=> locked = 1 /\ pid = p

\* A process that is asleep, or has released lk and is about to be, waits for
\* a lock that is held, or a wakeup() has yet to visit it: the one that frees
\* the lock cannot pass by unseen.
NoMissedWakeup ==
  \A p \in Procs :
    (pc[p] \in {"sleep", "sched"} \/ state[p] = "SLEEPING") =>
      locked = 1 \/ \E q \in Procs : pc[q] = "wakeup" /\ p \in todo[q]
==============================================================================
