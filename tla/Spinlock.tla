------------------------------ MODULE Spinlock -------------------------------
(***************************************************************************)
(* Spinlocks and interrupts: acquire(), release(), push_off() and pop_off()*)
(* of kernel/spinlock.c on every CPU, under threads that nest locks, are   *)
(* interrupted, and change CPUs in sched() while a p->lock is held.        *)
(*                                                                         *)
(* There is one lock L that threads and interrupt handlers share (as       *)
(* tickslock) and the p->lock of every thread.  A context is a thread or   *)
(* the scheduler loop of a CPU.  An interrupt starts a second level of the *)
(* context it comes to, with interrupts off; in a thread the handler may   *)
(* yield().  What a CPU does with its interrupts off, to its own struct    *)
(* cpu, is one step with the step that others can see.                     *)
(* push_off() is called from acquire() only; its use around mycpu() in     *)
(* myproc(), without a lock, is left out.                                  *)
(*                                                                         *)
(* An operator named *_bug is a plausible mistake in the one it precedes;  *)
(* no action uses it.                                                      *)
(***************************************************************************)
EXTENDS Integers, FiniteSets

CONSTANTS CPUs, Threads, L, None

Locks == {L} \cup Threads          \* a thread stands for its p->lock
Contexts == Threads \cup CPUs      \* a CPU stands for its scheduler loop

ASSUME NameAssumption ==
  /\ CPUs \cap Threads = {} /\ L \notin CPUs \cup Threads
  /\ None \notin CPUs \cup Threads \cup {L}

VARIABLES
  lockcpu,      \* lk->cpu of a locked lock, or None
  noff, intena, \* struct cpu
  ie,           \* sstatus.SIE of each CPU
  on,           \* the context each CPU executes
  level,        \* 0, or 1 in an interrupt handler
  pc, lk, old,  \* of each level of a context: where it is, the lock that
                \* acquire() was called with, push_off()'s local old
  saved,        \* sched()'s local intena, of each thread
  panicked

cpu == <<noff, intena, ie>>
frames == <<level, pc, lk, old>>
vars == <<lockcpu, cpu, on, frames, saved, panicked>>

Levels == {0, 1}

(* The schedulers run; every thread has been in sched() once. *)
Init ==
  /\ lockcpu = [l \in Locks |-> None]
  /\ noff = [c \in CPUs |-> 0]
  /\ intena = [c \in CPUs |-> 0]
  /\ ie = [c \in CPUs |-> 1]
  /\ on = [c \in CPUs |-> c]
  /\ level = [x \in Contexts |-> 0]
  /\ pc = [x \in Contexts |-> [v \in Levels |-> IF x \in Threads THEN "sched" ELSE "run"]]
  /\ lk = [x \in Contexts |-> [v \in Levels |-> None]]
  /\ old = [x \in Contexts |-> [v \in Levels |-> 0]]
  /\ saved = [t \in Threads |-> 1]
  /\ panicked = 0

------------------------------------------------------------------------------
At(c, l) == pc[on[c]][level[on[c]]] = l
Go(c, l) == pc' = [pc EXCEPT ![on[c]][level[on[c]]] = l]
Held(c) == {l \in Locks : lockcpu[l] = c}
Interrupted(c) == level[on[c]] = 1

(* Which lock a context may ask for: L when it holds none; a p->lock when it *)
(* holds none or L, its own to go to sleep or to yield, another's in wakeup(),*)
(* wait() and kill().  The scheduler itself takes p->locks only, a handler    *)
(* that interrupts it takes L first.                                          *)
may_acquire(c) ==
  {l \in Locks :
     IF l = L THEN Held(c) = {} /\ (on[c] \in Threads \/ Interrupted(c))
     ELSE Held(c) = {L} \/ (Held(c) = {} /\ (on[c] \in Threads \/ ~Interrupted(c)))}

(* push_off(): old = intr_get(); an interrupt may still come. *)
acquire(c) ==
  /\ At(c, "run")
  /\ \E l \in may_acquire(c) : lk' = [lk EXCEPT ![on[c]][level[on[c]]] = l]
  /\ old' = [old EXCEPT ![on[c]][level[on[c]]] = ie[c]]
  /\ Go(c, "push_off")
  /\ UNCHANGED <<lockcpu, cpu, on, level, saved, panicked>>

(* push_off(): intr_off() and the rest; then the test of holding(). *)
push_off(c) ==
  LET x == on[c]  v == level[x] IN
  /\ At(c, "push_off")
  /\ ie' = [ie EXCEPT ![c] = 0]
  /\ intena' = IF noff[c] = 0 THEN [intena EXCEPT ![c] = old[x][v]] ELSE intena
  /\ noff' = [noff EXCEPT ![c] = @ + 1]
  /\ old' = [old EXCEPT ![x][v] = 0]
  /\ panicked' = IF lockcpu[lk[x][v]] = c THEN 1 ELSE panicked
  /\ Go(c, "spin")
  /\ UNCHANGED <<lockcpu, on, level, lk, saved>>

(* acquire(): __sync_lock_test_and_set() gets the lock. *)
spin(c) ==
  LET x == on[c]  v == level[x] IN
  /\ At(c, "spin")
  /\ lockcpu[lk[x][v]] = None
  /\ lockcpu' = [lockcpu EXCEPT ![lk[x][v]] = c]
  /\ lk' = [lk EXCEPT ![x][v] = None]
  /\ Go(c, "run")
  /\ UNCHANGED <<cpu, on, level, old, saved, panicked>>

(* pop_off(): interrupts come back with the outermost lock, if they were on.*)
last_off_bug(c) == TRUE        \* with every lock
last_off(c) == noff[c] = 1

(* release(), with pop_off(). *)
release(c, l) ==
  /\ At(c, "run")
  /\ lockcpu[l] = c
  /\ panicked' = IF ie[c] = 1 \/ noff[c] < 1 THEN 1 ELSE panicked
  /\ lockcpu' = [lockcpu EXCEPT ![l] = None]
  /\ noff' = [noff EXCEPT ![c] = @ - 1]
  /\ ie' = IF last_off(c) /\ intena[c] = 1 THEN [ie EXCEPT ![c] = 1] ELSE ie
  /\ UNCHANGED <<intena, on, frames, saved>>

------------------------------------------------------------------------------
(* An interrupt: the hardware clears SIE, kernelvec calls kerneltrap(). *)
interrupt(c) ==
  /\ ie[c] = 1
  /\ ~Interrupted(c)           \* a handler has them off
  /\ ie' = [ie EXCEPT ![c] = 0]
  /\ level' = [level EXCEPT ![on[c]] = 1]
  /\ pc' = [pc EXCEPT ![on[c]][1] = "run"]
  /\ UNCHANGED <<lockcpu, noff, intena, on, lk, old, saved, panicked>>

(* kerneltrap() returns: w_sstatus() and sret enable interrupts again. *)
sret(c) ==
  /\ Interrupted(c)
  /\ At(c, "run")
  /\ Held(c) = {}
  /\ ie' = [ie EXCEPT ![c] = 1]
  /\ level' = [level EXCEPT ![on[c]] = 0]
  /\ UNCHANGED <<lockcpu, noff, intena, on, pc, lk, old, saved, panicked>>

(* yield() and sleep() call sched() with p->lock held, no other. *)
calls_sched(c) == Held(c) = {on[c]}

sched(c) ==
  /\ on[c] \in Threads
  /\ At(c, "run")
  /\ calls_sched(c)
  /\ panicked' = IF noff[c] # 1 \/ ie[c] = 1 THEN 1 ELSE panicked
  /\ saved' = [saved EXCEPT ![on[c]] = intena[c]]
  /\ Go(c, "sched")
  /\ on' = [on EXCEPT ![c] = c]
  /\ UNCHANGED <<lockcpu, cpu, level, lk, old>>

(* scheduler(): intr_on() at the top of its loop. *)
intr_on(c) ==
  /\ on[c] = c
  /\ At(c, "run")
  /\ ~Interrupted(c)
  /\ Held(c) = {}
  /\ ie' = [ie EXCEPT ![c] = 1]
  /\ UNCHANGED <<lockcpu, noff, intena, on, frames, saved, panicked>>

(* scheduler() has the p->lock of a thread that is in sched(): swtch(), and *)
(* sched() restores intena on the CPU that it finds itself on.              *)
restored_bug(c, t) == intena
restored(c, t) == [intena EXCEPT ![c] = saved[t]]

swtch(c, t) ==
  /\ on[c] = c
  /\ At(c, "run")
  /\ ~Interrupted(c)
  /\ lockcpu[t] = c
  /\ pc[t][level[t]] = "sched"
  /\ on' = [on EXCEPT ![c] = t]
  /\ intena' = restored(c, t)
  /\ pc' = [pc EXCEPT ![t][level[t]] = "run"]
  /\ saved' = [saved EXCEPT ![t] = 0]     \* sched() returns
  /\ UNCHANGED <<lockcpu, noff, ie, level, lk, old, panicked>>

------------------------------------------------------------------------------
\* A CPU that holds a lock, or spins for one, takes no interrupt: a handler
\* can never wait for a lock that the code it interrupted holds; and none of
\* the panics of acquire(), pop_off() and sched() is reached: no lock is taken
\* twice, no release() finds interrupts on, sched() is called with one lock.
OffWhileHeld ==
  /\ \A c \in CPUs : Held(c) # {} \/ At(c, "spin") => ie[c] = 0
  /\ panicked = 0
==============================================================================
