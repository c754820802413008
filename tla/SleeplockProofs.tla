--------------------------- MODULE SleeplockProofs ---------------------------
(***************************************************************************)
(* The sleep-lock excludes, and sleep()/wakeup() lose no wakeup, for every *)
(* set of processes.                                                       *)
(***************************************************************************)
EXTENDS Sleeplock, TLAPS

(* Who owns which spinlock, read off the program counters. *)
LockInv ==
  \A p \in Procs :
    /\ lk = p <=> pc[p] \in {"test", "release_lk", "wakeup"}
    /\ plock[p] # None <=> pc[p] \in {"release_lk", "sleep", "sched"}

(* What the scheduler sees of each process. *)
StateInv ==
  \A p \in Procs :
    /\ state[p] = "RUNNING" <=> pc[p] \notin {"sched", "off"}
    /\ pc[p] = "sched" => state[p] = "SLEEPING"
    /\ chan[p] = 1 <=> pc[p] \in {"sched", "off"}

(* sleep() gives lk->lk up only for a lock that is taken. *)
WillSleepInv == \A p \in Procs : pc[p] = "release_lk" => locked = 1

IInv == TypeOK /\ LockInv /\ StateInv /\ WillSleepInv /\ Mutex /\ NoMissedWakeup

(* The inductive invariant holds when the kernel starts. *)
LEMMA InitIInv == Init => IInv
BY NoneAssumption
   DEF Init, IInv, TypeOK, LockInv, StateInv, WillSleepInv, Mutex, NoMissedWakeup

(* Every step keeps the variables in their types. *)
LEMMA TypeStep == TypeOK /\ [Next]_vars => TypeOK'
<1> SUFFICES ASSUME TypeOK, [Next]_vars PROVE TypeOK'
  OBVIOUS
<1> USE DEF TypeOK, Step
<1>1. CASE UNCHANGED vars
  BY <1>1 DEF vars
<1>2. ASSUME NEW p \in Procs,
             acquiresleep(p) \/ take(p) \/ sleep(p) \/ scheduler(p) \/ sleep_reacquire(p)
      PROVE  TypeOK'
  BY <1>2 DEF acquiresleep, take, sleep, sleep_acquire, sleep_release, sleep_state,
              sched, scheduler, sleep_reacquire
<1>3. ASSUME NEW p \in Procs, releasesleep(p) \/ release_lk(p) \/ kill(p) PROVE TypeOK'
  BY <1>3 DEF releasesleep, release_lk, kill
<1>4. ASSUME NEW p \in Procs, NEW q \in Procs, wakeup(p, q) PROVE TypeOK'
  BY <1>4 DEF wakeup
<1> QED BY <1>1, <1>2, <1>3, <1>4 DEF Next

(* Every step keeps the spinlocks with the processes that own them. *)
LEMMA LockStep == TypeOK /\ LockInv /\ [Next]_vars => LockInv'
<1> SUFFICES ASSUME TypeOK, LockInv, [Next]_vars PROVE LockInv'
  OBVIOUS
<1> USE NoneAssumption DEF TypeOK, LockInv, Step
<1>1. CASE UNCHANGED vars
  BY <1>1 DEF vars
<1>2. ASSUME NEW p \in Procs, acquiresleep(p) \/ take(p) \/ sleep_reacquire(p) PROVE LockInv'
  BY <1>2 DEF acquiresleep, take, sleep_reacquire
<1>3. ASSUME NEW p \in Procs, sleep(p) \/ scheduler(p) PROVE LockInv'
  BY <1>3 DEF sleep, sleep_acquire, sleep_release, sleep_state, sched, scheduler
<1>4. ASSUME NEW p \in Procs, releasesleep(p) \/ release_lk(p) \/ kill(p) PROVE LockInv'
  BY <1>4 DEF releasesleep, release_lk, kill
<1>5. ASSUME NEW p \in Procs, NEW q \in Procs, wakeup(p, q) PROVE LockInv'
  BY <1>5 DEF wakeup
<1> QED BY <1>1, <1>2, <1>3, <1>4, <1>5 DEF Next

(* Every step keeps p->state and p->chan in step with the process. *)
LEMMA StateStep == TypeOK /\ LockInv /\ StateInv /\ [Next]_vars => StateInv'
<1> SUFFICES ASSUME TypeOK, LockInv, StateInv, [Next]_vars PROVE StateInv'
  OBVIOUS
<1> USE NoneAssumption DEF TypeOK, StateInv, Step
<1>1. CASE UNCHANGED vars
  BY <1>1 DEF vars
<1>2. ASSUME NEW p \in Procs, acquiresleep(p) \/ take(p) \/ sleep_reacquire(p) PROVE StateInv'
  BY <1>2 DEF acquiresleep, take, sleep_reacquire
<1>3. ASSUME NEW p \in Procs, sleep(p) \/ scheduler(p) PROVE StateInv'
  BY <1>3 DEF sleep, sleep_acquire, sleep_release, sleep_state, sched, scheduler
<1>4. ASSUME NEW p \in Procs, releasesleep(p) \/ release_lk(p) \/ kill(p) PROVE StateInv'
  BY <1>4 DEF releasesleep, release_lk, kill, LockInv
<1>5. ASSUME NEW p \in Procs, NEW q \in Procs, wakeup(p, q) PROVE StateInv'
  BY <1>5 DEF wakeup, LockInv
<1> QED BY <1>1, <1>2, <1>3, <1>4, <1>5 DEF Next

(* Every step keeps the sleep-lock exclusive. *)
LEMMA MutexStep ==
  TypeOK /\ LockInv /\ WillSleepInv /\ Mutex /\ [Next]_vars => WillSleepInv' /\ Mutex'
<1> SUFFICES ASSUME TypeOK, LockInv, WillSleepInv, Mutex, [Next]_vars
             PROVE  WillSleepInv' /\ Mutex'
  OBVIOUS
<1> USE NoneAssumption DEF TypeOK, LockInv, WillSleepInv, Mutex, Step
<1>1. CASE UNCHANGED vars
  BY <1>1 DEF vars
<1>2. ASSUME NEW p \in Procs, acquiresleep(p) \/ take(p) \/ sleep_reacquire(p)
      PROVE  WillSleepInv' /\ Mutex'
  BY <1>2 DEF acquiresleep, take, sleep_reacquire
<1>3. ASSUME NEW p \in Procs, sleep(p) \/ scheduler(p) PROVE WillSleepInv' /\ Mutex'
  BY <1>3 DEF sleep, sleep_acquire, sleep_release, sleep_state, sched, scheduler
<1>4. ASSUME NEW p \in Procs, releasesleep(p) \/ release_lk(p) \/ kill(p)
      PROVE  WillSleepInv' /\ Mutex'
  BY <1>4 DEF releasesleep, release_lk, kill
<1>5. ASSUME NEW p \in Procs, NEW q \in Procs, wakeup(p, q) PROVE WillSleepInv' /\ Mutex'
  BY <1>5 DEF wakeup
<1> QED BY <1>1, <1>2, <1>3, <1>4, <1>5 DEF Next

(* No step loses a wakeup: releasesleep() queues every sleeper for its     *)
(* wakeup(), and wakeup() cannot pass a process that is on its way to      *)
(* sleep, because that process holds its p->lock.                          *)
LEMMA WakeupStep == IInv /\ [Next]_vars => NoMissedWakeup'
<1> SUFFICES ASSUME IInv, [Next]_vars PROVE NoMissedWakeup'
  OBVIOUS
<1> USE NoneAssumption DEF IInv, TypeOK, NoMissedWakeup, Step
<1>1. CASE UNCHANGED vars
  BY <1>1 DEF vars
<1>2. ASSUME NEW p \in Procs, acquiresleep(p) \/ take(p) \/ sleep_reacquire(p)
      PROVE  NoMissedWakeup'
  BY <1>2 DEF acquiresleep, take, sleep_reacquire
<1>3. ASSUME NEW p \in Procs, sleep(p) \/ scheduler(p) PROVE NoMissedWakeup'
  BY <1>3 DEF sleep, sleep_acquire, sleep_release, sleep_state, sched, scheduler, WillSleepInv
<1>4. ASSUME NEW p \in Procs, releasesleep(p) PROVE NoMissedWakeup'
  BY <1>4 DEF releasesleep, StateInv
<1>5. ASSUME NEW p \in Procs, release_lk(p) \/ kill(p) PROVE NoMissedWakeup'
  BY <1>5 DEF release_lk, kill
<1>6. ASSUME NEW p \in Procs, NEW q \in Procs, wakeup(p, q) PROVE NoMissedWakeup'
  BY <1>6 DEF wakeup, LockInv, StateInv
<1> QED BY <1>1, <1>2, <1>3, <1>4, <1>5, <1>6 DEF Next

(* The invariant holds in every reachable state. *)
THEOREM Invariance == Spec => []IInv
<1>1. IInv /\ [Next]_vars => IInv'
  BY TypeStep, LockStep, StateStep, MutexStep, WakeupStep DEF IInv
<1> QED BY InitIInv, <1>1, PTL DEF Spec

(* Every variable keeps its type. *)
THEOREM TypeCorrect == Spec => []TypeOK
BY Invariance, PTL DEF IInv

(* At most one process holds the sleep-lock, and holdingsleep() knows which. *)
THEOREM MutexCorrect == Spec => []Mutex
BY Invariance, PTL DEF IInv

(* No process sleeps through the release of the lock it waits for. *)
THEOREM WakeupCorrect == Spec => []NoMissedWakeup
BY Invariance, PTL DEF IInv
==============================================================================
