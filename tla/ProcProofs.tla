----------------------------- MODULE ProcProofs ------------------------------
(***************************************************************************)
(* fork(), exit(), wait(), kill() and the scheduler keep processes apart,  *)
(* lose none and leave none uncollected, for every size of the process     *)
(* table and every number of CPUs.                                         *)
(***************************************************************************)
EXTENDS Proc, FiniteSetTheorems, TLAPS

Exiting == {"wakeup_init", "wakeup_parent", "zombie"}
Locking == {"wakeup_init", "wakeup_parent", "zombie", "scan", "sleep"}
Forking == {"fork_parent", "fork_run"}
Places == {"user", "wait"} \cup Locking \cup Forking
States == {"UNUSED", "USED", "SLEEPING", "RUNNABLE", "RUNNING", "ZOMBIE"}

TypeInv ==
  /\ state \in [Slots -> States] /\ pid \in [Slots -> Nat]
  /\ parent \in [Slots -> Slots \cup {None}] /\ killed \in [Slots -> {0, 1}]
  /\ chan \in [Slots -> Slots \cup {None}] /\ xstate \in [Slots -> Status]
  /\ plock \in [Slots -> {0, 1}] /\ wait_lock \in Slots \cup {None}
  /\ nextpid \in Nat /\ cpu \in [CPUs -> Slots \cup {None}]
  /\ pc \in [Slots -> Places] /\ np \in [Slots -> Slots \cup {None}] /\ shell \in Nat
  /\ cause \in [Slots -> Int \cup {None}]

(* What p->state says of where a process is, and what a free slot holds. *)
PlaceInv ==
  \A s \in Slots :
    /\ state[s] = "SLEEPING" => pc[s] = "wait" /\ chan[s] = s
    /\ state[s] = "RUNNABLE" => pc[s] \notin Locking
    /\ state[s] = "ZOMBIE" => pc[s] = "zombie"
    /\ state[s] = "USED" => pc[s] = "user"
    /\ state[s] = "UNUSED" => pc[s] \notin Forking /\ parent[s] = None
    /\ chan[s] # None => chan[s] = s /\ state[s] \in {"SLEEPING", "RUNNABLE"}

(* wait_lock is held in the second half of exit() and in the scan of wait(). *)
LockInv == \A p \in Slots : wait_lock = p <=> state[p] = "RUNNING" /\ pc[p] \in Locking

(* Between allocproc() and fork()'s end the new slot belongs to the forker. *)
ForkInv ==
  /\ \A p \in Slots :
       /\ np[p] # None <=> pc[p] \in Forking
       /\ np[p] # None => state[np[p]] = "USED"
       /\ pc[p] = "fork_run" => parent[np[p]] = p
  /\ \A p, q \in Slots : np[p] # None /\ np[p] = np[q] => p = q

(* A process is on a CPU while it runs, and until the scheduler there has   *)
(* released the p->lock that it went into sched() with.                     *)
CpuInv ==
  /\ \A s \in Slots : OnCpu(s) <=> state[s] = "RUNNING" \/ plock[s] = 1
  /\ \A s \in Slots : plock[s] = 1 => state[s] \in {"RUNNABLE", "SLEEPING", "ZOMBIE"}
  /\ \A c, d \in CPUs : cpu[c] # None /\ cpu[c] = cpu[d] => c = d

(* Who has a parent has one that is not on its way out; init never is. *)
FamilyInv ==
  /\ state[initproc] \in {"SLEEPING", "RUNNABLE", "RUNNING"}
  /\ pc[initproc] \notin Exiting /\ parent[initproc] = None
  /\ \A s \in Slots : parent[s] # None =>
       /\ state[parent[s]] \in {"SLEEPING", "RUNNABLE", "RUNNING"}
       /\ pc[parent[s]] \notin Exiting
  /\ \A s \in Slots \ {initproc} : state[s] \notin {"UNUSED", "USED"} => parent[s] # None

(* With wait_lock a process neither gets a zombie before it sleeps nor       *)
(* sleeps between the wakeup() of its child and the child's last step.       *)
WakeInv ==
  /\ NoMissedExit
  /\ \A p \in Slots : pc[p] = "sleep" => Zombies(p) = {}
  /\ \A q \in Slots : wait_lock = q /\ pc[q] = "zombie" => state[parent[q]] # "SLEEPING"

(* The shell that init waits for is its child until wait() returns it; only  *)
(* kill(1) marks init.                                                       *)
ShellInv ==
  /\ pid[initproc] = 1
  /\ killed[initproc] = 1 => cause[initproc] = 1
  /\ panic = "wait" => killed[initproc] = 1
  /\ pc[initproc] \in {"wait", "scan", "sleep"} => shell # 0
  /\ shell # 0 => \E s \in Children(initproc) : pid[s] = shell /\ state[s] \notin {"UNUSED", "USED"}

(* pids are not used twice, and a free slot has none. *)
PidInv ==
  /\ \A k \in born : k \in Nat /\ k < nextpid
  /\ \A s \in Slots : IF state[s] = "UNUSED" THEN pid[s] = 0 ELSE pid[s] \in born \ {0}
  /\ \A s, t \in Slots : state[s] # "UNUSED" /\ pid[s] = pid[t] => s = t

(* Who is in exited has become a zombie and not come back. *)
ExitInv ==
  /\ exited \subseteq born \X Status
  /\ \A k \in born : \A x, y \in Status : <<k, x>> \in exited /\ <<k, y>> \in exited => x = y
  /\ \A s \in Slots : state[s] = "ZOMBIE" => <<pid[s], xstate[s]>> \in exited
  /\ \A s \in Slots : state[s] \notin {"UNUSED", "ZOMBIE"} => \A x \in Status : <<pid[s], x>> \notin exited

(* Who was born is in the table or was collected. *)
ReapInv ==
  /\ reaped \subseteq exited
  /\ \A k \in born : \/ \E s \in Slots : state[s] # "UNUSED" /\ pid[s] = k
                     \/ \E x \in Status : <<k, x>> \in reaped
  /\ \A s \in Slots : state[s] # "UNUSED" => \A x \in Status : <<pid[s], x>> \notin reaped

IInv == TypeInv /\ PlaceInv /\ LockInv /\ ForkInv /\ CpuInv /\ FamilyInv

(* The inductive invariant holds when userinit() has made init. *)
LEMMA InitIInv == Init => IInv
BY ProcAssumption DEF Init, IInv, TypeInv, PlaceInv, LockInv, ForkInv, CpuInv, FamilyInv, OnCpu, initproc,
   Slots, Status, States, Places, Locking, Forking, Exiting

(* fork() has come to a free slot. *)
Alloc(p, s) ==
  /\ At(p, "user") /\ (p = initproc => shell = 0)
  /\ state[s] = "UNUSED"
  /\ UNCHANGED <<plock, wait_lock, cpu, shell>>

(* fork()'s first step takes a slot, fails after taking one, or finds none. *)
LEMMA AllocCases ==
  ASSUME NEW p \in Slots, allocproc(p)
  PROVE  \/ UNCHANGED <<proc, plock, wait_lock, nextpid, cpu, pc, np, shell, hist>> /\ fork_fails(p)
         \/ \E s \in Slots : Alloc(p, s) /\ found(p, s)
         \/ \E s \in Slots : Alloc(p, s) /\ no_memory(p, s)
<1>1. CASE Free = {} /\ fork_fails(p) /\ UNCHANGED <<proc, nextpid, pc, np, hist>>
  BY <1>1 DEF allocproc
<1>2. ASSUME NEW s \in First(Free), found(p, s) \/ no_memory(p, s)
      PROVE  s \in Slots /\ Alloc(p, s)
  BY DEF allocproc, Alloc, Syscall, First, Free
<1> QED BY <1>1, <1>2 DEF allocproc

(* Every step keeps the variables in their types. *)
LEMMA TypeStep == TypeInv /\ ForkInv /\ [Next]_vars => TypeInv'
<1> SUFFICES ASSUME TypeInv, ForkInv, [Next]_vars PROVE TypeInv'
  OBVIOUS
<1>0. initproc \in Slots
  BY ProcAssumption DEF Slots, initproc
<1> USE <1>0, ProcAssumption DEF TypeInv, States, Places, Locking, Forking, Status, Go, proc, hist
<1>1. CASE UNCHANGED vars
  BY <1>1 DEF vars
<1>2. ASSUME NEW p \in Slots, fork(p) PROVE TypeInv'
  <2>1. ASSUME NEW s \in Slots, Alloc(p, s), found(p, s) PROVE TypeInv'
    BY <2>1 DEF Alloc, found
  <2>2. ASSUME NEW s \in Slots, Alloc(p, s), no_memory(p, s) PROVE TypeInv'
    BY <2>2 DEF Alloc, no_memory, freeproc
  <2>3. CASE allocproc(p)
    BY <2>1, <2>2, <2>3, AllocCases
  <2>4. CASE fork_parent(p)
    BY <2>4 DEF fork_parent
  <2>5. CASE fork_run(p)
    BY <2>5 DEF fork_run, At, ForkInv
  <2> QED BY <1>2, <2>3, <2>4, <2>5 DEF fork
<1>3. ASSUME NEW p \in Slots, exit(p) PROVE TypeInv'
  BY <1>3 DEF exit, reparent
<1>4. ASSUME NEW p \in Slots, exit_rest(p) PROVE TypeInv'
  BY <1>4 DEF exit_rest, wakeup_init, wakeup_parent, exit_zombie, wakeup
<1>5. ASSUME NEW p \in Slots, wait(p) PROVE TypeInv'
  BY <1>5 DEF wait
<1>6. ASSUME NEW p \in Slots, wait_rest(p) PROVE TypeInv'
  BY <1>6 DEF wait_rest, wait_found, wait_none, sleep, First, Zombies, Children, reap, copyout_fails,
     wait_returns, freeproc
<1>7. ASSUME NEW p \in Slots, NEW k \in KillArgs, kill(p, k) PROVE TypeInv'
  BY <1>7 DEF kill, kill_finds
<1>8. ASSUME NEW p \in Slots, setkilled(p) \/ yield(p) \/ sched(p) PROVE TypeInv'
  BY <1>8 DEF setkilled, yield, sched
<1>9. ASSUME NEW p \in Slots, NEW c \in CPUs, scheduler(c, p) PROVE TypeInv'
  BY <1>9 DEF scheduler
<1>10. ASSUME NEW p \in Slots, exit_init(p) PROVE TypeInv'
  BY <1>10 DEF exit_init
<1> QED BY <1>1, <1>2, <1>3, <1>4, <1>5, <1>6, <1>7, <1>8, <1>9, <1>10 DEF Next

(* wait() finds a zombie child that has left its CPU. *)
Scanned(p, s) ==
  /\ At(p, "scan")
  /\ parent[s] = p /\ state[s] = "ZOMBIE" /\ plock[s] = 0
  /\ UNCHANGED <<plock, nextpid, cpu, np, born, exited, cause>>

(* wait_found() collects such a child or fails to copy its status. *)
LEMMA ScanCases ==
  ASSUME NEW p \in Slots, wait_found(p)
  PROVE  \E s \in Slots : Scanned(p, s) /\ (reap(p, s) \/ copyout_fails(p, s))
BY DEF wait_found, Scanned, First, Zombies, Children, pp_lock

(* kill() marks a slot with the pid it looks for, and wakes it. *)
Killed(p, k, s) ==
  /\ At(p, "user") /\ p # initproc
  /\ pid[s] = k /\ plock[s] = 0
  /\ killed' = [killed EXCEPT ![s] = 1]
  /\ state' = IF state[s] = "SLEEPING" THEN [state EXCEPT ![s] = "RUNNABLE"] ELSE state
  /\ cause' = [cause EXCEPT ![s] = k]
  /\ UNCHANGED <<pid, parent, chan, xstate, plock, wait_lock, nextpid, cpu, pc, np, shell,
                 panic, born, exited, reaped>>

(* kill() does this to one slot. *)
LEMMA KillCases ==
  ASSUME NEW p \in Slots, NEW k \in KillArgs, kill(p, k)
  PROVE  \E s \in Slots : Killed(p, k, s)
BY DEF kill, Killed, kill_finds, Syscall

(* init has a slot. *)
LEMMA InitSlot == initproc \in Slots
BY ProcAssumption DEF Slots, initproc

(* Every step keeps p->state in agreement with where the process is. *)
LEMMA PlaceStep == IInv /\ [Next]_vars => PlaceInv'
<1> SUFFICES ASSUME IInv, [Next]_vars PROVE PlaceInv'
  OBVIOUS
<1> USE InitSlot, ProcAssumption DEF IInv, TypeInv, PlaceInv, States, Places, Locking, Forking, Go, At, Running, proc, hist
<1>1. CASE UNCHANGED vars
  BY <1>1 DEF vars
<1>2. ASSUME NEW p \in Slots, fork(p) PROVE PlaceInv'
  <2>1. ASSUME NEW s \in Slots, Alloc(p, s), found(p, s) PROVE PlaceInv'
    BY <2>1 DEF Alloc, found, ForkInv
  <2>2. ASSUME NEW s \in Slots, Alloc(p, s), no_memory(p, s) PROVE PlaceInv'
    BY <2>2 DEF Alloc, no_memory, freeproc
  <2>3. CASE UNCHANGED <<proc, plock, wait_lock, nextpid, cpu, pc, np, shell, hist>> /\ fork_fails(p)
    BY <2>3 DEF fork_fails
  <2>4. CASE fork_parent(p)
    BY <2>4 DEF fork_parent, ForkInv
  <2>5. CASE fork_run(p)
    BY <2>5 DEF fork_run, ForkInv
  <2> HIDE DEF IInv, TypeInv, PlaceInv, States, Places, Locking, Forking, Go, At, Running, proc, hist
  <2> QED BY <1>2, <2>1, <2>2, <2>3, <2>4, <2>5, AllocCases DEF fork
<1>3. ASSUME NEW p \in Slots, exit(p) PROVE PlaceInv'
  BY <1>3 DEF exit, reparent
<1>4. ASSUME NEW p \in Slots, exit_rest(p) PROVE PlaceInv'
  <2>1. CASE wakeup_init(p)
    BY <2>1 DEF wakeup_init, wakeup
  <2>2. CASE wakeup_parent(p)
    BY <2>2 DEF wakeup_parent, wakeup
  <2>3. CASE exit_zombie(p)
    BY <2>3 DEF exit_zombie
  <2> HIDE DEF IInv, TypeInv, PlaceInv, States, Places, Locking, Forking, Go, At, Running, proc, hist
  <2> QED BY <1>4, <2>1, <2>2, <2>3 DEF exit_rest
<1>5. ASSUME NEW p \in Slots, wait(p) PROVE PlaceInv'
  BY <1>5 DEF wait, Syscall
<1>6. ASSUME NEW p \in Slots, wait_rest(p) PROVE PlaceInv'
  <2>1. ASSUME NEW s \in Slots, Scanned(p, s), reap(p, s) PROVE PlaceInv'
    BY <2>1 DEF Scanned, reap, freeproc, wait_returns
  <2>2. ASSUME NEW s \in Slots, Scanned(p, s), copyout_fails(p, s) PROVE PlaceInv'
    BY <2>2 DEF Scanned, copyout_fails, wait_returns
  <2>3. CASE wait_none(p)
    BY <2>3 DEF wait_none, wait_returns
  <2>4. CASE sleep(p)
    BY <2>4 DEF sleep, LockInv
  <2> HIDE DEF IInv, TypeInv, PlaceInv, States, Places, Locking, Forking, Go, At, Running, proc, hist
  <2> QED BY <1>6, <2>1, <2>2, <2>3, <2>4, ScanCases DEF wait_rest
<1>7. ASSUME NEW p \in Slots, NEW k \in KillArgs, kill(p, k) PROVE PlaceInv'
  <2>1. PICK s \in Slots : Killed(p, k, s)
    BY <1>7, KillCases
  <2> QED BY <2>1 DEF Killed
<1>8. ASSUME NEW p \in Slots, setkilled(p) \/ yield(p) \/ sched(p) PROVE PlaceInv'
  <2>1. CASE setkilled(p)
    BY <2>1 DEF setkilled, Syscall
  <2>2. CASE yield(p)
    BY <2>2 DEF yield, LockInv
  <2>3. CASE sched(p)
    BY <2>3 DEF sched
  <2> HIDE DEF IInv, TypeInv, PlaceInv, States, Places, Locking, Forking, Go, At, Running, proc, hist
  <2> QED BY <1>8, <2>1, <2>2, <2>3
<1>9. ASSUME NEW p \in Slots, NEW c \in CPUs, scheduler(c, p) PROVE PlaceInv'
  BY <1>9 DEF scheduler
<1>10. ASSUME NEW p \in Slots, exit_init(p) PROVE PlaceInv'
  BY <1>10 DEF exit_init
<1> HIDE DEF IInv, TypeInv, PlaceInv, States, Places, Locking, Forking, Go, At, Running, proc, hist
<1> QED BY <1>1, <1>2, <1>3, <1>4, <1>5, <1>6, <1>7, <1>8, <1>9, <1>10 DEF Next

(* Every step keeps wait_lock with the process that is inside exit() or wait(). *)
LEMMA LockStep == IInv /\ [Next]_vars => LockInv'
<1> SUFFICES ASSUME IInv, [Next]_vars PROVE LockInv'
  OBVIOUS
<1> USE InitSlot, ProcAssumption DEF IInv, TypeInv, PlaceInv, LockInv, States, Places, Locking, Forking, Go, At, Running, proc, hist
<1>1. CASE UNCHANGED vars
  BY <1>1 DEF vars
<1>2. ASSUME NEW p \in Slots, fork(p) PROVE LockInv'
  <2>1. ASSUME NEW s \in Slots, Alloc(p, s), found(p, s) PROVE LockInv'
    BY <2>1 DEF Alloc, found
  <2>2. ASSUME NEW s \in Slots, Alloc(p, s), no_memory(p, s) PROVE LockInv'
    BY <2>2 DEF Alloc, no_memory, freeproc
  <2>3. CASE UNCHANGED <<proc, plock, wait_lock, nextpid, cpu, pc, np, shell, hist>> /\ fork_fails(p)
    BY <2>3 DEF fork_fails
  <2>4. CASE fork_parent(p)
    BY <2>4 DEF fork_parent, ForkInv
  <2>5. CASE fork_run(p)
    BY <2>5 DEF fork_run, ForkInv
  <2> HIDE DEF IInv, TypeInv, PlaceInv, LockInv, States, Places, Locking, Forking, Go, At, Running, proc, hist
  <2> QED BY <1>2, <2>1, <2>2, <2>3, <2>4, <2>5, AllocCases DEF fork
<1>3. ASSUME NEW p \in Slots, exit(p) PROVE LockInv'
  BY <1>3 DEF exit, reparent
<1>4. ASSUME NEW p \in Slots, exit_rest(p) PROVE LockInv'
  <2>1. CASE wakeup_init(p)
    BY <2>1 DEF wakeup_init, wakeup
  <2>2. CASE wakeup_parent(p)
    BY <2>2 DEF wakeup_parent, wakeup
  <2>3. CASE exit_zombie(p)
    BY <2>3 DEF exit_zombie
  <2> HIDE DEF IInv, TypeInv, PlaceInv, LockInv, States, Places, Locking, Forking, Go, At, Running, proc, hist
  <2> QED BY <1>4, <2>1, <2>2, <2>3 DEF exit_rest
<1>5. ASSUME NEW p \in Slots, wait(p) PROVE LockInv'
  BY <1>5 DEF wait, Syscall
<1>6. ASSUME NEW p \in Slots, wait_rest(p) PROVE LockInv'
  <2>1. ASSUME NEW s \in Slots, Scanned(p, s), reap(p, s) PROVE LockInv'
    BY <2>1 DEF Scanned, reap, freeproc, wait_returns
  <2>2. ASSUME NEW s \in Slots, Scanned(p, s), copyout_fails(p, s) PROVE LockInv'
    BY <2>2 DEF Scanned, copyout_fails, wait_returns
  <2>3. CASE wait_none(p)
    BY <2>3 DEF wait_none, wait_returns
  <2>4. CASE sleep(p)
    BY <2>4 DEF sleep
  <2> HIDE DEF IInv, TypeInv, PlaceInv, LockInv, States, Places, Locking, Forking, Go, At, Running, proc, hist
  <2> QED BY <1>6, <2>1, <2>2, <2>3, <2>4, ScanCases DEF wait_rest
<1>7. ASSUME NEW p \in Slots, NEW k \in KillArgs, kill(p, k) PROVE LockInv'
  <2>1. PICK s \in Slots : Killed(p, k, s)
    BY <1>7, KillCases
  <2> QED BY <2>1 DEF Killed
<1>8. ASSUME NEW p \in Slots, setkilled(p) \/ yield(p) \/ sched(p) PROVE LockInv'
  <2>1. CASE setkilled(p)
    BY <2>1 DEF setkilled, Syscall
  <2>2. CASE yield(p)
    BY <2>2 DEF yield
  <2>3. CASE sched(p)
    BY <2>3 DEF sched
  <2> HIDE DEF IInv, TypeInv, PlaceInv, LockInv, States, Places, Locking, Forking, Go, At, Running, proc, hist
  <2> QED BY <1>8, <2>1, <2>2, <2>3
<1>9. ASSUME NEW p \in Slots, NEW c \in CPUs, scheduler(c, p) PROVE LockInv'
  BY <1>9 DEF scheduler
<1>10. ASSUME NEW p \in Slots, exit_init(p) PROVE LockInv'
  BY <1>10 DEF exit_init
<1> HIDE DEF IInv, TypeInv, PlaceInv, LockInv, States, Places, Locking, Forking, Go, At, Running, proc, hist
<1> QED BY <1>1, <1>2, <1>3, <1>4, <1>5, <1>6, <1>7, <1>8, <1>9, <1>10 DEF Next

(* Every step leaves a slot that is being set up to the process that forks. *)
LEMMA ForkStep == IInv /\ [Next]_vars => ForkInv'
<1> SUFFICES ASSUME IInv, [Next]_vars PROVE ForkInv'
  OBVIOUS
<1> USE InitSlot, ProcAssumption DEF IInv, TypeInv, PlaceInv, ForkInv, States, Places, Locking, Forking, Go, At, Running, proc, hist
<1>1. CASE UNCHANGED vars
  BY <1>1 DEF vars
<1>2. ASSUME NEW p \in Slots, fork(p) PROVE ForkInv'
  <2>1. ASSUME NEW s \in Slots, Alloc(p, s), found(p, s) PROVE ForkInv'
    BY <2>1 DEF Alloc, found
  <2>2. ASSUME NEW s \in Slots, Alloc(p, s), no_memory(p, s) PROVE ForkInv'
    BY <2>2 DEF Alloc, no_memory, freeproc
  <2>3. CASE UNCHANGED <<proc, plock, wait_lock, nextpid, cpu, pc, np, shell, hist>> /\ fork_fails(p)
    BY <2>3 DEF fork_fails
  <2>4. CASE fork_parent(p)
    BY <2>4 DEF fork_parent
  <2>5. CASE fork_run(p)
    BY <2>5 DEF fork_run
  <2> HIDE DEF IInv, TypeInv, PlaceInv, ForkInv, States, Places, Locking, Forking, Go, At, Running, proc, hist
  <2> QED BY <1>2, <2>1, <2>2, <2>3, <2>4, <2>5, AllocCases DEF fork
<1>3. ASSUME NEW p \in Slots, exit(p) PROVE ForkInv'
  BY <1>3 DEF exit, reparent
<1>4. ASSUME NEW p \in Slots, exit_rest(p) PROVE ForkInv'
  <2>1. CASE wakeup_init(p)
    BY <2>1 DEF wakeup_init, wakeup
  <2>2. CASE wakeup_parent(p)
    BY <2>2 DEF wakeup_parent, wakeup
  <2>3. CASE exit_zombie(p)
    BY <2>3 DEF exit_zombie
  <2> HIDE DEF IInv, TypeInv, PlaceInv, ForkInv, States, Places, Locking, Forking, Go, At, Running, proc, hist
  <2> QED BY <1>4, <2>1, <2>2, <2>3 DEF exit_rest
<1>5. ASSUME NEW p \in Slots, wait(p) PROVE ForkInv'
  BY <1>5 DEF wait, Syscall
<1>6. ASSUME NEW p \in Slots, wait_rest(p) PROVE ForkInv'
  <2>1. ASSUME NEW s \in Slots, Scanned(p, s), reap(p, s) PROVE ForkInv'
    BY <2>1 DEF Scanned, reap, freeproc, wait_returns
  <2>2. ASSUME NEW s \in Slots, Scanned(p, s), copyout_fails(p, s) PROVE ForkInv'
    BY <2>2 DEF Scanned, copyout_fails, wait_returns
  <2>3. CASE wait_none(p)
    BY <2>3 DEF wait_none, wait_returns
  <2>4. CASE sleep(p)
    BY <2>4 DEF sleep
  <2> HIDE DEF IInv, TypeInv, PlaceInv, ForkInv, States, Places, Locking, Forking, Go, At, Running, proc, hist
  <2> QED BY <1>6, <2>1, <2>2, <2>3, <2>4, ScanCases DEF wait_rest
<1>7. ASSUME NEW p \in Slots, NEW k \in KillArgs, kill(p, k) PROVE ForkInv'
  <2>1. PICK s \in Slots : Killed(p, k, s)
    BY <1>7, KillCases
  <2> QED BY <2>1 DEF Killed
<1>8. ASSUME NEW p \in Slots, setkilled(p) \/ yield(p) \/ sched(p) PROVE ForkInv'
  <2>1. CASE setkilled(p)
    BY <2>1 DEF setkilled, Syscall
  <2>2. CASE yield(p)
    BY <2>2 DEF yield
  <2>3. CASE sched(p)
    BY <2>3 DEF sched
  <2> HIDE DEF IInv, TypeInv, PlaceInv, ForkInv, States, Places, Locking, Forking, Go, At, Running, proc, hist
  <2> QED BY <1>8, <2>1, <2>2, <2>3
<1>9. ASSUME NEW p \in Slots, NEW c \in CPUs, scheduler(c, p) PROVE ForkInv'
  BY <1>9 DEF scheduler
<1>10. ASSUME NEW p \in Slots, exit_init(p) PROVE ForkInv'
  BY <1>10 DEF exit_init
<1> HIDE DEF IInv, TypeInv, PlaceInv, ForkInv, States, Places, Locking, Forking, Go, At, Running, proc, hist
<1> QED BY <1>1, <1>2, <1>3, <1>4, <1>5, <1>6, <1>7, <1>8, <1>9, <1>10 DEF Next

(* Every step keeps a process on at most one CPU. *)
LEMMA CpuStep == IInv /\ [Next]_vars => CpuInv'
<1> SUFFICES ASSUME IInv, [Next]_vars PROVE CpuInv'
  OBVIOUS
<1> USE InitSlot, ProcAssumption DEF IInv, TypeInv, CpuInv, OnCpu, States, Go, At, Running, proc, hist
<1>1. CASE UNCHANGED vars
  BY <1>1 DEF vars
<1>2. ASSUME NEW p \in Slots, fork(p) PROVE CpuInv'
  <2>1. ASSUME NEW s \in Slots, Alloc(p, s), found(p, s) PROVE CpuInv'
    BY <2>1 DEF Alloc, found
  <2>2. ASSUME NEW s \in Slots, Alloc(p, s), no_memory(p, s) PROVE CpuInv'
    BY <2>2 DEF Alloc, no_memory, freeproc
  <2>3. CASE UNCHANGED <<proc, plock, wait_lock, nextpid, cpu, pc, np, shell, hist>> /\ fork_fails(p)
    BY <2>3 DEF fork_fails
  <2>4. CASE fork_parent(p)
    BY <2>4 DEF fork_parent, ForkInv, Forking
  <2>5. CASE fork_run(p)
    BY <2>5 DEF fork_run, ForkInv, Forking
  <2> HIDE DEF IInv, TypeInv, CpuInv, OnCpu, States, Go, At, Running, proc, hist
  <2> QED BY <1>2, <2>1, <2>2, <2>3, <2>4, <2>5, AllocCases DEF fork
<1>3. ASSUME NEW p \in Slots, exit(p) PROVE CpuInv'
  BY <1>3 DEF exit, reparent
<1>4. ASSUME NEW p \in Slots, exit_rest(p) PROVE CpuInv'
  <2>1. CASE wakeup_init(p)
    BY <2>1 DEF wakeup_init, wakeup, PlaceInv
  <2>2. CASE wakeup_parent(p)
    BY <2>2 DEF wakeup_parent, wakeup, PlaceInv
  <2>3. CASE exit_zombie(p)
    BY <2>3 DEF exit_zombie
  <2> HIDE DEF IInv, TypeInv, CpuInv, OnCpu, States, Go, At, Running, proc, hist
  <2> QED BY <1>4, <2>1, <2>2, <2>3 DEF exit_rest
<1>5. ASSUME NEW p \in Slots, wait(p) PROVE CpuInv'
  BY <1>5 DEF wait, Syscall
<1>6. ASSUME NEW p \in Slots, wait_rest(p) PROVE CpuInv'
  <2>1. ASSUME NEW s \in Slots, Scanned(p, s), reap(p, s) PROVE CpuInv'
    BY <2>1 DEF Scanned, reap, freeproc, wait_returns
  <2>2. ASSUME NEW s \in Slots, Scanned(p, s), copyout_fails(p, s) PROVE CpuInv'
    BY <2>2 DEF Scanned, copyout_fails, wait_returns
  <2>3. CASE wait_none(p)
    BY <2>3 DEF wait_none, wait_returns
  <2>4. CASE sleep(p)
    BY <2>4 DEF sleep
  <2> HIDE DEF IInv, TypeInv, CpuInv, OnCpu, States, Go, At, Running, proc, hist
  <2> QED BY <1>6, <2>1, <2>2, <2>3, <2>4, ScanCases DEF wait_rest
<1>7. ASSUME NEW p \in Slots, NEW k \in KillArgs, kill(p, k) PROVE CpuInv'
  <2>1. PICK s \in Slots : Killed(p, k, s)
    BY <1>7, KillCases
  <2> QED BY <2>1 DEF Killed
<1>8. ASSUME NEW p \in Slots, setkilled(p) \/ yield(p) \/ sched(p) PROVE CpuInv'
  <2>1. CASE setkilled(p)
    BY <2>1 DEF setkilled, Syscall
  <2>2. CASE yield(p)
    BY <2>2 DEF yield
  <2>3. CASE sched(p)
    BY <2>3 DEF sched
  <2> HIDE DEF IInv, TypeInv, CpuInv, OnCpu, States, Go, At, Running, proc, hist
  <2> QED BY <1>8, <2>1, <2>2, <2>3
<1>9. ASSUME NEW p \in Slots, NEW c \in CPUs, scheduler(c, p) PROVE CpuInv'
  BY <1>9 DEF scheduler
<1>10. ASSUME NEW p \in Slots, exit_init(p) PROVE CpuInv'
  BY <1>10 DEF exit_init
<1> HIDE DEF IInv, TypeInv, CpuInv, OnCpu, States, Go, At, Running, proc, hist
<1> QED BY <1>1, <1>2, <1>3, <1>4, <1>5, <1>6, <1>7, <1>8, <1>9, <1>10 DEF Next

(* Every step leaves every process with a parent that has not exited. *)
LEMMA FamilyStep == IInv /\ [Next]_vars => FamilyInv'
<1> SUFFICES ASSUME IInv, [Next]_vars PROVE FamilyInv'
  OBVIOUS
<1> USE InitSlot, ProcAssumption DEF IInv, TypeInv, PlaceInv, FamilyInv, States, Places, Locking, Forking, Exiting, Go, At, Running, proc, hist
<1>1. CASE UNCHANGED vars
  BY <1>1 DEF vars
<1>2. ASSUME NEW p \in Slots, fork(p) PROVE FamilyInv'
  <2>1. ASSUME NEW s \in Slots, Alloc(p, s), found(p, s) PROVE FamilyInv'
    BY <2>1 DEF Alloc, found
  <2>2. ASSUME NEW s \in Slots, Alloc(p, s), no_memory(p, s) PROVE FamilyInv'
    BY <2>2 DEF Alloc, no_memory, freeproc
  <2>3. CASE UNCHANGED <<proc, plock, wait_lock, nextpid, cpu, pc, np, shell, hist>> /\ fork_fails(p)
    BY <2>3 DEF fork_fails
  <2>4. CASE fork_parent(p)
    BY <2>4 DEF fork_parent, ForkInv
  <2>5. CASE fork_run(p)
    BY <2>5 DEF fork_run, ForkInv
  <2> HIDE DEF IInv, TypeInv, PlaceInv, FamilyInv, States, Places, Locking, Forking, Exiting, Go, At, Running, proc, hist
  <2> QED BY <1>2, <2>1, <2>2, <2>3, <2>4, <2>5, AllocCases DEF fork
<1>3. ASSUME NEW p \in Slots, exit(p) PROVE FamilyInv'
  BY <1>3 DEF exit, reparent
<1>4. ASSUME NEW p \in Slots, exit_rest(p) PROVE FamilyInv'
  <2>1. CASE wakeup_init(p)
    BY <2>1 DEF wakeup_init, wakeup
  <2>2. CASE wakeup_parent(p)
    BY <2>2 DEF wakeup_parent, wakeup
  <2>3. CASE exit_zombie(p)
    BY <2>3 DEF exit_zombie
  <2> HIDE DEF IInv, TypeInv, PlaceInv, FamilyInv, States, Places, Locking, Forking, Exiting, Go, At, Running, proc, hist
  <2> QED BY <1>4, <2>1, <2>2, <2>3 DEF exit_rest
<1>5. ASSUME NEW p \in Slots, wait(p) PROVE FamilyInv'
  BY <1>5 DEF wait, Syscall
<1>6. ASSUME NEW p \in Slots, wait_rest(p) PROVE FamilyInv'
  <2>1. ASSUME NEW s \in Slots, Scanned(p, s), reap(p, s) PROVE FamilyInv'
    BY <2>1 DEF Scanned, reap, freeproc, wait_returns
  <2>2. ASSUME NEW s \in Slots, Scanned(p, s), copyout_fails(p, s) PROVE FamilyInv'
    BY <2>2 DEF Scanned, copyout_fails, wait_returns
  <2>3. CASE wait_none(p)
    BY <2>3 DEF wait_none, wait_returns
  <2>4. CASE sleep(p)
    BY <2>4 DEF sleep
  <2> HIDE DEF IInv, TypeInv, PlaceInv, FamilyInv, States, Places, Locking, Forking, Exiting, Go, At, Running, proc, hist
  <2> QED BY <1>6, <2>1, <2>2, <2>3, <2>4, ScanCases DEF wait_rest
<1>7. ASSUME NEW p \in Slots, NEW k \in KillArgs, kill(p, k) PROVE FamilyInv'
  <2>1. PICK s \in Slots : Killed(p, k, s)
    BY <1>7, KillCases
  <2> QED BY <2>1 DEF Killed
<1>8. ASSUME NEW p \in Slots, setkilled(p) \/ yield(p) \/ sched(p) PROVE FamilyInv'
  <2>1. CASE setkilled(p)
    BY <2>1 DEF setkilled, Syscall
  <2>2. CASE yield(p)
    BY <2>2 DEF yield
  <2>3. CASE sched(p)
    BY <2>3 DEF sched
  <2> HIDE DEF IInv, TypeInv, PlaceInv, FamilyInv, States, Places, Locking, Forking, Exiting, Go, At, Running, proc, hist
  <2> QED BY <1>8, <2>1, <2>2, <2>3
<1>9. ASSUME NEW p \in Slots, NEW c \in CPUs, scheduler(c, p) PROVE FamilyInv'
  BY <1>9 DEF scheduler
<1>10. ASSUME NEW p \in Slots, exit_init(p) PROVE FamilyInv'
  BY <1>10 DEF exit_init
<1> HIDE DEF IInv, TypeInv, PlaceInv, FamilyInv, States, Places, Locking, Forking, Exiting, Go, At, Running, proc, hist
<1> QED BY <1>1, <1>2, <1>3, <1>4, <1>5, <1>6, <1>7, <1>8, <1>9, <1>10 DEF Next

(* Every step that makes a process the parent of a zombie wakes it, and none    *)
(* puts it to sleep beside one.                                                *)
LEMMA WakeStep == IInv /\ WakeInv /\ [Next]_vars => WakeInv'
<1> SUFFICES ASSUME IInv, WakeInv, [Next]_vars PROVE WakeInv'
  OBVIOUS
<1> USE InitSlot, ProcAssumption DEF IInv, TypeInv, PlaceInv, LockInv, FamilyInv, WakeInv, NoMissedExit, Zombies, Children, States, Places, Locking, Forking, Exiting, Go, At, Running, proc, hist
<1>1. CASE UNCHANGED vars
  BY <1>1 DEF vars
<1>2. ASSUME NEW p \in Slots, fork(p) PROVE WakeInv'
  <2>1. ASSUME NEW s \in Slots, Alloc(p, s), found(p, s) PROVE WakeInv'
    BY <2>1 DEF Alloc, found
  <2>2. ASSUME NEW s \in Slots, Alloc(p, s), no_memory(p, s) PROVE WakeInv'
    BY <2>2 DEF Alloc, no_memory, freeproc
  <2>3. CASE UNCHANGED <<proc, plock, wait_lock, nextpid, cpu, pc, np, shell, hist>> /\ fork_fails(p)
    BY <2>3 DEF fork_fails
  <2>4. CASE fork_parent(p)
    BY <2>4 DEF fork_parent, ForkInv
  <2>5. CASE fork_run(p)
    BY <2>5 DEF fork_run, ForkInv
  <2> HIDE DEF IInv, TypeInv, PlaceInv, LockInv, FamilyInv, WakeInv, NoMissedExit, Zombies, Children, States, Places, Locking, Forking, Exiting, Go, At, Running, proc, hist
  <2> QED BY <1>2, <2>1, <2>2, <2>3, <2>4, <2>5, AllocCases DEF fork
<1>3. ASSUME NEW p \in Slots, exit(p) PROVE WakeInv'
  BY <1>3 DEF exit, reparent
<1>4. ASSUME NEW p \in Slots, exit_rest(p) PROVE WakeInv'
  <2>1. CASE wakeup_init(p)
    BY <2>1 DEF wakeup_init, wakeup
  <2>2. CASE wakeup_parent(p)
    BY <2>2 DEF wakeup_parent, wakeup
  <2>3. CASE exit_zombie(p)
    BY <2>3 DEF exit_zombie
  <2> HIDE DEF IInv, TypeInv, PlaceInv, LockInv, FamilyInv, WakeInv, NoMissedExit, Zombies, Children, States, Places, Locking, Forking, Exiting, Go, At, Running, proc, hist
  <2> QED BY <1>4, <2>1, <2>2, <2>3 DEF exit_rest
<1>5. ASSUME NEW p \in Slots, wait(p) PROVE WakeInv'
  BY <1>5 DEF wait, Syscall
<1>6. ASSUME NEW p \in Slots, wait_rest(p) PROVE WakeInv'
  <2>1. ASSUME NEW s \in Slots, Scanned(p, s), reap(p, s) PROVE WakeInv'
    BY <2>1 DEF Scanned, reap, freeproc, wait_returns
  <2>2. ASSUME NEW s \in Slots, Scanned(p, s), copyout_fails(p, s) PROVE WakeInv'
    BY <2>2 DEF Scanned, copyout_fails, wait_returns
  <2>3. CASE wait_none(p)
    BY <2>3 DEF wait_none, wait_returns
  <2>4. CASE sleep(p)
    BY <2>4 DEF sleep
  <2> HIDE DEF IInv, TypeInv, PlaceInv, LockInv, FamilyInv, WakeInv, NoMissedExit, Zombies, Children, States, Places, Locking, Forking, Exiting, Go, At, Running, proc, hist
  <2> QED BY <1>6, <2>1, <2>2, <2>3, <2>4, ScanCases DEF wait_rest
<1>7. ASSUME NEW p \in Slots, NEW k \in KillArgs, kill(p, k) PROVE WakeInv'
  <2>1. PICK s \in Slots : Killed(p, k, s)
    BY <1>7, KillCases
  <2> QED BY <2>1 DEF Killed
<1>8. ASSUME NEW p \in Slots, setkilled(p) \/ yield(p) \/ sched(p) PROVE WakeInv'
  <2>1. CASE setkilled(p)
    BY <2>1 DEF setkilled, Syscall
  <2>2. CASE yield(p)
    BY <2>2 DEF yield
  <2>3. CASE sched(p)
    BY <2>3 DEF sched
  <2> HIDE DEF IInv, TypeInv, PlaceInv, LockInv, FamilyInv, WakeInv, NoMissedExit, Zombies, Children, States, Places, Locking, Forking, Exiting, Go, At, Running, proc, hist
  <2> QED BY <1>8, <2>1, <2>2, <2>3
<1>9. ASSUME NEW p \in Slots, NEW c \in CPUs, scheduler(c, p) PROVE WakeInv'
  BY <1>9 DEF scheduler
<1>10. ASSUME NEW p \in Slots, exit_init(p) PROVE WakeInv'
  BY <1>10 DEF exit_init
<1> HIDE DEF IInv, TypeInv, PlaceInv, LockInv, FamilyInv, WakeInv, NoMissedExit, Zombies, Children, States, Places, Locking, Forking, Exiting, Go, At, Running, proc, hist
<1> QED BY <1>1, <1>2, <1>3, <1>4, <1>5, <1>6, <1>7, <1>8, <1>9, <1>10 DEF Next

(* Every step leaves init with the child it waits for. *)
LEMMA ShellStep == IInv /\ PidInv /\ ShellInv /\ [Next]_vars => ShellInv'
<1> SUFFICES ASSUME IInv, PidInv, ShellInv, [Next]_vars PROVE ShellInv'
  OBVIOUS
<1> USE InitSlot, ProcAssumption DEF IInv, TypeInv, PlaceInv, FamilyInv, ShellInv, Children, States, Places, Locking, Forking, Exiting, Go, At, Running, proc, hist
<1>1. CASE UNCHANGED vars
  BY <1>1 DEF vars
<1>2. ASSUME NEW p \in Slots, fork(p) PROVE ShellInv'
  <2>1. ASSUME NEW s \in Slots, Alloc(p, s), found(p, s) PROVE ShellInv'
    BY <2>1 DEF Alloc, found
  <2>2. ASSUME NEW s \in Slots, Alloc(p, s), no_memory(p, s) PROVE ShellInv'
    BY <2>2 DEF Alloc, no_memory, freeproc, fork_fails
  <2>3. CASE UNCHANGED <<proc, plock, wait_lock, nextpid, cpu, pc, np, shell, hist>> /\ fork_fails(p)
    BY <2>3 DEF fork_fails
  <2>4. CASE fork_parent(p)
    BY <2>4 DEF fork_parent, ForkInv
  <2>5. CASE fork_run(p)
    BY <2>5 DEF fork_run, ForkInv, PidInv
  <2> HIDE DEF IInv, TypeInv, PlaceInv, FamilyInv, ShellInv, Children, States, Places, Locking, Forking, Exiting, Go, At, Running, proc, hist
  <2> QED BY <1>2, <2>1, <2>2, <2>3, <2>4, <2>5, AllocCases DEF fork
<1>3. ASSUME NEW p \in Slots, exit(p) PROVE ShellInv'
  BY <1>3 DEF exit, reparent
<1>4. ASSUME NEW p \in Slots, exit_rest(p) PROVE ShellInv'
  <2>1. CASE wakeup_init(p)
    BY <2>1 DEF wakeup_init, wakeup
  <2>2. CASE wakeup_parent(p)
    BY <2>2 DEF wakeup_parent, wakeup
  <2>3. CASE exit_zombie(p)
    BY <2>3 DEF exit_zombie
  <2> HIDE DEF IInv, TypeInv, PlaceInv, FamilyInv, ShellInv, Children, States, Places, Locking, Forking, Exiting, Go, At, Running, proc, hist
  <2> QED BY <1>4, <2>1, <2>2, <2>3 DEF exit_rest
<1>5. ASSUME NEW p \in Slots, wait(p) PROVE ShellInv'
  BY <1>5 DEF wait, Syscall
<1>6. ASSUME NEW p \in Slots, wait_rest(p) PROVE ShellInv'
  <2>1. ASSUME NEW s \in Slots, Scanned(p, s), reap(p, s) PROVE ShellInv'
    BY <2>1 DEF Scanned, reap, freeproc, wait_returns
  <2>2. ASSUME NEW s \in Slots, Scanned(p, s), copyout_fails(p, s) PROVE ShellInv'
    BY <2>2 DEF Scanned, copyout_fails, wait_returns
  <2>3. CASE wait_none(p)
    BY <2>3 DEF wait_none, wait_returns
  <2>4. CASE sleep(p)
    BY <2>4 DEF sleep
  <2> HIDE DEF IInv, TypeInv, PlaceInv, FamilyInv, ShellInv, Children, States, Places, Locking, Forking, Exiting, Go, At, Running, proc, hist
  <2> QED BY <1>6, <2>1, <2>2, <2>3, <2>4, ScanCases DEF wait_rest
<1>7. ASSUME NEW p \in Slots, NEW k \in KillArgs, kill(p, k) PROVE ShellInv'
  <2>1. PICK s \in Slots : Killed(p, k, s)
    BY <1>7, KillCases
  <2> QED BY <2>1 DEF Killed
<1>8. ASSUME NEW p \in Slots, setkilled(p) \/ yield(p) \/ sched(p) PROVE ShellInv'
  <2>1. CASE setkilled(p)
    BY <2>1 DEF setkilled, Syscall
  <2>2. CASE yield(p)
    BY <2>2 DEF yield
  <2>3. CASE sched(p)
    BY <2>3 DEF sched
  <2> HIDE DEF IInv, TypeInv, PlaceInv, FamilyInv, ShellInv, Children, States, Places, Locking, Forking, Exiting, Go, At, Running, proc, hist
  <2> QED BY <1>8, <2>1, <2>2, <2>3
<1>9. ASSUME NEW p \in Slots, NEW c \in CPUs, scheduler(c, p) PROVE ShellInv'
  BY <1>9 DEF scheduler
<1>10. ASSUME NEW p \in Slots, exit_init(p) PROVE ShellInv'
  BY <1>10 DEF exit_init
<1> HIDE DEF IInv, TypeInv, PlaceInv, FamilyInv, ShellInv, Children, States, Places, Locking, Forking, Exiting, Go, At, Running, proc, hist
<1> QED BY <1>1, <1>2, <1>3, <1>4, <1>5, <1>6, <1>7, <1>8, <1>9, <1>10 DEF Next

(* Every step keeps pids apart. *)
LEMMA PidStep == IInv /\ PidInv /\ [Next]_vars => PidInv'
<1> SUFFICES ASSUME IInv, PidInv, [Next]_vars PROVE PidInv'
  OBVIOUS
<1> USE InitSlot, ProcAssumption DEF IInv, TypeInv, PidInv, Go, At, Running, proc, hist
<1>1. CASE UNCHANGED vars
  BY <1>1 DEF vars
<1>2. ASSUME NEW p \in Slots, fork(p) PROVE PidInv'
  <2>1. ASSUME NEW s \in Slots, Alloc(p, s), found(p, s) PROVE PidInv'
    BY <2>1 DEF Alloc, found
  <2>2. ASSUME NEW s \in Slots, Alloc(p, s), no_memory(p, s) PROVE PidInv'
    BY <2>2 DEF Alloc, no_memory, freeproc
  <2>3. CASE UNCHANGED <<proc, plock, wait_lock, nextpid, cpu, pc, np, shell, hist>> /\ fork_fails(p)
    BY <2>3 DEF fork_fails
  <2>4. CASE fork_parent(p)
    BY <2>4 DEF fork_parent, ForkInv, Forking
  <2>5. CASE fork_run(p)
    BY <2>5 DEF fork_run, ForkInv, Forking
  <2> HIDE DEF IInv, TypeInv, PidInv, Go, At, Running, proc, hist
  <2> QED BY <1>2, <2>1, <2>2, <2>3, <2>4, <2>5, AllocCases DEF fork
<1>3. ASSUME NEW p \in Slots, exit(p) PROVE PidInv'
  BY <1>3 DEF exit, reparent
<1>4. ASSUME NEW p \in Slots, exit_rest(p) PROVE PidInv'
  <2>1. CASE wakeup_init(p)
    BY <2>1 DEF wakeup_init, wakeup
  <2>2. CASE wakeup_parent(p)
    BY <2>2 DEF wakeup_parent, wakeup
  <2>3. CASE exit_zombie(p)
    BY <2>3 DEF exit_zombie
  <2> HIDE DEF IInv, TypeInv, PidInv, Go, At, Running, proc, hist
  <2> QED BY <1>4, <2>1, <2>2, <2>3 DEF exit_rest
<1>5. ASSUME NEW p \in Slots, wait(p) PROVE PidInv'
  BY <1>5 DEF wait, Syscall
<1>6. ASSUME NEW p \in Slots, wait_rest(p) PROVE PidInv'
  <2>1. ASSUME NEW s \in Slots, Scanned(p, s), reap(p, s) PROVE PidInv'
    BY <2>1 DEF Scanned, reap, freeproc, wait_returns
  <2>2. ASSUME NEW s \in Slots, Scanned(p, s), copyout_fails(p, s) PROVE PidInv'
    BY <2>2 DEF Scanned, copyout_fails, wait_returns
  <2>3. CASE wait_none(p)
    BY <2>3 DEF wait_none, wait_returns
  <2>4. CASE sleep(p)
    BY <2>4 DEF sleep
  <2> HIDE DEF IInv, TypeInv, PidInv, Go, At, Running, proc, hist
  <2> QED BY <1>6, <2>1, <2>2, <2>3, <2>4, ScanCases DEF wait_rest
<1>7. ASSUME NEW p \in Slots, NEW k \in KillArgs, kill(p, k) PROVE PidInv'
  <2>1. PICK s \in Slots : Killed(p, k, s)
    BY <1>7, KillCases
  <2> QED BY <2>1 DEF Killed
<1>8. ASSUME NEW p \in Slots, setkilled(p) \/ yield(p) \/ sched(p) PROVE PidInv'
  <2>1. CASE setkilled(p)
    BY <2>1 DEF setkilled, Syscall
  <2>2. CASE yield(p)
    BY <2>2 DEF yield
  <2>3. CASE sched(p)
    BY <2>3 DEF sched
  <2> HIDE DEF IInv, TypeInv, PidInv, Go, At, Running, proc, hist
  <2> QED BY <1>8, <2>1, <2>2, <2>3
<1>9. ASSUME NEW p \in Slots, NEW c \in CPUs, scheduler(c, p) PROVE PidInv'
  BY <1>9 DEF scheduler
<1>10. ASSUME NEW p \in Slots, exit_init(p) PROVE PidInv'
  BY <1>10 DEF exit_init
<1> HIDE DEF IInv, TypeInv, PidInv, Go, At, Running, proc, hist
<1> QED BY <1>1, <1>2, <1>3, <1>4, <1>5, <1>6, <1>7, <1>8, <1>9, <1>10 DEF Next

(* Every step keeps one exit status for every process that has exited. *)
LEMMA ExitStep == IInv /\ PidInv /\ ExitInv /\ [Next]_vars => ExitInv'
<1> SUFFICES ASSUME IInv, PidInv, ExitInv, [Next]_vars PROVE ExitInv'
  OBVIOUS
<1> USE InitSlot, ProcAssumption DEF IInv, TypeInv, PidInv, ExitInv, Go, At, Running, proc, hist
<1>1. CASE UNCHANGED vars
  BY <1>1 DEF vars
<1>2. ASSUME NEW p \in Slots, fork(p) PROVE ExitInv'
  <2>1. ASSUME NEW s \in Slots, Alloc(p, s), found(p, s) PROVE ExitInv'
    BY <2>1 DEF Alloc, found
  <2>2. ASSUME NEW s \in Slots, Alloc(p, s), no_memory(p, s) PROVE ExitInv'
    BY <2>2 DEF Alloc, no_memory, freeproc
  <2>3. CASE UNCHANGED <<proc, plock, wait_lock, nextpid, cpu, pc, np, shell, hist>> /\ fork_fails(p)
    BY <2>3 DEF fork_fails
  <2>4. CASE fork_parent(p)
    BY <2>4 DEF fork_parent, ForkInv, Forking
  <2>5. CASE fork_run(p)
    BY <2>5 DEF fork_run, ForkInv, Forking
  <2> HIDE DEF IInv, TypeInv, PidInv, ExitInv, Go, At, Running, proc, hist
  <2> QED BY <1>2, <2>1, <2>2, <2>3, <2>4, <2>5, AllocCases DEF fork
<1>3. ASSUME NEW p \in Slots, exit(p) PROVE ExitInv'
  BY <1>3 DEF exit, reparent
<1>4. ASSUME NEW p \in Slots, exit_rest(p) PROVE ExitInv'
  <2>1. CASE wakeup_init(p)
    BY <2>1 DEF wakeup_init, wakeup
  <2>2. CASE wakeup_parent(p)
    BY <2>2 DEF wakeup_parent, wakeup
  <2>3. CASE exit_zombie(p)
    BY <2>3 DEF exit_zombie
  <2> HIDE DEF IInv, TypeInv, PidInv, ExitInv, Go, At, Running, proc, hist
  <2> QED BY <1>4, <2>1, <2>2, <2>3 DEF exit_rest
<1>5. ASSUME NEW p \in Slots, wait(p) PROVE ExitInv'
  BY <1>5 DEF wait, Syscall
<1>6. ASSUME NEW p \in Slots, wait_rest(p) PROVE ExitInv'
  <2>1. ASSUME NEW s \in Slots, Scanned(p, s), reap(p, s) PROVE ExitInv'
    BY <2>1 DEF Scanned, reap, freeproc, wait_returns
  <2>2. ASSUME NEW s \in Slots, Scanned(p, s), copyout_fails(p, s) PROVE ExitInv'
    BY <2>2 DEF Scanned, copyout_fails, wait_returns
  <2>3. CASE wait_none(p)
    BY <2>3 DEF wait_none, wait_returns
  <2>4. CASE sleep(p)
    BY <2>4 DEF sleep
  <2> HIDE DEF IInv, TypeInv, PidInv, ExitInv, Go, At, Running, proc, hist
  <2> QED BY <1>6, <2>1, <2>2, <2>3, <2>4, ScanCases DEF wait_rest
<1>7. ASSUME NEW p \in Slots, NEW k \in KillArgs, kill(p, k) PROVE ExitInv'
  <2>1. PICK s \in Slots : Killed(p, k, s)
    BY <1>7, KillCases
  <2> QED BY <2>1 DEF Killed
<1>8. ASSUME NEW p \in Slots, setkilled(p) \/ yield(p) \/ sched(p) PROVE ExitInv'
  <2>1. CASE setkilled(p)
    BY <2>1 DEF setkilled, Syscall
  <2>2. CASE yield(p)
    BY <2>2 DEF yield
  <2>3. CASE sched(p)
    BY <2>3 DEF sched
  <2> HIDE DEF IInv, TypeInv, PidInv, ExitInv, Go, At, Running, proc, hist
  <2> QED BY <1>8, <2>1, <2>2, <2>3
<1>9. ASSUME NEW p \in Slots, NEW c \in CPUs, scheduler(c, p) PROVE ExitInv'
  BY <1>9 DEF scheduler
<1>10. ASSUME NEW p \in Slots, exit_init(p) PROVE ExitInv'
  BY <1>10 DEF exit_init
<1> HIDE DEF IInv, TypeInv, PidInv, ExitInv, Go, At, Running, proc, hist
<1> QED BY <1>1, <1>2, <1>3, <1>4, <1>5, <1>6, <1>7, <1>8, <1>9, <1>10 DEF Next

(* Every step keeps every process in the table until it is collected. *)
LEMMA ReapStep == IInv /\ PidInv /\ ExitInv /\ ReapInv /\ [Next]_vars => ReapInv'
<1> SUFFICES ASSUME IInv, PidInv, ExitInv, ReapInv, [Next]_vars PROVE ReapInv'
  OBVIOUS
<1> DEFINE Same == /\ \A s \in Slots : state'[s] = "UNUSED" <=> state[s] = "UNUSED"
                   /\ UNCHANGED <<pid, born, reaped>> /\ exited \subseteq exited'
<1>0. ASSUME Same PROVE ReapInv'
  BY <1>0 DEF ReapInv
<1> USE InitSlot, ProcAssumption DEF IInv, TypeInv, Go, At, Running, proc, hist
<1>1. CASE UNCHANGED vars
  BY <1>0, <1>1 DEF vars
<1>2. ASSUME NEW p \in Slots, fork(p) PROVE ReapInv'
  <2>1. ASSUME NEW s \in Slots, Alloc(p, s), found(p, s) PROVE ReapInv'
    <3>1. /\ state' = [state EXCEPT ![s] = "USED"] /\ pid' = [pid EXCEPT ![s] = nextpid]
          /\ state[s] = "UNUSED" /\ born' = born \cup {nextpid} /\ UNCHANGED <<exited, reaped>>
      BY <2>1 DEF Alloc, found
    <3>2. \A x \in Status : <<nextpid, x>> \notin reaped
      BY DEF PidInv, ExitInv, ReapInv
    <3>3. \A t \in Slots \ {s} : pid'[t] = pid[t] /\ state'[t] = state[t]
      BY <3>1
    <3>4. pid'[s] = nextpid /\ state'[s] = "USED"
      BY <3>1
    <3>5. ASSUME NEW k \in born'
          PROVE  \/ \E t \in Slots : state'[t] # "UNUSED" /\ pid'[t] = k
                 \/ \E x \in Status : <<k, x>> \in reaped
      <4>1. CASE k = nextpid
        BY <3>4, <4>1
      <4>2. CASE k \in born
        BY <3>1, <3>3, <4>2 DEF ReapInv
      <4> QED BY <3>1, <3>5, <4>1, <4>2
    <3> HIDE DEF IInv, TypeInv
    <3> QED BY <3>1, <3>2, <3>3, <3>4, <3>5 DEF ReapInv
  <2>2. ASSUME NEW s \in Slots, Alloc(p, s), no_memory(p, s) PROVE Same
    BY <2>2 DEF Alloc, no_memory, freeproc, PidInv
  <2>3. CASE UNCHANGED <<proc, plock, wait_lock, nextpid, cpu, pc, np, shell, hist>> /\ fork_fails(p)
    BY <1>0, <2>3
  <2>4. CASE fork_parent(p)
    BY <1>0, <2>4 DEF fork_parent
  <2>5. ASSUME fork_run(p) PROVE Same
    BY <2>5 DEF fork_run, ForkInv, Forking
  <2> HIDE DEF IInv, TypeInv, Same
  <2> QED BY <1>0, <1>2, <2>1, <2>2, <2>3, <2>4, <2>5, AllocCases DEF fork
<1>3. ASSUME NEW p \in Slots, exit(p) PROVE Same
  BY <1>3 DEF exit
<1>4. ASSUME NEW p \in Slots, exit_rest(p) PROVE Same
  BY <1>4 DEF exit_rest, wakeup_init, wakeup_parent, exit_zombie, wakeup
<1>5. ASSUME NEW p \in Slots, wait(p) PROVE Same
  BY <1>5 DEF wait
<1>6. ASSUME NEW p \in Slots, wait_rest(p) PROVE ReapInv'
  <2>1. ASSUME NEW s \in Slots, Scanned(p, s), reap(p, s) PROVE ReapInv'
    <3>1. /\ state' = [state EXCEPT ![s] = "UNUSED"] /\ pid' = [pid EXCEPT ![s] = 0]
          /\ state[s] = "ZOMBIE" /\ UNCHANGED <<born, exited>>
          /\ reaped' = reaped \cup {<<pid[s], xstate[s]>>}
      BY <2>1 DEF Scanned, reap, freeproc
    <3>2. \A t \in Slots \ {s} : pid'[t] = pid[t] /\ state'[t] = state[t]
      BY <3>1
    <3>3. <<pid[s], xstate[s]>> \in exited /\ xstate[s] \in Status
      BY <3>1 DEF ExitInv
    <3>4. \A t \in Slots \ {s} : state[t] # "UNUSED" => pid[t] # pid[s]
      BY DEF PidInv
    <3>5. ASSUME NEW k \in born
          PROVE  \/ \E t \in Slots : state'[t] # "UNUSED" /\ pid'[t] = k
                 \/ \E x \in Status : <<k, x>> \in reaped'
      <4>1. CASE k = pid[s]
        BY <3>1, <3>3, <4>1
      <4>2. CASE k # pid[s]
        BY <3>1, <3>2, <4>2 DEF ReapInv
      <4> HIDE DEF IInv, TypeInv
      <4> QED BY <4>1, <4>2
    <3>6. state'[s] = "UNUSED"
      BY <3>1
    <3>7. ASSUME NEW t \in Slots, state'[t] # "UNUSED", NEW x \in Status PROVE <<pid'[t], x>> \notin reaped'
      BY <3>1, <3>2, <3>4, <3>6, <3>7 DEF ReapInv
    <3>8. reaped' \subseteq exited' /\ born' = born
      BY <3>1, <3>3 DEF ReapInv
    <3> HIDE DEF IInv, TypeInv
    <3> QED BY <3>5, <3>7, <3>8 DEF ReapInv
  <2>2. ASSUME NEW s \in Slots, Scanned(p, s), copyout_fails(p, s) PROVE Same
    BY <2>2 DEF Scanned, copyout_fails
  <2>3. ASSUME wait_none(p) PROVE Same
    BY <2>3 DEF wait_none
  <2>4. ASSUME sleep(p) PROVE Same
    BY <2>4 DEF sleep
  <2> HIDE DEF IInv, TypeInv, Same
  <2> QED BY <1>0, <1>6, <2>1, <2>2, <2>3, <2>4, ScanCases DEF wait_rest
<1>7. ASSUME NEW p \in Slots, NEW k \in KillArgs, kill(p, k) PROVE Same
  <2>1. PICK s \in Slots : Killed(p, k, s)
    BY <1>7, KillCases
  <2> QED BY <2>1 DEF Killed
<1>8. ASSUME NEW p \in Slots, setkilled(p) \/ yield(p) \/ sched(p) PROVE Same
  BY <1>8 DEF setkilled, yield, sched
<1>9. ASSUME NEW p \in Slots, NEW c \in CPUs, scheduler(c, p) PROVE Same
  BY <1>9 DEF scheduler
<1>10. ASSUME NEW p \in Slots, exit_init(p) PROVE Same
  BY <1>10 DEF exit_init
<1> HIDE DEF IInv, TypeInv, Same
<1> QED BY <1>0, <1>1, <1>2, <1>3, <1>4, <1>5, <1>6, <1>7, <1>8, <1>9, <1>10 DEF Next

(* Every step leaves killed to processes that were named to kill() or faulted, *)
(* and to the slots that a kill(0) marked.                                     *)
LEMMA KillStep == IInv /\ PidInv /\ KilledOnPurpose /\ [Next]_vars => KilledOnPurpose'
<1> SUFFICES ASSUME IInv, PidInv, KilledOnPurpose, [Next]_vars PROVE KilledOnPurpose'
  OBVIOUS
<1> USE InitSlot, ProcAssumption DEF IInv, TypeInv, PidInv, KilledOnPurpose, Go, At, Running, proc, hist
<1>1. CASE UNCHANGED vars
  BY <1>1 DEF vars
<1>2. ASSUME NEW p \in Slots, fork(p) PROVE KilledOnPurpose'
  <2>1. ASSUME NEW s \in Slots, Alloc(p, s), found(p, s) PROVE KilledOnPurpose'
    BY <2>1 DEF Alloc, found
  <2>2. ASSUME NEW s \in Slots, Alloc(p, s), no_memory(p, s) PROVE KilledOnPurpose'
    BY <2>2 DEF Alloc, no_memory, freeproc
  <2>3. CASE UNCHANGED <<proc, plock, wait_lock, nextpid, cpu, pc, np, shell, hist>> /\ fork_fails(p)
    BY <2>3 DEF fork_fails
  <2>4. CASE fork_parent(p)
    BY <2>4 DEF fork_parent, ForkInv, Forking
  <2>5. CASE fork_run(p)
    BY <2>5 DEF fork_run, ForkInv, Forking
  <2> HIDE DEF IInv, TypeInv, PidInv, KilledOnPurpose, Go, At, Running, proc, hist
  <2> QED BY <1>2, <2>1, <2>2, <2>3, <2>4, <2>5, AllocCases DEF fork
<1>3. ASSUME NEW p \in Slots, exit(p) PROVE KilledOnPurpose'
  BY <1>3 DEF exit, reparent
<1>4. ASSUME NEW p \in Slots, exit_rest(p) PROVE KilledOnPurpose'
  <2>1. CASE wakeup_init(p)
    BY <2>1 DEF wakeup_init, wakeup
  <2>2. CASE wakeup_parent(p)
    BY <2>2 DEF wakeup_parent, wakeup
  <2>3. CASE exit_zombie(p)
    BY <2>3 DEF exit_zombie
  <2> HIDE DEF IInv, TypeInv, PidInv, KilledOnPurpose, Go, At, Running, proc, hist
  <2> QED BY <1>4, <2>1, <2>2, <2>3 DEF exit_rest
<1>5. ASSUME NEW p \in Slots, wait(p) PROVE KilledOnPurpose'
  BY <1>5 DEF wait, Syscall
<1>6. ASSUME NEW p \in Slots, wait_rest(p) PROVE KilledOnPurpose'
  <2>1. ASSUME NEW s \in Slots, Scanned(p, s), reap(p, s) PROVE KilledOnPurpose'
    BY <2>1 DEF Scanned, reap, freeproc, wait_returns
  <2>2. ASSUME NEW s \in Slots, Scanned(p, s), copyout_fails(p, s) PROVE KilledOnPurpose'
    BY <2>2 DEF Scanned, copyout_fails, wait_returns
  <2>3. CASE wait_none(p)
    BY <2>3 DEF wait_none, wait_returns
  <2>4. CASE sleep(p)
    BY <2>4 DEF sleep
  <2> HIDE DEF IInv, TypeInv, PidInv, KilledOnPurpose, Go, At, Running, proc, hist
  <2> QED BY <1>6, <2>1, <2>2, <2>3, <2>4, ScanCases DEF wait_rest
<1>7. ASSUME NEW p \in Slots, NEW k \in KillArgs, kill(p, k) PROVE KilledOnPurpose'
  <2>1. PICK s \in Slots : Killed(p, k, s)
    BY <1>7, KillCases
  <2> QED BY <2>1 DEF Killed
<1>8. ASSUME NEW p \in Slots, setkilled(p) \/ yield(p) \/ sched(p) PROVE KilledOnPurpose'
  <2>1. CASE setkilled(p)
    BY <2>1 DEF setkilled, Syscall
  <2>2. CASE yield(p)
    BY <2>2 DEF yield
  <2>3. CASE sched(p)
    BY <2>3 DEF sched
  <2> HIDE DEF IInv, TypeInv, PidInv, KilledOnPurpose, Go, At, Running, proc, hist
  <2> QED BY <1>8, <2>1, <2>2, <2>3
<1>9. ASSUME NEW p \in Slots, NEW c \in CPUs, scheduler(c, p) PROVE KilledOnPurpose'
  BY <1>9 DEF scheduler
<1>10. ASSUME NEW p \in Slots, exit_init(p) PROVE KilledOnPurpose'
  BY <1>10 DEF exit_init
<1> HIDE DEF IInv, TypeInv, PidInv, KilledOnPurpose, Go, At, Running, proc, hist
<1> QED BY <1>1, <1>2, <1>3, <1>4, <1>5, <1>6, <1>7, <1>8, <1>9, <1>10 DEF Next

(* A new table has one process, and nobody has exited. *)
LEMMA InitRest ==
  Init => WakeInv /\ ShellInv /\ PidInv /\ ExitInv /\ ReapInv /\ KilledOnPurpose
<1> SUFFICES ASSUME Init PROVE WakeInv /\ ShellInv /\ PidInv /\ ExitInv /\ ReapInv /\ KilledOnPurpose
  OBVIOUS
<1> USE InitSlot, ProcAssumption DEF Init, initproc
<1>1. WakeInv
  BY DEF WakeInv, NoMissedExit
<1>2. ShellInv
  BY DEF ShellInv
<1>3. PidInv
  BY DEF PidInv
<1>4. ExitInv
  BY DEF ExitInv
<1>5. ReapInv
  BY DEF ReapInv
<1>6. KilledOnPurpose
  BY DEF KilledOnPurpose
<1> QED BY <1>1, <1>2, <1>3, <1>4, <1>5, <1>6

AllInv == IInv /\ WakeInv /\ ShellInv /\ PidInv /\ ExitInv /\ ReapInv /\ KilledOnPurpose

(* The inductive invariant holds in every reachable state. *)
THEOREM Invariance == Spec => []AllInv
<1>1. Init => AllInv
  BY InitIInv, InitRest DEF AllInv
<1>2. AllInv /\ [Next]_vars => IInv'
  BY TypeStep, PlaceStep, LockStep, ForkStep, CpuStep, FamilyStep DEF AllInv, IInv
<1>3. AllInv /\ [Next]_vars => AllInv'
  BY <1>2, WakeStep, ShellStep, PidStep, ExitStep, ReapStep, KillStep DEF AllInv
<1> QED BY <1>1, <1>3, PTL DEF Spec

(* No two CPUs run one process, and wait() frees no slot whose process is   *)
(* still on its way out of exit() on some CPU, whatever the scheduler does. *)
THEOREM OneCpuCorrect == Spec => []OneCpu
<1>1. AllInv => OneCpu
  BY DEF AllInv, IInv, TypeInv, States, CpuInv, OneCpu
<1> QED BY Invariance, <1>1, PTL

(* fork(), exit() and wait() lose no process and deliver every exit status  *)
(* once.  Whatever its argument, kill() marks only the process with that    *)
(* pid, except that kill(0) marks a free slot for the process born there.   *)
THEOREM AccountCorrect == Spec => []Accounted
<1>1. AllInv => Conservation
  <2> SUFFICES ASSUME AllInv, NEW k \in born
               PROVE  LET slots == {s \in Slots : state[s] # "UNUSED" /\ pid[s] = k}
                      IN  IF \E x \in Status : <<k, x>> \in reaped THEN slots = {}
                                                                   ELSE Cardinality(slots) = 1
    BY DEF Conservation
  <2> DEFINE slots == {s \in Slots : state[s] # "UNUSED" /\ pid[s] = k}
  <2>1. CASE \E x \in Status : <<k, x>> \in reaped
    BY <2>1 DEF AllInv, ReapInv
  <2>2. CASE ~\E x \in Status : <<k, x>> \in reaped
    <3>1. PICK s \in Slots : state[s] # "UNUSED" /\ pid[s] = k
      BY <2>2 DEF AllInv, ReapInv
    <3>2. slots = {s}
      BY <3>1 DEF AllInv, PidInv
    <3>3. Cardinality(slots) = 1
      BY <3>2, FS_Singleton
    <3> QED BY <2>2, <3>3
  <2> QED BY <2>1, <2>2
<1>2. AllInv => StatusDelivered
  <2> SUFFICES ASSUME AllInv PROVE StatusDelivered
    OBVIOUS
  <2>1. ASSUME NEW x \in exited, NEW y \in exited, x[1] = y[1] PROVE x = y
    BY <2>1 DEF AllInv, ExitInv
  <2> QED BY <2>1 DEF AllInv, ReapInv, StatusDelivered
<1>3. AllInv => Accounted
  BY <1>1, <1>2 DEF AllInv, Accounted
<1> QED BY Invariance, <1>3, PTL

(* exit() and reparent() leave every process with a parent that has not     *)
(* exited, wait() never sleeps beside a zombie, and init has a child to     *)
(* wait for unless a kill(1) made its wait() return.                        *)
THEOREM CollectCorrect == Spec => []Collected
<1>1. AllInv => ParentAlive
  BY DEF AllInv, IInv, TypeInv, FamilyInv, ParentAlive
<1>2. AllInv => Collected
  BY <1>1, Zenon DEF AllInv, WakeInv, ShellInv, Collected, InitWaits
<1> QED BY Invariance, <1>2, PTL
==============================================================================
