-------------------------------- MODULE Proc ---------------------------------
(***************************************************************************)
(* The life of processes in kernel/proc.c: fork, exit, wait, kill, yield   *)
(* and the scheduler, for a table of NPROC slots and a set of CPUs, with   *)
(* user/init.c as the process in slot 0.                                   *)
(*                                                                         *)
(* A step is the part of a call between two spinlock operations that other *)
(* processes can tell apart.  wait_lock is held over several steps; p->lock*)
(* is held over several steps only on the way into the scheduler, and      *)
(* every other use of a p->lock is one step that finds it free.  A process *)
(* without locks may be preempted before every step.                       *)
(*                                                                         *)
(* "user" stands for user mode and for system calls outside proc.c; exit() *)
(* starts here where it acquires wait_lock, its files already closed.      *)
(* An operator named *_bug is a plausible mistake in the one it precedes;  *)
(* no action uses it.                                                      *)
(***************************************************************************)
EXTENDS Integers, FiniteSets

CONSTANTS NPROC,      \* slots of the process table
          CPUs,       \* hardware threads
          None,       \* null pointer, free lock, idle CPU
          MaxPid,     \* bound of nextpid
          KillArgs,   \* what programs pass to kill()
          NoMemory    \* results of an allocation: {0} never fails, {0, 1} may

Slots == 0..(NPROC - 1)
initproc == 0

ASSUME ProcAssumption ==
  NPROC \in Nat \ {0} /\ None \notin Slots \cup Int /\ NoMemory \subseteq {0, 1} /\ KillArgs \subseteq Int

VARIABLES
  state, pid, parent, killed, chan, xstate,   \* struct proc
  plock,      \* 1 if p->lock is held across steps: by p or the CPU it leaves
  wait_lock,  \* owner of wait_lock
  nextpid,
  cpu,        \* c->proc
  pc,         \* where each process is
  np,         \* fork()'s local np
  shell,      \* init's local pid
  panic,      \* why init exited, which panics the kernel
  born, exited, reaped,  \* history: pids of processes created; <<pid, status>> of exit()
                         \* and of wait()
  cause       \* history: the pid for which killed was last set in each slot

proc == <<state, pid, parent, killed, chan, xstate>>
hist == <<born, exited, reaped, cause>>
vars == <<proc, plock, wait_lock, nextpid, cpu, pc, np, shell, panic, hist>>

(* userinit() has made the first process. *)
Init ==
  /\ state = [s \in Slots |-> IF s = initproc THEN "RUNNABLE" ELSE "UNUSED"]
  /\ pid = [s \in Slots |-> IF s = initproc THEN 1 ELSE 0]
  /\ parent = [s \in Slots |-> None]
  /\ killed = [s \in Slots |-> 0]
  /\ chan = [s \in Slots |-> None]
  /\ xstate = [s \in Slots |-> 0]
  /\ plock = [s \in Slots |-> 0]
  /\ wait_lock = None
  /\ nextpid = 2
  /\ cpu = [c \in CPUs |-> None]
  /\ pc = [s \in Slots |-> "user"]
  /\ np = [s \in Slots |-> None]
  /\ shell = 0
  /\ panic = "no"
  /\ born = {1}
  /\ exited = {}
  /\ reaped = {}
  /\ cause = [s \in Slots |-> None]

------------------------------------------------------------------------------
OnCpu(p) == \E c \in CPUs : cpu[c] = p
Running(p) == panic = "no" /\ OnCpu(p) /\ state[p] = "RUNNING"
At(p, l) == Running(p) /\ pc[p] = l
Go(p, l) == pc' = [pc EXCEPT ![p] = l]
Children(p) == {s \in Slots : parent[s] = p}
Zombies(p) == {s \in Children(p) : state[s] = "ZOMBIE"}

(* The slot that a scan of the table comes to first. *)
First(S) == {s \in S : \A r \in S : s <= r}

(* The processes asleep on channel c become runnable.  wakeup() waits for   *)
(* the p->lock of one that has not yet left its CPU; no other process can   *)
(* come to sleep on c, for that takes the wait_lock its callers hold.       *)
wakeup(c) ==
  /\ \A s \in Slots : chan[s] = c => plock[s] = 0
  /\ state' = [s \in Slots |-> IF state[s] = "SLEEPING" /\ chan[s] = c
                                 THEN "RUNNABLE" ELSE state[s]]

(* freeproc(): what is left of slot s. *)
freeproc(s) ==
  /\ state' = [state EXCEPT ![s] = "UNUSED"]
  /\ pid' = [pid EXCEPT ![s] = 0]
  /\ parent' = [parent EXCEPT ![s] = None]
  /\ chan' = [chan EXCEPT ![s] = None]
  /\ xstate' = [xstate EXCEPT ![s] = 0]
  /\ killed' = [killed EXCEPT ![s] = 0]

------------------------------------------------------------------------------
(* A system call starts in usertrap(), which first makes a killed process   *)
(* exit.  init forks its shell, then waits until wait() returns it.         *)
Syscall(p) == At(p, "user") /\ killed[p] = 0

(* fork(): a system call returns -1.  init then exits. *)
fork_fails(p) == panic' = IF p = initproc THEN "fork" ELSE panic

(* allocproc() finds a slot and uvmcopy() succeeds, all under np->lock.     *)
(* killed stays as it is in the slot.                                       *)
found(p, s) ==
  /\ nextpid' = nextpid + 1
  /\ state' = [state EXCEPT ![s] = "USED"]
  /\ pid' = [pid EXCEPT ![s] = nextpid]
  /\ np' = [np EXCEPT ![p] = s]
  /\ born' = born \cup {nextpid}
  /\ pc' = [pc EXCEPT ![p] = "fork_parent", ![s] = "user"]
  /\ cause' = [cause EXCEPT ![s] = IF killed[s] = 1 THEN @ ELSE None]
  /\ UNCHANGED <<parent, killed, chan, xstate, panic, exited, reaped>>

(* One of their allocations fails: freeproc(), and the pid is gone. *)
no_memory(p, s) ==
  /\ 1 \in NoMemory
  /\ nextpid' = nextpid + 1
  /\ freeproc(s)
  /\ fork_fails(p)
  /\ UNCHANGED <<pc, np, hist>>

Free == {s \in Slots : state[s] = "UNUSED"}

allocproc(p) ==
  /\ Syscall(p)
  /\ p = initproc => shell = 0
  /\ nextpid <= MaxPid
  /\ \/ Free = {} /\ fork_fails(p) /\ UNCHANGED <<proc, nextpid, pc, np, hist>>
     \/ \E s \in First(Free) : found(p, s) \/ no_memory(p, s)
  /\ UNCHANGED <<plock, wait_lock, cpu, shell>>

(* fork(): np->parent = p under wait_lock. *)
fork_parent(p) ==
  /\ At(p, "fork_parent")
  /\ wait_lock = None
  /\ parent' = [parent EXCEPT ![np[p]] = p]
  /\ Go(p, "fork_run")
  /\ UNCHANGED <<state, pid, killed, chan, xstate, plock, wait_lock, nextpid, cpu, np,
                 shell, panic, hist>>

(* fork(): np->state = RUNNABLE under np->lock; the pid is returned. *)
fork_run(p) ==
  /\ At(p, "fork_run")
  /\ state' = [state EXCEPT ![np[p]] = "RUNNABLE"]
  /\ shell' = IF p = initproc THEN pid[np[p]] ELSE shell
  /\ np' = [np EXCEPT ![p] = None]
  /\ Go(p, "user")
  /\ UNCHANGED <<pid, parent, killed, chan, xstate, plock, wait_lock, nextpid, cpu,
                 panic, hist>>

fork(p) == allocproc(p) \/ fork_parent(p) \/ fork_run(p)

------------------------------------------------------------------------------
(* reparent(): the children of p become init's. *)
reparent_bug(p) ==             \* overlooks the children that are zombies
  [s \in Slots |-> IF parent[s] = p /\ state[s] # "ZOMBIE" THEN initproc ELSE parent[s]]
reparent(p) ==
  [s \in Slots |-> IF parent[s] = p THEN initproc ELSE parent[s]]

(* exit() of init, which usertrap() calls once it was killed. *)
exit_init(p) ==
  /\ At(p, "user")
  /\ p = initproc
  /\ killed[p] = 1
  /\ panic' = "killed"
  /\ UNCHANGED <<proc, plock, wait_lock, nextpid, cpu, pc, np, shell, hist>>

(* exit(): acquire wait_lock, reparent(). *)
exit(p) ==
  /\ At(p, "user")
  /\ p # initproc
  /\ wait_lock = None
  /\ wait_lock' = p
  /\ parent' = reparent(p)
  /\ Go(p, IF Children(p) = {} THEN "wakeup_parent" ELSE "wakeup_init")
  /\ UNCHANGED <<state, pid, killed, chan, xstate, plock, nextpid, cpu, np, shell, panic, hist>>

(* reparent(): wakeup(initproc). *)
wakeup_init(p) ==
  /\ At(p, "wakeup_init")
  /\ wakeup(initproc)
  /\ Go(p, "wakeup_parent")
  /\ UNCHANGED <<pid, parent, killed, chan, xstate, plock, wait_lock, nextpid, cpu, np,
                 shell, panic, hist>>

(* exit(): wakeup(p->parent). *)
wakeup_parent(p) ==
  /\ At(p, "wakeup_parent")
  /\ wakeup(parent[p])
  /\ Go(p, "zombie")
  /\ UNCHANGED <<pid, parent, killed, chan, xstate, plock, wait_lock, nextpid, cpu, np,
                 shell, panic, hist>>

(* exit(): acquire p->lock, ZOMBIE, release wait_lock, into sched().  The    *)
(* status is the program's, or -1 from usertrap() for a killed process,      *)
(* which may also have come to exit() by itself before.                      *)
Status == {-1, 0}

exit_zombie(p) ==
  /\ At(p, "zombie")
  /\ \E status \in Status :
       /\ xstate' = [xstate EXCEPT ![p] = status]
       /\ exited' = exited \cup {<<pid[p], status>>}
  /\ state' = [state EXCEPT ![p] = "ZOMBIE"]
  /\ plock' = [plock EXCEPT ![p] = 1]
  /\ wait_lock' = None
  /\ UNCHANGED <<pid, parent, killed, chan, nextpid, cpu, pc, np, shell, panic, born,
                 reaped, cause>>

------------------------------------------------------------------------------
(* wait(): acquire wait_lock; also where sleep() returns to. *)
wait(p) ==
  /\ \/ Syscall(p) /\ (p = initproc => shell # 0)
     \/ At(p, "wait")
  /\ wait_lock = None
  /\ wait_lock' = p
  /\ Go(p, "scan")
  /\ UNCHANGED <<proc, plock, nextpid, cpu, np, shell, panic, hist>>

(* wait() returns r: init restarts its shell, and exits on an error. *)
wait_returns(p, r) ==
  /\ wait_lock' = None
  /\ Go(p, "user")
  /\ shell' = IF p = initproc /\ r = shell THEN 0 ELSE shell
  /\ panic' = IF p = initproc /\ r = -1 THEN "wait" ELSE panic

(* The child has left its CPU: wait() takes pp->lock to make sure. *)
pp_lock_bug(s) == TRUE         \* wait() does not take pp->lock
pp_lock(s) == plock[s] = 0

(* copyout() of the status fails: the zombie stays.  init passes no address.*)
copyout_fails_bug(p, s) ==     \* freed before the copy
  /\ p # initproc
  /\ freeproc(s)
  /\ UNCHANGED reaped
  /\ wait_returns(p, -1)
copyout_fails(p, s) ==
  /\ p # initproc
  /\ UNCHANGED <<proc, reaped>>
  /\ wait_returns(p, -1)

(* The status is copied, the slot freed, the pid returned. *)
reap(p, s) ==
  /\ freeproc(s)
  /\ reaped' = reaped \cup {<<pid[s], xstate[s]>>}
  /\ wait_returns(p, pid[s])

(* wait(): the scan finds a zombie, the first of the table. *)
wait_found(p) ==
  /\ At(p, "scan")
  /\ \E s \in First(Zombies(p)) : pp_lock(s) /\ (reap(p, s) \/ copyout_fails(p, s))
  /\ UNCHANGED <<plock, nextpid, cpu, np, born, exited, cause>>

(* wait(): the scan finds none; the test of havekids and killed(). *)
wait_none(p) ==
  /\ At(p, "scan")
  /\ Zombies(p) = {}
  /\ IF Children(p) = {} \/ killed[p] = 1
       THEN wait_returns(p, -1)
       ELSE Go(p, "sleep") /\ UNCHANGED <<wait_lock, shell, panic>>
  /\ UNCHANGED <<proc, plock, nextpid, cpu, np, hist>>

(* sleep(p, &wait_lock), up to sched(). *)
sleep(p) ==
  /\ At(p, "sleep")
  /\ plock' = [plock EXCEPT ![p] = 1]
  /\ wait_lock' = None
  /\ chan' = [chan EXCEPT ![p] = p]
  /\ state' = [state EXCEPT ![p] = "SLEEPING"]
  /\ Go(p, "wait")
  /\ UNCHANGED <<pid, parent, killed, xstate, nextpid, cpu, np, shell, panic, hist>>

------------------------------------------------------------------------------
(* kill(): a slot that the scan of the table may find, and the mark it gets.  *)
(* The scan takes the locks one by one; every free slot has the pid 0.        *)
kill_finds(k) == {s \in Slots : pid[s] = k}

kill(p, k) ==
  /\ Syscall(p)
  /\ p # initproc
  /\ \E s \in kill_finds(k) :
       /\ plock[s] = 0
       /\ killed' = [killed EXCEPT ![s] = 1]
       /\ state' = IF state[s] = "SLEEPING" THEN [state EXCEPT ![s] = "RUNNABLE"] ELSE state
       /\ cause' = [cause EXCEPT ![s] = k]
  /\ UNCHANGED <<pid, parent, chan, xstate, plock, wait_lock, nextpid, cpu, pc, np, shell,
                 panic, born, exited, reaped>>

(* usertrap(): a fault of the program. *)
setkilled(p) ==
  /\ Syscall(p)
  /\ p # initproc
  /\ killed' = [killed EXCEPT ![p] = 1]
  /\ cause' = [cause EXCEPT ![p] = pid[p]]
  /\ UNCHANGED <<state, pid, parent, chan, xstate, plock, wait_lock, nextpid, cpu, pc, np,
                 shell, panic, born, exited, reaped>>

(* yield() from a timer interrupt: interrupts are off while a lock is held. *)
yield(p) ==
  /\ Running(p)
  /\ wait_lock # p
  /\ plock' = [plock EXCEPT ![p] = 1]
  /\ state' = [state EXCEPT ![p] = "RUNNABLE"]
  /\ UNCHANGED <<pid, parent, killed, chan, xstate, wait_lock, nextpid, cpu, pc, np,
                 shell, panic, hist>>

(* sched(): swtch() to the scheduler of the CPU, which releases p->lock. *)
sched(p) ==
  /\ panic = "no"
  /\ plock[p] = 1
  /\ plock' = [plock EXCEPT ![p] = 0]
  /\ cpu' = [c \in CPUs |-> IF cpu[c] = p THEN None ELSE cpu[c]]
  /\ UNCHANGED <<proc, wait_lock, nextpid, pc, np, shell, panic, hist>>

(* scheduler() runs p; p releases the p->lock that scheduler() acquired. *)
scheduler(c, p) ==
  /\ panic = "no"
  /\ cpu[c] = None
  /\ state[p] = "RUNNABLE"
  /\ plock[p] = 0
  /\ state' = [state EXCEPT ![p] = "RUNNING"]
  /\ cpu' = [cpu EXCEPT ![c] = p]
  /\ chan' = [chan EXCEPT ![p] = None]
  /\ UNCHANGED <<pid, parent, killed, xstate, plock, wait_lock, nextpid, pc, np, shell,
                 panic, hist>>

------------------------------------------------------------------------------
exit_rest(p) == wakeup_init(p) \/ wakeup_parent(p) \/ exit_zombie(p)
wait_rest(p) == wait_found(p) \/ wait_none(p) \/ sleep(p)

Next ==
  \E p \in Slots :
    \/ fork(p) \/ exit(p) \/ exit_rest(p) \/ exit_init(p) \/ wait(p) \/ wait_rest(p)
    \/ \E k \in KillArgs : kill(p, k)
    \/ setkilled(p) \/ yield(p) \/ sched(p)
    \/ \E c \in CPUs : scheduler(c, p)

Spec == Init /\ [][Next]_vars

------------------------------------------------------------------------------
Pids == 0..MaxPid

\* No two CPUs run the same process, and the kernel stack of a process that
\* is being freed, or is free, is in use by no CPU.
OneCpu ==
  /\ \A c, d \in CPUs : cpu[c] # None /\ cpu[c] = cpu[d] => c = d
  /\ \A s \in Slots : OnCpu(s) => state[s] \notin {"UNUSED", "USED"}

\* A process is lost neither by fork() nor by exit() nor by wait(): every one
\* that was created either is in exactly one slot of the table or has been
\* returned by wait(), never both.
Conservation ==
  \A k \in born :
    LET slots == {s \in Slots : state[s] # "UNUSED" /\ pid[s] = k}
    IN  IF \E x \in Status : <<k, x>> \in reaped THEN slots = {} ELSE Cardinality(slots) = 1

\* wait() returns each process once, with the status it passed to exit().
StatusDelivered ==
  /\ reaped \subseteq exited
  /\ \A x, y \in exited : x[1] = y[1] => x = y

\* The parent of a process has not exited: nobody is left without a process
\* that may wait() for it.
ParentAlive ==
  \A s \in Slots \ {initproc} :
    state[s] \notin {"UNUSED", "USED"} =>
      /\ parent[s] # None
      /\ state[parent[s]] \notin {"UNUSED", "USED", "ZOMBIE"}

\* A process asleep in wait() has no zombie to collect, except for init while
\* the exit() that gave it one is about to wake it.
NoMissedExit ==
  \A p \in Slots :
    state[p] = "SLEEPING" /\ Zombies(p) # {} =>
      p = initproc /\ \E q \in Slots : pc[q] = "wakeup_init" /\ wait_lock = q

\* A process is marked killed only by a kill() of its own pid or a fault of
\* its own, never by what happened to the process that had the slot before.
\* The one exception is kill(0): it marks a free slot, and the next process
\* created there is born killed.
KilledOnPurpose ==
  \A s \in Slots : killed[s] = 1 => cause[s] = 0 \/ (state[s] # "UNUSED" /\ cause[s] = pid[s])

\* init's wait() always has a child to wait for: it "returned an error" only
\* to an init that was itself killed, by kill(1).
InitWaits == panic = "wait" => killed[initproc] = 1 /\ cause[initproc] = 1

\* Processes are neither lost nor mixed up: a slot holds one process at a
\* time, with its own exit status and its own kills.
Accounted == Conservation /\ StatusDelivered /\ KilledOnPurpose

\* Every process has somebody who will collect it: a parent that has not
\* exited, that does not sleep beside its zombie, and an init that waits on.
Collected == ParentAlive /\ NoMissedExit /\ InitWaits
==============================================================================
