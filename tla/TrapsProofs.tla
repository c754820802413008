----------------------------- MODULE TrapsProofs ------------------------------
(***************************************************************************)
(* Interrupts are off while a lock is held and come back as the thread had *)
(* them, and traps return to where they came from, for every set of CPUs   *)
(* and threads.                                                            *)
(*                                                                         *)
(* First the inductive invariant of the spinlocks, the scheduler and the   *)
(* traps; then that acquire(), release(), sched(), swtch() and intr_on()   *)
(* preserve it; then the trap handlers and the theorems.                   *)
(*                                                                         *)
(* An action is proved in four lemmas: what it leaves alone (Others), the  *)
(* invariants of the CPU and the context that step (Self), those that      *)
(* relate CPUs and threads (Rest), and together the step itself (Step).    *)
(***************************************************************************)
EXTENDS Traps, TLAPS

Places == {"run", "push_off", "spin", "sched", "user", "userret"}
UserPcs == {"pc", "pc4"}
Sepcs == (Contexts \cup {None}) \X {"user", "kernel"} \X (Places \cup UserPcs \cup {"none"})

TypeInv ==
  /\ lockcpu \in [Locks -> CPUs \cup {None}]
  /\ noff \in [CPUs -> Int] /\ intena \in [CPUs -> {0, 1}] /\ ie \in [CPUs -> {0, 1}]
  /\ on \in [CPUs -> Contexts] /\ level \in [Contexts -> Levels]
  /\ pc \in [Contexts -> [Levels -> Places]]
  /\ lk \in [Contexts -> [Levels -> Locks \cup {None}]]
  /\ old \in [Contexts -> [Levels -> {0, 1}]]
  /\ saved \in [Threads -> {0, 1}]

RegInv ==
  /\ tp \in [CPUs -> CPUs \cup {None}]
  /\ stvec \in [CPUs -> {"uservec", "kernelvec"}] /\ sepc \in [CPUs -> Sepcs]
  /\ epc \in [Threads -> UserPcs] /\ upc \in [Threads -> UserPcs]
  /\ hartid \in [Threads -> CPUs \cup {None}]
  /\ frame \in [Contexts -> [sepc : Sepcs, tp : CPUs \cup {None}]]

(* A CPU executes its scheduler, or a thread after it has left its scheduler *)
(* in swtch().                                                              *)
OnInv(c) ==
  /\ on[c] # c => on[c] \in Threads /\ level[c] = 0 /\ pc[c][0] = "run"
  /\ pc[c][level[c]] \in {"run", "push_off", "spin"}

(* The locks that a CPU may hold, one p->lock at most, and the one it may be *)
(* about to take.                                                            *)
HeldInv(c) ==
  \A l \in Locks : lockcpu[l] = c =>
    /\ on[c] = c /\ level[c] = 0 => l # L
    /\ \A m \in Locks : lockcpu[m] = c /\ m # L /\ l # L => m = l
    /\ ~At(c, "user") /\ ~At(c, "userret")
AskInv(c) ==
  At(c, "push_off") \/ At(c, "spin") => lk[on[c]][level[on[c]]] \in may_acquire(c)

(* noff counts the locks, the one that is being waited for included. *)
HasL(c) == lockcpu[L] = c
HasP(c) == \E t \in Threads : lockcpu[t] = c
CountInv(c) ==
  noff[c] = (IF HasL(c) THEN 1 ELSE 0) + ((IF HasP(c) THEN 1 ELSE 0)
            + (IF At(c, "spin") THEN 1 ELSE 0))

(* Interrupts as a context has them without locks; they are so, or they are  *)
(* off and become so with the last release().                                *)
Wants(x) == IF x \in Threads /\ level[x] = 0 /\ upc[x] = "pc4" THEN 1 ELSE 0
OffInv(c) ==
  /\ noff[c] # 0 \/ At(c, "userret") => ie[c] = 0
  /\ At(c, "push_off") => old[on[c]][level[on[c]]] = ie[c]
IntrInv(c) ==
  (on[c] \in Threads \/ level[c] = 1) /\ ~At(c, "user") /\ ~At(c, "userret") =>
    (noff[c] = 0 => ie[c] = Wants(on[c])) /\ (noff[c] # 0 => intena[c] = Wants(on[c]))

(* What the trap registers of a CPU hold. *)
TrapInv(c) ==
  /\ At(c, "user") \/ At(c, "userret") => stvec[c] = "uservec" /\ hartid[on[c]] = c
  /\ At(c, "userret") => sepc[c] = User(on[c], upc[on[c]])
  /\ ~At(c, "user") => tp[c] = c
  /\ ~At(c, "user") /\ ~At(c, "userret") => stvec[c] = "kernelvec"

(* What an interrupt found, no lock and push_off() not yet begun, and what it *)
(* has saved.                                                                 *)
Asks(x) == IF x \in CPUs THEN Threads ELSE Locks
OuterInv(x) ==
  level[x] = 1 => /\ pc[x][0] \in {"run", "push_off"} /\ pc[x][1] \notin {"user", "userret"}
                  /\ pc[x][0] = "push_off" => old[x][0] = 1 /\ lk[x][0] \in Asks(x)
                  /\ x \in Threads => upc[x] = "pc4"
                  /\ frame[x].sepc = Kernel(x)

(* A thread is on one CPU at most, and in sched() when it is on none. *)
OneInv == \A c, d \in CPUs : on[c] = on[d] => c = d
OffCpuInv ==
  \A t \in Threads : /\ pc[t][level[t]] = "sched" <=> \A c \in CPUs : on[c] # t
                     /\ pc[t][level[t]] = "sched" => saved[t] = Wants(t)

CpuInv(c) ==
  OnInv(c) /\ HeldInv(c) /\ AskInv(c) /\ CountInv(c) /\ OffInv(c) /\ IntrInv(c) /\ TrapInv(c)
IInv ==
  /\ TypeInv /\ RegInv /\ OneInv /\ OffCpuInv
  /\ \A c \in CPUs : CpuInv(c)
  /\ \A x \in Contexts : OuterInv(x)
  /\ epc = upc /\ panicked = 0 /\ ~astray

------------------------------------------------------------------------------
(* A step of one CPU leaves the others alone, and the contexts they execute. *)
Same(d) ==
  /\ on'[d] = on[d] /\ level'[d] = level[d] /\ pc'[d][0] = pc[d][0]
  /\ pc'[d][level[d]] = pc[d][level[d]] /\ level'[on[d]] = level[on[d]]
  /\ pc'[on[d]][level[on[d]]] = pc[on[d]][level[on[d]]]
  /\ lk'[on[d]][level[on[d]]] = lk[on[d]][level[on[d]]]
  /\ old'[on[d]][level[on[d]]] = old[on[d]][level[on[d]]]
  /\ noff'[d] = noff[d] /\ intena'[d] = intena[d] /\ ie'[d] = ie[d]
  /\ \A l \in Locks : lockcpu'[l] = d <=> lockcpu[l] = d
  /\ tp'[d] = tp[d] /\ stvec'[d] = stvec[d] /\ sepc'[d] = sepc[d]
  /\ on[d] \in Threads => hartid'[on[d]] = hartid[on[d]] /\ upc'[on[d]] = upc[on[d]]
Kept(x) ==
  /\ level'[x] = level[x] /\ frame'[x] = frame[x]
  /\ \A w \in Levels : pc'[x][w] = pc[x][w] /\ lk'[x][w] = lk[x][w] /\ old'[x][w] = old[x][w]
  /\ x \in Threads => upc'[x] = upc[x] /\ saved'[x] = saved[x]

Scalars == epc = upc /\ panicked = 0 /\ ~astray

(* The arithmetic of a CPU that holds no lock and of the two levels. *)
LEMMA ZeroOne == 0 # 1 /\ 0 + (0 + 0) = 0
OBVIOUS

(* may_acquire() depends on the locks of the CPU and the context it executes. *)
LEMMA MaySame ==
  ASSUME NEW d \in CPUs, on'[d] = on[d], level'[on[d]] = level[on[d]],
         \A l \in Locks : lockcpu'[l] = d <=> lockcpu[l] = d
  PROVE  may_acquire(d)' = may_acquire(d)
<1>1. Held(d)' = Held(d)
  BY Zenon DEF Held
<1> QED BY <1>1, Zenon DEF may_acquire, Interrupted

(* The CPUs and contexts that a step leaves alone keep their invariants. *)
LEMMA OthersCpu == ASSUME NEW d \in CPUs, CpuInv(d), Same(d) PROVE CpuInv(d)'
<1>1. OnInv(d)'
  BY Zenon DEF CpuInv, OnInv, Same
<1>2. HeldInv(d)'
  BY Zenon DEF CpuInv, HeldInv, Same, At
<1>3. AskInv(d)'
  BY MaySame, Zenon DEF CpuInv, AskInv, Same, At
<1>4. HasL(d)' = HasL(d) /\ HasP(d)' = HasP(d)
  BY Zenon DEF HasL, HasP, Same, Locks
<1>5. CountInv(d)'
  BY <1>4, Zenon DEF CpuInv, CountInv, Same, At
<1>6. OffInv(d)'
  BY Zenon DEF CpuInv, OffInv, Same, At
<1>7. Wants(on[d])' = Wants(on[d])
  BY Zenon DEF Wants, Same
<1>8. IntrInv(d)'
  BY <1>7, Zenon DEF CpuInv, IntrInv, Same, At
<1>9. on[d] \notin Threads => on[d] = d /\ ~At(d, "user") /\ ~At(d, "userret")
  BY Zenon DEF CpuInv, OnInv, At
<1>10. TrapInv(d)'
  BY <1>9, Zenon DEF CpuInv, TrapInv, Same, At, User
<1> QED BY <1>1, <1>2, <1>3, <1>5, <1>6, <1>8, <1>10, Zenon DEF CpuInv

(* The same of contexts. *)
LEMMA OthersContext == ASSUME NEW x \in Contexts, OuterInv(x), Kept(x) PROVE OuterInv(x)'
BY Zenon DEF OuterInv, Kept, Levels, Kernel

(* noff is 0 exactly while no lock is held or waited for. *)
LEMMA NoffFacts ==
  ASSUME NEW c \in CPUs, CountInv(c)
  PROVE  /\ noff[c] \in Nat
         /\ noff[c] = 0 <=> (\A l \in Locks : lockcpu[l] # c) /\ ~At(c, "spin")
<1>1. (HasL(c) \/ HasP(c)) <=> \E l \in Locks : lockcpu[l] = c
  BY Zenon DEF HasL, HasP, Locks
<1>2. noff[c] \in Nat /\ (noff[c] = 0 <=> ~HasL(c) /\ ~HasP(c) /\ ~At(c, "spin"))
  BY DEF CountInv
<1> QED BY <1>1, <1>2, Zenon

(* What a CPU holds when it may acquire a lock. *)
LEMMA MayCases ==
  ASSUME NEW c \in CPUs, NEW l \in may_acquire(c), on[c] \in Contexts
  PROVE  /\ l \in Locks
         /\ \A m \in Locks : lockcpu[m] = c => m = L /\ l # L
         /\ on[c] \in CPUs /\ level[on[c]] # 1 => l # L
<1>1. l \in Locks /\ (on[c] \in CPUs /\ level[on[c]] # 1 => l # L)
  BY NameAssumption, Zenon DEF may_acquire, Interrupted
<1>2. Held(c) = {} \/ (Held(c) = {L} /\ l # L)
  BY Zenon DEF may_acquire
<1>3. \A m \in Locks : lockcpu[m] = c => m \in Held(c)
  BY Zenon DEF Held
<1> QED BY <1>1, <1>2, <1>3, Zenon

(* And what it may acquire when it holds no lock. *)
LEMMA MayAsk ==
  ASSUME NEW c \in CPUs, on[c] \in Contexts, \A m \in Locks : lockcpu[m] # c, level[on[c]] = 0
  PROVE  may_acquire(c) = Asks(on[c])
<1>1. Held(c) = {}
  BY Zenon DEF Held
<1>2. Held(c) # {L} /\ ~Interrupted(c)
  BY <1>1, ZeroOne, Zenon DEF Interrupted
<1>3. CASE on[c] \in CPUs
  BY <1>1, <1>2, <1>3, NameAssumption, Zenon DEF may_acquire, Asks, Locks
<1>4. CASE on[c] \notin CPUs
  BY <1>1, <1>2, <1>4, NameAssumption, Zenon DEF may_acquire, Asks, Contexts
<1> QED BY <1>3, <1>4, Zenon

(* A thread that a step leaves on its CPU, or off every CPU, and the thread   *)
(* that makes the step and is not in sched() after it.                       *)
LEMMA OffCpuStays ==
  ASSUME OffCpuInv, NEW x \in Contexts, on' = on, \E c \in CPUs : on[c] = x,
         \A y \in Contexts : y # x => Kept(y), level \in [Contexts -> Levels],
         x \in Threads => pc'[x][level'[x]] # "sched"
  PROVE  OffCpuInv'
<1> SUFFICES ASSUME NEW t \in Threads
             PROVE  /\ pc'[t][level'[t]] = "sched" <=> \A c \in CPUs : on[c] # t
                    /\ pc'[t][level'[t]] = "sched" => saved'[t] = Wants(t)'
  BY Zenon DEF OffCpuInv
<1>1. CASE t = x
  BY <1>1, Zenon DEF OffCpuInv
<1>2. CASE t # x
  <2>1. Kept(t) /\ level[t] \in Levels
    BY <1>2, Zenon DEF Contexts
  <2>2. pc'[t][level'[t]] = pc[t][level[t]] /\ saved'[t] = saved[t] /\ Wants(t)' = Wants(t)
    BY <2>1 DEF Kept, Wants
  <2> QED BY <2>2, Zenon DEF OffCpuInv
<1> QED BY <1>1, <1>2, Zenon

(* What holds of the CPU c that steps, in the context x at trap depth v. *)
Where(c, x, v) ==
  /\ on[c] = x /\ level[x] = v /\ x \in Contexts /\ v \in Levels
  /\ c \in Contexts /\ level[c] \in Levels /\ c \notin Threads /\ c # None
  /\ L \in Locks /\ Threads \subseteq Locks /\ (\A d \in CPUs : on[d] # d => on[d] \in Threads)
Unlocked(c) ==
  /\ noff[c] \in Nat /\ ie[c] \in {0, 1}
  /\ noff[c] = 0 <=> (\A m \in Locks : lockcpu[m] # c) /\ ~At(c, "spin")
StepFacts(c, x, v) ==
  /\ Where(c, x, v) /\ Unlocked(c) /\ Scalars
  /\ TypeInv /\ CpuInv(c) /\ OuterInv(x) /\ OneInv /\ OffCpuInv

(* They follow from the invariant. *)
LEMMA FactsHold ==
  ASSUME IInv, NEW c \in CPUs
  PROVE  StepFacts(c, on[c], level[on[c]])
<1>1. CpuInv(c) /\ OneInv /\ OffCpuInv /\ TypeInv /\ panicked = 0 /\ ~astray /\ epc = upc
  BY Zenon DEF IInv
<1>2. noff[c] \in Nat /\ (noff[c] = 0 <=> (\A m \in Locks : lockcpu[m] # c) /\ ~At(c, "spin"))
  BY <1>1, NoffFacts, Zenon DEF CpuInv
<1>3. /\ c \in Contexts /\ c \notin Threads /\ c # None /\ L \in Locks /\ Threads \subseteq Locks
      /\ on[c] \in Contexts /\ level[on[c]] \in Levels /\ level[c] \in Levels /\ ie[c] \in {0, 1}
  BY <1>1, NameAssumption, Zenon DEF TypeInv, Contexts, Locks
<1>4. \A d \in CPUs : on[d] # d => on[d] \in Threads
  BY Zenon DEF IInv, CpuInv, OnInv
<1> QED BY <1>1, <1>2, <1>3, <1>4, Zenon DEF IInv, StepFacts, Where, Unlocked, Scalars

(* Two CPUs execute different contexts. *)
LEMMA Apart ==
  ASSUME NEW c \in CPUs, NEW x, NEW v, StepFacts(c, x, v), NEW d \in CPUs, d # c
  PROVE  /\ on[d] # x /\ d # x /\ d \in Contexts /\ on[d] \in Contexts /\ d # None
         /\ level[d] \in Levels /\ level[on[d]] \in Levels /\ 0 \in Levels
<1>1. TypeInv /\ OneInv /\ on[c] = x /\ (x # c => x \in Threads)
  BY Zenon DEF StepFacts, Where
<1>2. on[d] # x /\ d # x
  BY <1>1, NameAssumption, Zenon DEF OneInv
<1> QED BY <1>1, <1>2, NameAssumption, Zenon DEF TypeInv, Contexts, Levels

(* The invariant after a step of c that changes no other CPU or context. *)
LEMMA Assemble ==
  ASSUME IInv, NEW c \in CPUs, NEW x, TypeInv', RegInv', OneInv', OffCpuInv', Scalars',
         CpuInv(c)', OuterInv(x)', \A d \in CPUs : d # c => Same(d),
         \A y \in Contexts : y # x => Kept(y)
  PROVE  IInv'
<1>1. \A d \in CPUs : CpuInv(d)'
  BY OthersCpu, Zenon DEF IInv
<1>2. \A y \in Contexts : OuterInv(y)'
  <2>1. Contexts' = Contexts
    BY Zenon DEF Contexts
  <2> QED BY OthersContext, Zenon DEF IInv
<1> QED BY <1>1, <1>2, Zenon DEF IInv, Scalars, Contexts

(* acquire() reads the interrupt flag: what changes. *)
acquireEffect(c, x, v) ==
  /\ pc[x][v] = "run" /\ pc'[x][v] = "push_off"
  /\ lk'[x][v] \in may_acquire(c) /\ old'[x][v] = ie[c]
  /\ \A y \in Contexts, w \in Levels : y # x \/ w # v => pc'[y][w] = pc[y][w] /\ lk'[y][w] = lk[y][w] /\ old'[y][w] = old[y][w]
  /\ UNCHANGED <<lockcpu, noff, intena, ie, on, level, saved, panicked>>
  /\ UNCHANGED <<tp, stvec, sepc, epc, hartid, upc, frame, astray>>

(* It leaves the other CPUs and contexts alone. *)
LEMMA acquireOthers ==
  ASSUME NEW c \in CPUs, NEW x \in Contexts, NEW v \in Levels,
         StepFacts(c, x, v), acquireEffect(c, x, v)
  PROVE  /\ \A d \in CPUs : d # c => Same(d)
         /\ \A y \in Contexts : y # x => Kept(y)
<1>1. ASSUME NEW d \in CPUs, d # c PROVE Same(d)
  <2>1. /\ on[d] # x /\ d # x /\ d \in Contexts /\ on[d] \in Contexts /\ d # None
        /\ level[d] \in Levels /\ level[on[d]] \in Levels /\ 0 \in Levels
    BY <1>1, Apart, Zenon
  <2> QED BY <1>1, <2>1, Zenon DEF Same, acquireEffect
<1>2. ASSUME NEW y \in Contexts, y # x PROVE Kept(y)
  BY <1>2, Zenon DEF Kept, acquireEffect, Contexts, Levels
<1> QED BY <1>1, <1>2, Zenon

(* The invariants of the CPU and the context that step. *)
LEMMA acquireSelf ==
  ASSUME NEW c \in CPUs, NEW x \in Contexts, NEW v \in Levels,
         StepFacts(c, x, v), acquireEffect(c, x, v)
  PROVE  CpuInv(c)' /\ OuterInv(x)'
<1>1. CpuInv(c)'
  <2>1. OnInv(c)'
    BY Zenon DEF StepFacts, Where, acquireEffect, CpuInv, OnInv
  <2>2. HeldInv(c)'
    BY Zenon DEF StepFacts, Where, acquireEffect, CpuInv, HeldInv, At
  <2>3. AskInv(c)'
    BY MaySame, Zenon DEF StepFacts, Where, acquireEffect, AskInv, At
  <2>4. CountInv(c)'
    BY Zenon DEF StepFacts, Where, acquireEffect, CpuInv, CountInv, HasL, HasP, At
  <2>5. OffInv(c)'
    BY Zenon DEF StepFacts, Where, acquireEffect, CpuInv, OffInv, At
  <2>6. IntrInv(c)'
    BY Zenon DEF StepFacts, Where, acquireEffect, CpuInv, IntrInv, Wants, At
  <2>7. TrapInv(c)'
    BY Zenon DEF StepFacts, Where, acquireEffect, CpuInv, TrapInv, At
  <2> QED BY <2>1, <2>2, <2>3, <2>4, <2>5, <2>6, <2>7, Zenon DEF CpuInv
<1>2. OuterInv(x)'
  BY ZeroOne, Zenon DEF StepFacts, Where, acquireEffect, OuterInv, Kernel, Levels
<1> QED BY <1>1, <1>2, Zenon

(* The invariants that relate CPUs and threads. *)
LEMMA acquireRest ==
  ASSUME NEW c \in CPUs, NEW x \in Contexts, NEW v \in Levels,
         StepFacts(c, x, v), acquireEffect(c, x, v)
  PROVE  OneInv' /\ OffCpuInv' /\ Scalars'
<1>1. OneInv'
  BY Zenon DEF StepFacts, Where, OneInv, acquireEffect
<1>2. OffCpuInv'
  <2>1. pc'[x][level'[x]] # "sched" /\ on' = on /\ level \in [Contexts -> Levels]
    BY Zenon DEF StepFacts, Where, acquireEffect, TypeInv
  <2> QED BY <2>1, OffCpuStays, acquireOthers, Zenon DEF StepFacts, Where
<1>3. Scalars'
  BY Zenon DEF StepFacts, Where, Scalars, acquireEffect
<1> QED BY <1>1, <1>2, <1>3, Zenon

(* The step preserves the invariant. *)
LEMMA acquireStep ==
  ASSUME IInv, NEW c \in CPUs, acquire(c), UNCHANGED regs
  PROVE  IInv'
<1>1. PICK x, v : x = on[c] /\ v = level[x]
  BY Zenon
<1>2. x \in Contexts /\ v \in Levels /\ c \in Contexts /\ acquireEffect(c, x, v)
  <2>0. x \in Contexts /\ v \in Levels /\ c \in Contexts
    BY <1>1, Zenon DEF IInv, TypeInv, Contexts
  <2> QED BY <1>1, <2>0, NameAssumption DEF acquireEffect, IInv, TypeInv, acquire, At, Go, cpu,
      regs, trapframe
<1>3. StepFacts(c, x, v)
  BY <1>1, FactsHold, Zenon
<1>4. TypeInv'
  BY <1>1, <1>2, NameAssumption, MayCases DEF IInv, TypeInv, Places, acquire, At, Go, cpu
<1>5. RegInv'
  BY <1>2, Zenon DEF IInv, RegInv, acquireEffect
<1> QED BY <1>4, <1>5, <1>2, <1>3, acquireOthers, acquireSelf, acquireRest, Assemble, Zenon

(* push_off() turns interrupts off: what changes. *)
push_offEffect(c, x, v) ==
  /\ pc[x][v] = "push_off" /\ pc'[x][v] = "spin" /\ old'[x][v] = 0
  /\ \A y \in Contexts, w \in Levels : y # x \/ w # v => pc'[y][w] = pc[y][w] /\ old'[y][w] = old[y][w]
  /\ ie'[c] = 0 /\ noff'[c] = noff[c] + 1
  /\ noff[c] = 0 => intena'[c] = old[x][v]
  /\ noff[c] # 0 => intena'[c] = intena[c]
  /\ \A d \in CPUs : d # c => ie'[d] = ie[d] /\ noff'[d] = noff[d] /\ intena'[d] = intena[d]
  /\ panicked' = IF lockcpu[lk[x][v]] = c THEN 1 ELSE panicked
  /\ UNCHANGED <<lockcpu, on, level, lk, saved>>
  /\ UNCHANGED <<tp, stvec, sepc, epc, hartid, upc, frame, astray>>

(* It leaves the other CPUs and contexts alone. *)
LEMMA push_offOthers ==
  ASSUME NEW c \in CPUs, NEW x \in Contexts, NEW v \in Levels,
         StepFacts(c, x, v), push_offEffect(c, x, v)
  PROVE  /\ \A d \in CPUs : d # c => Same(d)
         /\ \A y \in Contexts : y # x => Kept(y)
<1>1. ASSUME NEW d \in CPUs, d # c PROVE Same(d)
  <2>1. /\ on[d] # x /\ d # x /\ d \in Contexts /\ on[d] \in Contexts /\ d # None
        /\ level[d] \in Levels /\ level[on[d]] \in Levels /\ 0 \in Levels
    BY <1>1, Apart, Zenon
  <2> QED BY <1>1, <2>1, Zenon DEF Same, push_offEffect
<1>2. ASSUME NEW y \in Contexts, y # x PROVE Kept(y)
  BY <1>2, Zenon DEF Kept, push_offEffect, Contexts, Levels
<1> QED BY <1>1, <1>2, Zenon

(* The invariants of the CPU and the context that step. *)
LEMMA push_offSelf ==
  ASSUME NEW c \in CPUs, NEW x \in Contexts, NEW v \in Levels,
         StepFacts(c, x, v), push_offEffect(c, x, v)
  PROVE  CpuInv(c)' /\ OuterInv(x)'
<1>1. CpuInv(c)'
  <2>1. OnInv(c)'
    BY Zenon DEF StepFacts, Where, push_offEffect, CpuInv, OnInv
  <2>2. HeldInv(c)'
    BY NameAssumption, Zenon DEF StepFacts, Where, push_offEffect, CpuInv, HeldInv, At
  <2>3. AskInv(c)'
    BY MaySame, Zenon DEF StepFacts, Where, push_offEffect, CpuInv, AskInv, At
  <2>4. CountInv(c)'
    BY DEF StepFacts, Where, push_offEffect, CpuInv, CountInv, HasL, HasP, At
  <2>5. OffInv(c)'
    BY Zenon DEF StepFacts, Where, push_offEffect, OffInv, At
  <2>6. IntrInv(c)'
    BY DEF StepFacts, Where, push_offEffect, CpuInv, IntrInv, Wants, At, Unlocked, HeldInv, OnInv,
        OffInv, Levels, OuterInv, Contexts
  <2>7. TrapInv(c)'
    BY Zenon DEF StepFacts, Where, push_offEffect, CpuInv, TrapInv, At
  <2> QED BY <2>1, <2>2, <2>3, <2>4, <2>5, <2>6, <2>7, Zenon DEF CpuInv
<1>2. OuterInv(x)'
  BY ZeroOne, Zenon DEF StepFacts, Where, push_offEffect, OuterInv, Kernel, Levels
<1> QED BY <1>1, <1>2, Zenon

(* The invariants that relate CPUs and threads. *)
LEMMA push_offRest ==
  ASSUME NEW c \in CPUs, NEW x \in Contexts, NEW v \in Levels,
         StepFacts(c, x, v), push_offEffect(c, x, v)
  PROVE  OneInv' /\ OffCpuInv' /\ Scalars'
<1>1. OneInv'
  BY Zenon DEF StepFacts, Where, OneInv, push_offEffect
<1>2. OffCpuInv'
  <2>1. pc'[x][level'[x]] # "sched" /\ on' = on /\ level \in [Contexts -> Levels]
    BY Zenon DEF StepFacts, Where, push_offEffect, TypeInv
  <2> QED BY <2>1, OffCpuStays, push_offOthers, Zenon DEF StepFacts, Where
<1>3. Scalars'
  <2>1. lk[x][v] \in may_acquire(c)
    BY Zenon DEF StepFacts, Where, push_offEffect, CpuInv, AskInv, At
  <2>2. lockcpu[lk[x][v]] # c
    BY <2>1, MayCases, NameAssumption DEF StepFacts, Where, CpuInv, OnInv, HeldInv
  <2> QED BY <2>2, Zenon DEF StepFacts, Where, push_offEffect, Scalars
<1> QED BY <1>1, <1>2, <1>3, Zenon

(* The step preserves the invariant. *)
LEMMA push_offStep ==
  ASSUME IInv, NEW c \in CPUs, push_off(c), UNCHANGED regs
  PROVE  IInv'
<1>1. PICK x, v : x = on[c] /\ v = level[x]
  BY Zenon
<1>2. x \in Contexts /\ v \in Levels /\ c \in Contexts /\ push_offEffect(c, x, v)
  <2>0. x \in Contexts /\ v \in Levels /\ c \in Contexts
    BY <1>1, Zenon DEF IInv, TypeInv, Contexts
  <2> QED BY <1>1, <2>0, NameAssumption, Zenon DEF push_offEffect, IInv, TypeInv, push_off, At, Go, regs,
      trapframe
<1>3. StepFacts(c, x, v)
  BY <1>1, FactsHold, Zenon
<1>4. TypeInv'
  BY <1>1, <1>2, NameAssumption DEF IInv, TypeInv, Places, push_off, At, Go
<1>5. RegInv'
  BY <1>2, Zenon DEF IInv, RegInv, push_offEffect
<1> QED BY <1>4, <1>5, <1>2, <1>3, push_offOthers, push_offSelf, push_offRest, Assemble, Zenon

(* acquire() gets the lock: what changes. *)
spinEffect(c, x, v) ==
  /\ pc[x][v] = "spin" /\ pc'[x][v] = "run"
  /\ lockcpu[lk[x][v]] = None
  /\ lk[x][v] \in Locks => lockcpu'[lk[x][v]] = c
  /\ \A l \in Locks : l # lk[x][v] => lockcpu'[l] = lockcpu[l]
  /\ \A y \in Contexts, w \in Levels : y # x \/ w # v => pc'[y][w] = pc[y][w] /\ lk'[y][w] = lk[y][w]
  /\ UNCHANGED <<noff, intena, ie, on, level, old, saved, panicked>>
  /\ UNCHANGED <<tp, stvec, sepc, epc, hartid, upc, frame, astray>>

(* It leaves the other CPUs and contexts alone. *)
LEMMA spinOthers ==
  ASSUME NEW c \in CPUs, NEW x \in Contexts, NEW v \in Levels,
         StepFacts(c, x, v), spinEffect(c, x, v)
  PROVE  /\ \A d \in CPUs : d # c => Same(d)
         /\ \A y \in Contexts : y # x => Kept(y)
<1>1. ASSUME NEW d \in CPUs, d # c PROVE Same(d)
  <2>1. /\ on[d] # x /\ d # x /\ d \in Contexts /\ on[d] \in Contexts /\ d # None
        /\ level[d] \in Levels /\ level[on[d]] \in Levels /\ 0 \in Levels
    BY <1>1, Apart, Zenon
  <2> QED BY <1>1, <2>1, Zenon DEF Same, spinEffect
<1>2. ASSUME NEW y \in Contexts, y # x PROVE Kept(y)
  BY <1>2, Zenon DEF Kept, spinEffect, Contexts, Levels
<1> QED BY <1>1, <1>2, Zenon

(* The invariants of the CPU and the context that step. *)
LEMMA spinSelf ==
  ASSUME NEW c \in CPUs, NEW x \in Contexts, NEW v \in Levels,
         StepFacts(c, x, v), spinEffect(c, x, v)
  PROVE  CpuInv(c)' /\ OuterInv(x)'
<1>1. CpuInv(c)'
  <2> PICK l \in Locks : l = lk[x][v] /\ l \in may_acquire(c)
    BY MayCases, Zenon DEF StepFacts, Where, spinEffect, CpuInv, AskInv, At
  <2>1. /\ lockcpu'[l] = c /\ (\A m \in Locks : m # l => lockcpu'[m] = lockcpu[m])
        /\ \A m \in Locks : lockcpu[m] = c => m = L /\ l # L
        /\ x = c /\ v = 0 => l # L
    <3>1. on[c] = x /\ level[x] = v /\ x \in Contexts
      BY Zenon DEF StepFacts, Where
    <3>2. lockcpu'[l] = c /\ (\A m \in Locks : m # l => lockcpu'[m] = lockcpu[m])
      BY Zenon DEF spinEffect
    <3>3. /\ \A m \in Locks : lockcpu[m] = c => m = L /\ l # L
          /\ on[c] \in CPUs /\ level[on[c]] # 1 => l # L
      BY <3>1, MayCases
    <3> QED BY <3>1, <3>2, <3>3, ZeroOne
  <2>2. OnInv(c)'
    <3>1. OnInv(c) /\ on[c] = x /\ level[x] = v /\ on' = on /\ level' = level
      BY Zenon DEF StepFacts, Where, spinEffect, CpuInv
    <3>2. pc'[x][v] = "run" /\ (x # c => pc'[c][0] = pc[c][0] /\ pc'[c][level[c]] = pc[c][level[c]])
      BY Zenon DEF StepFacts, Where, spinEffect, Levels
    <3> QED BY <3>1, <3>2, Zenon DEF OnInv
  <2>3. HeldInv(c)'
    <3>1. /\ HeldInv(c) /\ on[c] = x /\ level[x] = v /\ on' = on /\ level' = level
          /\ pc'[x][v] = "run"
      BY Zenon DEF StepFacts, Where, spinEffect, CpuInv
    <3>2. \A m \in Locks : lockcpu'[m] = c => m = l \/ (m = L /\ l # L /\ lockcpu[m] = c)
      BY <2>1, Zenon
    <3>3. ~At(c, "user")' /\ ~At(c, "userret")'
      BY <3>1, Zenon DEF At
    <3> QED BY <2>1, <3>1, <3>2, <3>3, Zenon DEF HeldInv
  <2>4. AskInv(c)'
    BY Zenon DEF StepFacts, Where, spinEffect, CpuInv, AskInv, At
  <2>5. CountInv(c)'
    <3>0. CountInv(c) /\ At(c, "spin") /\ ~At(c, "spin")' /\ noff'[c] = noff[c]
      BY Zenon DEF StepFacts, Where, spinEffect, CpuInv, At
    <3>1. CASE l = L
      <4>1. ~HasL(c) /\ ~HasP(c) /\ HasL(c)' /\ ~HasP(c)'
        BY <2>1, <3>1, NameAssumption DEF StepFacts, Where, HasL, HasP
      <4> QED BY <3>0, <4>1 DEF CountInv
    <3>2. CASE l \in Threads
      <4>1. ~HasP(c) /\ HasP(c)' /\ HasL(c)' = HasL(c)
        BY <2>1, <3>2, NameAssumption, Zenon DEF StepFacts, Where, HasL, HasP
      <4> QED BY <3>0, <4>1 DEF CountInv
    <3> QED BY <3>1, <3>2, Zenon DEF Locks
  <2>6. OffInv(c)'
    BY Zenon DEF StepFacts, Where, spinEffect, CpuInv, OffInv, At
  <2>7. IntrInv(c)'
    BY Zenon DEF StepFacts, Where, spinEffect, CpuInv, IntrInv, Wants, At
  <2>8. TrapInv(c)'
    BY Zenon DEF StepFacts, Where, spinEffect, CpuInv, TrapInv, At
  <2> QED BY <2>2, <2>3, <2>4, <2>5, <2>6, <2>7, <2>8, Zenon DEF CpuInv
<1>2. OuterInv(x)'
  BY Zenon DEF StepFacts, Where, spinEffect, OuterInv, Kernel, Levels
<1> QED BY <1>1, <1>2, Zenon

(* The invariants that relate CPUs and threads. *)
LEMMA spinRest ==
  ASSUME NEW c \in CPUs, NEW x \in Contexts, NEW v \in Levels,
         StepFacts(c, x, v), spinEffect(c, x, v)
  PROVE  OneInv' /\ OffCpuInv' /\ Scalars'
<1>1. OneInv'
  BY Zenon DEF StepFacts, Where, OneInv, spinEffect
<1>2. OffCpuInv'
  <2>1. pc'[x][level'[x]] # "sched" /\ on' = on /\ level \in [Contexts -> Levels]
    BY Zenon DEF StepFacts, Where, spinEffect, TypeInv
  <2> QED BY <2>1, OffCpuStays, spinOthers, Zenon DEF StepFacts, Where
<1>3. Scalars'
  BY Zenon DEF StepFacts, Where, Scalars, spinEffect
<1> QED BY <1>1, <1>2, <1>3, Zenon

(* The step preserves the invariant. *)
LEMMA spinStep ==
  ASSUME IInv, NEW c \in CPUs, spin(c), UNCHANGED regs
  PROVE  IInv'
<1>1. PICK x, v : x = on[c] /\ v = level[x]
  BY Zenon
<1>2. x \in Contexts /\ v \in Levels /\ c \in Contexts /\ spinEffect(c, x, v)
  <2>0. x \in Contexts /\ v \in Levels /\ c \in Contexts
    BY <1>1, Zenon DEF IInv, TypeInv, Contexts
  <2> QED BY <1>1, <2>0, NameAssumption, Zenon DEF spinEffect, IInv, TypeInv, spin, At, Go, cpu, regs,
      trapframe
<1>3. StepFacts(c, x, v)
  BY <1>1, FactsHold, Zenon
<1>4. TypeInv'
  BY <1>1, <1>2, NameAssumption, Zenon DEF IInv, TypeInv, Places, spin, At, Go, cpu
<1>5. RegInv'
  BY <1>2, Zenon DEF IInv, RegInv, spinEffect
<1> QED BY <1>4, <1>5, <1>2, <1>3, spinOthers, spinSelf, spinRest, Assemble, Zenon

(* release() and pop_off(): what changes. *)
releaseEffect(c, l, x, v) ==
  /\ pc[x][v] = "run" /\ lockcpu[l] = c /\ lockcpu'[l] = None
  /\ \A m \in Locks : m # l => lockcpu'[m] = lockcpu[m]
  /\ noff'[c] = noff[c] - 1
  /\ noff[c] = 1 /\ intena[c] = 1 => ie'[c] = 1
  /\ noff[c] # 1 \/ intena[c] # 1 => ie'[c] = ie[c]
  /\ \A d \in CPUs : d # c => noff'[d] = noff[d] /\ ie'[d] = ie[d]
  /\ panicked' = IF ie[c] = 1 \/ noff[c] < 1 THEN 1 ELSE panicked
  /\ UNCHANGED <<intena, on, level, pc, lk, old, saved>>
  /\ UNCHANGED <<tp, stvec, sepc, epc, hartid, upc, frame, astray>>

(* It leaves the other CPUs and contexts alone. *)
LEMMA releaseOthers ==
  ASSUME NEW c \in CPUs, NEW l \in Locks, NEW x \in Contexts, NEW v \in Levels,
         StepFacts(c, x, v), releaseEffect(c, l, x, v)
  PROVE  /\ \A d \in CPUs : d # c => Same(d)
         /\ \A y \in Contexts : y # x => Kept(y)
<1>1. ASSUME NEW d \in CPUs, d # c PROVE Same(d)
  <2>1. /\ on[d] # x /\ d # x /\ d \in Contexts /\ on[d] \in Contexts /\ d # None
        /\ level[d] \in Levels /\ level[on[d]] \in Levels /\ 0 \in Levels
    BY <1>1, Apart, Zenon
  <2> QED BY <1>1, <2>1, Zenon DEF Same, releaseEffect
<1>2. ASSUME NEW y \in Contexts, y # x PROVE Kept(y)
  BY <1>2, Zenon DEF Kept, releaseEffect, Contexts, Levels
<1> QED BY <1>1, <1>2, Zenon

(* The invariants of the CPU and the context that step. *)
LEMMA releaseSelf ==
  ASSUME NEW c \in CPUs, NEW l \in Locks, NEW x \in Contexts, NEW v \in Levels,
         StepFacts(c, x, v), releaseEffect(c, l, x, v)
  PROVE  CpuInv(c)' /\ OuterInv(x)'
<1>1. CpuInv(c)'
  <2>1. OnInv(c)'
    BY Zenon DEF StepFacts, Where, releaseEffect, CpuInv, OnInv
  <2>2. HeldInv(c)'
    <3>1. \A m \in Locks : lockcpu'[m] = c => lockcpu[m] = c
      BY Zenon DEF StepFacts, Where, releaseEffect
    <3>2. HeldInv(c) /\ UNCHANGED <<on, level, pc>>
      BY Zenon DEF StepFacts, releaseEffect, CpuInv
    <3> QED BY <3>1, <3>2, Zenon DEF HeldInv, At
  <2>3. AskInv(c)'
    BY Zenon DEF StepFacts, Where, releaseEffect, CpuInv, AskInv, At
  <2>4. CountInv(c)'
    <3>1. /\ CountInv(c) /\ ~At(c, "spin") /\ ~At(c, "spin")' /\ noff'[c] = noff[c] - 1
          /\ HeldInv(c) /\ lockcpu[l] = c /\ lockcpu'[l] # c
          /\ \A m \in Locks : m # l => lockcpu'[m] = lockcpu[m]
      BY Zenon DEF StepFacts, Where, releaseEffect, CpuInv, At
    <3>2. CASE l = L
      <4>1. HasL(c) /\ ~HasL(c)' /\ HasP(c)' = HasP(c)
        BY <3>1, <3>2, NameAssumption, Zenon DEF HasL, HasP, Locks
      <4> QED BY <3>1, <4>1 DEF CountInv
    <3>3. CASE l \in Threads
      <4>1. \A m \in Threads : lockcpu[m] = c => m = l
        BY <3>1, <3>3, NameAssumption, Zenon DEF StepFacts, Where, HeldInv, Locks, Levels
      <4>2. HasP(c) /\ ~HasP(c)' /\ HasL(c)' = HasL(c)
        BY <3>1, <3>3, <4>1, NameAssumption, Zenon DEF HasL, HasP, Locks
      <4> QED BY <3>1, <4>2 DEF CountInv
    <3> QED BY <3>2, <3>3, Zenon DEF Locks
  <2>5. noff[c] # 0 /\ ie[c] = 0 /\ noff[c] \in Nat /\ ~At(c, "userret") /\ ~At(c, "user")
    BY Zenon DEF StepFacts, Where, Unlocked, releaseEffect, CpuInv, OffInv, At
  <2>6. OffInv(c)'
    <3>1. noff'[c] # 0 => ie'[c] = 0
      <4>1. noff'[c] = noff[c] - 1 /\ (noff[c] # 1 => ie'[c] = ie[c])
        BY Zenon DEF releaseEffect
      <4> QED BY <2>5, <4>1
    <3>2. ~At(c, "userret")' /\ ~At(c, "push_off")'
      BY Zenon DEF StepFacts, Where, releaseEffect, At
    <3> QED BY <3>1, <3>2, Zenon DEF OffInv
  <2>7. IntrInv(c)'
    <3>1. /\ IntrInv(c) /\ Wants(on[c])' = Wants(on[c]) /\ Wants(on[c]) \in {0, 1}
          /\ on' = on /\ level' = level /\ intena' = intena
      BY Zenon DEF StepFacts, CpuInv, releaseEffect, Wants
    <3>2. noff'[c] = 0 <=> noff[c] = 1
      <4>1. noff'[c] = noff[c] - 1
        BY Zenon DEF releaseEffect
      <4> QED BY <2>5, <4>1
    <3>3. noff[c] = 1 => ie'[c] = IF intena[c] = 1 THEN 1 ELSE 0
      BY <2>5, Zenon DEF releaseEffect
    <3> QED BY <2>5, <3>1, <3>2, <3>3, Zenon DEF IntrInv
  <2>8. TrapInv(c)'
    BY Zenon DEF StepFacts, releaseEffect, CpuInv, TrapInv, At
  <2> QED BY <2>1, <2>2, <2>3, <2>4, <2>6, <2>7, <2>8, Zenon DEF CpuInv
<1>2. OuterInv(x)'
  BY Zenon DEF StepFacts, Where, releaseEffect, OuterInv, Kernel, Levels
<1> QED BY <1>1, <1>2, Zenon

(* The invariants that relate CPUs and threads. *)
LEMMA releaseRest ==
  ASSUME NEW c \in CPUs, NEW l \in Locks, NEW x \in Contexts, NEW v \in Levels,
         StepFacts(c, x, v), releaseEffect(c, l, x, v)
  PROVE  OneInv' /\ OffCpuInv' /\ Scalars'
<1>1. OneInv'
  BY Zenon DEF StepFacts, Where, OneInv, releaseEffect
<1>2. OffCpuInv'
  <2>1. pc'[x][level'[x]] # "sched" /\ on' = on /\ level \in [Contexts -> Levels]
    BY Zenon DEF StepFacts, Where, releaseEffect, TypeInv
  <2> QED BY <2>1, OffCpuStays, releaseOthers, Zenon DEF StepFacts, Where
<1>3. Scalars'
  <2>1. noff[c] # 0 /\ noff[c] \in Nat /\ ie[c] = 0
    BY Zenon DEF StepFacts, Where, Unlocked, releaseEffect, CpuInv, OffInv
  <2>2. ~(noff[c] < 1) /\ ie[c] # 1
    BY <2>1
  <2> QED BY <2>2, Zenon DEF StepFacts, Scalars, releaseEffect
<1> QED BY <1>1, <1>2, <1>3, Zenon

(* The step preserves the invariant. *)
LEMMA releaseStep ==
  ASSUME IInv, NEW c \in CPUs, NEW l \in Locks, release(c, l), UNCHANGED regs
  PROVE  IInv'
<1>1. PICK x, v : x = on[c] /\ v = level[x]
  BY Zenon
<1>2. x \in Contexts /\ v \in Levels /\ c \in Contexts /\ releaseEffect(c, l, x, v)
  <2>0. x \in Contexts /\ v \in Levels /\ c \in Contexts
    BY <1>1, Zenon DEF IInv, TypeInv, Contexts
  <2> QED BY <1>1, <2>0, NameAssumption, Zenon DEF releaseEffect, IInv, TypeInv, release, last_off, At,
      frames, regs, trapframe
<1>3. StepFacts(c, x, v)
  BY <1>1, FactsHold, Zenon
<1>4. TypeInv'
  BY <1>1, <1>2, NameAssumption DEF IInv, TypeInv, Places, release, last_off, At, frames
<1>5. RegInv'
  BY <1>2, Zenon DEF IInv, RegInv, releaseEffect
<1> QED BY <1>4, <1>5, <1>2, <1>3, releaseOthers, releaseSelf, releaseRest, Assemble, Zenon

(* sched() leaves the CPU to its scheduler: what changes. *)
schedEffect(c, x, v) ==
  /\ x \in Threads /\ pc[x][v] = "run" /\ pc'[x][v] = "sched"
  /\ \A y \in Contexts, w \in Levels : y # x \/ w # v => pc'[y][w] = pc[y][w]
  /\ lockcpu[x] = c /\ \A l \in Locks : lockcpu[l] = c => l = x
  /\ on'[c] = c
  /\ \A d \in CPUs : d # c => on'[d] = on[d]
  /\ saved'[x] = intena[c]
  /\ \A t \in Threads : t # x => saved'[t] = saved[t]
  /\ panicked' = IF noff[c] # 1 \/ ie[c] = 1 THEN 1 ELSE panicked
  /\ UNCHANGED <<lockcpu, noff, intena, ie, level, lk, old>>
  /\ UNCHANGED <<tp, stvec, sepc, epc, hartid, upc, frame, astray>>

(* It leaves the other CPUs and contexts alone. *)
LEMMA schedOthers ==
  ASSUME NEW c \in CPUs, NEW x \in Contexts, NEW v \in Levels,
         StepFacts(c, x, v), schedEffect(c, x, v)
  PROVE  /\ \A d \in CPUs : d # c => Same(d)
         /\ \A y \in Contexts : y # x => Kept(y)
<1>1. ASSUME NEW d \in CPUs, d # c PROVE Same(d)
  <2>1. /\ on[d] # x /\ d # x /\ d \in Contexts /\ on[d] \in Contexts /\ d # None
        /\ level[d] \in Levels /\ level[on[d]] \in Levels /\ 0 \in Levels
    BY <1>1, Apart, Zenon
  <2> QED BY <1>1, <2>1, Zenon DEF Same, schedEffect
<1>2. ASSUME NEW y \in Contexts, y # x PROVE Kept(y)
  BY <1>2, Zenon DEF Kept, schedEffect, Contexts, Levels
<1> QED BY <1>1, <1>2, Zenon

(* The invariants of the CPU and the context that step. *)
LEMMA schedSelf ==
  ASSUME NEW c \in CPUs, NEW x \in Contexts, NEW v \in Levels,
         StepFacts(c, x, v), schedEffect(c, x, v)
  PROVE  CpuInv(c)' /\ OuterInv(x)'
<1>1. CpuInv(c)'
  <2>1. OnInv(c)'
    BY Zenon DEF StepFacts, Where, schedEffect, CpuInv, OnInv
  <2>0. on'[c] = c /\ level'[c] = 0 /\ pc'[c][0] = "run" /\ c \notin Threads
    BY NameAssumption, Zenon DEF StepFacts, Where, schedEffect, CpuInv, OnInv, Levels
  <2>2. HeldInv(c)'
    <3>1. \A m \in Locks : lockcpu'[m] = c => m = x /\ x # L
      BY NameAssumption, Zenon DEF schedEffect
    <3> QED BY <2>0, <3>1, ZeroOne, Zenon DEF HeldInv, At
  <2>3. AskInv(c)'
    BY <2>0, Zenon DEF AskInv, At
  <2>4. CountInv(c)'
    <3>1. CountInv(c) /\ ~At(c, "spin") /\ ~At(c, "spin")' /\ noff' = noff /\ lockcpu' = lockcpu
      BY <2>0, Zenon DEF StepFacts, Where, schedEffect, CpuInv, At
    <3> QED BY <3>1, Zenon DEF CountInv, HasL, HasP
  <2>5. OffInv(c)'
    BY <2>0, Zenon DEF StepFacts, schedEffect, CpuInv, OffInv, At
  <2>6. IntrInv(c)'
    BY <2>0, ZeroOne, Zenon DEF IntrInv
  <2>7. TrapInv(c)'
    BY <2>0, Zenon DEF StepFacts, Where, schedEffect, CpuInv, TrapInv, At
  <2> QED BY <2>1, <2>2, <2>3, <2>4, <2>5, <2>6, <2>7, Zenon DEF CpuInv
<1>2. OuterInv(x)'
  <2>1. /\ level[x] = v /\ level' = level /\ lk' = lk /\ old' = old /\ upc' = upc /\ frame' = frame
        /\ OuterInv(x) /\ pc'[x][v] = "sched"
    BY Zenon DEF StepFacts, Where, schedEffect
  <2>2. v = 1 => pc'[x][0] = pc[x][0]
    BY ZeroOne, Zenon DEF schedEffect, Levels
  <2>3. v = 1 => Kernel(x)' = Kernel(x)
    BY <2>2, Zenon DEF Kernel
  <2> QED BY <2>1, <2>2, <2>3, Zenon DEF OuterInv
<1> QED BY <1>1, <1>2, Zenon

(* The invariants that relate CPUs and threads. *)
LEMMA schedRest ==
  ASSUME NEW c \in CPUs, NEW x \in Contexts, NEW v \in Levels,
         StepFacts(c, x, v), schedEffect(c, x, v)
  PROVE  OneInv' /\ OffCpuInv' /\ Scalars'
<1>1. OneInv'
  <2>1. \A d \in CPUs : on[d] # c
    BY NameAssumption DEF StepFacts, Where, schedEffect
  <2> QED BY <2>1 DEF StepFacts, Where, OneInv, schedEffect
<1>2. OffCpuInv'
  <2> SUFFICES ASSUME NEW t \in Threads
               PROVE  /\ pc'[t][level'[t]] = "sched" <=> \A d \in CPUs : on'[d] # t
                      /\ pc'[t][level'[t]] = "sched" => saved'[t] = Wants(t)'
    BY Zenon DEF OffCpuInv
  <2>0. Wants(t)' = Wants(t) /\ t \in Contexts /\ level[t] \in Levels
    BY Zenon DEF StepFacts, Where, schedEffect, Wants, TypeInv, Contexts
  <2>1. CASE t = x
    <3>1. noff[c] # 0 /\ intena[c] = Wants(x)
      BY Zenon DEF StepFacts, Where, Unlocked, schedEffect, CpuInv, IntrInv, At
    <3>2. \A d \in CPUs : on'[d] # t
      BY <2>1 DEF StepFacts, Where, schedEffect, OneInv
    <3> QED BY <2>0, <2>1, <3>1, <3>2, Zenon DEF StepFacts, Where, schedEffect
  <2>2. CASE t # x
    <3>1. (\A d \in CPUs : on'[d] # t) <=> (\A d \in CPUs : on[d] # t)
      BY <2>2 DEF StepFacts, Where, schedEffect
    <3>2. pc'[t][level'[t]] = pc[t][level[t]] /\ saved'[t] = saved[t]
      BY <2>0, <2>2, Zenon DEF schedEffect
    <3> QED BY <2>0, <3>1, <3>2, Zenon DEF StepFacts, Where, OffCpuInv
  <2> QED BY <2>1, <2>2, Zenon
<1>3. Scalars'
  <2>1. HasP(c) /\ ~HasL(c) /\ ~At(c, "spin")
    BY NameAssumption, Zenon DEF StepFacts, Where, schedEffect, HasL, HasP, At
  <2>2. noff[c] = 1 /\ ie[c] = 0
    BY <2>1 DEF StepFacts, Where, CpuInv, CountInv, OffInv
  <2> QED BY <2>2, Zenon DEF StepFacts, Where, schedEffect, Scalars
<1> QED BY <1>1, <1>2, <1>3, Zenon

(* The step preserves the invariant. *)
LEMMA schedStep ==
  ASSUME IInv, NEW c \in CPUs, sched(c), UNCHANGED regs
  PROVE  IInv'
<1>1. PICK x, v : x = on[c] /\ v = level[x]
  BY Zenon
<1>2. x \in Contexts /\ v \in Levels /\ c \in Contexts /\ schedEffect(c, x, v)
  <2>0. x \in Contexts /\ v \in Levels /\ c \in Contexts
    BY <1>1, Zenon DEF IInv, TypeInv, Contexts
  <2> QED BY <1>1, <2>0, NameAssumption, Zenon DEF schedEffect, IInv, TypeInv, sched, calls_sched, Held,
      At, Go, cpu, Locks, regs, trapframe
<1>3. StepFacts(c, x, v)
  BY <1>1, FactsHold, Zenon
<1>4. TypeInv'
  BY <1>1, <1>2, NameAssumption, Zenon DEF IInv, TypeInv, Places, sched, calls_sched, Held, At, Go, cpu,
      Locks
<1>5. RegInv'
  BY <1>2, Zenon DEF IInv, RegInv, schedEffect
<1> QED BY <1>4, <1>5, <1>2, <1>3, schedOthers, schedSelf, schedRest, Assemble, Zenon

(* scheduler() turns interrupts on: what changes. *)
intr_onEffect(c, x, v) ==
  /\ x = c /\ pc[x][v] = "run" /\ v = 0
  /\ \A l \in Locks : lockcpu[l] # c
  /\ ie'[c] = 1
  /\ \A d \in CPUs : d # c => ie'[d] = ie[d]
  /\ UNCHANGED <<lockcpu, noff, intena, on, level, pc, lk, old, saved, panicked>>
  /\ UNCHANGED <<tp, stvec, sepc, epc, hartid, upc, frame, astray>>

(* It leaves the other CPUs and contexts alone. *)
LEMMA intr_onOthers ==
  ASSUME NEW c \in CPUs, NEW x \in Contexts, NEW v \in Levels,
         StepFacts(c, x, v), intr_onEffect(c, x, v)
  PROVE  /\ \A d \in CPUs : d # c => Same(d)
         /\ \A y \in Contexts : y # x => Kept(y)
<1>1. ASSUME NEW d \in CPUs, d # c PROVE Same(d)
  <2>1. /\ on[d] # x /\ d # x /\ d \in Contexts /\ on[d] \in Contexts /\ d # None
        /\ level[d] \in Levels /\ level[on[d]] \in Levels /\ 0 \in Levels
    BY <1>1, Apart, Zenon
  <2> QED BY <1>1, <2>1, Zenon DEF Same, intr_onEffect
<1>2. ASSUME NEW y \in Contexts, y # x PROVE Kept(y)
  BY <1>2, Zenon DEF Kept, intr_onEffect, Contexts, Levels
<1> QED BY <1>1, <1>2, Zenon

(* The invariants of the CPU and the context that step. *)
LEMMA intr_onSelf ==
  ASSUME NEW c \in CPUs, NEW x \in Contexts, NEW v \in Levels,
         StepFacts(c, x, v), intr_onEffect(c, x, v)
  PROVE  CpuInv(c)' /\ OuterInv(x)'
<1>1. CpuInv(c)'
  <2>1. OnInv(c)'
    BY Zenon DEF StepFacts, intr_onEffect, CpuInv, OnInv
  <2>2. HeldInv(c)'
    BY Zenon DEF intr_onEffect, HeldInv
  <2>3. AskInv(c)'
    BY Zenon DEF StepFacts, Where, intr_onEffect, AskInv, At
  <2>4. CountInv(c)'
    BY Zenon DEF StepFacts, intr_onEffect, CpuInv, CountInv, HasL, HasP, At
  <2>5. OffInv(c)'
    BY Zenon DEF StepFacts, Where, intr_onEffect, OffInv, At, Unlocked
  <2>6. IntrInv(c)'
    BY ZeroOne, Zenon DEF StepFacts, Where, intr_onEffect, IntrInv
  <2>7. TrapInv(c)'
    BY Zenon DEF StepFacts, intr_onEffect, CpuInv, TrapInv, At
  <2> QED BY <2>1, <2>2, <2>3, <2>4, <2>5, <2>6, <2>7, Zenon DEF CpuInv
<1>2. OuterInv(x)'
  BY Zenon DEF StepFacts, Where, intr_onEffect, OuterInv, Kernel, Levels
<1> QED BY <1>1, <1>2, Zenon

(* The invariants that relate CPUs and threads. *)
LEMMA intr_onRest ==
  ASSUME NEW c \in CPUs, NEW x \in Contexts, NEW v \in Levels,
         StepFacts(c, x, v), intr_onEffect(c, x, v)
  PROVE  OneInv' /\ OffCpuInv' /\ Scalars'
<1>1. OneInv'
  BY Zenon DEF StepFacts, Where, OneInv, intr_onEffect
<1>2. OffCpuInv'
  <2>1. pc'[x][level'[x]] # "sched" /\ on' = on /\ level \in [Contexts -> Levels]
    BY Zenon DEF StepFacts, Where, intr_onEffect, TypeInv
  <2> QED BY <2>1, OffCpuStays, intr_onOthers, Zenon DEF StepFacts, Where
<1>3. Scalars'
  BY Zenon DEF StepFacts, Where, Scalars, intr_onEffect
<1> QED BY <1>1, <1>2, <1>3, Zenon

(* The step preserves the invariant. *)
LEMMA intr_onStep ==
  ASSUME IInv, NEW c \in CPUs, intr_on(c), UNCHANGED regs
  PROVE  IInv'
<1>1. PICK x, v : x = on[c] /\ v = level[x]
  BY Zenon
<1>2. x \in Contexts /\ v \in Levels /\ c \in Contexts /\ intr_onEffect(c, x, v)
  <2>0. x \in Contexts /\ v \in Levels /\ c \in Contexts
    BY <1>1, Zenon DEF IInv, TypeInv, Contexts
  <2> QED BY <1>1, <2>0, NameAssumption, Zenon DEF intr_onEffect, IInv, TypeInv, intr_on, Held, At,
      Interrupted, frames, Levels, regs, trapframe
<1>3. StepFacts(c, x, v)
  BY <1>1, FactsHold, Zenon
<1>4. TypeInv'
  BY <1>1, <1>2, NameAssumption, Zenon DEF IInv, TypeInv, Places, intr_on, Held, At, Interrupted, frames,
      Levels
<1>5. RegInv'
  BY <1>2, Zenon DEF IInv, RegInv, intr_onEffect
<1> QED BY <1>4, <1>5, <1>2, <1>3, intr_onOthers, intr_onSelf, intr_onRest, Assemble, Zenon

(* scheduler() resumes a thread in sched(): what changes. *)
swtchEffect(c, t, x, v) ==
  /\ x = c /\ pc[x][v] = "run" /\ v = 0 /\ lockcpu[t] = c
  /\ pc[t][level[t]] = "sched" /\ pc'[t][level[t]] = "run"
  /\ \A y \in Contexts, w \in Levels : y # t \/ w # level[t] => pc'[y][w] = pc[y][w]
  /\ on'[c] = t /\ intena'[c] = saved[t]
  /\ \A d \in CPUs : d # c => on'[d] = on[d] /\ intena'[d] = intena[d]
  /\ \A u \in Threads : u # t => saved'[u] = saved[u]
  /\ UNCHANGED <<lockcpu, noff, ie, level, lk, old, panicked>>
  /\ UNCHANGED <<tp, stvec, sepc, epc, hartid, upc, frame, astray>>

(* It leaves the other CPUs and contexts alone. *)
LEMMA swtchOthers ==
  ASSUME NEW c \in CPUs, NEW t \in Threads, NEW x \in Contexts, NEW v \in Levels,
         StepFacts(c, x, v), swtchEffect(c, t, x, v)
  PROVE  /\ \A d \in CPUs : d # c => Same(d)
         /\ \A y \in Contexts : y # x /\ y # t => Kept(y)
<1>1. ASSUME NEW d \in CPUs, d # c PROVE Same(d)
  <2>1. /\ on[d] # x /\ d # x /\ d \in Contexts /\ on[d] \in Contexts /\ d # None
        /\ level[d] \in Levels /\ level[on[d]] \in Levels /\ 0 \in Levels
    BY <1>1, Apart, Zenon
  <2>2. on[d] # t /\ d # t /\ t \in Contexts /\ level[t] \in Levels
    <3>1. OffCpuInv /\ pc[t][level[t]] = "sched" /\ level \in [Contexts -> Levels]
      BY Zenon DEF StepFacts, swtchEffect, TypeInv
    <3> QED BY <3>1, NameAssumption, Zenon DEF OffCpuInv, Contexts
  <2> QED BY <1>1, <2>1, <2>2, Zenon DEF Same, swtchEffect
<1>2. ASSUME NEW y \in Contexts, y # x, y # t PROVE Kept(y)
  BY <1>2, Zenon DEF Kept, swtchEffect, Contexts, Levels
<1> QED BY <1>1, <1>2, Zenon

(* The invariants of the CPU and the context that step. *)
LEMMA swtchSelf ==
  ASSUME NEW c \in CPUs, NEW t \in Threads, NEW x \in Contexts, NEW v \in Levels,
         StepFacts(c, x, v), swtchEffect(c, t, x, v), OuterInv(t)
  PROVE  CpuInv(c)' /\ OuterInv(x)' /\ OuterInv(t)'
<1>1. CpuInv(c)'
  <2>1. OnInv(c)'
    <3>1. /\ x = c /\ v = 0 /\ c \in Contexts /\ c # t /\ v \in Levels /\ level[c] = 0
          /\ pc[c][0] = "run" /\ on'[c] = t /\ level' = level
      BY Zenon DEF StepFacts, Where, swtchEffect
    <3>2. pc'[c][0] = pc[c][0]
      BY <3>1, Zenon DEF swtchEffect
    <3> QED BY <3>1, <3>2, Zenon DEF OnInv
  <2>2. HeldInv(c)'
    <3>1. /\ HeldInv(c) /\ on[c] = c /\ level[c] = 0 /\ lockcpu[t] = c /\ lockcpu' = lockcpu
          /\ on'[c] = t /\ pc'[t][level'[t]] = "run" /\ t \in Locks /\ t # c
      BY Zenon DEF StepFacts, Where, swtchEffect, CpuInv
    <3>2. \A m \in Locks : lockcpu[m] = c => m = t
      BY <3>1, Zenon DEF HeldInv
    <3> QED BY <3>1, <3>2, Zenon DEF HeldInv, At
  <2>3. AskInv(c)'
    BY Zenon DEF swtchEffect, AskInv, At
  <2>4. CountInv(c)'
    <3>1. CountInv(c) /\ ~At(c, "spin") /\ ~At(c, "spin")' /\ noff' = noff /\ lockcpu' = lockcpu
      BY Zenon DEF StepFacts, Where, swtchEffect, CpuInv, At
    <3> QED BY <3>1, Zenon DEF CountInv, HasL, HasP
  <2>5. OffInv(c)'
    BY Zenon DEF StepFacts, Where, swtchEffect, CpuInv, OffInv, At
  <2>6. IntrInv(c)'
    <3>1. saved[t] = Wants(t) /\ Wants(t)' = Wants(t) /\ noff[c] # 0
      BY Zenon DEF StepFacts, Where, Unlocked, swtchEffect, OffCpuInv, Wants
    <3>2. on'[c] = t /\ noff' = noff /\ intena'[c] = saved[t]
      BY Zenon DEF swtchEffect
    <3> QED BY <3>1, <3>2, Zenon DEF IntrInv
  <2>7. TrapInv(c)'
    <3>1. /\ on[c] = c /\ pc[c][level[c]] = "run" /\ on'[c] = t /\ pc'[t][level'[t]] = "run"
          /\ tp' = tp /\ stvec' = stvec /\ TrapInv(c)
      BY Zenon DEF StepFacts, Where, swtchEffect, CpuInv
    <3>2. ~At(c, "user") /\ ~At(c, "userret") /\ ~At(c, "user")' /\ ~At(c, "userret")'
      BY <3>1, Zenon DEF At
    <3> QED BY <3>1, <3>2, Zenon DEF TrapInv
  <2> QED BY <2>1, <2>2, <2>3, <2>4, <2>5, <2>6, <2>7, Zenon DEF CpuInv
<1>2. OuterInv(x)'
  <2>1. level'[x] = 0
    BY Zenon DEF StepFacts, Where, swtchEffect
  <2> QED BY <2>1, ZeroOne, Zenon DEF OuterInv
<1>3. OuterInv(t)'
  <2>1. level[t] = 1 => level[t] # 0 /\ pc'[t][1] = "run" /\ pc'[t][0] = pc[t][0]
    <3>1. /\ pc'[t][level[t]] = "run" /\ t \in Contexts
          /\ \A w \in Levels : w # level[t] => pc'[t][w] = pc[t][w]
      BY Zenon DEF swtchEffect, Contexts
    <3> QED BY <3>1, ZeroOne, Zenon DEF Levels
  <2>2. OuterInv(t) /\ UNCHANGED <<level, lk, old, upc, frame>>
    BY Zenon DEF swtchEffect
  <2> QED BY <2>1, <2>2, Zenon DEF OuterInv, Kernel
<1> QED BY <1>1, <1>2, <1>3, Zenon

(* The invariants that relate CPUs and threads. *)
LEMMA swtchRest ==
  ASSUME NEW c \in CPUs, NEW t \in Threads, NEW x \in Contexts, NEW v \in Levels,
         StepFacts(c, x, v), swtchEffect(c, t, x, v)
  PROVE  OneInv' /\ OffCpuInv' /\ Scalars'
<1>1. OneInv'
  <2>1. \A d \in CPUs : on[d] # t
    BY Zenon DEF StepFacts, swtchEffect, OffCpuInv
  <2>2. OneInv /\ on'[c] = t /\ \A d \in CPUs : d # c => on'[d] = on[d]
    BY Zenon DEF StepFacts, swtchEffect
  <2> QED BY <2>1, <2>2, Zenon DEF OneInv
<1>2. OffCpuInv'
  <2> SUFFICES ASSUME NEW u \in Threads
               PROVE  /\ pc'[u][level'[u]] = "sched" <=> \A d \in CPUs : on'[d] # u
                      /\ pc'[u][level'[u]] = "sched" => saved'[u] = Wants(u)'
    BY Zenon DEF OffCpuInv
  <2>0. Wants(u)' = Wants(u) /\ u \in Contexts /\ level[u] \in Levels
    BY Zenon DEF StepFacts, swtchEffect, Wants, TypeInv, Contexts
  <2>1. CASE u = t
    BY <2>1, Zenon DEF swtchEffect
  <2>2. CASE u # t
    <3>1. (\A d \in CPUs : on'[d] # u) <=> (\A d \in CPUs : on[d] # u)
      <4>1. on[c] # u /\ on'[c] # u /\ \A d \in CPUs : d # c => on'[d] = on[d]
        BY <2>2, NameAssumption, Zenon DEF StepFacts, Where, swtchEffect
      <4> QED BY <4>1, Zenon
    <3>2. level' = level /\ saved'[u] = saved[u]
      BY <2>2, Zenon DEF swtchEffect
    <3>3. \A w \in Levels : pc'[u][w] = pc[u][w]
      BY <2>0, <2>2, Zenon DEF swtchEffect
    <3> QED BY <2>0, <3>1, <3>2, <3>3, Zenon DEF StepFacts, Where, OffCpuInv
  <2> QED BY <2>1, <2>2, Zenon
<1>3. Scalars'
  BY Zenon DEF StepFacts, Where, Scalars, swtchEffect
<1> QED BY <1>1, <1>2, <1>3, Zenon

(* The step preserves the invariant. *)
LEMMA swtchStep ==
  ASSUME IInv, NEW c \in CPUs, NEW t \in Threads, swtch(c, t), UNCHANGED regs
  PROVE  IInv'
<1>1. PICK x, v : x = on[c] /\ v = level[x]
  BY Zenon
<1>2. x \in Contexts /\ v \in Levels /\ c \in Contexts /\ swtchEffect(c, t, x, v)
  <2>0. x \in Contexts /\ v \in Levels /\ c \in Contexts
    BY <1>1, Zenon DEF IInv, TypeInv, Contexts
  <2> QED BY <1>1, <2>0, NameAssumption DEF swtchEffect, IInv, TypeInv, swtch, restored, At,
      Interrupted, Levels, Contexts, regs, trapframe
<1>3. StepFacts(c, x, v)
  BY <1>1, FactsHold, Zenon
<1>4. TypeInv'
  BY <1>1, <1>2, NameAssumption, Zenon DEF IInv, TypeInv, Places, swtch, restored, At, Interrupted,
      Levels, Contexts
<1>5. RegInv'
  BY <1>2, Zenon DEF IInv, RegInv, swtchEffect
<1>s. OuterInv(t)
  BY Zenon DEF IInv, Contexts
<1>6. (\A d \in CPUs : CpuInv(d)') /\ \A y \in Contexts : OuterInv(y)'
  BY <1>s, <1>2, <1>3, swtchOthers, swtchSelf, swtchRest, OthersCpu, OthersContext DEF IInv
<1>7. OneInv' /\ OffCpuInv' /\ Scalars'
  BY <1>2, <1>3, swtchRest, Zenon
<1> QED BY <1>4, <1>5, <1>6, <1>7, Zenon DEF IInv, Scalars, Contexts

------------------------------------------------------------------------------
(* A trap from user mode: what changes. *)
usertrapEffect(c, x, v) ==
  /\ x \in Threads
  /\ pc[x][v] = "user" /\ pc'[x][v] = "run"
  /\ \A y \in Contexts, w \in Levels : y # x \/ w # v => pc'[y][w] = pc[y][w]
  /\ (ie'[c] = 1 /\ upc'[x] = "pc4") \/ (ie'[c] = 0 /\ upc'[x] = "pc")
  /\ epc' = upc'
  /\ \A d \in CPUs : d # c => ie'[d] = ie[d]
  /\ \A t \in Threads : t # x => upc'[t] = upc[t]
  /\ tp'[c] = hartid[x] /\ stvec'[c] = "kernelvec"
  /\ \A d \in CPUs : d # c => tp'[d] = tp[d] /\ stvec'[d] = stvec[d] /\ sepc'[d] = sepc[d]
  /\ \A t \in Threads : t # x => hartid'[t] = hartid[t]
  /\ stvec[c] = "uservec" => ~astray'
  /\ UNCHANGED <<lockcpu, noff, intena, on, level, lk, old, saved, panicked, frame>>

(* It leaves the other CPUs and contexts alone. *)
LEMMA usertrapOthers ==
  ASSUME NEW c \in CPUs, NEW x \in Contexts, NEW v \in Levels,
         StepFacts(c, x, v), usertrapEffect(c, x, v)
  PROVE  /\ \A d \in CPUs : d # c => Same(d)
         /\ \A y \in Contexts : y # x => Kept(y)
<1>1. ASSUME NEW d \in CPUs, d # c PROVE Same(d)
  <2>1. /\ on[d] # x /\ d # x /\ d \in Contexts /\ on[d] \in Contexts /\ d # None
        /\ level[d] \in Levels /\ level[on[d]] \in Levels /\ 0 \in Levels
    BY <1>1, Apart, Zenon
  <2> QED BY <1>1, <2>1, Zenon DEF Same, usertrapEffect
<1>2. ASSUME NEW y \in Contexts, y # x PROVE Kept(y)
  BY <1>2, Zenon DEF Kept, usertrapEffect, Contexts, Levels
<1> QED BY <1>1, <1>2, Zenon

(* The invariants of the CPU and the context that step. *)
LEMMA usertrapSelf ==
  ASSUME NEW c \in CPUs, NEW x \in Contexts, NEW v \in Levels,
         StepFacts(c, x, v), usertrapEffect(c, x, v)
  PROVE  CpuInv(c)' /\ OuterInv(x)'
<1>1. CpuInv(c)'
  <2>1. OnInv(c)'
    BY Zenon DEF StepFacts, Where, usertrapEffect, CpuInv, OnInv
  <2>2. HeldInv(c)'
    BY Zenon DEF StepFacts, Where, usertrapEffect, CpuInv, HeldInv, At
  <2>3. AskInv(c)'
    BY Zenon DEF StepFacts, Where, usertrapEffect, AskInv, At
  <2>4. CountInv(c)'
    BY Zenon DEF StepFacts, Where, usertrapEffect, CpuInv, CountInv, HasL, HasP, At, Levels
  <2>5. OffInv(c)'
    BY Zenon DEF StepFacts, Where, usertrapEffect, CpuInv, OffInv, At, Unlocked, HeldInv
  <2>6. IntrInv(c)'
    BY Zenon DEF StepFacts, Where, usertrapEffect, CpuInv, IntrInv, Wants, At, Unlocked, HeldInv,
        Levels, OuterInv
  <2>7. TrapInv(c)'
    BY NameAssumption, Zenon DEF StepFacts, Where, usertrapEffect, CpuInv, TrapInv, At
  <2> QED BY <2>1, <2>2, <2>3, <2>4, <2>5, <2>6, <2>7, Zenon DEF CpuInv
<1>2. OuterInv(x)'
  BY Zenon DEF StepFacts, Where, usertrapEffect, OuterInv, Kernel, Levels
<1> QED BY <1>1, <1>2, Zenon

(* The invariants that relate CPUs and threads. *)
LEMMA usertrapRest ==
  ASSUME NEW c \in CPUs, NEW x \in Contexts, NEW v \in Levels,
         StepFacts(c, x, v), usertrapEffect(c, x, v)
  PROVE  OneInv' /\ OffCpuInv' /\ Scalars'
<1>1. OneInv'
  BY Zenon DEF StepFacts, Where, OneInv, usertrapEffect
<1>2. OffCpuInv'
  <2>1. pc'[x][level'[x]] # "sched" /\ on' = on /\ level \in [Contexts -> Levels]
    BY Zenon DEF StepFacts, Where, usertrapEffect, TypeInv
  <2> QED BY <2>1, OffCpuStays, usertrapOthers, Zenon DEF StepFacts, Where
<1>3. Scalars'
  BY Zenon DEF StepFacts, Where, usertrapEffect, Scalars, CpuInv, TrapInv, At
<1> QED BY <1>1, <1>2, <1>3, Zenon

(* The step preserves the invariant. *)
LEMMA usertrapStep ==
  ASSUME IInv, NEW c \in CPUs, usertrap(c, TRUE) \/ usertrap(c, FALSE)
  PROVE  IInv'
<1>1. PICK x, v : x = on[c] /\ v = level[x]
  BY Zenon
<1>2. x \in Contexts /\ v \in Levels /\ c \in Contexts /\ usertrapEffect(c, x, v)
  <2>0. x \in Contexts /\ v \in Levels /\ c \in Contexts
    BY <1>1, Zenon DEF IInv, TypeInv, Contexts
  <2>1. ASSUME usertrap(c, TRUE) PROVE usertrapEffect(c, x, v)
    <3>1. x \in Threads
      BY <1>1, <2>0, <2>1, Zenon DEF usertrap, IInv, CpuInv, OnInv, At, Contexts
    <3>2. stvec[c] = "uservec" => ~astray'
      BY <1>1, <2>1, Zenon DEF usertrap, uservec, kernelvec, w_sepc
    <3>3. epc' = upc'
      BY <1>1, <2>1, Zenon DEF usertrap, next_pc, IInv
    <3>4. /\ pc[x][v] = "user" /\ pc'[x][v] = "run"
          /\ \A y \in Contexts, w \in Levels : y # x \/ w # v => pc'[y][w] = pc[y][w]
      BY <1>1, <2>0, <2>1, Zenon DEF IInv, TypeInv, usertrap, At, Go
    <3>5. /\ ie'[c] = 1 /\ upc'[x] = "pc4"
          /\ \A d \in CPUs : d # c => ie'[d] = ie[d]
          /\ \A t \in Threads : t # x => upc'[t] = upc[t]
      BY <1>1, <3>1, <2>1, Zenon DEF IInv, TypeInv, RegInv, usertrap
    <3>6. /\ tp'[c] = hartid[x] /\ stvec'[c] = "kernelvec"
          /\ \A d \in CPUs : d # c => tp'[d] = tp[d] /\ stvec'[d] = stvec[d] /\ sepc'[d] = sepc[d]
          /\ \A t \in Threads : t # x => hartid'[t] = hartid[t]
      BY <1>1, <3>1, <2>1, Zenon DEF IInv, RegInv, usertrap, uservec
    <3>7. UNCHANGED <<lockcpu, noff, intena, on, level, lk, old, saved, panicked, frame>>
      BY <2>1, Zenon DEF usertrap
    <3> QED BY <3>1, <3>2, <3>3, <3>4, <3>5, <3>6, <3>7, Zenon DEF usertrapEffect
  <2>2. ASSUME usertrap(c, FALSE) PROVE usertrapEffect(c, x, v)
    <3>1. x \in Threads
      BY <1>1, <2>0, <2>2, Zenon DEF usertrap, IInv, CpuInv, OnInv, At, Contexts
    <3>2. stvec[c] = "uservec" => ~astray'
      BY <1>1, <2>2, Zenon DEF usertrap, uservec, kernelvec, w_sepc
    <3>3. epc' = upc'
      BY <1>1, <2>2, Zenon DEF usertrap, next_pc, IInv
    <3>4. /\ pc[x][v] = "user" /\ pc'[x][v] = "run"
          /\ \A y \in Contexts, w \in Levels : y # x \/ w # v => pc'[y][w] = pc[y][w]
      BY <1>1, <2>0, <2>2, Zenon DEF IInv, TypeInv, usertrap, At, Go
    <3>5. /\ ie'[c] = 0 /\ upc'[x] = "pc"
          /\ \A d \in CPUs : d # c => ie'[d] = ie[d]
          /\ \A t \in Threads : t # x => upc'[t] = upc[t]
      BY <1>1, <3>1, <2>2, Zenon DEF IInv, TypeInv, RegInv, usertrap
    <3>6. /\ tp'[c] = hartid[x] /\ stvec'[c] = "kernelvec"
          /\ \A d \in CPUs : d # c => tp'[d] = tp[d] /\ stvec'[d] = stvec[d] /\ sepc'[d] = sepc[d]
          /\ \A t \in Threads : t # x => hartid'[t] = hartid[t]
      BY <1>1, <3>1, <2>2, Zenon DEF IInv, RegInv, usertrap, uservec
    <3>7. UNCHANGED <<lockcpu, noff, intena, on, level, lk, old, saved, panicked, frame>>
      BY <2>2, Zenon DEF usertrap
    <3> QED BY <3>1, <3>2, <3>3, <3>4, <3>5, <3>6, <3>7, Zenon DEF usertrapEffect
  <2> QED BY <2>0, <2>1, <2>2, Zenon
<1>3. StepFacts(c, x, v)
  BY <1>1, FactsHold, Zenon
<1>4. TypeInv'
  <2>1. CASE usertrap(c, TRUE)
    BY <1>2, <2>1, Zenon DEF IInv, TypeInv, usertrap, Go, Places
  <2>2. CASE usertrap(c, FALSE)
    BY <1>2, <2>2, Zenon DEF IInv, TypeInv, usertrap, Go, Places
  <2> QED BY <2>1, <2>2, Zenon
<1>5. RegInv'
  <2>1. CASE usertrap(c, TRUE)
    BY <1>1, <1>2, <2>1, Zenon DEF IInv, RegInv, usertrap, uservec, next_pc, usertrapEffect, UserPcs,
        Nowhere, Sepcs
  <2>2. CASE usertrap(c, FALSE)
    BY <1>1, <1>2, <2>2, Zenon DEF IInv, RegInv, usertrap, uservec, next_pc, usertrapEffect, UserPcs,
        Nowhere, Sepcs
  <2> QED BY <2>1, <2>2, Zenon
<1> QED BY <1>4, <1>5, <1>2, <1>3, usertrapOthers, usertrapSelf, usertrapRest, Assemble, Zenon

(* usertrapret() prepares the return: what changes. *)
usertrapretEffect(c, x, v) ==
  /\ x \in Threads /\ v = 0 /\ pc[x][v] = "run" /\ pc'[x][v] = "userret"
  /\ \A y \in Contexts, w \in Levels : y # x \/ w # v => pc'[y][w] = pc[y][w]
  /\ \A l \in Locks : lockcpu[l] # c
  /\ ie'[c] = 0 /\ stvec'[c] = "uservec" /\ sepc'[c] = User(x, epc[x]) /\ hartid'[x] = tp[c]
  /\ \A d \in CPUs : d # c => ie'[d] = ie[d] /\ stvec'[d] = stvec[d] /\ sepc'[d] = sepc[d]
  /\ \A t \in Threads : t # x => hartid'[t] = hartid[t]
  /\ UNCHANGED <<lockcpu, noff, intena, on, level, lk, old, saved, panicked, tp, epc, upc, frame, astray>>

(* It leaves the other CPUs and contexts alone. *)
LEMMA usertrapretOthers ==
  ASSUME NEW c \in CPUs, NEW x \in Contexts, NEW v \in Levels,
         StepFacts(c, x, v), usertrapretEffect(c, x, v)
  PROVE  /\ \A d \in CPUs : d # c => Same(d)
         /\ \A y \in Contexts : y # x => Kept(y)
<1>1. ASSUME NEW d \in CPUs, d # c PROVE Same(d)
  <2>1. /\ on[d] # x /\ d # x /\ d \in Contexts /\ on[d] \in Contexts /\ d # None
        /\ level[d] \in Levels /\ level[on[d]] \in Levels /\ 0 \in Levels
    BY <1>1, Apart, Zenon
  <2> QED BY <1>1, <2>1, Zenon DEF Same, usertrapretEffect
<1>2. ASSUME NEW y \in Contexts, y # x PROVE Kept(y)
  BY <1>2, Zenon DEF Kept, usertrapretEffect, Contexts, Levels
<1> QED BY <1>1, <1>2, Zenon

(* The invariants of the CPU and the context that step. *)
LEMMA usertrapretSelf ==
  ASSUME NEW c \in CPUs, NEW x \in Contexts, NEW v \in Levels,
         StepFacts(c, x, v), usertrapretEffect(c, x, v)
  PROVE  CpuInv(c)' /\ OuterInv(x)'
<1>1. CpuInv(c)'
  <2>1. OnInv(c)'
    BY Zenon DEF StepFacts, Where, usertrapretEffect, CpuInv, OnInv
  <2>2. HeldInv(c)'
    BY Zenon DEF usertrapretEffect, HeldInv
  <2>3. AskInv(c)'
    BY Zenon DEF StepFacts, Where, usertrapretEffect, AskInv, At
  <2>4. CountInv(c)'
    BY Zenon DEF StepFacts, Where, usertrapretEffect, CpuInv, CountInv, HasL, HasP, At
  <2>5. OffInv(c)'
    BY Zenon DEF StepFacts, Where, usertrapretEffect, OffInv, At
  <2>6. IntrInv(c)'
    BY Zenon DEF StepFacts, Where, usertrapretEffect, IntrInv, At
  <2>7. TrapInv(c)'
    BY NameAssumption, Zenon DEF StepFacts, Where, Scalars, usertrapretEffect, CpuInv, TrapInv, At
  <2> QED BY <2>1, <2>2, <2>3, <2>4, <2>5, <2>6, <2>7, Zenon DEF CpuInv
<1>2. OuterInv(x)'
  <2>1. level'[x] = 0
    BY Zenon DEF StepFacts, Where, usertrapretEffect
  <2> QED BY <2>1, ZeroOne, Zenon DEF OuterInv
<1> QED BY <1>1, <1>2, Zenon

(* The invariants that relate CPUs and threads. *)
LEMMA usertrapretRest ==
  ASSUME NEW c \in CPUs, NEW x \in Contexts, NEW v \in Levels,
         StepFacts(c, x, v), usertrapretEffect(c, x, v)
  PROVE  OneInv' /\ OffCpuInv' /\ Scalars'
<1>1. OneInv'
  BY Zenon DEF StepFacts, Where, OneInv, usertrapretEffect
<1>2. OffCpuInv'
  <2>1. pc'[x][level'[x]] # "sched" /\ on' = on /\ level \in [Contexts -> Levels]
    BY Zenon DEF StepFacts, Where, usertrapretEffect, TypeInv
  <2> QED BY <2>1, OffCpuStays, usertrapretOthers, Zenon DEF StepFacts, Where
<1>3. Scalars'
  BY Zenon DEF StepFacts, Where, Scalars, usertrapretEffect
<1> QED BY <1>1, <1>2, <1>3, Zenon

(* The step preserves the invariant. *)
LEMMA usertrapretStep ==
  ASSUME IInv, NEW c \in CPUs, usertrapret(c)
  PROVE  IInv'
<1>1. PICK x, v : x = on[c] /\ v = level[x]
  BY Zenon
<1>2. x \in Contexts /\ v \in Levels /\ c \in Contexts /\ usertrapretEffect(c, x, v)
  <2>0. x \in Contexts /\ v \in Levels /\ c \in Contexts
    BY <1>1, Zenon DEF IInv, TypeInv, Contexts
  <2> QED BY <1>1, <2>0, NameAssumption DEF usertrapretEffect, IInv, TypeInv, usertrapret,
      intr_off, Held, Interrupted, At, Go, RegInv, Levels, regs, trapframe
<1>3. StepFacts(c, x, v)
  BY <1>1, FactsHold, Zenon
<1>4. TypeInv'
  BY <1>1, <1>2, NameAssumption, Zenon DEF IInv, TypeInv, Places, usertrapret, intr_off, Held,
      Interrupted, At, Go, Levels
<1>5. RegInv'
  <2>1. x \in Threads /\ RegInv
    BY <1>1, Zenon DEF usertrapret, IInv
  <2>2. User(x, epc[x]) \in Sepcs
    BY <1>2, <2>1, Zenon DEF RegInv, User, Sepcs
  <2>3. sepc' \in [CPUs -> Sepcs] /\ hartid' \in [Threads -> CPUs \cup {None}]
    BY <1>1, <2>1, <2>2, Zenon DEF RegInv, usertrapret
  <2>4. stvec' \in [CPUs -> {"uservec", "kernelvec"}] /\ UNCHANGED <<tp, epc, upc, frame>>
    BY <2>1, Zenon DEF RegInv, usertrapret
  <2> QED BY <2>1, <2>3, <2>4, Zenon DEF RegInv
<1> QED BY <1>4, <1>5, <1>2, <1>3, usertrapretOthers, usertrapretSelf, usertrapretRest, Assemble, Zenon

(* userret goes to user mode: what changes. *)
userretEffect(c, x, v) ==
  /\ x \in Threads
  /\ v = 0 /\ pc[x][v] = "userret" /\ pc'[x][v] = "user"
  /\ \A y \in Contexts, w \in Levels : y # x \/ w # v => pc'[y][w] = pc[y][w]
  /\ sepc[c] = User(x, upc[x]) => ~astray'
  /\ ie'[c] = 1 /\ epc' = upc' /\ upc'[x] = "pc"
  /\ \A d \in CPUs : d # c => ie'[d] = ie[d] /\ tp'[d] = tp[d] /\ sepc'[d] = sepc[d]
  /\ \A t \in Threads : t # x => upc'[t] = upc[t]
  /\ UNCHANGED <<lockcpu, noff, intena, on, level, lk, old, saved, panicked, stvec, hartid, frame>>

(* It leaves the other CPUs and contexts alone. *)
LEMMA userretOthers ==
  ASSUME NEW c \in CPUs, NEW x \in Contexts, NEW v \in Levels,
         StepFacts(c, x, v), userretEffect(c, x, v)
  PROVE  /\ \A d \in CPUs : d # c => Same(d)
         /\ \A y \in Contexts : y # x => Kept(y)
<1>1. ASSUME NEW d \in CPUs, d # c PROVE Same(d)
  <2>1. /\ on[d] # x /\ d # x /\ d \in Contexts /\ on[d] \in Contexts /\ d # None
        /\ level[d] \in Levels /\ level[on[d]] \in Levels /\ 0 \in Levels
    BY <1>1, Apart, Zenon
  <2> QED BY <1>1, <2>1, Zenon DEF Same, userretEffect
<1>2. ASSUME NEW y \in Contexts, y # x PROVE Kept(y)
  BY <1>2, Zenon DEF Kept, userretEffect, Contexts, Levels
<1> QED BY <1>1, <1>2, Zenon

(* The invariants of the CPU and the context that step. *)
LEMMA userretSelf ==
  ASSUME NEW c \in CPUs, NEW x \in Contexts, NEW v \in Levels,
         StepFacts(c, x, v), userretEffect(c, x, v)
  PROVE  CpuInv(c)' /\ OuterInv(x)'
<1>1. CpuInv(c)'
  <2>1. OnInv(c)'
    BY Zenon DEF StepFacts, Where, userretEffect, CpuInv, OnInv
  <2>2. HeldInv(c)'
    BY Zenon DEF StepFacts, Where, userretEffect, CpuInv, HeldInv, At
  <2>3. AskInv(c)'
    BY Zenon DEF StepFacts, Where, userretEffect, CpuInv, AskInv, At, Levels
  <2>4. CountInv(c)'
    BY Zenon DEF StepFacts, Where, userretEffect, CpuInv, CountInv, HasL, HasP, At, Levels
  <2>5. OffInv(c)'
    BY Zenon DEF StepFacts, Where, userretEffect, CpuInv, OffInv, At, Unlocked, HeldInv
  <2>6. IntrInv(c)'
    BY Zenon DEF StepFacts, Where, userretEffect, IntrInv, Wants, At, Levels
  <2>7. TrapInv(c)'
    BY Zenon DEF StepFacts, Where, userretEffect, CpuInv, TrapInv, At
  <2> QED BY <2>1, <2>2, <2>3, <2>4, <2>5, <2>6, <2>7, Zenon DEF CpuInv
<1>2. OuterInv(x)'
  BY Zenon DEF StepFacts, Where, userretEffect, OuterInv, Kernel, Levels
<1> QED BY <1>1, <1>2, Zenon

(* The invariants that relate CPUs and threads. *)
LEMMA userretRest ==
  ASSUME NEW c \in CPUs, NEW x \in Contexts, NEW v \in Levels,
         StepFacts(c, x, v), userretEffect(c, x, v)
  PROVE  OneInv' /\ OffCpuInv' /\ Scalars'
<1>1. OneInv'
  BY Zenon DEF StepFacts, Where, OneInv, userretEffect
<1>2. OffCpuInv'
  <2>1. pc'[x][level'[x]] # "sched" /\ on' = on /\ level \in [Contexts -> Levels]
    BY Zenon DEF StepFacts, Where, userretEffect, TypeInv
  <2> QED BY <2>1, OffCpuStays, userretOthers, Zenon DEF StepFacts, Where
<1>3. Scalars'
  BY Zenon DEF StepFacts, Where, userretEffect, Scalars, CpuInv, TrapInv, At
<1> QED BY <1>1, <1>2, <1>3, Zenon

(* The step preserves the invariant. *)
LEMMA userretStep ==
  ASSUME IInv, NEW c \in CPUs, userret(c)
  PROVE  IInv'
<1>1. PICK x, v : x = on[c] /\ v = level[x]
  BY Zenon
<1>2. x \in Contexts /\ v \in Levels /\ c \in Contexts /\ userretEffect(c, x, v)
  <2>0. x \in Contexts /\ v \in Levels /\ c \in Contexts
    BY <1>1, Zenon DEF IInv, TypeInv, Contexts
  <2>1. x \in Threads
    BY <1>1, <2>0, Zenon DEF userret, IInv, CpuInv, OnInv, At, Contexts
  <2>2. sepc[c] = User(x, upc[x]) => ~astray'
    BY <1>1, Zenon DEF userret, uservec, kernelvec, w_sepc
  <2>3. epc' = upc'
    BY <1>1, Zenon DEF userret, next_pc, IInv
  <2>4. /\ v = 0 /\ pc[x][v] = "userret" /\ pc'[x][v] = "user"
        /\ \A y \in Contexts, w \in Levels : y # x \/ w # v => pc'[y][w] = pc[y][w]
    BY <1>1, <2>0, Zenon DEF IInv, TypeInv, userret, Interrupted, At, Go, Levels
  <2>5. /\ ie'[c] = 1 /\ upc'[x] = "pc"
        /\ \A d \in CPUs : d # c => ie'[d] = ie[d] /\ tp'[d] = tp[d] /\ sepc'[d] = sepc[d]
        /\ \A t \in Threads : t # x => upc'[t] = upc[t]
    BY <1>1, <2>1, Zenon DEF IInv, TypeInv, RegInv, userret
  <2>6. UNCHANGED <<lockcpu, noff, intena, on, level, lk, old, saved, panicked, stvec, hartid, frame>>
    BY Zenon DEF userret
  <2> QED BY <2>0, <2>1, <2>2, <2>3, <2>4, <2>5, <2>6, Zenon DEF userretEffect
<1>3. StepFacts(c, x, v)
  BY <1>1, FactsHold, Zenon
<1>4. TypeInv'
  BY <1>1, <1>2, NameAssumption, Zenon DEF IInv, TypeInv, Places, userret, Interrupted, At, Go, Levels
<1>5. RegInv'
  <2>1. RegInv /\ Nowhere \in Sepcs /\ "pc" \in UserPcs
    BY Zenon DEF IInv, Nowhere, Sepcs, UserPcs
  <2>2. tp' \in [CPUs -> CPUs \cup {None}] /\ sepc' \in [CPUs -> Sepcs]
    BY <2>1, Zenon DEF RegInv, userret
  <2>3. epc' \in [Threads -> UserPcs] /\ upc' \in [Threads -> UserPcs]
    BY <2>1, Zenon DEF RegInv, userret
  <2>4. UNCHANGED <<stvec, hartid, frame>>
    BY Zenon DEF userret
  <2> QED BY <2>1, <2>2, <2>3, <2>4, Zenon DEF RegInv
<1> QED BY <1>4, <1>5, <1>2, <1>3, userretOthers, userretSelf, userretRest, Assemble, Zenon

(* An interrupt in the kernel: what changes. *)
kerneltrapEffect(c, x, v) ==
  /\ pc[x][v] # "user" /\ ie[c] = 1 /\ v = 0 /\ level'[x] = 1 /\ pc'[x][1] = "run" /\ ie'[c] = 0
  /\ \A y \in Contexts : pc'[y][0] = pc[y][0]
  /\ \A y \in Contexts : y # x => level'[y] = level[y] /\ pc'[y][1] = pc[y][1] /\ frame'[y] = frame[y]
  /\ \A d \in CPUs : d # c => ie'[d] = ie[d] /\ sepc'[d] = sepc[d]
  /\ frame'[x].sepc = Kernel(x)
  /\ stvec[c] = "kernelvec" => ~astray'
  /\ UNCHANGED <<lockcpu, noff, intena, on, lk, old, saved, panicked, tp, stvec, epc, hartid, upc>>

(* It leaves the other CPUs and contexts alone. *)
LEMMA kerneltrapOthers ==
  ASSUME NEW c \in CPUs, NEW x \in Contexts, NEW v \in Levels,
         StepFacts(c, x, v), kerneltrapEffect(c, x, v)
  PROVE  /\ \A d \in CPUs : d # c => Same(d)
         /\ \A y \in Contexts : y # x => Kept(y)
<1>1. ASSUME NEW d \in CPUs, d # c PROVE Same(d)
  <2>1. /\ on[d] # x /\ d # x /\ d \in Contexts /\ on[d] \in Contexts /\ d # None
        /\ level[d] \in Levels /\ level[on[d]] \in Levels /\ 0 \in Levels
    BY <1>1, Apart, Zenon
  <2> QED BY <1>1, <2>1, ZeroOne, Zenon DEF Same, kerneltrapEffect, Levels
<1>2. ASSUME NEW y \in Contexts, y # x PROVE Kept(y)
  BY <1>2, Zenon DEF Kept, kerneltrapEffect, Contexts, Levels
<1> QED BY <1>1, <1>2, Zenon

(* The invariants of the CPU and the context that step. *)
LEMMA kerneltrapSelf ==
  ASSUME NEW c \in CPUs, NEW x \in Contexts, NEW v \in Levels,
         StepFacts(c, x, v), kerneltrapEffect(c, x, v)
  PROVE  CpuInv(c)' /\ OuterInv(x)'
<1>0. /\ on[c] = x /\ on'[c] = x /\ level[x] = 0 /\ level'[x] = 1 /\ pc'[x][1] = "run"
      /\ pc[x][0] # "user" /\ ie[c] = 1 /\ ie'[c] = 0 /\ c \in Contexts /\ level[c] \in Levels
      /\ pc'[x][0] = pc[x][0] /\ pc'[c][0] = pc[c][0] /\ (c # x => level'[c] = level[c])
      /\ noff' = noff /\ lockcpu' = lockcpu /\ tp' = tp /\ stvec' = stvec
  BY Zenon DEF StepFacts, Where, kerneltrapEffect
<1>1. OnInv(c) /\ AskInv(c) /\ OffInv(c) /\ IntrInv(c) /\ TrapInv(c) /\ Unlocked(c)
  BY Zenon DEF StepFacts, CpuInv
<1>2. noff[c] = 0 /\ ~At(c, "userret") /\ ~At(c, "user")
  BY <1>0, <1>1, ZeroOne, Zenon DEF OffInv, At
<1>3. (\A l \in Locks : lockcpu[l] # c) /\ ~At(c, "spin")
  BY <1>1, <1>2, Zenon DEF Unlocked
<1>4. /\ ~At(c, "user")' /\ ~At(c, "userret")' /\ ~At(c, "spin")' /\ ~At(c, "push_off")'
  BY <1>0, Zenon DEF At
<1>5. L \in Locks /\ Threads \subseteq Locks
  BY Zenon DEF StepFacts, Where
<1>6. CpuInv(c)'
  <2>1. OnInv(c)'
    <3>1. CASE c = x
      BY <1>0, <3>1, Zenon DEF OnInv
    <3>2. CASE c # x
      BY <1>0, <1>1, <3>2, Zenon DEF OnInv
    <3> QED BY <3>1, <3>2, Zenon
  <2>2. HeldInv(c)'
    BY <1>0, <1>3, Zenon DEF HeldInv
  <2>3. AskInv(c)'
    BY <1>4, Zenon DEF AskInv
  <2>4. CountInv(c)'
    <3>1. ~HasL(c)' /\ ~HasP(c)'
      BY <1>0, <1>3, <1>5, Zenon DEF HasL, HasP
    <3> QED BY <1>0, <1>2, <1>4, <3>1, ZeroOne, Zenon DEF CountInv
  <2>5. OffInv(c)'
    BY <1>0, <1>4, Zenon DEF OffInv
  <2>6. IntrInv(c)'
    <3>1. Wants(x)' = 0
      BY <1>0, Zenon DEF Wants
    <3> QED BY <1>0, <1>2, <3>1, Zenon DEF IntrInv
  <2>7. TrapInv(c)'
    BY <1>0, <1>1, <1>2, <1>4, Zenon DEF TrapInv
  <2> QED BY <2>1, <2>2, <2>3, <2>4, <2>5, <2>6, <2>7, Zenon DEF CpuInv
<1>7. OuterInv(x)'
  <2>2. x \in Threads => pc[x][0] # "sched"
    BY <1>0, Zenon DEF StepFacts, OffCpuInv
  <2>3. pc[x][0] \in {"run", "push_off"}
    <3>1. pc[x][0] \in Places
      BY <1>0, Zenon DEF StepFacts, TypeInv, Levels
    <3>2. x \notin Threads => pc[x][0] \in {"run", "push_off", "spin"}
      BY <1>0, <1>1, Zenon DEF OnInv
    <3> QED BY <1>0, <1>2, <1>3, <2>2, <3>1, <3>2, Zenon DEF Places, At
  <2>4. pc[x][0] = "push_off" => old[x][0] = 1 /\ lk[x][0] \in Asks(x)
    BY <1>0, <1>1, <1>3, MayAsk, Zenon DEF StepFacts, Where, OffInv, AskInv, At
  <2>5. x \in Threads => upc[x] = "pc4"
    BY <1>0, <1>1, <1>2, ZeroOne, Zenon DEF IntrInv, Wants
  <2>6. frame'[x].sepc = Kernel(x)'
    BY <1>0, Zenon DEF kerneltrapEffect, Kernel
  <2>7. old' = old /\ lk' = lk /\ upc' = upc
    BY Zenon DEF kerneltrapEffect
  <2> QED BY <1>0, <2>3, <2>4, <2>5, <2>6, <2>7, Zenon DEF OuterInv
<1> QED BY <1>6, <1>7, Zenon

(* The invariants that relate CPUs and threads. *)
LEMMA kerneltrapRest ==
  ASSUME NEW c \in CPUs, NEW x \in Contexts, NEW v \in Levels,
         StepFacts(c, x, v), kerneltrapEffect(c, x, v)
  PROVE  OneInv' /\ OffCpuInv' /\ Scalars'
<1>1. OneInv'
  BY Zenon DEF StepFacts, Where, OneInv, kerneltrapEffect
<1>2. OffCpuInv'
  <2>1. pc'[x][level'[x]] # "sched" /\ on' = on /\ level \in [Contexts -> Levels]
    BY Zenon DEF StepFacts, Where, kerneltrapEffect, TypeInv
  <2> QED BY <2>1, OffCpuStays, kerneltrapOthers, Zenon DEF StepFacts, Where
<1>3. Scalars'
  <2>1. /\ OffInv(c) /\ TrapInv(c) /\ ie[c] = 1 /\ ~At(c, "user") /\ epc' = epc /\ upc' = upc
        /\ Scalars /\ panicked' = panicked /\ (stvec[c] = "kernelvec" => ~astray')
    BY Zenon DEF StepFacts, Where, kerneltrapEffect, CpuInv, At
  <2>2. ~At(c, "userret")
    BY <2>1, ZeroOne, Zenon DEF OffInv
  <2> QED BY <2>1, <2>2, Zenon DEF Scalars, TrapInv
<1> QED BY <1>1, <1>2, <1>3, Zenon

(* The step preserves the invariant. *)
LEMMA kerneltrapStep ==
  ASSUME IInv, NEW c \in CPUs, kerneltrap(c)
  PROVE  IInv'
<1>1. PICK x, v : x = on[c] /\ v = level[x]
  BY Zenon
<1>2. x \in Contexts /\ v \in Levels /\ c \in Contexts /\ kerneltrapEffect(c, x, v)
  <2>0. x \in Contexts /\ v \in Levels /\ c \in Contexts
    BY <1>1, Zenon DEF IInv, TypeInv, Contexts
  <2>2. stvec[c] = "kernelvec" => ~astray'
    BY <1>1, Zenon DEF kerneltrap, uservec, kernelvec, w_sepc
  <2>3. /\ pc[x][v] # "user" /\ ie[c] = 1 /\ v = 0 /\ level'[x] = 1 /\ pc'[x][1] = "run" /\ ie'[c] = 0
        /\ \A y \in Contexts : pc'[y][0] = pc[y][0]
        /\ \A y \in Contexts : y # x => level'[y] = level[y] /\ pc'[y][1] = pc[y][1]
        /\ \A d \in CPUs : d # c => ie'[d] = ie[d]
    BY <1>1, <2>0 DEF IInv, TypeInv, kerneltrap, interrupt, Interrupted, At, Levels
  <2>4. /\ \A y \in Contexts : y # x => frame'[y] = frame[y]
        /\ \A d \in CPUs : d # c => sepc'[d] = sepc[d]
        /\ frame'[x].sepc = Kernel(x)
    BY <1>1, <2>0, Zenon DEF IInv, RegInv, kerneltrap, kernelvec
  <2>5. UNCHANGED <<lockcpu, noff, intena, on, lk, old, saved, panicked, tp, stvec, epc, hartid, upc>>
    BY Zenon DEF kerneltrap, interrupt, trapframe
  <2> QED BY <2>0, <2>2, <2>3, <2>4, <2>5, Zenon DEF kerneltrapEffect
<1>3. StepFacts(c, x, v)
  BY <1>1, FactsHold, Zenon
<1>4. TypeInv'
  BY <1>1, <1>2, NameAssumption, Zenon DEF IInv, TypeInv, Places, kerneltrap, interrupt, kernelvec,
      Interrupted, At, Levels, trapframe
<1>5. RegInv'
  <2>1. pc[x][0] \in Places
    BY <1>2, Zenon DEF IInv, TypeInv, Levels
  <2>2. Kernel(x) \in Sepcs
    BY <1>2, <2>1, Zenon DEF Kernel, Sepcs
  <2>3. [sepc |-> Kernel(x), tp |-> tp[c]] \in [sepc : Sepcs, tp : CPUs \cup {None}]
    BY <2>2, Zenon DEF IInv, RegInv
  <2> QED BY <1>1, <1>2, <2>2, <2>3, Zenon DEF IInv, RegInv, kerneltrap, kernelvec, trapframe
<1> QED BY <1>4, <1>5, <1>2, <1>3, kerneltrapOthers, kerneltrapSelf, kerneltrapRest, Assemble, Zenon

(* The return from it: what changes. *)
kernelvec_retEffect(c, x, v) ==
  /\ v = 1 /\ pc[x][v] = "run" /\ ie'[c] = 1 /\ level'[x] = 0
  /\ \A l \in Locks : lockcpu[l] # c
  /\ \A y \in Contexts : y # x => level'[y] = level[y] /\ frame'[y] = frame[y]
  /\ \A d \in CPUs : d # c => ie'[d] = ie[d] /\ sepc'[d] = sepc[d]
  /\ frame[x].sepc = Kernel(x) => ~astray'
  /\ UNCHANGED <<lockcpu, noff, intena, on, pc, lk, old, saved, panicked, tp, stvec, epc, hartid, upc>>

(* It leaves the other CPUs and contexts alone. *)
LEMMA kernelvec_retOthers ==
  ASSUME NEW c \in CPUs, NEW x \in Contexts, NEW v \in Levels,
         StepFacts(c, x, v), kernelvec_retEffect(c, x, v)
  PROVE  /\ \A d \in CPUs : d # c => Same(d)
         /\ \A y \in Contexts : y # x => Kept(y)
<1>1. ASSUME NEW d \in CPUs, d # c PROVE Same(d)
  <2>1. /\ on[d] # x /\ d # x /\ d \in Contexts /\ on[d] \in Contexts /\ d # None
        /\ level[d] \in Levels /\ level[on[d]] \in Levels /\ 0 \in Levels
    BY <1>1, Apart, Zenon
  <2> QED BY <1>1, <2>1, Zenon DEF Same, kernelvec_retEffect
<1>2. ASSUME NEW y \in Contexts, y # x PROVE Kept(y)
  BY <1>2, Zenon DEF Kept, kernelvec_retEffect, Contexts, Levels
<1> QED BY <1>1, <1>2, Zenon

(* The invariants of the CPU and the context that step. *)
LEMMA kernelvec_retSelf ==
  ASSUME NEW c \in CPUs, NEW x \in Contexts, NEW v \in Levels,
         StepFacts(c, x, v), kernelvec_retEffect(c, x, v)
  PROVE  CpuInv(c)' /\ OuterInv(x)'
<1>1. CpuInv(c)'
  <2>0. /\ on[c] = x /\ on' = on /\ level'[x] = 0 /\ pc' = pc /\ pc[x][0] \in {"run", "push_off"}
        /\ pc[x][0] = "push_off" => old[x][0] = 1 /\ lk[x][0] \in Asks(x)
        /\ old' = old /\ lk' = lk /\ lockcpu' = lockcpu /\ \A l \in Locks : lockcpu[l] # c
    BY Zenon DEF StepFacts, Where, kernelvec_retEffect, OuterInv
  <2>8. noff[c] = 0 /\ noff' = noff /\ ie'[c] = 1
    BY Zenon DEF StepFacts, Where, Unlocked, kernelvec_retEffect, At
  <2>1. OnInv(c)'
    <3>1. OnInv(c) /\ (x # c => level'[c] = level[c])
      BY Zenon DEF StepFacts, Where, CpuInv, kernelvec_retEffect
    <3> QED BY <2>0, <3>1, Zenon DEF OnInv
  <2>2. HeldInv(c)'
    BY Zenon DEF kernelvec_retEffect, HeldInv, At, Levels
  <2>3. AskInv(c)'
    <3>1. (Held(c) = {})' /\ (Held(c) # {L})' /\ ~Interrupted(c)' /\ on'[c] = x
      BY <2>0, ZeroOne, Zenon DEF Held, Interrupted
    <3>2. may_acquire(c)' = Asks(x)
      <4>1. CASE x \in CPUs
        BY <3>1, <4>1, NameAssumption, Zenon DEF may_acquire, Asks, Locks
      <4>2. CASE x \notin CPUs
        BY <3>1, <4>2, NameAssumption, Zenon DEF may_acquire, Asks, Contexts
      <4> QED BY <4>1, <4>2, Zenon
    <3> QED BY <2>0, <3>2, Zenon DEF AskInv, At
  <2>4. CountInv(c)'
    <3>1. ~HasL(c)' /\ ~HasP(c)' /\ ~At(c, "spin")'
      BY <2>0, Zenon DEF HasL, HasP, At, Locks
    <3> QED BY <2>8, <3>1, ZeroOne, Zenon DEF CountInv
  <2>5. OffInv(c)'
    BY <2>0, <2>8, Zenon DEF OffInv, At
  <2>6. IntrInv(c)'
    <3>1. (x \in Threads => Wants(x)' = 1) /\ (x \notin Threads => x = c)
      BY <2>0, Zenon DEF StepFacts, Where, kernelvec_retEffect, OuterInv, Wants
    <3> QED BY <2>0, <2>8, <3>1, ZeroOne, Zenon DEF IntrInv
  <2>7. TrapInv(c)'
    BY Zenon DEF StepFacts, Where, kernelvec_retEffect, CpuInv, TrapInv, At, Levels, OuterInv
  <2> QED BY <2>1, <2>2, <2>3, <2>4, <2>5, <2>6, <2>7, Zenon DEF CpuInv
<1>2. OuterInv(x)'
  <2>1. level'[x] = 0
    BY Zenon DEF kernelvec_retEffect
  <2> QED BY <2>1, ZeroOne, Zenon DEF OuterInv
<1> QED BY <1>1, <1>2, Zenon

(* The invariants that relate CPUs and threads. *)
LEMMA kernelvec_retRest ==
  ASSUME NEW c \in CPUs, NEW x \in Contexts, NEW v \in Levels,
         StepFacts(c, x, v), kernelvec_retEffect(c, x, v)
  PROVE  OneInv' /\ OffCpuInv' /\ Scalars'
<1>1. OneInv'
  BY Zenon DEF StepFacts, Where, OneInv, kernelvec_retEffect
<1>2. OffCpuInv'
  <2>1. pc'[x][level'[x]] # "sched" /\ on' = on /\ level \in [Contexts -> Levels]
    BY Zenon DEF StepFacts, Where, kernelvec_retEffect, OuterInv, TypeInv
  <2> QED BY <2>1, OffCpuStays, kernelvec_retOthers, Zenon DEF StepFacts, Where
<1>3. Scalars'
  BY Zenon DEF StepFacts, Where, Scalars, kernelvec_retEffect, OuterInv
<1> QED BY <1>1, <1>2, <1>3, Zenon

(* The step preserves the invariant. *)
LEMMA kernelvec_retStep ==
  ASSUME IInv, NEW c \in CPUs, kernelvec_ret(c)
  PROVE  IInv'
<1>1. PICK x, v : x = on[c] /\ v = level[x]
  BY Zenon
<1>2. x \in Contexts /\ v \in Levels /\ c \in Contexts /\ kernelvec_retEffect(c, x, v)
  <2>0. x \in Contexts /\ v \in Levels /\ c \in Contexts
    BY <1>1, Zenon DEF IInv, TypeInv, Contexts
  <2>2. frame[x].sepc = Kernel(x) => ~astray'
    BY <1>1, Zenon DEF kernelvec_ret, uservec, kernelvec, w_sepc
  <2> QED BY <1>1, <2>0, <2>2, NameAssumption, Zenon DEF kernelvec_retEffect, IInv, TypeInv,
      kernelvec_ret, sret, restored_tp, w_sepc, Held, Interrupted, At, RegInv, Levels, trapframe,
      regs, trapframe
<1>3. StepFacts(c, x, v)
  BY <1>1, FactsHold, Zenon
<1>4. TypeInv'
  BY <1>1, <1>2, NameAssumption, Zenon DEF IInv, TypeInv, Places, kernelvec_ret, sret, restored_tp,
      w_sepc, Held, Interrupted, At, Levels, trapframe
<1>5. RegInv'
  BY <1>1, <1>2, Zenon DEF IInv, RegInv, kernelvec_ret, sret, restored_tp, w_sepc, Held, Interrupted, At,
      Levels, trapframe, UserPcs, Nowhere, NoFrame, User, Sepcs, kernelvec_retEffect
<1> QED BY <1>4, <1>5, <1>2, <1>3, kernelvec_retOthers, kernelvec_retSelf, kernelvec_retRest,
    Assemble, Zenon

(* The invariant holds when the schedulers start. *)
LEMMA InitInv == TrapInit => IInv
<1> SUFFICES ASSUME TrapInit PROVE IInv
  BY Zenon
<1> USE NameAssumption DEF TrapInit, Init, Contexts, Levels
<1>1. TypeInv
  BY DEF TypeInv, Places
<1>2. RegInv
  <2>1. Nowhere \in Sepcs
    BY Zenon DEF Nowhere, Sepcs
  <2> QED BY <2>1, Zenon DEF RegInv, UserPcs, NoFrame
<1>3. OneInv
  BY Zenon DEF OneInv
<1>4. OffCpuInv
  BY Zenon DEF OffCpuInv, Wants
<1>5. ASSUME NEW c \in CPUs PROVE CpuInv(c)
  <2>1. on[c] = c /\ level[c] = 0 /\ pc[c][0] = "run" /\ \A l \in Locks : lockcpu[l] # c
    BY Zenon DEF Locks
  <2>2. OnInv(c) /\ HeldInv(c) /\ AskInv(c) /\ OffInv(c)
    BY <2>1, Zenon DEF OnInv, HeldInv, AskInv, OffInv, At
  <2>3. CountInv(c)
    BY <2>1, ZeroOne, Zenon DEF CountInv, HasL, HasP, At, Locks
  <2>4. IntrInv(c) /\ TrapInv(c)
    BY <2>1, ZeroOne, Zenon DEF IntrInv, TrapInv, At
  <2> QED BY <2>2, <2>3, <2>4, Zenon DEF CpuInv
<1>6. ASSUME NEW x \in Contexts PROVE OuterInv(x)
  BY ZeroOne, Zenon DEF OuterInv
<1>7. epc = upc /\ panicked = 0 /\ ~astray
  BY Zenon
<1> HIDE DEF TrapInit, Init, Contexts, Levels
<1> QED BY <1>1, <1>2, <1>3, <1>4, <1>5, <1>6, <1>7, Zenon DEF IInv

(* Every step preserves it. *)
LEMMA NextInv == IInv /\ [TrapNext]_allvars => IInv'
<1> SUFFICES ASSUME IInv, [TrapNext]_allvars PROVE IInv'
  BY Zenon
<1>1. CASE UNCHANGED allvars
  <2>1. UNCHANGED <<lockcpu, noff, intena, ie, on, level, pc, lk, old, saved, panicked>>
    BY <1>1, Zenon DEF allvars, vars, cpu, frames
  <2>2. UNCHANGED <<tp, stvec, sepc, epc, hartid, upc, frame, astray>>
    BY <1>1, Zenon DEF allvars, regs, trapframe
  <2>3. TypeInv' /\ OneInv'
    BY <2>1, Zenon DEF IInv, TypeInv, OneInv
  <2>4. RegInv'
    BY <2>2, Zenon DEF IInv, RegInv
  <2>5. ASSUME NEW c \in CPUs PROVE CpuInv(c)'
    BY <2>1, <2>2, OthersCpu, Zenon DEF IInv, Same
  <2>6. ASSUME NEW x \in Contexts PROVE OuterInv(x)'
    BY <2>1, <2>2, OthersContext, Zenon DEF IInv, Kept
  <2>7. OffCpuInv'
    BY <2>1, <2>2, Zenon DEF IInv, OffCpuInv, Wants
  <2> QED BY <2>1, <2>2, <2>3, <2>4, <2>5, <2>6, <2>7, Zenon DEF IInv
<1>2. ASSUME NEW c \in CPUs, kernel(c) PROVE IInv'
  BY <1>2, acquireStep, push_offStep, spinStep, releaseStep, schedStep, intr_onStep, swtchStep, Zenon
  DEF kernel
<1>3. ASSUME NEW c \in CPUs, usertrap(c, TRUE) \/ usertrap(c, FALSE) PROVE IInv'
  BY <1>3, usertrapStep, Zenon
<1>4. ASSUME NEW c \in CPUs,
             usertrapret(c) \/ userret(c) \/ kerneltrap(c) \/ kernelvec_ret(c)
      PROVE  IInv'
  BY <1>4, usertrapretStep, userretStep, kerneltrapStep, kernelvec_retStep, Zenon
<1> QED BY <1>1, <1>2, <1>3, <1>4, Zenon DEF TrapNext

(* The inductive invariant of spinlocks, interrupts and traps. *)
THEOREM TrapInvariant == TrapSpec => []IInv
<1> QED BY InitInv, NextInv, PTL DEF TrapSpec

(* A CPU that holds or waits for a spinlock has interrupts off, and the       *)
(* panics of acquire(), pop_off() and sched() are not reached, for every      *)
(* number of CPUs and threads.                                                *)
THEOREM LockCorrect == TrapSpec => []OffWhileHeld
<1>1. IInv => OffWhileHeld
  <2> SUFFICES ASSUME IInv PROVE OffWhileHeld
    BY Zenon
  <2>1. ASSUME NEW c \in CPUs, Held(c) # {} \/ At(c, "spin") PROVE ie[c] = 0
    <3>1. noff[c] # 0
      BY <2>1, NoffFacts, Zenon DEF IInv, CpuInv, Held
    <3> QED BY <3>1, Zenon DEF IInv, CpuInv, OffInv
  <2> QED BY <2>1, Zenon DEF OffWhileHeld, IInv
<1> QED BY <1>1, TrapInvariant, PTL

(* Every trap enters at the handler of the mode it came from and returns to   *)
(* where it came from, and in the kernel tp is the number of the CPU.         *)
THEOREM AstrayCorrect == TrapSpec => []NeverAstray
<1>1. IInv => NeverAstray
  BY Zenon DEF IInv, CpuInv, TrapInv, NeverAstray
<1> QED BY <1>1, TrapInvariant, PTL

(* Without locks a thread has interrupts on in a system call and off in a     *)
(* handler, whichever CPU it is on.                                           *)
THEOREM InterruptsCorrect == TrapSpec => []InterruptsAsEntered
<1>1. IInv => InterruptsAsEntered
  <2> SUFFICES ASSUME IInv, NEW c \in CPUs, on[c] \in Threads, noff[c] = 0,
                      ~At(c, "user"), ~At(c, "userret")
               PROVE  ie[c] = IF ~Interrupted(c) /\ upc[on[c]] = "pc4" THEN 1 ELSE 0
    BY Zenon DEF InterruptsAsEntered
  <2>1. ie[c] = Wants(on[c])
    BY Zenon DEF IInv, CpuInv, IntrInv
  <2>2. level[on[c]] \in {0, 1}
    BY Zenon DEF IInv, TypeInv, Contexts, Levels
  <2> QED BY <2>1, <2>2, Zenon DEF Wants, Interrupted
<1> QED BY <1>1, TrapInvariant, PTL
==============================================================================
