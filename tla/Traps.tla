-------------------------------- MODULE Traps ---------------------------------
(***************************************************************************)
(* Entering and leaving the kernel: kernel/trap.c with the assembly of     *)
(* trampoline.S, kernelvec.S and swtch.S, on the threads, interrupts and   *)
(* locks of Spinlock.                                                      *)
(*                                                                         *)
(* A thread is in user mode (its level 0 is at "user"), in a system call   *)
(* or in a device interrupt that came from user mode (level 0), or in      *)
(* kerneltrap() (level 1).  Registers that travel together are left out:   *)
(* a context has them or has saved them.  What is kept are the registers   *)
(* that a trap itself overwrites, and tp, which tells mycpu(); a value that *)
(* was used is forgotten, so that to use it again does not go unnoticed.    *)
(***************************************************************************)
EXTENDS Spinlock

VARIABLES
  tp,          \* of each CPU: the hartid it believes in; None in user mode
  stvec, sepc, \* of each CPU; sepc with the mode that sret returns to, in sstatus
  epc, hartid, \* in the trapframe: user pc, kernel_hartid
  upc,         \* where the user program has to go on
  frame,       \* of each context: what kernelvec and kerneltrap() saved
  astray       \* a CPU executes what it should not

trapframe == <<epc, hartid, upc>>
regs == <<tp, stvec, sepc, trapframe, frame, astray>>
allvars == <<vars, regs>>

(* Places that sepc may name. *)
User(t, u) == <<t, "user", u>>
Kernel(x) == <<x, "kernel", pc[x][0]>>
Nowhere == <<None, "kernel", "none">>
NoFrame == [sepc |-> Nowhere, tp |-> None]

TrapInit ==
  /\ Init
  /\ tp = [c \in CPUs |-> c]
  /\ stvec = [c \in CPUs |-> "kernelvec"]
  /\ sepc = [c \in CPUs |-> Nowhere]
  /\ epc = [t \in Threads |-> "pc4"]
  /\ hartid = [t \in Threads |-> None]
  /\ upc = [t \in Threads |-> "pc4"]
  /\ frame = [x \in Contexts |-> NoFrame]
  /\ astray = FALSE

(* What no trap is part of. *)
kernel(c) ==
  /\ \/ acquire(c) \/ push_off(c) \/ spin(c) \/ sched(c) \/ intr_on(c)
     \/ \E l \in Locks : release(c, l)
     \/ \E t \in Threads : swtch(c, t)
  /\ UNCHANGED regs

------------------------------------------------------------------------------
(* uservec saves the registers in the trapframe and loads tp from it;        *)
(* usertrap() saves sepc, and for a system call turns interrupts on when it  *)
(* is done with the trap registers.  A device interrupt keeps them off.      *)
(* "pc" is where the trap came from, "pc4" the instruction after an ecall.   *)
next_pc(ecall) == IF ecall THEN "pc4" ELSE "pc"

uservec(c) ==
  /\ astray' = (stvec[c] # "uservec")
  /\ tp' = [tp EXCEPT ![c] = hartid[on[c]]]
  /\ hartid' = [hartid EXCEPT ![on[c]] = None]     \* written before it is read again

usertrap(c, ecall) ==
  LET t == on[c] IN
  /\ At(c, "user")
  /\ uservec(c)
  /\ sepc' = [sepc EXCEPT ![c] = Nowhere]       \* in epc now
  /\ stvec' = [stvec EXCEPT ![c] = "kernelvec"]
  /\ epc' = [epc EXCEPT ![t] = next_pc(ecall)]
  /\ upc' = [upc EXCEPT ![t] = IF ecall THEN "pc4" ELSE "pc"]
  /\ ie' = [ie EXCEPT ![c] = IF ecall THEN 1 ELSE 0]
  /\ Go(c, "run")
  /\ UNCHANGED <<lockcpu, noff, intena, on, level, lk, old, saved, panicked, frame>>

(* usertrapret() up to userret. *)
intr_off(c) == [ie EXCEPT ![c] = 0]

usertrapret(c) ==
  /\ on[c] \in Threads /\ ~Interrupted(c) /\ At(c, "run") /\ Held(c) = {}
  /\ ie' = intr_off(c)
  /\ stvec' = [stvec EXCEPT ![c] = "uservec"]
  /\ hartid' = [hartid EXCEPT ![on[c]] = tp[c]]
  /\ sepc' = [sepc EXCEPT ![c] = User(on[c], epc[on[c]])]
  /\ Go(c, "userret")
  /\ UNCHANGED <<lockcpu, noff, intena, on, level, lk, old, saved, panicked, tp, epc, upc, frame, astray>>

(* userret: the user's registers, tp among them, and sret. *)
userret(c) ==
  /\ At(c, "userret") /\ ~Interrupted(c)
  /\ astray' = (sepc[c] # User(on[c], upc[on[c]]))
  /\ ie' = [ie EXCEPT ![c] = 1]
  /\ tp' = [tp EXCEPT ![c] = None]
  /\ sepc' = [sepc EXCEPT ![c] = Nowhere]
  /\ epc' = [epc EXCEPT ![on[c]] = "pc"]
  /\ upc' = [upc EXCEPT ![on[c]] = "pc"]
  /\ Go(c, "user")
  /\ UNCHANGED <<lockcpu, noff, intena, on, level, lk, old, saved, panicked, stvec, hartid, frame>>

------------------------------------------------------------------------------
(* An interrupt in the kernel: kernelvec pushes the registers, kerneltrap()   *)
(* keeps sepc and sstatus in its locals.                                      *)
kernelvec(c) ==
  /\ astray' = (stvec[c] # "kernelvec")
  /\ frame' = [frame EXCEPT ![on[c]] = [sepc |-> Kernel(on[c]), tp |-> tp[c]]]

kerneltrap(c) ==
  /\ ~At(c, "user")
  /\ interrupt(c)
  /\ kernelvec(c)
  /\ sepc' = [sepc EXCEPT ![c] = Kernel(on[c])]
  /\ UNCHANGED <<tp, stvec, trapframe>>

(* kerneltrap() writes sepc and sstatus back, since yield() may have let      *)
(* others trap; kernelvec restores the registers but not tp, and sret.        *)
w_sepc_bug(c) == sepc[c]
w_sepc(c) == frame[on[c]].sepc

restored_tp(c) == tp

kernelvec_ret(c) ==
  /\ sret(c)
  /\ astray' = (w_sepc(c) # Kernel(on[c]))
  /\ sepc' = [sepc EXCEPT ![c] = Nowhere]
  /\ tp' = restored_tp(c)
  /\ frame' = [frame EXCEPT ![on[c]] = NoFrame]
  /\ UNCHANGED <<stvec, trapframe>>

TrapNext ==
  /\ panicked = 0 /\ ~astray
  /\ \E c \in CPUs :
       \/ kernel(c) \/ usertrap(c, TRUE) \/ usertrap(c, FALSE)
       \/ usertrapret(c) \/ userret(c) \/ kerneltrap(c) \/ kernelvec_ret(c)

TrapSpec == TrapInit /\ [][TrapNext]_allvars

------------------------------------------------------------------------------
(* Every trap goes to the handler for the mode it came from, and every return *)
(* from a trap goes to the place, thread and mode that were interrupted, or   *)
(* after the ecall, whatever other traps, yields and changes of CPU there     *)
(* were in between: the trap registers of a CPU are never used when stale.    *)
(* And in the kernel tp is the number of the CPU, so that mycpu() is right,   *)
(* for a thread interrupted on one CPU that goes on on another as well.       *)
NeverAstray == ~astray /\ \A c \in CPUs : ~At(c, "user") => tp[c] = c

(* Without locks, a thread that does not yet return has interrupts on in a    *)
(* system call and off in an interrupt handler, whichever CPU it is on after  *)
(* sched(): "intena is a property of this kernel thread, not this CPU".       *)
InterruptsAsEntered ==
  \A c \in CPUs : (on[c] \in Threads /\ noff[c] = 0 /\ ~At(c, "user") /\ ~At(c, "userret")) =>
    ie[c] = IF ~Interrupted(c) /\ upc[on[c]] = "pc4" THEN 1 ELSE 0
==============================================================================
