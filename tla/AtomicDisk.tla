----------------------------- MODULE AtomicDisk -----------------------------
(***************************************************************************)
(* What the logging layer of kernel/log.c promises to the file system: a   *)
(* disk whose contents change only by whole groups of completed system     *)
(* calls, and that a crash takes back to the last group, never to part of  *)
(* one ("There is never any reasoning required about whether a commit      *)
(* might write an uncommitted system call's updates to disk", log.c:14).   *)
(***************************************************************************)
CONSTANTS Procs, Blocks, Vals, Zero

VARIABLES stable,   \* what the disk would hold after a crash and a recovery
          current,  \* what bread() returns
          active    \* the processes between begin_op() and end_op()

vars == <<stable, current, active>>

Init ==
  /\ stable = [b \in Blocks |-> Zero]
  /\ current = stable
  /\ active = {}

Begin(p) ==
  /\ p \notin active
  /\ active' = active \cup {p}
  /\ UNCHANGED <<stable, current>>

Write(p, b, v) ==
  /\ p \in active
  /\ current' = [current EXCEPT ![b] = v]
  /\ UNCHANGED <<stable, active>>

End(p) ==
  /\ p \in active
  /\ active' = active \ {p}
  /\ UNCHANGED <<stable, current>>

Commit ==
  /\ active = {}
  /\ stable' = current
  /\ UNCHANGED <<current, active>>

Crash ==
  /\ current' = stable
  /\ active' = {}
  /\ UNCHANGED stable

Next ==
  \/ \E p \in Procs : Begin(p) \/ End(p)
  \/ \E p \in Procs, b \in Blocks, v \in Vals : Write(p, b, v)
  \/ Commit
  \/ Crash

Spec == Init /\ [][Next]_vars
=============================================================================
