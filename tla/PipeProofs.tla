----------------------------- MODULE PipeProofs ------------------------------
(***************************************************************************)
(* The page of a pipe is freed by the last close and not used after, and   *)
(* nobody sleeps on a pipe without a cause, for every number of readers    *)
(* and writers, every size of the buffer and every width of the counters.  *)
(***************************************************************************)
EXTENDS Pipe, FiniteSetTheorems, SequenceTheorems, TLAPS

WriterPcs == {"user", "write", "wdone", "wmark", "wsleep", "wwoken", "close", "closed"}
ReaderPcs == {"user", "read", "copy", "rdone", "rmark", "rsleep", "rwoken", "close", "closed"}
Locked == {"write", "wdone", "wmark", "read", "copy", "rdone", "rmark"}
Gone == {"close", "closed"}

(* The variables that exclusion and sleeping depend on. *)
TypeInv ==
  /\ lock \in Procs \cup {None}
  /\ readopen \in {0, 1} /\ writeopen \in {0, 1} /\ freed \in {0, 1}
  /\ killed \in [Procs -> {0, 1}]
  /\ pc \in [Procs -> WriterPcs \cup ReaderPcs]
  /\ \A w \in Writers : pc[w] \in WriterPcs
  /\ \A r \in Readers : pc[r] \in ReaderPcs

(* Who owns pi->lock. *)
LockInv == \A p \in Procs : lock = p <=> pc[p] \in Locked

(* A reference count is the number of descriptors that are still open. *)
OpenIn(S) == {p \in S : pc[p] \notin Gone}
RefInv == wref = Cardinality(OpenIn(Writers)) /\ rref = Cardinality(OpenIn(Readers))

(* Only the last to close an end gets to pipeclose(), and it closes that end. *)
CloseInv ==
  /\ \A S \in {Writers, Readers} : \A p \in S :
       pc[p] = "close" => \A q \in S \ {p} : pc[q] = "closed"
  /\ writeopen = 0 <=> \A w \in Writers : pc[w] = "closed"
  /\ readopen = 0 <=> \A r \in Readers : pc[r] = "closed"
  /\ freed = 1 <=> readopen = 0 /\ writeopen = 0

(* A writer sleeps beside room only while a reader that made it has the lock. *)
RoomInv ==
  \A w \in Writers :
    pc[w] = "wsleep" => \/ full /\ readopen = 1
                        \/ \E r \in Readers : pc[r] \in {"copy", "rdone"}

(* What a process has found, under pi->lock, when it goes to sleep. *)
MarkInv ==
  /\ \A w \in Writers :
       pc[w] = "wmark" => full /\ readopen = 1 /\ \A r \in Readers : pc[r] # "rsleep"
  /\ \A r \in Readers : pc[r] = "rmark" => empty /\ writeopen = 1

IInv == TypeInv /\ LockInv /\ RefInv /\ CloseInv /\ MarkInv /\ ReaderWaits /\ RoomInv

(* The inductive invariant holds of a new pipe. *)
LEMMA InitIInv == Init => IInv
<1> SUFFICES ASSUME Init PROVE IInv
  OBVIOUS
<1>1. OpenIn(Writers) = Writers /\ OpenIn(Readers) = Readers
  BY DEF Init, OpenIn, Gone, Procs
<1> QED
  BY <1>1, RoleAssumption DEF Init, IInv, TypeInv, LockInv, RefInv, CloseInv, MarkInv, ReaderWaits,
     ReaderSleeps, RoomInv, WriterPcs, ReaderPcs, Locked, Procs

(* Every step keeps the variables in their types. *)
LEMMA TypeStep == TypeInv /\ [Next]_vars => TypeInv'
<1> SUFFICES ASSUME TypeInv, [Next]_vars PROVE TypeInv'
  OBVIOUS
<1> USE RoleAssumption DEF TypeInv, WriterPcs, ReaderPcs, Procs, Step, Return, wakeup, Woken, pipe
<1>1. CASE UNCHANGED vars
  BY <1>1 DEF vars
<1>2. ASSUME NEW w \in Writers, pipewrite(w) \/ write_rest(w) PROVE TypeInv'
  BY <1>2 DEF pipewrite, write_rest, write_fails, write_full, write_byte, write_done
<1>3. ASSUME NEW r \in Readers, piperead(r) \/ read_rest(r) PROVE TypeInv'
  BY <1>3 DEF piperead, read_rest, read_empty, read_ready, read_byte, read_done
<1>4. ASSUME NEW p \in Procs, sleep(p) \/ reacquire(p) PROVE TypeInv'
  BY <1>4 DEF sleep, reacquire
<1>5. ASSUME NEW p \in Procs, fileclose(p) PROVE TypeInv'
  BY <1>5 DEF fileclose
<1>6. ASSUME NEW p \in Procs, pipeclose(p) PROVE TypeInv'
  BY <1>6 DEF pipeclose
<1>7. ASSUME NEW p \in Killable, kill(p) PROVE TypeInv'
  BY <1>7 DEF kill
<1> QED BY <1>1, <1>2, <1>3, <1>4, <1>5, <1>6, <1>7 DEF Next

(* Every step keeps pi->lock with the process that is inside a call. *)
LEMMA LockStep == TypeInv /\ LockInv /\ [Next]_vars => LockInv'
<1> SUFFICES ASSUME TypeInv, LockInv, [Next]_vars PROVE LockInv'
  OBVIOUS
<1> USE RoleAssumption DEF TypeInv, LockInv, Locked, Procs, Step, Return, wakeup, Woken, pipe
<1>1. CASE UNCHANGED vars
  BY <1>1 DEF vars
<1>2. ASSUME NEW w \in Writers, pipewrite(w) \/ write_rest(w) PROVE LockInv'
  <2>1. CASE pipewrite(w) \/ write_fails(w) \/ write_byte(w)
    BY <2>1 DEF pipewrite, write_fails, write_byte
  <2>2. CASE write_full(w)
    BY <2>2 DEF write_full
  <2>3. CASE write_done(w)
    BY <2>3 DEF write_done
  <2> QED BY <1>2, <2>1, <2>2, <2>3 DEF write_rest
<1>3. ASSUME NEW r \in Readers, piperead(r) \/ read_rest(r) PROVE LockInv'
  <2>1. CASE piperead(r) \/ read_ready(r) \/ read_byte(r)
    BY <2>1 DEF piperead, read_ready, read_byte
  <2>2. CASE read_empty(r)
    BY <2>2 DEF read_empty
  <2>3. CASE read_done(r)
    BY <2>3 DEF read_done
  <2> QED BY <1>3, <2>1, <2>2, <2>3 DEF read_rest
<1>4. ASSUME NEW p \in Procs, sleep(p) \/ reacquire(p) PROVE LockInv'
  BY <1>4 DEF sleep, reacquire
<1>5. ASSUME NEW p \in Procs, fileclose(p) PROVE LockInv'
  BY <1>5 DEF fileclose
<1>6. ASSUME NEW p \in Procs, pipeclose(p) PROVE LockInv'
  BY <1>6 DEF pipeclose
<1>7. ASSUME NEW p \in Killable, kill(p) PROVE LockInv'
  BY <1>7 DEF kill
<1> QED BY <1>1, <1>2, <1>3, <1>4, <1>5, <1>6, <1>7 DEF Next

(* Apart from fileclose() and pipeclose() no step closes anything. *)
LEMMA QuietStep ==
  ASSUME TypeInv, [Next]_vars, \A p \in Procs : ~fileclose(p) /\ ~pipeclose(p)
  PROVE  /\ UNCHANGED <<rref, wref, readopen, writeopen, freed>>
         /\ \A q \in Procs : /\ pc'[q] = "close" <=> pc[q] = "close"
                             /\ pc'[q] = "closed" <=> pc[q] = "closed"
<1> DEFINE Quiet == /\ UNCHANGED <<rref, wref, readopen, writeopen, freed>>
                    /\ \A q \in Procs : /\ pc'[q] = "close" <=> pc[q] = "close"
                                        /\ pc'[q] = "closed" <=> pc[q] = "closed"
<1> USE RoleAssumption DEF TypeInv, Procs, Step, Return, wakeup, Woken, pipe
<1>1. CASE UNCHANGED vars
  BY <1>1 DEF vars
<1>2. ASSUME NEW w \in Writers, pipewrite(w) \/ write_rest(w) PROVE Quiet
  <2>1. CASE pipewrite(w) \/ write_fails(w) \/ write_byte(w)
    BY <2>1 DEF pipewrite, write_fails, write_byte, Syscall
  <2>2. CASE write_full(w)
    BY <2>2 DEF write_full
  <2>3. CASE write_done(w)
    BY <2>3 DEF write_done
  <2> QED BY <1>2, <2>1, <2>2, <2>3 DEF write_rest
<1>3. ASSUME NEW r \in Readers, piperead(r) \/ read_rest(r) PROVE Quiet
  <2>1. CASE piperead(r) \/ read_ready(r) \/ read_byte(r)
    BY <2>1 DEF piperead, read_ready, read_byte, Syscall
  <2>2. CASE read_empty(r)
    BY <2>2 DEF read_empty
  <2>3. CASE read_done(r)
    BY <2>3 DEF read_done
  <2> QED BY <1>3, <2>1, <2>2, <2>3 DEF read_rest
<1>4. ASSUME NEW p \in Procs, sleep(p) \/ reacquire(p) PROVE Quiet
  BY <1>4 DEF sleep, reacquire
<1>5. ASSUME NEW p \in Killable, kill(p) PROVE Quiet
  BY <1>5 DEF kill
<1> QED BY <1>1, <1>2, <1>3, <1>4, <1>5 DEF Next

(* The count of an end goes down with the descriptor that fileclose() gives *)
(* up; it was one exactly if no other descriptor of that end is open.       *)
LEMMA OpenIsFinite ==
  ASSUME NEW S, IsFiniteSet(S), NEW p \in S, pc[p] = "user"
  PROVE  /\ Cardinality(OpenIn(S)) \in Nat
         /\ Cardinality(OpenIn(S) \ {p}) = Cardinality(OpenIn(S)) - 1
         /\ Cardinality(OpenIn(S)) = 1 <=> \A q \in S \ {p} : pc[q] \in Gone
<1>1. IsFiniteSet(OpenIn(S)) /\ p \in OpenIn(S)
  BY FS_Subset DEF OpenIn, Gone
<1>2. Cardinality(OpenIn(S)) \in Nat
  BY <1>1, FS_CardinalityType
<1>3. Cardinality(OpenIn(S) \ {p}) = Cardinality(OpenIn(S)) - 1
  BY <1>1, FS_RemoveElement
<1>4. Cardinality(OpenIn(S)) = 1 <=> \E x : OpenIn(S) = {x}
  BY <1>1, FS_Singleton
<1>5. (\E x : OpenIn(S) = {x}) <=> \A q \in S \ {p} : pc[q] \in Gone
  <2>1. ASSUME NEW x, OpenIn(S) = {x} PROVE \A q \in S \ {p} : pc[q] \in Gone
    BY <1>1, <2>1 DEF OpenIn
  <2>2. ASSUME \A q \in S \ {p} : pc[q] \in Gone PROVE OpenIn(S) = {p}
    BY <1>1, <2>2 DEF OpenIn
  <2> QED BY <2>1, <2>2
<1> QED BY <1>2, <1>3, <1>4, <1>5

(* Every step keeps the reference counts. *)
LEMMA RefStep == TypeInv /\ RefInv /\ [Next]_vars => RefInv'
<1> SUFFICES ASSUME TypeInv, RefInv, [Next]_vars PROVE RefInv'
  OBVIOUS
<1> USE RoleAssumption DEF RefInv, OpenIn, Gone
<1>1. CASE \A p \in Procs : ~fileclose(p) /\ ~pipeclose(p)
  <2>1. OpenIn(Writers)' = OpenIn(Writers) /\ OpenIn(Readers)' = OpenIn(Readers)
    BY <1>1, QuietStep DEF Procs
  <2> QED BY <1>1, <2>1, QuietStep
<1>2. ASSUME NEW p \in Writers, fileclose(p) PROVE RefInv'
  <2>1. pc[p] = "user" /\ wref' = wref - 1 /\ rref' = rref
    BY <1>2 DEF fileclose, Step
  <2>2. \A q \in Procs : pc'[q] = IF q = p THEN pc'[p] ELSE pc[q]
    BY <1>2 DEF fileclose, Step, TypeInv, Procs
  <2>3. pc'[p] \in Gone
    BY <1>2 DEF fileclose, Step, TypeInv, Procs
  <2>4. OpenIn(Writers)' = OpenIn(Writers) \ {p} /\ OpenIn(Readers)' = OpenIn(Readers)
    BY <2>2, <2>3 DEF Procs
  <2> QED BY <2>1, <2>4, OpenIsFinite
<1>3. ASSUME NEW p \in Readers, fileclose(p) PROVE RefInv'
  <2>1. pc[p] = "user" /\ rref' = rref - 1 /\ wref' = wref
    BY <1>3 DEF fileclose, Step
  <2>2. \A q \in Procs : pc'[q] = IF q = p THEN pc'[p] ELSE pc[q]
    BY <1>3 DEF fileclose, Step, TypeInv, Procs
  <2>3. pc'[p] \in Gone
    BY <1>3 DEF fileclose, Step, TypeInv, Procs
  <2>4. OpenIn(Readers)' = OpenIn(Readers) \ {p} /\ OpenIn(Writers)' = OpenIn(Writers)
    BY <2>2, <2>3 DEF Procs
  <2> QED BY <2>1, <2>4, OpenIsFinite
<1>4. ASSUME NEW p \in Procs, pipeclose(p) PROVE RefInv'
  <2>1. \A q \in Procs : pc'[q] \in Gone <=> pc[q] \in Gone
    BY <1>4 DEF pipeclose, wakeup, Woken, TypeInv
  <2>2. OpenIn(Writers)' = OpenIn(Writers) /\ OpenIn(Readers)' = OpenIn(Readers)
    BY <2>1 DEF Procs
  <2> QED BY <1>4, <2>2 DEF pipeclose
<1> QED BY <1>1, <1>2, <1>3, <1>4 DEF Procs

(* Every step keeps the last descriptor of an end as the one that closes it. *)
LEMMA CloseStep == TypeInv /\ RefInv /\ CloseInv /\ [Next]_vars => CloseInv'
<1> SUFFICES ASSUME TypeInv, RefInv, CloseInv, [Next]_vars PROVE CloseInv'
  OBVIOUS
<1> USE RoleAssumption DEF CloseInv
<1>1. CASE \A p \in Procs : ~fileclose(p) /\ ~pipeclose(p)
  BY <1>1, QuietStep DEF Procs
<1>2. ASSUME NEW S \in {Writers, Readers}, NEW p \in S, fileclose(p) PROVE CloseInv'
  <2>1. pc[p] = "user" /\ UNCHANGED <<readopen, writeopen, freed>>
    BY <1>2 DEF fileclose, Step, pipe
  <2>2. pc'[p] = IF \A q \in S \ {p} : pc[q] \in Gone THEN "close" ELSE "closed"
    <3>1. /\ Cardinality(OpenIn(S)) \in Nat
          /\ Cardinality(OpenIn(S)) = 1 <=> \A q \in S \ {p} : pc[q] \in Gone
      BY <1>2, <2>1, OpenIsFinite
    <3>2. pc'[p] = IF last(Cardinality(OpenIn(S))) THEN "close" ELSE "closed"
      BY <1>2 DEF fileclose, Step, RefInv, TypeInv, Procs
    <3> QED BY <3>1, <3>2 DEF last
  <2>3. \A q \in Procs \ {p} : pc'[q] = pc[q]
    BY <1>2 DEF fileclose, Step, TypeInv, Procs
  <2>4. \A q \in S : pc[q] # "close"
    BY <1>2, <2>1
  <2> QED BY <1>2, <2>1, <2>2, <2>3, <2>4 DEF Gone, Procs
<1>3. ASSUME NEW p \in Procs, pipeclose(p) PROVE CloseInv'
  <2>1. /\ pc[p] = "close" /\ pc'[p] = "closed"
        /\ \A q \in Procs \ {p} : /\ pc'[q] = "close" <=> pc[q] = "close"
                                  /\ pc'[q] = "closed" <=> pc[q] = "closed"
    BY <1>3 DEF pipeclose, wakeup, Woken, TypeInv
  <2> QED BY <1>3, <2>1 DEF pipeclose, Procs, TypeInv
<1> QED BY <1>1, <1>2, <1>3 DEF Procs

(* What a process has found before sleep() stays so while it has pi->lock. *)
LEMMA MarkStep == IInv /\ [Next]_vars => MarkInv'
<1> SUFFICES ASSUME IInv, [Next]_vars PROVE MarkInv'
  OBVIOUS
<1> USE RoleAssumption DEF IInv, TypeInv, LockInv, Locked, MarkInv, full, empty,
        Procs, Step, Return, wakeup, Woken, pipe
<1>1. CASE UNCHANGED vars
  BY <1>1 DEF vars
<1>2. ASSUME NEW w \in Writers, pipewrite(w) \/ write_rest(w) PROVE MarkInv'
  <2>1. CASE pipewrite(w) \/ write_fails(w)
    BY <2>1 DEF pipewrite, write_fails
  <2>2. CASE write_full(w)
    BY <2>2 DEF write_full
  <2>3. CASE write_byte(w)
    BY <2>3 DEF write_byte
  <2>4. CASE write_done(w)
    BY <2>4 DEF write_done
  <2> QED BY <1>2, <2>1, <2>2, <2>3, <2>4 DEF write_rest
<1>3. ASSUME NEW r \in Readers, piperead(r) \/ read_rest(r) PROVE MarkInv'
  <2>1. CASE piperead(r) \/ read_ready(r)
    BY <2>1 DEF piperead, read_ready
  <2>2. CASE read_empty(r)
    BY <2>2 DEF read_empty
  <2>3. CASE read_byte(r)
    BY <2>3 DEF read_byte
  <2>4. CASE read_done(r)
    BY <2>4 DEF read_done
  <2> QED BY <1>3, <2>1, <2>2, <2>3, <2>4 DEF read_rest
<1>4. ASSUME NEW p \in Procs, sleep(p) \/ reacquire(p) PROVE MarkInv'
  BY <1>4 DEF sleep, reacquire
<1>5. ASSUME NEW p \in Procs, fileclose(p) PROVE MarkInv'
  BY <1>5 DEF fileclose
<1>6. ASSUME NEW p \in Procs, pipeclose(p) PROVE MarkInv'
  BY <1>6 DEF pipeclose
<1>7. ASSUME NEW p \in Killable, kill(p) PROVE MarkInv'
  BY <1>7 DEF kill
<1> QED BY <1>1, <1>2, <1>3, <1>4, <1>5, <1>6, <1>7 DEF Next

(* Every step that puts a byte into the pipe, or closes it for writing, is  *)
(* followed by a wakeup() of the readers before pi->lock is released, unless *)
(* the writer was killed; a reader goes to sleep beside an empty pipe.       *)
LEMMA ReaderStep == IInv /\ [Next]_vars => ReaderWaits'
<1> SUFFICES ASSUME IInv, [Next]_vars, (\A w \in Writers : killed[w] = 0)',
                    NEW s \in Readers, pc'[s] = "rsleep"
             PROVE  (empty /\ writeopen = 1)' \/ \E w \in Writers : lock' = w
  BY DEF ReaderWaits, ReaderSleeps
<1> DEFINE Cause == (empty /\ writeopen = 1)' \/ \E w \in Writers : lock' = w
<1> USE RoleAssumption DEF IInv, TypeInv, LockInv, Locked, ReaderWaits, ReaderSleeps, empty,
        Procs, Step, Return, wakeup, Woken, pipe
<1>1. CASE UNCHANGED vars
  BY <1>1 DEF vars
<1>2. ASSUME NEW w \in Writers, pipewrite(w) \/ write_rest(w) PROVE Cause
  <2>1. CASE pipewrite(w)
    BY <2>1 DEF pipewrite
  <2>2. CASE write_fails(w)
    BY <2>2 DEF write_fails, CloseInv
  <2>3. CASE write_full(w)
    BY <2>3 DEF write_full
  <2>4. CASE write_byte(w)
    BY <2>4 DEF write_byte
  <2>5. CASE write_done(w)
    BY <2>5 DEF write_done
  <2> QED BY <1>2, <2>1, <2>2, <2>3, <2>4, <2>5 DEF write_rest
<1>3. ASSUME NEW r \in Readers, piperead(r) \/ read_rest(r) PROVE Cause
  <2>1. CASE piperead(r) \/ read_ready(r)
    BY <2>1 DEF piperead, read_ready
  <2>2. CASE read_empty(r)
    BY <2>2 DEF read_empty
  <2>3. CASE read_byte(r)
    BY <2>3 DEF read_byte
  <2>4. CASE read_done(r)
    BY <2>4 DEF read_done
  <2> QED BY <1>3, <2>1, <2>2, <2>3, <2>4 DEF read_rest
<1>4. ASSUME NEW p \in Procs, sleep(p) \/ reacquire(p) PROVE Cause
  <2>1. CASE sleep(p) /\ p \in Readers
    BY <2>1 DEF sleep, MarkInv
  <2>2. CASE sleep(p) /\ p \in Writers
    BY <2>2 DEF sleep, MarkInv, WriterPcs
  <2>3. CASE reacquire(p)
    BY <2>3 DEF reacquire
  <2> QED BY <1>4, <2>1, <2>2, <2>3
<1>5. ASSUME NEW p \in Procs, fileclose(p) PROVE Cause
  BY <1>5 DEF fileclose
<1>6. ASSUME NEW p \in Procs, pipeclose(p) PROVE Cause
  BY <1>6 DEF pipeclose
<1>7. ASSUME NEW p \in Killable, kill(p) PROVE Cause
  BY <1>7 DEF kill
<1> QED BY <1>1, <1>2, <1>3, <1>4, <1>5, <1>6, <1>7 DEF Next

(* Every step that makes room, or closes the pipe for reading, is followed  *)
(* by a wakeup() of the writers before pi->lock is released.                *)
LEMMA RoomStep == IInv /\ [Next]_vars => RoomInv'
<1> SUFFICES ASSUME IInv, [Next]_vars, NEW s \in Writers, pc'[s] = "wsleep"
             PROVE  (full /\ readopen = 1)' \/ \E r \in Readers : pc'[r] \in {"copy", "rdone"}
  BY DEF RoomInv
<1> DEFINE Cause == (full /\ readopen = 1)' \/ \E r \in Readers : pc'[r] \in {"copy", "rdone"}
<1> USE RoleAssumption DEF IInv, TypeInv, LockInv, Locked, RoomInv, full,
        Procs, Step, Return, wakeup, Woken, pipe
<1>1. CASE UNCHANGED vars
  BY <1>1 DEF vars
<1>2. ASSUME NEW w \in Writers, pipewrite(w) \/ write_rest(w) PROVE Cause
  <2>1. CASE pipewrite(w) \/ write_fails(w)
    BY <2>1 DEF pipewrite, write_fails
  <2>2. CASE write_full(w)
    BY <2>2 DEF write_full
  <2>3. CASE write_byte(w)
    BY <2>3 DEF write_byte
  <2>4. CASE write_done(w)
    BY <2>4 DEF write_done
  <2> QED BY <1>2, <2>1, <2>2, <2>3, <2>4 DEF write_rest
<1>3. ASSUME NEW r \in Readers, piperead(r) \/ read_rest(r) PROVE Cause
  <2>1. CASE piperead(r) \/ read_ready(r)
    BY <2>1 DEF piperead, read_ready
  <2>2. CASE read_empty(r)
    BY <2>2 DEF read_empty
  <2>3. CASE read_byte(r)
    BY <2>3 DEF read_byte
  <2>4. CASE read_done(r)
    BY <2>4 DEF read_done
  <2> QED BY <1>3, <2>1, <2>2, <2>3, <2>4 DEF read_rest
<1>4. ASSUME NEW p \in Procs, sleep(p) \/ reacquire(p) PROVE Cause
  BY <1>4 DEF sleep, reacquire, MarkInv
<1>5. ASSUME NEW p \in Procs, fileclose(p) PROVE Cause
  BY <1>5 DEF fileclose
<1>6. ASSUME NEW p \in Procs, pipeclose(p) PROVE Cause
  BY <1>6 DEF pipeclose
<1>7. ASSUME NEW p \in Killable, kill(p) PROVE Cause
  BY <1>7 DEF kill
<1> QED BY <1>1, <1>2, <1>3, <1>4, <1>5, <1>6, <1>7 DEF Next

(* The inductive invariant holds in every reachable state. *)
THEOREM Invariance == Spec => []IInv
<1>1. IInv /\ [Next]_vars => IInv'
  BY TypeStep, LockStep, RefStep, CloseStep, MarkStep, ReaderStep, RoomStep DEF IInv
<1> QED BY InitIInv, <1>1, PTL DEF Spec

(* A pipe's page is freed exactly when every descriptor of both ends has   *)
(* been closed: pipeclose() frees no pipe that anybody is still using.      *)
THEOREM FreeCorrect == Spec => []NoUseAfterFree
<1>1. IInv => NoUseAfterFree
  BY DEF IInv, CloseInv, TypeInv, NoUseAfterFree, Procs
<1> QED BY Invariance, <1>1, PTL

(* No writer sleeps beside room or after the last reader is gone, and,      *)
(* unless a writer was killed, no reader beside data or after the last      *)
(* writer, however pipewrite() and piperead() calls interleave.             *)
THEOREM SleepCorrect == Spec => []SleepsForACause
<1>1. IInv => SleepsForACause
  BY DEF IInv, LockInv, Locked, RoomInv, SleepsForACause, WriterSleeps, Procs
<1> QED BY Invariance, <1>1, PTL

------------------------------------------------------------------------------
(* Counters modulo 2^32 and indices modulo PIPESIZE. *)

(* Division with remainder. *)
LEMMA DivMod ==
  ASSUME NEW m \in Nat \ {0}, NEW x \in Int
  PROVE  x = m * (x \div m) + (x % m) /\ x \div m \in Int /\ x % m \in 0..(m - 1)
OBVIOUS

(* The remainder is unique. *)
LEMMA ModUnique ==
  ASSUME NEW m \in Nat \ {0}, NEW q \in Int, NEW r \in 0..(m - 1)
  PROVE  (m * q + r) % m = r
OBVIOUS

(* Numbers less than m apart fall into different slots of m. *)
LEMMA ModApart ==
  ASSUME NEW m \in Nat \ {0}, NEW x \in Int, NEW y \in Int, x < y, y < x + m
  PROVE  x % m # y % m
<1> SUFFICES ASSUME x % m = y % m PROVE FALSE
  OBVIOUS
<1>1. PICK i \in Int : x = m * i + (x % m)
  BY DivMod
<1>2. PICK j \in Int : y = m * j + (x % m)
  BY DivMod
<1>3. x % m \in Int
  BY DivMod
<1>4. y - x = m * j - m * i
  BY <1>1, <1>2, <1>3
<1>5. m * j - m * i = m * (j - i)
  OBVIOUS
<1>6. ASSUME NEW d \in Int, 0 < m * d, m * d < m PROVE FALSE
  BY <1>6
<1> QED BY <1>4, <1>5, <1>6

(* A multiple of m does not change the slot. *)
LEMMA ModShift ==
  ASSUME NEW m \in Nat \ {0}, NEW x \in Int, NEW n \in Nat, n % m = 0
  PROVE  (x + n) % m = x % m
<1> DEFINE q == (x \div m) + (n \div m)
<1>1. x + n = m * q + (x % m) /\ q \in Int
  BY DivMod
<1>2. x % m \in 0..(m - 1)
  BY DivMod
<1> HIDE DEF q
<1> QED BY <1>1, <1>2, ModUnique

(* A counter that is at most one turn out of range. *)
LEMMA Wrap ==
  ASSUME NEW x \in (-UINT)..(2 * UINT - 1)
  PROVE  x % UINT = IF x < 0 THEN x + UINT ELSE IF x < UINT THEN x ELSE x - UINT
BY SizeAssumption

(* The struct pipe of a queue. *)
QueueInv ==
  /\ nread \in 0..(UINT - 1) /\ nwrite \in 0..(UINT - 1)
  /\ data \in [0..(PIPESIZE - 1) -> Bytes]
  /\ Used <= PIPESIZE

(* How many bytes the counters say there are, and when none or no more fit. *)
LEMMA UsedIs ==
  ASSUME QueueInv
  PROVE  /\ Used \in 0..PIPESIZE
         /\ nwrite = IF nread + Used < UINT THEN nread + Used ELSE nread + Used - UINT
         /\ full <=> Used = PIPESIZE
         /\ empty <=> Used = 0
<1>1. Used = IF nwrite < nread THEN nwrite - nread + UINT ELSE nwrite - nread
  <2> DEFINE x == nwrite - nread
  <2>1. x \in (-UINT)..(2 * UINT - 1) /\ (nwrite < nread <=> x < 0) /\ x < UINT
    BY SizeAssumption DEF QueueInv
  <2>2. Used = x % UINT
    BY DEF Used
  <2> HIDE DEF x
  <2>3. Used = IF x < 0 THEN x + UINT ELSE x
    BY <2>1, <2>2, Wrap
  <2> QED BY <2>1, <2>3 DEF x
<1>2. (nread + PIPESIZE) % UINT = IF nread + PIPESIZE < UINT THEN nread + PIPESIZE
                                                             ELSE (nread + PIPESIZE) - UINT
  <2> DEFINE x == nread + PIPESIZE
  <2>1. x \in (-UINT)..(2 * UINT - 1) /\ 0 <= x
    BY SizeAssumption DEF QueueInv
  <2> HIDE DEF x
  <2>2. x % UINT = IF x < UINT THEN x ELSE x - UINT
    BY <2>1, Wrap
  <2> QED BY <2>2 DEF x
<1> QED BY <1>1, <1>2, SizeAssumption DEF QueueInv, full, empty

(* A function on 1..n is a sequence. *)
LEMMA FunIsSeq ==
  ASSUME NEW n \in Nat, NEW f, NEW S, f = [k \in 1..n |-> f[k]], \A k \in 1..n : f[k] \in S
  PROVE  f \in Seq(S) /\ Len(f) = n
<1>1. f \in [1..n -> S]
  OBVIOUS
<1> QED BY <1>1

(* The queue is a sequence of bytes. *)
LEMMA QueueIsSeq ==
  ASSUME QueueInv
  PROVE  Queue \in Seq(Bytes) /\ Len(Queue) = Used
<1>1. \A k \in 1..Used : slot(nread + k - 1) \in 0..(PIPESIZE - 1)
  <2> TAKE k \in 1..Used
  <2>1. nread + k - 1 \in Int
    BY UsedIs DEF QueueInv
  <2> QED BY <2>1, DivMod, SizeAssumption DEF slot
<1>2. Used \in Nat
  BY UsedIs, SizeAssumption
<1>3. \A k \in 1..Used : data[slot(nread + k - 1)] \in Bytes
  BY <1>1 DEF QueueInv
<1> HIDE DEF Used
<1> QED BY <1>2, <1>3 DEF Queue

(* The slot behind the last byte is the one nwrite names, and it is free. *)
LEMMA SlotsDiffer ==
  ASSUME QueueInv, Used < PIPESIZE
  PROVE  /\ slot(nwrite) \in 0..(PIPESIZE - 1)
         /\ slot(nread + Used) = slot(nwrite)
         /\ \A k \in 1..Used : slot(nread + (k - 1)) # slot(nwrite)
<1> HIDE DEF Used
<1>1. PIPESIZE \in Nat \ {0} /\ UINT \in Nat /\ UINT % PIPESIZE = 0
  BY SizeAssumption
<1>2. nread + Used \in Int /\ nwrite \in Int
  BY UsedIs DEF QueueInv
<1>3. nread + Used = nwrite \/ nread + Used = nwrite + UINT
  BY UsedIs, <1>1 DEF QueueInv
<1>4. slot(nread + Used) = slot(nwrite)
  BY <1>1, <1>2, <1>3, ModShift DEF slot
<1>5. ASSUME NEW k \in 1..Used PROVE slot(nread + (k - 1)) # slot(nwrite)
  <2> DEFINE x == nread + (k - 1)
  <2> DEFINE y == nread + Used
  <2>1. x \in Int /\ x < y /\ y < x + PIPESIZE
    BY <1>1, <1>2, <1>5, UsedIs DEF QueueInv
  <2> HIDE DEF x, y
  <2>2. x % PIPESIZE # y % PIPESIZE
    BY <1>1, <1>2, <2>1, ModApart DEF y
  <2> QED BY <1>4, <2>2 DEF slot, x, y
<1>6. slot(nwrite) \in 0..(PIPESIZE - 1)
  BY <1>1, <1>2, DivMod DEF slot
<1> QED BY <1>4, <1>5, <1>6

(* A byte written by pipewrite() goes to the end of the queue. *)
LEMMA PutStep ==
  ASSUME QueueInv, ~full, NEW b \in Bytes, nread' = nread,
         data' = [data EXCEPT ![slot(nwrite)] = b], nwrite' = (nwrite + 1) % UINT
  PROVE  QueueInv' /\ Used < PIPESIZE /\ Queue' = Append(Queue, b)
<1>1. Used \in Nat /\ Used < PIPESIZE /\ PIPESIZE \in Nat
  BY UsedIs, SizeAssumption
<1>2. nwrite' = IF nwrite + 1 < UINT THEN nwrite + 1 ELSE 0
  <2> DEFINE x == nwrite + 1
  <2>1. x \in (-UINT)..(2 * UINT - 1) /\ 0 <= x /\ x <= UINT /\ nwrite' = x % UINT /\ UINT \in Nat
    BY SizeAssumption DEF QueueInv
  <2> HIDE DEF x
  <2>2. nwrite' = IF x < UINT THEN x ELSE 0
    BY <2>1, Wrap
  <2> QED BY <2>2 DEF x
<1>3. Used' = Used + 1
  <2> DEFINE x == nwrite' - nread
  <2>1. x \in (-UINT)..(2 * UINT - 1) /\ x < UINT
    BY <1>2, SizeAssumption DEF QueueInv
  <2>2. Used' = x % UINT
    BY DEF Used
  <2>3. x = IF nread + Used + 1 < UINT THEN Used + 1 ELSE (Used + 1) - UINT
    <3> HIDE DEF Used
    <3> QED BY <1>1, <1>2, UsedIs, SizeAssumption DEF QueueInv
  <2> HIDE DEF x, Used
  <2>4. Used' = IF x < 0 THEN x + UINT ELSE x
    BY <2>1, <2>2, Wrap
  <2>5. Used + 1 < UINT /\ UINT \in Nat
    BY <1>1, SizeAssumption
  <2> QED BY <1>1, <2>3, <2>4, <2>5
<1> HIDE DEF Used
<1>4. data' \in [0..(PIPESIZE - 1) -> Bytes]
  BY DEF QueueInv
<1>5. QueueInv'
  BY <1>1, <1>2, <1>3, <1>4, SizeAssumption DEF QueueInv
<1>6. ASSUME NEW k \in 1..(Used + 1)
      PROVE  data'[slot(nread + (k - 1))] = IF k = Used + 1 THEN b ELSE Queue[k]
  <2>1. CASE k = Used + 1
    <3>1. nread + (k - 1) = nread + Used
      BY <1>1, <2>1 DEF QueueInv
    <3> QED BY <1>1, <2>1, <3>1, SlotsDiffer DEF QueueInv
  <2>2. CASE k \in 1..Used
    <3>1. slot(nread + (k - 1)) # slot(nwrite)
      BY <1>1, <2>2, SlotsDiffer
    <3>2. data'[slot(nread + (k - 1))] = data[slot(nread + (k - 1))]
      BY <3>1 DEF QueueInv
    <3> QED BY <1>1, <2>2, <3>2 DEF Queue
  <2> QED BY <1>1, <1>6, <2>1, <2>2
<1>7. Queue' = [k \in 1..(Used + 1) |-> IF k = Used + 1 THEN b ELSE Queue[k]]
  BY <1>3, <1>6 DEF Queue
<1>8. Queue \in Seq(Bytes) /\ Len(Queue) = Used
  BY QueueIsSeq
<1> HIDE DEF Queue
<1>9. Queue' \in Seq(Bytes) /\ Len(Queue') = Used + 1
  BY <1>1, <1>7, <1>8, ElementOfSeq, FunIsSeq
<1>10. Append(Queue, b) \in Seq(Bytes) /\ Len(Append(Queue, b)) = Used + 1
  BY <1>1, <1>8, AppendProperties
<1>11. \A k \in 1..(Used + 1) : Append(Queue, b)[k] = IF k = Used + 1 THEN b ELSE Queue[k]
  BY <1>1, <1>8, AppendProperties
<1>12. \A k \in 1..(Used + 1) : Queue'[k] = Append(Queue, b)[k]
  BY <1>7, <1>11
<1>13. Queue' = Append(Queue, b)
  BY <1>1, <1>9, <1>10, <1>12, SeqEqual
<1> QED BY <1>1, <1>5, <1>13

(* The byte that piperead() takes is the first of the queue. *)
LEMMA GetStep ==
  ASSUME QueueInv, ~empty, data' = data, nwrite' = nwrite, nread' = (nread + 1) % UINT
  PROVE  QueueInv' /\ Queue # <<>> /\ Queue' = Tail(Queue) /\ data[slot(nread)] = Head(Queue)
<1>1. Used \in Nat \ {0} /\ Used <= PIPESIZE /\ PIPESIZE \in Nat \ {0} /\ UINT \in Nat
  BY UsedIs, SizeAssumption
<1>2. nread' = IF nread + 1 < UINT THEN nread + 1 ELSE 0
  <2> DEFINE x == nread + 1
  <2>1. x \in (-UINT)..(2 * UINT - 1) /\ 0 <= x /\ x <= UINT /\ nread' = x % UINT /\ UINT \in Nat
    BY SizeAssumption DEF QueueInv
  <2> HIDE DEF x
  <2>2. nread' = IF x < UINT THEN x ELSE 0
    BY <2>1, Wrap
  <2> QED BY <2>2 DEF x
<1>3. Used' = Used - 1
  <2> DEFINE x == nwrite - nread'
  <2>1. x \in (-UINT)..(2 * UINT - 1) /\ x < UINT
    BY <1>2, SizeAssumption DEF QueueInv
  <2>2. Used' = x % UINT
    BY DEF Used
  <2>3. x = Used - 1 \/ x = (Used - 1) - UINT
    <3> HIDE DEF Used
    <3> QED BY <1>1, <1>2, UsedIs, SizeAssumption DEF QueueInv
  <2> HIDE DEF x, Used
  <2>4. Used' = IF x < 0 THEN x + UINT ELSE x
    BY <2>1, <2>2, Wrap
  <2>5. Used < UINT
    BY <1>1, SizeAssumption
  <2> QED BY <1>1, <2>3, <2>4, <2>5
<1> HIDE DEF Used
<1>4. QueueInv'
  BY <1>1, <1>2, <1>3, SizeAssumption DEF QueueInv
<1>5. Queue \in Seq(Bytes) /\ Len(Queue) = Used
  BY QueueIsSeq
<1>6. Queue # <<>>
  BY <1>1, <1>5
<1>7. Head(Queue) = data[slot(nread)]
  <2>1. Head(Queue) = Queue[1]
    BY <1>1, <1>5
  <2>2. nread + (1 - 1) = nread
    BY DEF QueueInv
  <2> QED BY <1>1, <2>1, <2>2 DEF Queue
<1>8. ASSUME NEW k \in 1..(Used - 1) PROVE data[slot(nread' + (k - 1))] = Queue[k + 1]
  <2> DEFINE x == nread + ((k + 1) - 1)
  <2> DEFINE y == nread' + (k - 1)
  <2>1. y \in Int /\ (x = y \/ x = y + UINT)
    BY <1>1, <1>2, <1>8 DEF QueueInv
  <2>2. slot(x) = slot(y)
    <3> HIDE DEF x, y
    <3> QED BY <1>1, <2>1, ModShift, SizeAssumption DEF slot
  <2>3. k + 1 \in 1..Used
    BY <1>1, <1>8
  <2> QED BY <2>2, <2>3 DEF Queue
<1>9. Queue' = [k \in 1..(Used - 1) |-> Queue[k + 1]]
  BY <1>3, <1>8 DEF Queue
<1> HIDE DEF Queue
<1>10. \A k \in 1..(Used - 1) : k + 1 \in 1..Used /\ Queue[k + 1] \in Bytes
  BY <1>1, <1>5, ElementOfSeq
<1>11. Queue' \in Seq(Bytes) /\ Len(Queue') = Used - 1
  BY <1>1, <1>9, <1>10, FunIsSeq
<1>12. /\ Tail(Queue) \in Seq(Bytes) /\ Len(Tail(Queue)) = Used - 1
       /\ \A k \in 1..(Used - 1) : Tail(Queue)[k] = Queue[k + 1]
  BY <1>1, <1>5, <1>6, HeadTailProperties
<1>13. \A k \in 1..(Used - 1) : Queue'[k] = Tail(Queue)[k]
  BY <1>9, <1>12
<1>14. Queue' = Tail(Queue)
  BY <1>11, <1>12, <1>13, SeqEqual
<1> QED BY <1>4, <1>6, <1>7, <1>14

(* Every step puts a byte at the end of the queue, takes one from its head *)
(* or leaves it alone.                                                     *)
LEMMA FifoStep == QueueInv /\ [Next]_vars => QueueInv' /\ [Fifo!Next]_(Fifo!vars)
<1> SUFFICES ASSUME QueueInv, [Next]_vars PROVE QueueInv' /\ [Fifo!Next]_(Fifo!vars)
  OBVIOUS
<1>1. ASSUME UNCHANGED <<data, nread, nwrite, ch>> PROVE QueueInv' /\ UNCHANGED Fifo!vars
  BY <1>1 DEF QueueInv, Used, Queue, slot, Fifo!vars
<1>2. ASSUME NEW w \in Writers, write_byte(w) PROVE QueueInv' /\ [Fifo!Next]_(Fifo!vars)
  <2>1. ASSUME NEW b \in Bytes, data' = [data EXCEPT ![slot(nwrite)] = b],
               nwrite' = (nwrite + 1) % UINT, nread' = nread, ch' = ch, ~full
        PROVE  QueueInv' /\ Fifo!Next
    <3>1. QueueInv' /\ Used < PIPESIZE /\ Queue' = Append(Queue, b)
      BY <2>1, PutStep
    <3>2. Len(Queue) < PIPESIZE
      BY <3>1, QueueIsSeq
    <3> QED BY <2>1, <3>1, <3>2 DEF Fifo!Next, Fifo!Put
  <2> QED BY <1>1, <1>2, <2>1 DEF write_byte
<1>3. ASSUME NEW r \in Readers, read_byte(r) PROVE QueueInv' /\ [Fifo!Next]_(Fifo!vars)
  <2>1. /\ ~empty /\ data' = data /\ nwrite' = nwrite /\ nread' = (nread + 1) % UINT
        /\ ch' = [ch EXCEPT ![r] = data[slot(nread)]]
    BY <1>3 DEF read_byte
  <2>2. QueueInv' /\ Queue # <<>> /\ Queue' = Tail(Queue) /\ data[slot(nread)] = Head(Queue)
    BY <2>1, GetStep
  <2>3. Fifo!Get(r)
    BY <2>1, <2>2 DEF Fifo!Get
  <2> QED BY <2>2, <2>3 DEF Fifo!Next
<1>4. ASSUME ~\E w \in Writers : write_byte(w), ~\E r \in Readers : read_byte(r)
      PROVE  UNCHANGED <<data, nread, nwrite, ch>>
  <2> USE DEF pipe
  <2>1. CASE UNCHANGED vars
    BY <2>1 DEF vars
  <2>2. ASSUME NEW w \in Writers, pipewrite(w) \/ write_rest(w)
        PROVE  UNCHANGED <<data, nread, nwrite, ch>>
    BY <1>4, <2>2 DEF pipewrite, write_rest, write_fails, write_full, write_done
  <2>3. ASSUME NEW r \in Readers, piperead(r) \/ read_rest(r)
        PROVE  UNCHANGED <<data, nread, nwrite, ch>>
    BY <1>4, <2>3 DEF piperead, read_rest, read_empty, read_ready, read_done
  <2>4. ASSUME NEW p \in Procs, sleep(p) \/ reacquire(p) \/ fileclose(p) \/ pipeclose(p)
        PROVE  UNCHANGED <<data, nread, nwrite, ch>>
    BY <2>4 DEF sleep, reacquire, fileclose, pipeclose
  <2>5. ASSUME NEW p \in Killable, kill(p) PROVE UNCHANGED <<data, nread, nwrite, ch>>
    BY <2>5 DEF kill
  <2> QED BY <2>1, <2>2, <2>3, <2>4, <2>5 DEF Next
<1> QED BY <1>1, <1>2, <1>3, <1>4

(* A new pipe is an empty queue. *)
LEMMA FifoInit == Init => QueueInv /\ Fifo!Init
<1> SUFFICES ASSUME Init PROVE QueueInv /\ Fifo!Init
  OBVIOUS
<1>1. nread = 0 /\ nwrite = 0 /\ UINT \in Nat \ {0} /\ PIPESIZE \in Nat
  BY SizeAssumption DEF Init
<1>2. Used = 0
  BY <1>1 DEF Used
<1>3. (CHOOSE b \in Bytes : TRUE) \in Bytes
  BY SizeAssumption
<1>4. data \in [0..(PIPESIZE - 1) -> Bytes]
  BY <1>3 DEF Init
<1>5. QueueInv
  BY <1>1, <1>2, <1>4 DEF QueueInv
<1>6. Queue = <<>>
  BY <1>2, <1>5, QueueIsSeq, EmptySeq
<1> QED BY <1>5, <1>6 DEF Fifo!Init, Init

(* The ring buffer of pipe.c implements a bounded queue, for every buffer   *)
(* size that divides the range of the counters, also across their wrap:     *)
(* bytes leave in the order they came in, none twice, none skipped.         *)
THEOREM FifoCorrect == Spec => IsFifo
BY FifoInit, FifoStep, PTL DEF Spec, IsFifo, Fifo!Spec
==============================================================================
