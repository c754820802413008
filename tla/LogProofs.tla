------------------------------ MODULE LogProofs ------------------------------
(***************************************************************************)
(* Machine-checked proofs about module Log, for every number of processes, *)
(* blocks and values, and every size of the log.                           *)
(***************************************************************************)
EXTENDS Log, FiniteSetTheorems, TLAPS

NoDup(s) == \A i, j \in 1..Len(s) : s[i] = s[j] => i = j

(* Who is where: at most one process commits, and then nobody is inside an *)
(* operation; log.outstanding counts those that are.                       *)
ControlInv ==
  /\ outstanding = Cardinality(Active)
  /\ \A p, q \in Procs : pc[p] \in CommitPC /\ pc[q] \in CommitPC => p = q
  /\ committing = 1 <=> \E p \in Procs : pc[p] \in CommitPC
  /\ committing = 1 => Active = {}
  /\ panicked = 1 => boot = "up" /\ committing = 0

HeaderInv ==
  /\ NoDup(lh)
  /\ NoDup(dhead)
  /\ Len(lh) <= NLOG - 1
  /\ Len(dhead) <= NLOG - 1

(* During recovery only the first process runs, and the cache holds only   *)
(* what is on the disk.                                                    *)
BootInv ==
  boot # "up" =>
    /\ \A p \in Procs : pc[p] = "user"
    /\ committing = 0
    /\ \A b \in Blocks : pin[b] = 0 /\ cache[b] \in {NoBuf, home[b]}
    /\ boot = "read_head" => lh = <<>>
    /\ boot = "install" => /\ lh = dhead
                           /\ \A i \in 1..Len(lh) :
                                i < tail => home[lh[i]] = dlog[i]

(* Once up: the header on disk names the group being installed, if any. *)
HeadInv ==
  /\ Installing => dhead = lh
  /\ ~Installing => dhead = <<>>

(* How far write_log() and install_trans() have come. *)
StageInv ==
  \A p \in Procs :
    /\ pc[p] = "write_log" =>
         \A i \in 1..Len(lh) : i < tail => dlog[i] = cache[lh[i]]
    /\ pc[p] = "install" =>
         \A i \in 1..Len(lh) : /\ dlog[i] = View(lh[i])
                               /\ i < tail => home[lh[i]] = dlog[i]
    /\ pc[p] = "end_commit" => lh = <<>>

(* Nothing is logged while nobody is inside an operation or commits. *)
IdleInv == (Active = {} /\ committing = 0) => lh = <<>>

(* A pinned buffer is cached; a buffer is pinned while its change is logged *)
(* and not installed; any other buffer holds what is on the disk.           *)
Pinned(b) == \E i \in 1..Len(lh) : lh[i] = b /\ (Installing => i >= tail)
PinInv ==
  \A b \in Blocks :
    /\ pin[b] = IF Pinned(b) THEN 1 ELSE 0
    /\ Pinned(b) => cache[b] # NoBuf
CleanInv == panicked = 0 => \A b \in Blocks \ Logged : cache[b] \in {NoBuf, home[b]}

UpInv == boot = "up" => HeadInv /\ StageInv /\ IdleInv /\ PinInv /\ CleanInv

(* The inductive invariant. *)
IInv == TypeOK /\ ControlInv /\ HeaderInv /\ BootInv /\ UpInv

------------------------------------------------------------------------------
(* The initial states satisfy the inductive invariant. *)
LEMMA InitIInv == Init => IInv
<1> SUFFICES ASSUME Init PROVE IInv
  OBVIOUS
<1>1. TypeOK
  BY ValsAssumption, SizeAssumption DEF Init, TypeOK, CommitPC, LogBlocks
<1>2. ControlInv
  <2>1. Active = {}
    BY DEF Init, Active
  <2> QED BY <2>1, FS_EmptySet DEF Init, ControlInv, CommitPC
<1>3. HeaderInv
  BY SizeAssumption DEF Init, HeaderInv, NoDup
<1>4. BootInv
  BY DEF Init, BootInv
<1>5. UpInv
  BY DEF Init, UpInv
<1> QED BY <1>1, <1>2, <1>3, <1>4, <1>5 DEF IInv
(* begin_op() preserves the inductive invariant: it adds one process to    *)
(* those inside an operation, only while nobody commits.                   *)
LEMMA BeginStep ==
  ASSUME NEW p \in Procs, IInv, begin_op(p)
  PROVE  IInv'
<1> USE DEF IInv
<1>0. UNCHANGED <<home, dlog, dhead, cache, pin, lh, committing, tail, boot, panicked>>
  BY DEF begin_op, disk
<1>1. TypeOK'
  <2>1. outstanding' \in Nat
    BY DEF TypeOK, begin_op
  <2>2. pc' \in [Procs -> {"user", "begin_op", "asleep", "op"} \cup CommitPC]
    BY DEF TypeOK, begin_op
  <2>3. wrote' \in [Procs -> SUBSET Blocks]
    BY DEF TypeOK, begin_op
  <2> QED BY <1>0, <2>1, <2>2, <2>3 DEF TypeOK, CommitPC, LogBlocks
<1>2. ControlInv'
  <2>1. CASE must_wait
    <3>1. Active' = Active
      BY <2>1 DEF Active, begin_op, TypeOK
    <3> QED BY <2>1, <3>1 DEF ControlInv, begin_op, TypeOK, CommitPC
  <2>2. CASE ~must_wait
    <3>1. p \notin Active /\ Active' = Active \cup {p}
      BY <2>2 DEF Active, begin_op, TypeOK
    <3>2. IsFiniteSet(Active)
      BY ProcsAssumption, FS_Subset DEF Active
    <3>3. Cardinality(Active') = Cardinality(Active) + 1
      BY <3>1, <3>2, FS_AddElement
    <3>4. committing = 0
      BY <2>2 DEF must_wait, TypeOK
    <3> QED BY <2>2, <3>3, <3>4 DEF ControlInv, begin_op, TypeOK, CommitPC
  <2> QED BY <2>1, <2>2
<1>3. HeaderInv'
  BY <1>0 DEF HeaderInv, NoDup
<1>4. BootInv'
  BY DEF BootInv, begin_op, Running
<1>5. UpInv'
  <2>1. Installing' <=> Installing
    BY DEF Installing, begin_op, TypeOK
  <2>2. Active' = {} => Active = {}
    BY DEF Active, begin_op, TypeOK
  <2>3. \A q \in Procs : pc'[q] \in CommitPC => pc[q] = pc'[q]
    BY DEF begin_op, TypeOK, CommitPC
  <2>4. boot = "up" => HeadInv' /\ IdleInv'
    BY <1>0, <2>1, <2>2 DEF UpInv, HeadInv, IdleInv
  <2>5. boot = "up" => StageInv'
    BY <1>0, <2>3 DEF UpInv, StageInv, View, CommitPC
  <2>6. boot = "up" => PinInv' /\ CleanInv'
    BY <1>0, <2>1 DEF UpInv, PinInv, CleanInv, Pinned, Logged
  <2> QED BY <1>0, <2>4, <2>5, <2>6 DEF UpInv
<1> QED BY <1>1, <1>2, <1>3, <1>4, <1>5

(* log_write() preserves the inductive invariant: the block it changes is  *)
(* logged and pinned in the same critical section.                         *)
LEMMA LogWriteStep ==
  ASSUME NEW p \in Procs, NEW b \in Blocks, NEW v \in Vals, IInv, log_write(p, b, v)
  PROVE  IInv'
<1> USE DEF IInv
<1>0. /\ UNCHANGED <<home, dlog, dhead, outstanding, committing, tail, pc, boot>>
      /\ boot = "up" /\ panicked = 0 /\ pc[p] = "op"
      /\ cache' = [cache EXCEPT ![b] = v]
  BY DEF log_write, disk, Running
<1>1. /\ Active' = Active /\ (Installing' <=> Installing)
      /\ p \in Active
  BY <1>0 DEF Active, Installing
<1>2. committing = 0 /\ ~Installing /\ (\A q \in Procs : pc[q] \notin CommitPC)
  BY <1>1, <1>0 DEF ControlInv, Installing, CommitPC, TypeOK
<1>3. ControlInv'
  <2>1. panicked' = 1 => committing = 0
    BY <1>2
  <2> QED BY <1>0, <1>1, <2>1 DEF ControlInv, CommitPC
<1>4. BootInv'
  BY <1>0 DEF BootInv
<1>5. cache'[b] = v /\ v # NoBuf /\ \A c \in Blocks \ {b} : cache'[c] = cache[c]
  BY <1>0, ValsAssumption DEF TypeOK
<1>6. HeadInv' /\ IdleInv' /\ StageInv'
  BY <1>0, <1>1, <1>2 DEF UpInv, HeadInv, StageInv, IdleInv, CommitPC
<1>7. CASE UNCHANGED <<lh, pin>> /\ (b \in Logged \/ panicked' = 1)
  <2>1. TypeOK'
    BY <1>0, <1>7, SMTT(30) DEF TypeOK, log_write, CommitPC, LogBlocks
  <2>2. HeaderInv'
    BY <1>0, <1>7 DEF HeaderInv, NoDup
  <2>3. PinInv'
    BY <1>0, <1>1, <1>5, <1>7 DEF UpInv, PinInv, Pinned
  <2>4. CleanInv'
    BY <1>0, <1>5, <1>7 DEF UpInv, CleanInv, Logged
  <2> QED BY <1>3, <1>4, <1>6, <2>1, <2>2, <2>3, <2>4 DEF UpInv
<1>8. CASE /\ b \notin Logged /\ ~too_big /\ panicked' = 0
           /\ lh' = Append(lh, b)
           /\ pin' = [pin EXCEPT ![b] = @ + 1]
  <2>0. /\ lh \in Seq(Blocks) /\ Len(lh') = Len(lh) + 1 /\ lh' \in Seq(Blocks)
        /\ \A i \in 1..Len(lh) : lh'[i] = lh[i]
        /\ lh'[Len(lh) + 1] = b
        /\ \A i \in 1..Len(lh) : lh[i] # b
    BY <1>8 DEF TypeOK, Logged
  <2>1. TypeOK'
    BY <1>0, <1>8, <2>0, SMTT(30) DEF TypeOK, log_write, CommitPC, LogBlocks
  <2>2. HeaderInv'
    <3>1. Len(lh') <= NLOG - 1
      BY <1>8, <2>0, SizeAssumption DEF too_big
    <3>2. NoDup(lh)'
      BY <2>0 DEF HeaderInv, NoDup
    <3> QED BY <1>0, <3>1, <3>2 DEF HeaderInv, NoDup
  <2>3. \A c \in Blocks : Pinned(c)' <=> (Pinned(c) \/ c = b)
    BY <1>1, <1>2, <2>0 DEF Pinned
  <2>4. ~Pinned(b)
    BY <2>0 DEF Pinned
  <2>5. PinInv'
    BY <1>0, <1>5, <1>8, <2>3, <2>4 DEF UpInv, PinInv, TypeOK
  <2>6. Logged' = Logged \cup {b}
    BY <2>0 DEF Logged
  <2>7. CleanInv'
    BY <1>0, <1>5, <2>6 DEF UpInv, CleanInv
  <2> QED BY <1>3, <1>4, <1>6, <2>1, <2>2, <2>5, <2>7 DEF UpInv
<1> QED BY <1>0, <1>7, <1>8 DEF log_write, absorb

(* end_op() preserves it: the call that brings log.outstanding to 0 is the *)
(* only one that commits.                                                  *)
LEMMA EndStep ==
  ASSUME NEW p \in Procs, IInv, end_op(p)
  PROVE  IInv'
<1> USE DEF IInv
<1>0. /\ UNCHANGED <<home, dlog, dhead, cache, pin, lh, wrote, boot>>
      /\ boot = "up" /\ panicked = 0 /\ pc[p] = "op" /\ p \in Active
      /\ outstanding' = outstanding - 1
  BY DEF end_op, disk, Running, Active
<1>1. /\ committing = 0 /\ ~Installing /\ panicked' = 0
      /\ \A q \in Procs : pc[q] \notin CommitPC
  BY <1>0 DEF ControlInv, Installing, CommitPC, TypeOK, end_op
<1>2. IsFiniteSet(Active)
  BY ProcsAssumption, FS_Subset DEF Active
<1>3. /\ Cardinality(Active \ {p}) = Cardinality(Active) - 1
      /\ IsFiniteSet(Active \ {p})
  BY <1>0, <1>2, FS_RemoveElement
<1>4. Active' = Active \ {p}
  BY <1>0, <1>1 DEF Active, end_op, TypeOK, wakeup
<1>5. outstanding' = Cardinality(Active')
  BY <1>0, <1>3, <1>4 DEF ControlInv
<1>6. outstanding' \in Nat
  BY <1>3, <1>4, <1>5, FS_CardinalityType
<1>7. HeaderInv' /\ BootInv'
  BY <1>0 DEF HeaderInv, NoDup, BootInv
<1>8. CASE outstanding' = 0
  <2>1. /\ committing' = 1 /\ tail' = 1
        /\ pc' = [pc EXCEPT ![p] = IF nothing_to_commit THEN "end_commit" ELSE "write_log"]
    <3>1. committing # 1
      BY <1>1
    <3> QED BY <1>8, <3>1, Zenon DEF end_op
  <2>2. Active' = {}
    BY <1>3, <1>4, <1>5, <1>8, FS_EmptySet
  <2>3. TypeOK'
    BY <1>0, <1>1, <1>6, <2>1, SMTT(30) DEF TypeOK, CommitPC, LogBlocks
  <2>4. pc'[p] \in CommitPC /\ \A q \in Procs \ {p} : pc'[q] = pc[q]
    BY <2>1 DEF TypeOK, CommitPC
  <2>5. ControlInv'
    BY <1>0, <1>1, <1>5, <2>1, <2>2, <2>4 DEF ControlInv
  <2>6. ~Installing'
    BY <1>1, <2>1 DEF Installing, TypeOK
  <2>7. HeadInv' /\ IdleInv'
    BY <1>0, <1>1, <2>1, <2>6 DEF UpInv, HeadInv, IdleInv
  <2>8. PinInv' /\ CleanInv'
    BY <1>0, <1>1, <2>6 DEF UpInv, PinInv, CleanInv, Pinned, Logged
  <2>9. StageInv'
    <3>1. pc'[p] = "end_commit" => lh = <<>>
      BY <2>1 DEF TypeOK, nothing_to_commit
    <3> QED BY <1>0, <1>1, <2>1, <2>4, <3>1 DEF StageInv, TypeOK, CommitPC
  <2> QED BY <1>7, <2>3, <2>5, <2>7, <2>8, <2>9 DEF UpInv
<1>9. CASE outstanding' # 0
  <2>1. /\ committing' = 0 /\ tail' = tail
        /\ pc' = wakeup([pc EXCEPT ![p] = "user"])
    BY <1>1, <1>9 DEF end_op
  <2>2. Active' # {}
    BY <1>5, <1>9, FS_EmptySet
  <2>3. \A q \in Procs : pc'[q] \in {"user", "begin_op", "op"}
    BY <1>1, <2>1 DEF TypeOK, wakeup, CommitPC
  <2>4. TypeOK'
    <3>1. (pc \in [Procs -> {"user", "begin_op", "asleep", "op"} \cup CommitPC])'
      BY <2>1, <2>3 DEF wakeup, CommitPC
    <3>2. committing' \in {0, 1} /\ panicked' \in {0, 1} /\ outstanding' \in Nat
      BY <1>1, <1>6, <2>1
    <3>3. tail' \in Nat \ {0}
      BY <2>1 DEF TypeOK
    <3> QED BY <1>0, <3>1, <3>2, <3>3 DEF TypeOK, LogBlocks, CommitPC
  <2>5. ControlInv'
    BY <1>0, <1>1, <1>5, <2>1, <2>3 DEF ControlInv, CommitPC
  <2>6. ~Installing'
    BY <2>3 DEF Installing
  <2>7. HeadInv' /\ IdleInv' /\ StageInv'
    BY <1>0, <1>1, <2>2, <2>3, <2>6 DEF UpInv, HeadInv, IdleInv, StageInv
  <2>8. PinInv' /\ CleanInv'
    BY <1>0, <1>1, <2>6 DEF UpInv, PinInv, CleanInv, Pinned, Logged
  <2> QED BY <1>7, <2>4, <2>5, <2>7, <2>8 DEF UpInv
<1> QED BY <1>8, <1>9

(* The process that commits is the only one, and no call is in progress. *)
LEMMA Committer ==
  ASSUME NEW p \in Procs, IInv, pc[p] \in CommitPC
  PROVE  /\ committing = 1 /\ Active = {} /\ panicked = 0
         /\ \A q \in Procs \ {p} : pc[q] \notin CommitPC
BY DEF IInv, ControlInv, TypeOK

(* write_log() preserves it: it only fills the log, which no header names. *)
LEMMA WriteLogStep ==
  ASSUME NEW p \in Procs, IInv, write_log(p)
  PROVE  IInv'
<1> USE DEF IInv
<1>0. /\ UNCHANGED <<home, dhead, cache, pin, lh, outstanding, committing, pc, wrote, boot, panicked>>
      /\ boot = "up" /\ pc[p] = "write_log" /\ tail <= Len(lh)
      /\ dlog' = [dlog EXCEPT ![tail] = View(lh[tail])] /\ tail' = tail + 1
  BY DEF write_log, Running
<1>1. /\ \A q \in Procs \ {p} : pc[q] \notin CommitPC
      /\ ~Installing /\ ~Installing'
  BY <1>0, Committer DEF CommitPC, Installing
<1>2. Active' = Active
  BY <1>0 DEF Active
<1>3. tail \in 1..Len(lh) /\ lh[tail] \in Blocks /\ tail \in LogBlocks
  BY <1>0, SizeAssumption DEF TypeOK, LogBlocks, HeaderInv
<1>4. cache[lh[tail]] # NoBuf /\ View(lh[tail]) = cache[lh[tail]]
  <2>1. Pinned(lh[tail])
    BY <1>1, <1>3 DEF Pinned
  <2> QED BY <1>0, <1>3, <2>1 DEF UpInv, PinInv, View
<1>5. View(lh[tail]) \in Vals
  BY <1>3, <1>4 DEF TypeOK
<1>6. TypeOK'
  <2>1. dlog' \in [LogBlocks -> Vals]
    <3>1. dlog \in [LogBlocks -> Vals]
      BY DEF TypeOK
    <3> QED BY <1>0, <1>5, <3>1
  <2>2. tail' \in Nat \ {0}
    BY <1>0 DEF TypeOK
  <2>3. UNCHANGED <<LogBlocks, CommitPC>>
    BY DEF LogBlocks, CommitPC
  <2> QED BY <1>0, <2>1, <2>2, <2>3, SMTT(30) DEF TypeOK
<1>7. ControlInv' /\ HeaderInv' /\ BootInv'
  BY <1>0, <1>2 DEF ControlInv, HeaderInv, NoDup, BootInv, CommitPC
<1>8. HeadInv' /\ IdleInv' /\ PinInv' /\ CleanInv'
  BY <1>0, <1>1, <1>2 DEF UpInv, HeadInv, IdleInv, PinInv, CleanInv, Pinned, Logged
<1>9. StageInv'
  <2>1. \A i \in 1..Len(lh) : i < tail' => dlog'[i] = cache[lh[i]]
    <3> SUFFICES ASSUME NEW i \in 1..Len(lh), i < tail' PROVE dlog'[i] = cache[lh[i]]
      OBVIOUS
    <3>1. i \in LogBlocks
      BY SizeAssumption DEF HeaderInv, LogBlocks, TypeOK
    <3>2. CASE i = tail
      BY <1>0, <1>4, <3>1, <3>2 DEF TypeOK
    <3>3. CASE i # tail
      <4>1. i < tail
        BY <1>0, <3>3 DEF TypeOK
      <4> QED BY <1>0, <3>1, <3>3, <4>1 DEF TypeOK, UpInv, StageInv
    <3> QED BY <3>2, <3>3
  <2> QED BY <1>0, <1>1, <2>1 DEF StageInv, CommitPC
<1> QED BY <1>6, <1>7, <1>8, <1>9 DEF UpInv

(* The first write_head() preserves it: the header names only blocks whose *)
(* logged contents are in the log.                                         *)
LEMMA WriteHeadStep ==
  ASSUME NEW p \in Procs, IInv, write_head(p)
  PROVE  IInv'
<1> USE DEF IInv
<1>0. /\ UNCHANGED <<home, dlog, cache, pin, lh, outstanding, committing, wrote, boot, panicked>>
      /\ boot = "up" /\ pc[p] = "write_log" /\ tail > Len(lh)
      /\ dhead' = lh /\ tail' = 1 /\ pc' = [pc EXCEPT ![p] = "install"]
  BY DEF write_head, Running, log_written
<1>1. /\ \A q \in Procs \ {p} : pc[q] \notin CommitPC /\ pc'[q] = pc[q]
      /\ pc'[p] = "install"
      /\ ~Installing /\ Installing'
  BY <1>0, Committer DEF CommitPC, Installing, TypeOK
<1>2. Active' = Active
  BY <1>0 DEF Active, TypeOK
<1>3. TypeOK'
  BY <1>0, SMTT(30) DEF TypeOK, LogBlocks, CommitPC
<1>4. ControlInv'
  BY <1>0, <1>1, <1>2 DEF ControlInv, CommitPC
<1>5. HeaderInv' /\ BootInv'
  BY <1>0 DEF HeaderInv, NoDup, BootInv
<1>6. \A c \in Blocks : Pinned(c)' <=> Pinned(c)
  BY <1>0, <1>1 DEF Pinned, TypeOK
<1>7. HeadInv' /\ IdleInv' /\ PinInv' /\ CleanInv'
  <2>1. HeadInv'
    BY <1>0, <1>1 DEF HeadInv
  <2>2. IdleInv'
    BY <1>0, <1>2 DEF UpInv, IdleInv
  <2>3. PinInv'
    BY <1>0, <1>6 DEF UpInv, PinInv
  <2>4. CleanInv'
    BY <1>0 DEF UpInv, CleanInv, Logged
  <2> QED BY <2>1, <2>2, <2>3, <2>4
<1>8. StageInv'
  <2>1. \A i \in 1..Len(lh) : dlog[i] = View(lh[i])
    <3> SUFFICES ASSUME NEW i \in 1..Len(lh) PROVE dlog[i] = View(lh[i])
      OBVIOUS
    <3>1. lh[i] \in Blocks /\ Pinned(lh[i])
      BY <1>1 DEF Pinned, TypeOK
    <3>2. i < tail
      BY <1>0 DEF TypeOK
    <3> QED BY <1>0, <3>1, <3>2 DEF UpInv, PinInv, StageInv, View
  <2>2. \A i \in 1..Len(lh) : (dlog[i] = View(lh[i]))'
    BY <1>0, <2>1 DEF View
  <2> QED BY <1>0, <1>1, <2>2 DEF StageInv, CommitPC, TypeOK
<1> QED BY <1>3, <1>4, <1>5, <1>7, <1>8 DEF UpInv

(* One iteration of install_trans(), in commit() or in recovery. *)
LEMMA InstallTypes ==
  ASSUME IInv, InstallBlock
  PROVE  /\ tail \in 1..Len(lh) /\ lh[tail] \in Blocks /\ dlog[tail] \in Vals
         /\ home' \in [Blocks -> Vals]
         /\ cache' \in [Blocks -> Vals \cup {NoBuf}]
         /\ home'[lh[tail]] = dlog[tail] /\ cache'[lh[tail]] = dlog[tail]
         /\ \A b \in Blocks : b # lh[tail] => home'[b] = home[b] /\ cache'[b] = cache[b]
         /\ tail' = tail + 1 /\ tail' \in Nat \ {0}
         /\ UNCHANGED <<dlog, dhead, lh, outstanding, committing, wrote, panicked>>
<1> USE DEF IInv, InstallBlock
<1>1. tail \in 1..Len(lh) /\ lh[tail] \in Blocks
  BY DEF TypeOK
<1>2. tail \in LogBlocks
  BY <1>1, SizeAssumption DEF TypeOK, LogBlocks, HeaderInv
<1>3. dlog[tail] \in Vals
  BY <1>2 DEF TypeOK
<1>4. /\ home' \in [Blocks -> Vals]
      /\ home'[lh[tail]] = dlog[tail]
      /\ \A b \in Blocks : b # lh[tail] => home'[b] = home[b]
  BY <1>1, <1>3 DEF TypeOK
<1>5. /\ cache' \in [Blocks -> Vals \cup {NoBuf}]
      /\ cache'[lh[tail]] = dlog[tail]
      /\ \A b \in Blocks : b # lh[tail] => cache'[b] = cache[b]
  BY <1>1, <1>3 DEF TypeOK
<1>6. tail' \in Nat \ {0}
  BY DEF TypeOK
<1> QED BY <1>1, <1>3, <1>4, <1>5, <1>6

(* install_trans(0) preserves it: a home block receives what the log and   *)
(* the cache already agree on, and its buffer is unpinned.                 *)
LEMMA InstallStep ==
  ASSUME NEW p \in Procs, IInv, install_trans(p)
  PROVE  IInv'
<1> USE DEF IInv
<1>0. /\ UNCHANGED <<dlog, dhead, lh, outstanding, committing, wrote, panicked, pc, boot>>
      /\ boot = "up" /\ pc[p] = "install" /\ InstallBlock
      /\ pin' = [pin EXCEPT ![lh[tail]] = @ - 1]
  BY DEF install_trans, Running, InstallBlock
<1>t. PICK t \in Blocks : t = lh[tail]
  BY <1>0, InstallTypes
<1>1. /\ tail \in 1..Len(lh) /\ t \in Blocks /\ dlog[tail] \in Vals
      /\ home' \in [Blocks -> Vals]
      /\ cache' \in [Blocks -> Vals \cup {NoBuf}]
      /\ home'[t] = dlog[tail] /\ cache'[t] = dlog[tail]
      /\ \A b \in Blocks : b # t => home'[b] = home[b] /\ cache'[b] = cache[b]
      /\ tail' = tail + 1 /\ tail' \in Nat \ {0}
  BY <1>0, <1>t, InstallTypes
<1>2. /\ \A q \in Procs \ {p} : pc[q] \notin CommitPC
      /\ Installing /\ Installing' /\ committing = 1 /\ panicked = 0
  BY <1>0, Committer DEF CommitPC, Installing
<1>3. Active' = Active /\ Logged' = Logged
  BY <1>0 DEF Active, Logged
<1>4. /\ Pinned(t) /\ ~Pinned(t)'
      /\ \A b \in Blocks : b # t => (Pinned(b)' <=> Pinned(b))
  <2>1. Pinned(t)
    BY <1>t, <1>1, <1>2 DEF Pinned, TypeOK
  <2>2. ~Pinned(t)'
    BY <1>t, <1>0, <1>1, <1>2 DEF Pinned, TypeOK, HeaderInv, NoDup
  <2>3. \A b \in Blocks : b # t => (Pinned(b)' <=> Pinned(b))
    BY <1>t, <1>0, <1>1, <1>2 DEF Pinned, TypeOK
  <2> QED BY <2>1, <2>2, <2>3
<1>5. pin[t] = 1 /\ pin' \in [Blocks -> Nat]
  <2>1. pin[t] = 1
    BY <1>0, <1>1, <1>4 DEF UpInv, PinInv
  <2> QED BY <1>t, <1>0, <1>1, <2>1 DEF TypeOK
<1>6. TypeOK'
  <2>1. UNCHANGED <<LogBlocks, CommitPC>>
    BY DEF LogBlocks, CommitPC
  <2>2. /\ UNCHANGED <<dlog, dhead, lh, outstanding, committing, wrote, panicked, pc, boot>>
        /\ tail' \in Nat \ {0}
    BY <1>0, <1>1
  <2> QED BY <1>1, <1>5, <2>1, <2>2, SMTT(30) DEF TypeOK
<1>7. ControlInv' /\ HeaderInv' /\ BootInv'
  BY <1>0, <1>3 DEF ControlInv, HeaderInv, NoDup, BootInv, CommitPC
<1>8. HeadInv' /\ IdleInv'
  BY <1>0, <1>2, <1>3 DEF UpInv, HeadInv, IdleInv
<1>9. PinInv'
  <2>1. pin'[t] = 0 /\ \A b \in Blocks : b # t => pin'[b] = pin[b]
    BY <1>t, <1>0, <1>1, <1>5 DEF TypeOK
  <2> QED BY <1>0, <1>1, <1>4, <2>1 DEF UpInv, PinInv
<1>10. CleanInv'
  <2>1. t \in Logged
    BY <1>t, <1>1 DEF Logged
  <2> QED BY <1>0, <1>1, <1>2, <1>3, <2>1 DEF UpInv, CleanInv
<1>11. StageInv'
  <2>1. \A i \in 1..Len(lh) : (dlog[i] = View(lh[i]))' /\ (i < tail' => home'[lh[i]] = dlog[i])
    <3> SUFFICES ASSUME NEW i \in 1..Len(lh)
                 PROVE  (dlog[i] = View(lh[i]))' /\ (i < tail' => home'[lh[i]] = dlog[i])
      OBVIOUS
    <3>1. dlog[i] = View(lh[i]) /\ (i < tail => home[lh[i]] = dlog[i]) /\ lh[i] \in Blocks
      BY <1>0 DEF UpInv, StageInv, TypeOK
    <3>2. CASE i = tail
      BY <1>t, <1>0, <1>1, <3>2, ValsAssumption DEF View
    <3>3. CASE i # tail
      <4>1. lh[i] # t
        BY <1>t, <1>1, <3>3 DEF HeaderInv, NoDup
      <4>2. home'[lh[i]] = home[lh[i]] /\ cache'[lh[i]] = cache[lh[i]]
        BY <1>1, <3>1, <4>1
      <4>3. i < tail' => i < tail
        BY <1>1, <3>3 DEF TypeOK
      <4> QED BY <1>0, <3>1, <4>2, <4>3 DEF View
    <3> QED BY <3>2, <3>3
  <2> QED BY <1>0, <1>2, <2>1 DEF StageInv, CommitPC
<1> QED BY <1>6, <1>7, <1>8, <1>9, <1>10, <1>11 DEF UpInv

(* Erasing the header preserves it: by then every logged block is home. *)
LEMMA EraseStep ==
  ASSUME NEW p \in Procs, IInv, erase(p)
  PROVE  IInv'
<1> USE DEF IInv
<1>0. /\ UNCHANGED <<home, dlog, cache, pin, outstanding, committing, tail, wrote, boot, panicked>>
      /\ boot = "up" /\ pc[p] = "install" /\ tail > Len(lh)
      /\ lh' = <<>> /\ dhead' = <<>> /\ pc' = [pc EXCEPT ![p] = "end_commit"]
  BY DEF erase, Running, installed
<1>1. /\ \A q \in Procs \ {p} : pc[q] \notin CommitPC /\ pc'[q] = pc[q]
      /\ pc'[p] = "end_commit"
      /\ Installing /\ ~Installing' /\ committing = 1 /\ panicked = 0
  BY <1>0, Committer DEF CommitPC, Installing, TypeOK
<1>2. Active' = Active
  BY <1>0 DEF Active, TypeOK
<1>3. TypeOK'
  BY <1>0, SMTT(30) DEF TypeOK, LogBlocks, CommitPC
<1>4. ControlInv'
  BY <1>0, <1>1, <1>2 DEF ControlInv, CommitPC
<1>5. HeaderInv' /\ BootInv'
  <2>1. HeaderInv'
    BY <1>0, SizeAssumption DEF HeaderInv, NoDup
  <2>2. BootInv'
    BY <1>0 DEF BootInv
  <2> QED BY <2>1, <2>2
<1>6. \A b \in Blocks : ~Pinned(b) /\ ~Pinned(b)'
  BY <1>0, <1>1 DEF Pinned, TypeOK
<1>7. HeadInv' /\ IdleInv' /\ PinInv'
  BY <1>0, <1>1, <1>6 DEF UpInv, HeadInv, IdleInv, PinInv
<1>8. CleanInv'
  <2> SUFFICES ASSUME NEW b \in Blocks PROVE cache[b] \in {NoBuf, home[b]}
    BY <1>0 DEF CleanInv, Logged
  <2>1. CASE b \in Logged
    <3>1. PICK i \in 1..Len(lh) : lh[i] = b
      BY <2>1 DEF Logged
    <3>2. dlog[i] = View(b) /\ home[b] = dlog[i]
      BY <1>0, <3>1 DEF UpInv, StageInv, TypeOK
    <3> QED BY <3>2 DEF View
  <2>2. CASE b \notin Logged
    BY <1>0, <1>1, <2>2 DEF UpInv, CleanInv
  <2> QED BY <2>1, <2>2
<1>9. StageInv'
  <2>1. \A q \in Procs : pc'[q] # "write_log" /\ pc'[q] # "install"
    BY <1>1 DEF CommitPC
  <2> QED BY <1>0, <2>1 DEF StageInv
<1> QED BY <1>3, <1>4, <1>5, <1>7, <1>8, <1>9 DEF UpInv

(* The end of end_op() preserves it: the log is empty again. *)
LEMMA EndCommitStep ==
  ASSUME NEW p \in Procs, IInv, end_commit(p)
  PROVE  IInv'
<1> USE DEF IInv
<1>0. /\ UNCHANGED <<home, dlog, dhead, cache, pin, lh, outstanding, tail, wrote, boot, panicked>>
      /\ boot = "up" /\ pc[p] = "end_commit" /\ committing' = 0
      /\ pc' = wakeup([pc EXCEPT ![p] = "user"])
  BY DEF end_commit, Running, disk
<1>1. /\ \A q \in Procs \ {p} : pc[q] \notin CommitPC
      /\ Active = {} /\ panicked = 0 /\ ~Installing
  BY <1>0, Committer DEF CommitPC, Installing
<1>2. \A q \in Procs : pc'[q] \in {"user", "begin_op"}
  BY <1>0, <1>1 DEF TypeOK, wakeup, CommitPC, Active
<1>3. Active' = Active /\ ~Installing'
  BY <1>1, <1>2 DEF Active, Installing
<1>4. lh = <<>>
  BY <1>0 DEF UpInv, StageInv
<1>5. TypeOK'
  <2>1. (pc \in [Procs -> {"user", "begin_op", "asleep", "op"} \cup CommitPC])'
    BY <1>0, <1>2 DEF wakeup, CommitPC
  <2>2. /\ UNCHANGED <<home, dlog, dhead, cache, pin, lh, outstanding, tail, wrote, boot, panicked>>
        /\ committing' = 0
    BY <1>0
  <2> QED BY <2>1, <2>2, SMTT(30) DEF TypeOK, LogBlocks, CommitPC
<1>6. ControlInv'
  <2>1. \A q \in Procs : (pc[q] \notin CommitPC)'
    BY <1>2 DEF CommitPC
  <2>2. outstanding' = Cardinality(Active')
    BY <1>0, <1>3 DEF ControlInv
  <2>3. committing' = 0 /\ panicked' = 0
    BY <1>0, <1>1
  <2> QED BY <2>1, <2>2, <2>3 DEF ControlInv
<1>7. HeaderInv' /\ BootInv'
  BY <1>0 DEF HeaderInv, NoDup, BootInv
<1>8. HeadInv' /\ IdleInv' /\ StageInv'
  <2>1. HeadInv' /\ IdleInv'
    BY <1>0, <1>1, <1>2, <1>3, <1>4 DEF UpInv, HeadInv, IdleInv
  <2>2. StageInv'
    BY <1>0, <1>1, <1>2, <1>3, <1>4 DEF UpInv, StageInv
  <2> QED BY <2>1, <2>2
<1>9. PinInv' /\ CleanInv'
  BY <1>0, <1>1, <1>3 DEF UpInv, PinInv, CleanInv, Pinned, Logged
<1> QED BY <1>5, <1>6, <1>7, <1>8, <1>9 DEF UpInv

(* Recovery preserves it: the header stays on the disk until every block it *)
(* names is home.                                                           *)
LEMMA RecoverStep ==
  ASSUME IInv, recover_from_log
  PROVE  IInv'
<1> USE DEF IInv
<1>1. CASE read_head
  <2>0. /\ UNCHANGED <<home, dlog, dhead, cache, pin, outstanding, committing, pc, wrote, panicked>>
        /\ boot = "read_head" /\ boot' = "install" /\ lh' = dhead /\ tail' = 1
    BY <1>1 DEF read_head, disk
  <2>1. TypeOK'
    BY <2>0, SMTT(30) DEF TypeOK, LogBlocks, CommitPC
  <2>2. ControlInv'
    BY <2>0 DEF ControlInv, Active, CommitPC, TypeOK
  <2>3. HeaderInv'
    BY <2>0 DEF HeaderInv, NoDup
  <2>4. BootInv'
    <3>1. \A i \in 1..Len(lh') : ~(i < tail')
      BY <2>0 DEF TypeOK
    <3> QED BY <2>0, <3>1 DEF BootInv
  <2> QED BY <2>0, <2>1, <2>2, <2>3, <2>4 DEF UpInv
<1>2. CASE recover_install
  <2>0. /\ UNCHANGED <<dlog, dhead, lh, outstanding, committing, wrote, panicked, pin, pc, boot>>
        /\ boot = "install" /\ InstallBlock
    BY <1>2 DEF recover_install, InstallBlock
  <2>1. /\ tail \in 1..Len(lh) /\ lh[tail] \in Blocks /\ dlog[tail] \in Vals
        /\ home' \in [Blocks -> Vals]
        /\ cache' \in [Blocks -> Vals \cup {NoBuf}]
        /\ home'[lh[tail]] = dlog[tail] /\ cache'[lh[tail]] = dlog[tail]
        /\ \A b \in Blocks : b # lh[tail] => home'[b] = home[b] /\ cache'[b] = cache[b]
        /\ tail' = tail + 1 /\ tail' \in Nat \ {0}
    BY <2>0, InstallTypes
  <2>2. TypeOK'
    <3>1. UNCHANGED <<LogBlocks, CommitPC>>
      BY DEF LogBlocks, CommitPC
    <3>2. UNCHANGED <<dlog, dhead, lh, outstanding, committing, wrote, panicked, pin, pc, boot>>
      BY <2>0
    <3> QED BY <2>1, <3>1, <3>2, SMTT(30) DEF TypeOK
  <2>3. ControlInv' /\ HeaderInv'
    BY <2>0 DEF ControlInv, HeaderInv, NoDup, Active, CommitPC
  <2>4. BootInv'
    <3>1. \A b \in Blocks : cache'[b] \in {NoBuf, home'[b]}
      BY <2>0, <2>1 DEF BootInv
    <3>2. \A j \in 1..Len(lh) : j < tail' => home'[lh[j]] = dlog[j]
      <4> SUFFICES ASSUME NEW j \in 1..Len(lh), j < tail' PROVE home'[lh[j]] = dlog[j]
        OBVIOUS
      <4>1. CASE j = tail
        BY <2>1, <4>1
      <4>2. CASE j # tail
        <5>1. j < tail /\ lh[j] # lh[tail] /\ lh[j] \in Blocks
          BY <2>1, <4>2 DEF HeaderInv, NoDup, TypeOK
        <5> QED BY <2>0, <2>1, <5>1 DEF BootInv
      <4> QED BY <4>1, <4>2
    <3> QED BY <2>0, <3>1, <3>2 DEF BootInv
  <2> QED BY <2>0, <2>2, <2>3, <2>4 DEF UpInv
<1>3. CASE recover_erase
  <2>0. /\ UNCHANGED <<home, dlog, cache, pin, outstanding, committing, tail, pc, wrote, panicked>>
        /\ boot = "install" /\ boot' = "up" /\ lh' = <<>> /\ dhead' = <<>>
    BY <1>3 DEF recover_erase
  <2>1. TypeOK'
    BY <2>0, SMTT(30) DEF TypeOK, LogBlocks, CommitPC
  <2>2. ControlInv'
    BY <2>0 DEF ControlInv, Active, CommitPC, TypeOK
  <2>3. HeaderInv' /\ BootInv'
    <3>1. HeaderInv'
      BY <2>0, SizeAssumption DEF HeaderInv, NoDup
    <3>2. BootInv'
      BY <2>0 DEF BootInv
    <3> QED BY <3>1, <3>2
  <2>4. ~Installing' /\ (\A b \in Blocks : ~Pinned(b)')
    BY <2>0 DEF Installing, Pinned, BootInv
  <2>5. HeadInv' /\ IdleInv' /\ StageInv' /\ PinInv' /\ CleanInv'
    BY <2>0, <2>4 DEF HeadInv, IdleInv, StageInv, PinInv, CleanInv, BootInv, Logged
  <2> QED BY <2>1, <2>2, <2>3, <2>5 DEF UpInv
<1> QED BY <1>1, <1>2, <1>3 DEF recover_from_log

(* The buffer cache preserves it: an unpinned buffer holds what its home   *)
(* block holds, so it can be recycled and read again.                      *)
LEMMA CacheStep ==
  ASSUME NEW b \in Blocks, IInv, bread(b) \/ recycle(b)
  PROVE  IInv'
<1> USE DEF IInv
<1>0. /\ UNCHANGED <<home, dlog, dhead, pin, lh, outstanding, committing, tail, pc, wrote, boot, panicked>>
      /\ boot = "up" /\ panicked = 0
      /\ cache' = [cache EXCEPT ![b] = IF cache[b] = NoBuf THEN home[b] ELSE NoBuf]
      /\ cache[b] # NoBuf => pin[b] = 0
  BY DEF bread, recycle, disk, Running
<1>1. /\ Active' = Active /\ (Installing' <=> Installing) /\ Logged' = Logged
      /\ \A c \in Blocks : Pinned(c)' <=> Pinned(c)
  BY <1>0 DEF Active, Installing, Logged, Pinned
<1>2. ~Pinned(b)
  BY <1>0 DEF UpInv, PinInv, TypeOK
<1>3. /\ home[b] \in Vals /\ home[b] # NoBuf
      /\ cache'[b] = IF cache[b] = NoBuf THEN home[b] ELSE NoBuf
      /\ \A c \in Blocks \ {b} : cache'[c] = cache[c]
  BY <1>0, ValsAssumption DEF TypeOK
<1>4. View(b) = home[b]
  <2>1. CASE b \in Logged
    <3>1. PICK i \in 1..Len(lh) : lh[i] = b
      BY <2>1 DEF Logged
    <3>2. Installing /\ i < tail
      BY <1>2, <3>1 DEF Pinned, TypeOK
    <3> QED BY <1>0, <3>1, <3>2 DEF UpInv, StageInv, Installing
  <2>2. CASE b \notin Logged
    BY <1>0, <2>2 DEF UpInv, CleanInv, View
  <2> QED BY <2>1, <2>2
<1>5. TypeOK'
  <2>1. cache' \in [Blocks -> Vals \cup {NoBuf}]
    BY <1>0, <1>3 DEF TypeOK
  <2>2. UNCHANGED <<home, dlog, dhead, pin, lh, outstanding, committing, tail, pc, wrote, boot, panicked>>
    BY <1>0
  <2> QED BY <2>1, <2>2, SMTT(30) DEF TypeOK, LogBlocks, CommitPC
<1>6. ControlInv' /\ HeaderInv' /\ BootInv'
  BY <1>0, <1>1 DEF ControlInv, HeaderInv, NoDup, BootInv, CommitPC
<1>7. HeadInv' /\ IdleInv'
  BY <1>0, <1>1 DEF UpInv, HeadInv, IdleInv
<1>8. PinInv' /\ CleanInv'
  BY <1>0, <1>1, <1>2, <1>3 DEF UpInv, PinInv, CleanInv
<1>9. StageInv'
  <2>1. \A c \in Blocks : View(c)' = View(c)
    BY <1>0, <1>3, <1>4 DEF View
  <2>2. \A q \in Procs, i \in 1..Len(lh) : pc[q] = "write_log" => cache'[lh[i]] = cache[lh[i]]
    <3> SUFFICES ASSUME NEW q \in Procs, NEW i \in 1..Len(lh), pc[q] = "write_log"
                 PROVE  cache'[lh[i]] = cache[lh[i]]
      OBVIOUS
    <3>1. ~Installing
      BY Committer DEF Installing, CommitPC
    <3>2. Pinned(lh[i]) /\ lh[i] \in Blocks
      BY <3>1 DEF Pinned, TypeOK
    <3> QED BY <1>2, <1>3, <3>2
  <2>3. \A i \in 1..Len(lh) : lh[i] \in Blocks
    BY DEF TypeOK
  <2>4. \A q \in Procs : pc[q] = "write_log" =>
          \A i \in 1..Len(lh) : i < tail => dlog[i] = cache'[lh[i]]
    BY <1>0, <2>2 DEF UpInv, StageInv
  <2>5. \A q \in Procs : pc[q] = "install" =>
          \A i \in 1..Len(lh) : dlog[i] = View(lh[i])' /\ (i < tail => home[lh[i]] = dlog[i])
    <3> SUFFICES ASSUME NEW q \in Procs, pc[q] = "install", NEW i \in 1..Len(lh)
                 PROVE  dlog[i] = View(lh[i])' /\ (i < tail => home[lh[i]] = dlog[i])
      OBVIOUS
    <3>1. dlog[i] = View(lh[i]) /\ (i < tail => home[lh[i]] = dlog[i])
      BY <1>0 DEF UpInv, StageInv
    <3>2. View(lh[i])' = View(lh[i])
      BY <1>0, <2>1, <2>3 DEF View
    <3> QED BY <3>1, <3>2
  <2>6. \A q \in Procs : pc[q] = "end_commit" => lh = <<>>
    BY <1>0 DEF UpInv, StageInv
  <2> SUFFICES ASSUME NEW q \in Procs
               PROVE  /\ pc[q] = "write_log" =>
                           \A i \in 1..Len(lh) : i < tail => dlog[i] = cache'[lh[i]]
                      /\ pc[q] = "install" =>
                           \A i \in 1..Len(lh) : /\ dlog[i] = View(lh[i])'
                                                 /\ i < tail => home[lh[i]] = dlog[i]
                      /\ pc[q] = "end_commit" => lh = <<>>
    BY <1>0 DEF StageInv
  <2> QED BY <2>4, <2>5, <2>6
<1> QED BY <1>5, <1>6, <1>7, <1>8, <1>9 DEF UpInv

(* A crash preserves it: a torn block is never one that recovery relies on. *)
LEMMA CrashStep ==
  ASSUME IInv, crash
  PROVE  IInv'
<1> USE DEF IInv
<1>0. /\ dhead' = dhead /\ lh' = <<>> /\ outstanding' = 0 /\ committing' = 0
      /\ tail' = 1 /\ boot' = "read_head" /\ panicked' = 0
      /\ cache' = [b \in Blocks |-> NoBuf] /\ pin' = [b \in Blocks |-> 0]
      /\ pc' = [p \in Procs |-> "user"] /\ wrote' = [p \in Procs |-> {}]
  BY DEF crash
<1>1. home' \in [Blocks -> Vals] /\ dlog' \in [LogBlocks -> Vals]
  <2>1. home \in [Blocks -> Vals] /\ dlog \in [LogBlocks -> Vals]
    BY DEF TypeOK
  <2>2. \/ UNCHANGED <<home, dlog>>
        \/ \E v \in Vals : dlog' = [dlog EXCEPT ![tail] = v] /\ UNCHANGED home
        \/ \E v \in Vals : home' = [home EXCEPT ![lh[tail]] = v] /\ UNCHANGED dlog
    BY DEF crash, torn
  <2> QED BY <2>1, <2>2
<1>2. TypeOK'
  <2>1. UNCHANGED <<LogBlocks, CommitPC>>
    BY DEF LogBlocks, CommitPC
  <2> QED BY <1>0, <1>1, <2>1, SMTT(30) DEF TypeOK
<1>3. ControlInv'
  <2>1. Active' = {}
    BY <1>0 DEF Active
  <2> QED BY <1>0, <2>1, FS_EmptySet DEF ControlInv, CommitPC
<1>4. HeaderInv' /\ BootInv'
  BY <1>0, SizeAssumption DEF HeaderInv, NoDup, BootInv
<1> QED BY <1>0, <1>2, <1>3, <1>4 DEF UpInv

------------------------------------------------------------------------------
(* Every behaviour of the log satisfies the inductive invariant. *)
THEOREM Invariance == Spec => []IInv
<1>1. IInv /\ [Next]_vars => IInv'
  <2> SUFFICES ASSUME IInv, [Next]_vars PROVE IInv'
    OBVIOUS
  <2>1. CASE Next
    BY <2>1, BeginStep, LogWriteStep, EndStep, WriteLogStep, WriteHeadStep, InstallStep,
       EraseStep, EndCommitStep, RecoverStep, CacheStep, CrashStep DEF Next, op, commit
  <2>2. CASE UNCHANGED vars
    <3>1. TypeOK'
      BY <2>2 DEF vars, IInv, TypeOK
    <3>2. ControlInv' /\ HeaderInv'
      BY <2>2 DEF vars, IInv, ControlInv, HeaderInv, NoDup, Active
    <3>3. BootInv'
      BY <2>2 DEF vars, IInv, BootInv
    <3>4. UpInv'
      <4>1. (HeadInv' <=> HeadInv) /\ (IdleInv' <=> IdleInv)
        BY <2>2 DEF vars, HeadInv, IdleInv, Installing, Active
      <4>2. StageInv' <=> StageInv
        BY <2>2 DEF vars, StageInv, View
      <4>3. PinInv' <=> PinInv
        BY <2>2 DEF vars, PinInv, Pinned, Installing
      <4>4. CleanInv' <=> CleanInv
        BY <2>2 DEF vars, CleanInv, Logged
      <4> QED BY <2>2, <4>1, <4>2, <4>3, <4>4 DEF vars, IInv, UpInv
    <3> QED BY <3>1, <3>2, <3>3, <3>4 DEF IInv
  <2> QED BY <2>1, <2>2
<1> QED BY InitIInv, <1>1, PTL DEF Spec

(* Type correctness of the log. *)
THEOREM TypeCorrect == Spec => []TypeOK
BY Invariance, PTL DEF IInv

(* A buffer with a logged change is pinned until install_trans() writes it. *)
THEOREM PinCorrect == Spec => []PinnedWhileLogged
<1>1. IInv => PinnedWhileLogged
  BY DEF IInv, UpInv, PinInv, Pinned, PinnedWhileLogged, Running
<1> QED BY <1>1, Invariance, PTL

(* No process is left asleep in begin_op() once it could go on. *)
THEOREM WakeupCorrect == Spec => []NoLostWakeup
<1>1. Init => NoLostWakeup
  BY DEF Init, NoLostWakeup
<1>2. IInv /\ NoLostWakeup /\ [Next]_vars => NoLostWakeup'
  <2> SUFFICES ASSUME IInv, NoLostWakeup, [Next]_vars,
                      NEW q \in Procs, pc'[q] = "asleep"
               PROVE  must_wait'
    BY DEF NoLostWakeup
  <2> TypeOK
    BY DEF IInv
  <2>0. ASSUME UNCHANGED <<pc, lh, outstanding, committing>> PROVE must_wait'
    BY <2>0 DEF NoLostWakeup, must_wait, log_full
  <2>1. ASSUME NEW p \in Procs, begin_op(p) PROVE must_wait'
    <3>1. CASE must_wait
      BY <2>1, <3>1 DEF begin_op, must_wait, log_full
    <3>2. CASE ~must_wait
      BY <2>1, <3>2 DEF begin_op, NoLostWakeup, TypeOK
    <3> QED BY <3>1, <3>2
  <2>2. ASSUME NEW p \in Procs, NEW b \in Blocks, NEW v \in Vals, log_write(p, b, v)
        PROVE  must_wait'
    <3>1. UNCHANGED <<pc, outstanding, committing>> /\ must_wait
      BY <2>2 DEF log_write, NoLostWakeup
    <3>2. Len(lh') >= Len(lh) /\ Len(lh) \in Nat /\ Len(lh') \in Nat
      BY <2>2 DEF log_write, absorb, TypeOK
    <3>3. (outstanding + 1) * MAXOPBLOCKS \in Nat
      BY SizeAssumption DEF TypeOK
    <3> QED BY <3>1, <3>2, <3>3, SizeAssumption DEF must_wait, log_full
  <2>3. ASSUME NEW p \in Procs, end_op(p) PROVE must_wait'
    <3>1. CASE committing' = 1
      BY <3>1 DEF must_wait
    <3>2. CASE committing' # 1
      <4>1. committing # 1 /\ pc' = wakeup([pc EXCEPT ![p] = "user"])
        BY <2>3, <3>2 DEF end_op
      <4> QED BY <4>1 DEF wakeup, TypeOK
    <3> QED BY <3>1, <3>2
  <2>4. ASSUME NEW p \in Procs, write_log(p) \/ install_trans(p) PROVE must_wait'
    BY <2>0, <2>4 DEF write_log, install_trans, InstallBlock
  <2>5. ASSUME NEW p \in Procs, write_head(p) PROVE must_wait'
    BY <2>5 DEF write_head, NoLostWakeup, must_wait, log_full, TypeOK
  <2>6. ASSUME NEW p \in Procs, end_commit(p) PROVE must_wait'
    BY <2>6 DEF end_commit, wakeup, TypeOK
  <2>7. ASSUME NEW b \in Blocks, bread(b) \/ recycle(b) PROVE must_wait'
    BY <2>0, <2>7 DEF bread, recycle
  <2>8. CASE crash
    BY <2>8 DEF crash
  <2>9. ASSUME NEW p \in Procs, erase(p) PROVE must_wait'
    <3>1. committing = 1
      BY <2>9, Committer DEF erase, CommitPC
    <3> QED BY <2>9, <3>1 DEF erase, must_wait
  <2>10. CASE recover_from_log
    <3>1. boot # "up" /\ UNCHANGED pc
      BY <2>10 DEF recover_from_log, read_head, recover_install, recover_erase
    <3> QED BY <3>1 DEF IInv, BootInv
  <2>11. CASE UNCHANGED vars
    BY <2>0, <2>11 DEF vars
  <2> QED BY <2>1, <2>2, <2>3, <2>4, <2>5, <2>6, <2>7, <2>8, <2>9, <2>10, <2>11
          DEF Next, op, commit
<1> QED BY <1>1, <1>2, Invariance, PTL DEF Spec

------------------------------------------------------------------------------
(* What recovery would restore, block by block. *)
LEMMA StableLogged ==
  ASSUME IInv, NEW i \in 1..Len(dhead)
  PROVE  Stable[dhead[i]] = dlog[i] /\ dhead[i] \in Blocks
<1>1. dhead[i] \in Blocks
  BY DEF IInv, TypeOK
<1>2. i = CHOOSE j \in 1..Len(dhead) : dhead[j] = dhead[i]
  BY DEF IInv, HeaderInv, NoDup
<1> QED BY <1>1, <1>2 DEF Stable

(* A block the header on disk does not name is restored from its home. *)
LEMMA StableHome ==
  ASSUME NEW b \in Blocks, ~ \E i \in 1..Len(dhead) : dhead[i] = b
  PROVE  Stable[b] = home[b]
BY DEF Stable

(* With an empty header on disk nothing is restored from the log. *)
LEMMA StableEmpty ==
  ASSUME IInv, dhead = <<>>
  PROVE  Stable = home
<1>1. \A b \in Blocks : Stable[b] = home[b]
  BY StableHome
<1> QED BY <1>1 DEF Stable, IInv, TypeOK

(* Once end_op() of the last call has returned, its writes are durable. *)
THEOREM DurableCorrect == Spec => []QuiescentDurable
<1>1. IInv => QuiescentDurable
  <2> SUFFICES ASSUME IInv, Running, committing = 0, Active = {} PROVE Stable = Current
    BY DEF QuiescentDurable
  <2>1. lh = <<>> /\ ~Installing
    BY DEF IInv, UpInv, IdleInv, Running, ControlInv, Installing, CommitPC
  <2>2. dhead = <<>>
    BY <2>1 DEF IInv, UpInv, HeadInv, Running
  <2>3. \A b \in Blocks : View(b) = home[b]
    BY <2>1 DEF IInv, UpInv, CleanInv, Running, View, Logged
  <2>4. Stable = home
    BY <2>2, StableEmpty
  <2> QED BY <2>3, <2>4 DEF Current, Running, IInv, TypeOK
<1> QED BY <1>1, Invariance, PTL

(* The steps that change neither what the cache shows nor what the disk    *)
(* would restore are stuttering steps of the abstract disk.                *)
LEMMA StutterStep ==
  ASSUME IInv, Stable' = Stable, Active' = Active, boot' = boot,
         \A b \in Blocks : View(b)' = View(b)
  PROVE  UNCHANGED <<Stable, Current, Active>>
BY DEF Current

(* begin_op() is Begin, or a stuttering step when it sleeps. *)
LEMMA BeginRefines ==
  ASSUME NEW p \in Procs, IInv, begin_op(p)
  PROVE  [AD!Next]_(AD!vars)
<1>0. UNCHANGED <<home, dlog, dhead, cache, boot>> /\ pc[p] \in {"user", "begin_op"}
  BY DEF begin_op, disk
<1>1. Stable' = Stable /\ Current' = Current
  BY <1>0 DEF Stable, Current, View
<1>2. CASE must_wait
  <2>1. Active' = Active
    BY <1>2 DEF begin_op, Active, IInv, TypeOK
  <2> QED BY <1>1, <2>1 DEF AD!vars
<1>3. CASE ~must_wait
  <2>1. p \notin Active /\ Active' = Active \cup {p}
    BY <1>3 DEF begin_op, Active, IInv, TypeOK
  <2> QED BY <1>1, <2>1 DEF AD!Next, AD!Begin
<1> QED BY <1>2, <1>3

(* A block handed to log_write() is a Write. *)
LEMMA LogWriteRefines ==
  ASSUME NEW p \in Procs, NEW b \in Blocks, NEW v \in Vals, IInv, log_write(p, b, v)
  PROVE  [AD!Next]_(AD!vars)
<1>0. /\ UNCHANGED <<home, dlog, dhead, pc, boot>> /\ boot = "up" /\ pc[p] = "op"
      /\ cache' = [cache EXCEPT ![b] = v]
  BY DEF log_write, disk, Running
<1>1. Stable' = Stable /\ Active' = Active /\ p \in Active
  BY <1>0 DEF Stable, Active
<1>2. View(b)' = v /\ \A c \in Blocks \ {b} : View(c)' = View(c)
  BY <1>0, ValsAssumption DEF View, IInv, TypeOK
<1>3. Current' = [Current EXCEPT ![b] = v]
  BY <1>0, <1>2 DEF Current
<1>4. AD!Write(p, b, v)
  BY <1>1, <1>3 DEF AD!Write
<1> QED BY <1>4 DEF AD!Next

(* end_op() is End, whether or not it goes on to commit. *)
LEMMA EndRefines ==
  ASSUME NEW p \in Procs, IInv, end_op(p)
  PROVE  [AD!Next]_(AD!vars)
<1>0. UNCHANGED <<home, dlog, dhead, cache, boot>> /\ pc[p] = "op" /\ p \in Active
  BY DEF end_op, disk, Active
<1>1. Stable' = Stable /\ Current' = Current
  BY <1>0 DEF Stable, Current, View
<1>2. committing = 0
  BY <1>0 DEF IInv, ControlInv, TypeOK
<1>3. Active' = Active \ {p}
  <2>1. \A q \in Procs \ {p} : pc'[q] = "op" <=> pc[q] = "op"
    BY <1>2 DEF end_op, IInv, TypeOK, wakeup
  <2>2. pc'[p] # "op"
    BY <1>2 DEF end_op, IInv, TypeOK, wakeup
  <2> QED BY <2>1, <2>2 DEF Active
<1>4. AD!End(p)
  BY <1>0, <1>1, <1>3 DEF AD!End
<1> QED BY <1>4 DEF AD!Next

(* Filling the log changes nothing a crash or a reader could see. *)
LEMMA WriteLogRefines ==
  ASSUME NEW p \in Procs, IInv, IInv', write_log(p)
  PROVE  [AD!Next]_(AD!vars)
<1>0. UNCHANGED <<home, dhead, cache, pc, boot>> /\ boot = "up" /\ pc[p] = "write_log"
  BY DEF write_log, Running
<1>1. dhead = <<>>
  <2>1. ~Installing
    BY <1>0, Committer DEF Installing, CommitPC
  <2> QED BY <1>0, <2>1 DEF IInv, UpInv, HeadInv
<1>2. Stable = home
  BY <1>1, StableEmpty
<1>3. \A b \in Blocks : Stable'[b] = home'[b]
  <2>1. ~ \E i \in 1..Len(dhead') : TRUE
    BY <1>0, <1>1
  <2> QED BY <2>1 DEF Stable
<1>4. Stable' = home'
  BY <1>3 DEF Stable, IInv, TypeOK
<1>5. Active' = Active /\ \A b \in Blocks : View(b)' = View(b)
  BY <1>0 DEF Active, View
<1> QED BY <1>0, <1>2, <1>4, <1>5, StutterStep DEF AD!vars

(* Writing the header is Commit: the group becomes durable in one step. *)
LEMMA WriteHeadRefines ==
  ASSUME NEW p \in Procs, IInv, IInv', write_head(p)
  PROVE  [AD!Next]_(AD!vars)
<1>0. /\ UNCHANGED <<home, dlog, cache, lh, boot>> /\ boot = "up"
      /\ pc[p] = "write_log" /\ dhead' = lh /\ pc' = [pc EXCEPT ![p] = "install"]
  BY DEF write_head, Running
<1>1. Active = {} /\ Active' = Active /\ panicked = 0
  BY <1>0, Committer DEF CommitPC, Active, IInv, TypeOK
<1>2. Current' = Current
  BY <1>0 DEF Current, View
<1>3. \A b \in Blocks : Stable'[b] = View(b)
  <2> SUFFICES ASSUME NEW b \in Blocks PROVE Stable'[b] = View(b)
    OBVIOUS
  <2>1. pc'[p] = "install" /\ boot' = "up"
    BY <1>0 DEF IInv, TypeOK
  <2>2. CASE b \in Logged
    <3>1. PICK i \in 1..Len(lh) : lh[i] = b
      BY <2>2 DEF Logged
    <3>2. i \in 1..Len(dhead') /\ dhead'[i] = b
      BY <1>0, <3>1
    <3>3. \A j \in 1..Len(dhead') : dhead'[j] = b => j = i
      BY <1>0, <3>1 DEF IInv, HeaderInv, NoDup
    <3>4. Stable'[b] = dlog'[i]
      BY <3>2, <3>3 DEF Stable
    <3>5. dlog'[i] = View(b)
      <4>1. (dlog[i] = View(lh[i]))'
        BY <2>1, <3>1, <1>0 DEF IInv, UpInv, StageInv
      <4> QED BY <1>0, <3>1, <4>1 DEF View
    <3> QED BY <3>4, <3>5
  <2>3. CASE b \notin Logged
    <3>1. Stable'[b] = home'[b]
      BY <1>0, <2>3 DEF Stable, Logged
    <3> QED BY <1>0, <1>1, <2>3, <3>1 DEF IInv, UpInv, CleanInv, View
  <2> QED BY <2>2, <2>3
<1>4. Stable' = Current
  <2>1. Stable' = [b \in Blocks |-> Stable'[b]]
    BY DEF Stable
  <2>2. Current = [b \in Blocks |-> View(b)]
    BY <1>0 DEF Current
  <2> QED BY <1>3, <2>1, <2>2
<1>5. AD!Commit
  BY <1>1, <1>2, <1>4 DEF AD!Commit
<1> QED BY <1>5 DEF AD!Next

(* Installing a block is invisible: readers see the cached copy, a crash   *)
(* would restore the same contents from the log.                           *)
LEMMA InstallRefines ==
  ASSUME NEW p \in Procs, IInv, IInv', install_trans(p)
  PROVE  [AD!Next]_(AD!vars)
<1>0. /\ UNCHANGED <<dlog, dhead, lh, pc, boot>> /\ boot = "up" /\ boot' = "up"
      /\ pc[p] = "install" /\ pc'[p] = "install" /\ InstallBlock
  BY DEF install_trans, InstallBlock, Running
<1>1. /\ tail \in 1..Len(lh) /\ lh[tail] \in Blocks
      /\ \A b \in Blocks : b # lh[tail] => home'[b] = home[b] /\ cache'[b] = cache[b]
  BY <1>0, InstallTypes
<1>2. dhead = lh
  BY <1>0 DEF IInv, UpInv, HeadInv, Installing
<1>3. \A b \in Blocks : Stable'[b] = Stable[b]
  BY <1>0, <1>1, <1>2 DEF Stable
<1>4. Stable' = Stable
  <2>1. Stable = [b \in Blocks |-> Stable[b]]
    BY DEF Stable
  <2>2. Stable' = [b \in Blocks |-> Stable'[b]]
    BY DEF Stable
  <2> QED BY <1>3, <2>1, <2>2
<1>5. \A b \in Blocks : View(b)' = View(b)
  <2>1. dlog[tail] = View(lh[tail])
    BY <1>0, <1>1 DEF IInv, UpInv, StageInv
  <2>2. cache'[lh[tail]] = dlog[tail] /\ dlog[tail] # NoBuf
    BY <1>0, InstallTypes, ValsAssumption
  <2> SUFFICES ASSUME NEW b \in Blocks PROVE View(b)' = View(b)
    OBVIOUS
  <2>3. CASE b = lh[tail]
    BY <2>1, <2>2, <2>3 DEF View
  <2>4. CASE b # lh[tail]
    BY <1>1, <2>4 DEF View
  <2> QED BY <2>3, <2>4
<1>6. Active' = Active
  BY <1>0 DEF Active
<1> QED BY <1>0, <1>4, <1>5, <1>6, StutterStep DEF AD!vars

(* Erasing the header is invisible: every block it names is home. *)
LEMMA EraseRefines ==
  ASSUME NEW p \in Procs, IInv, IInv', erase(p)
  PROVE  [AD!Next]_(AD!vars)
<1>0. /\ UNCHANGED <<home, dlog, cache, boot>> /\ boot = "up" /\ tail > Len(lh)
      /\ pc[p] = "install" /\ pc' = [pc EXCEPT ![p] = "end_commit"] /\ dhead' = <<>>
  BY DEF erase, Running, installed
<1>1. dhead = lh
  BY <1>0 DEF IInv, UpInv, HeadInv, Installing
<1>2. \A b \in Blocks : Stable[b] = home[b]
  <2> SUFFICES ASSUME NEW b \in Blocks PROVE Stable[b] = home[b]
    OBVIOUS
  <2>1. CASE \E i \in 1..Len(dhead) : dhead[i] = b
    <3>1. PICK i \in 1..Len(dhead) : dhead[i] = b
      BY <2>1
    <3>2. home[b] = dlog[i]
      <4>1. i \in 1..Len(lh) /\ lh[i] = b
        BY <1>1, <3>1
      <4>2. i < tail
        <5>1. tail \in Nat /\ Len(lh) \in Nat /\ tail > Len(lh)
          BY <1>0 DEF IInv, TypeOK
        <5> QED BY <4>1, <5>1
      <4>3. \A j \in 1..Len(lh) : j < tail => home[lh[j]] = dlog[j]
        BY <1>0 DEF IInv, UpInv, StageInv
      <4> QED BY <4>1, <4>2, <4>3
    <3> QED BY <3>1, <3>2, StableLogged
  <2>2. CASE ~ \E i \in 1..Len(dhead) : dhead[i] = b
    BY <2>2, StableHome
  <2> QED BY <2>1, <2>2
<1>3. \A b \in Blocks : Stable'[b] = home[b]
  BY <1>0 DEF Stable
<1>4. Stable' = Stable
  <2>1. Stable = [b \in Blocks |-> Stable[b]] /\ Stable' = [b \in Blocks |-> Stable'[b]]
    BY DEF Stable
  <2> QED BY <1>2, <1>3, <2>1
<1>5. Active' = Active
  BY <1>0 DEF Active, IInv, TypeOK
<1>6. \A b \in Blocks : View(b)' = View(b)
  BY <1>0 DEF View
<1> QED BY <1>0, <1>4, <1>5, <1>6, StutterStep DEF AD!vars

(* The end of end_op() is invisible. *)
LEMMA EndCommitRefines ==
  ASSUME NEW p \in Procs, IInv, end_commit(p)
  PROVE  [AD!Next]_(AD!vars)
<1>0. UNCHANGED <<home, dlog, dhead, cache, boot>>
  BY DEF end_commit, disk
<1>1. Active' = Active
  BY DEF end_commit, Active, wakeup, IInv, TypeOK
<1>2. Stable' = Stable /\ \A b \in Blocks : View(b)' = View(b)
  BY <1>0 DEF Stable, View
<1> QED BY <1>0, <1>1, <1>2, StutterStep DEF AD!vars

(* Recovery is invisible: it restores what the crash already promised. *)
LEMMA RecoverRefines ==
  ASSUME IInv, IInv', recover_from_log
  PROVE  [AD!Next]_(AD!vars)
<1>1. boot # "up" /\ UNCHANGED <<dlog, pc>>
  BY DEF recover_from_log, read_head, recover_install, recover_erase, disk, InstallBlock
<1>2. Active' = Active
  BY <1>1 DEF Active
<1>3. Current = Stable
  BY <1>1 DEF Current, Stable
<1>4. Stable' = Stable /\ Current' = Stable'
  <2>1. CASE read_head
    BY <2>1 DEF read_head, disk, Stable, Current
  <2>2. CASE recover_install
    <3>0. boot = "install" /\ boot' = boot /\ InstallBlock /\ dhead' = dhead /\ dlog' = dlog
      BY <2>2 DEF recover_install, InstallBlock
    <3>1. /\ tail \in 1..Len(lh) /\ \A b \in Blocks : b # lh[tail] => home'[b] = home[b]
          /\ lh = dhead
      BY <3>0, InstallTypes DEF IInv, BootInv
    <3>2. \A b \in Blocks : Stable'[b] = Stable[b]
      BY <3>0, <3>1 DEF Stable
    <3> QED BY <3>0, <3>2 DEF Stable, Current
  <2>3. CASE recover_erase
    <3>0. /\ UNCHANGED <<home, cache>> /\ boot = "install" /\ boot' = "up"
          /\ dhead' = <<>> /\ tail > Len(lh)
      BY <2>3 DEF recover_erase, installed
    <3>1. \A b \in Blocks : View(b)' = home[b]
      BY <3>0 DEF View, IInv, BootInv
    <3>2. \A b \in Blocks : Stable'[b] = home[b]
      BY <3>0 DEF Stable
    <3>3. \A b \in Blocks : Stable[b] = home[b]
      <4> SUFFICES ASSUME NEW b \in Blocks PROVE Stable[b] = home[b]
        OBVIOUS
      <4>1. CASE \E i \in 1..Len(dhead) : dhead[i] = b
        <5>1. PICK i \in 1..Len(dhead) : dhead[i] = b
          BY <4>1
        <5>2. home[b] = dlog[i]
          <6>1. lh = dhead /\ \A j \in 1..Len(lh) : j < tail => home[lh[j]] = dlog[j]
            BY <3>0 DEF IInv, BootInv
          <6>2. i < tail
            <7>1. tail \in Nat /\ Len(dhead) \in Nat
              BY DEF IInv, TypeOK
            <7>2. i \in 1..Len(dhead) /\ tail > Len(dhead)
              BY <3>0, <5>1, <6>1
            <7> QED BY <7>1, <7>2
          <6> QED BY <5>1, <6>1, <6>2
        <5> QED BY <5>1, <5>2, StableLogged
      <4>2. CASE ~ \E i \in 1..Len(dhead) : dhead[i] = b
        BY <4>2, StableHome
      <4> QED BY <4>1, <4>2
    <3>4. Stable' = Stable
      <4>1. Stable = [b \in Blocks |-> Stable[b]] /\ Stable' = [b \in Blocks |-> Stable'[b]]
        BY DEF Stable
      <4> QED BY <3>2, <3>3, <4>1
    <3>5. \A b \in Blocks : Current'[b] = Stable'[b]
      BY <3>0, <3>1, <3>2 DEF Current
    <3>6. Current' = Stable'
      BY <3>5 DEF Current, Stable
    <3> QED BY <3>4, <3>6
  <2> QED BY <2>1, <2>2, <2>3 DEF recover_from_log
<1> QED BY <1>2, <1>3, <1>4 DEF AD!vars

(* The buffer cache is invisible. *)
LEMMA CacheRefines ==
  ASSUME NEW b \in Blocks, IInv, IInv', bread(b) \/ recycle(b)
  PROVE  [AD!Next]_(AD!vars)
<1>0. /\ UNCHANGED <<home, dlog, dhead, pin, lh, tail, pc, boot, panicked>>
      /\ boot = "up" /\ panicked = 0
      /\ cache' = [cache EXCEPT ![b] = IF cache[b] = NoBuf THEN home[b] ELSE NoBuf]
      /\ cache[b] # NoBuf => pin[b] = 0
  BY DEF bread, recycle, disk, Running
<1>1. ~Pinned(b)
  <2>1. PinInv
    BY <1>0 DEF IInv, UpInv
  <2>2. Pinned(b) => pin[b] = 1 /\ cache[b] # NoBuf
    BY <2>1 DEF PinInv
  <2>3. cache[b] # NoBuf => pin[b] = 0
    BY <1>0
  <2> QED BY <2>2, <2>3
<1>2. View(b) = home[b]
  <2>1. CASE b \in Logged
    <3>1. PICK i \in 1..Len(lh) : lh[i] = b
      BY <2>1 DEF Logged
    <3>2. Installing /\ i < tail
      <4>1. tail \in Nat /\ i \in Nat
        BY DEF IInv, TypeOK
      <4> QED BY <1>1, <3>1, <4>1 DEF Pinned
    <3>3. PICK p \in Procs : pc[p] = "install"
      BY <3>2 DEF Installing
    <3>4. StageInv
      BY <1>0 DEF IInv, UpInv
    <3>5. dlog[i] = View(lh[i]) /\ home[lh[i]] = dlog[i]
      BY <3>1, <3>2, <3>3, <3>4 DEF StageInv
    <3> QED BY <3>1, <3>5
  <2>2. CASE b \notin Logged
    BY <1>0, <2>2 DEF IInv, UpInv, CleanInv, View
  <2> QED BY <2>1, <2>2
<1>3. \A c \in Blocks : View(c)' = View(c)
  BY <1>0, <1>2, ValsAssumption DEF View, IInv, TypeOK
<1>4. Stable' = Stable /\ Active' = Active
  BY <1>0 DEF Stable, Active
<1> QED BY <1>0, <1>3, <1>4, StutterStep DEF AD!vars

(* A crash is Crash: it keeps exactly what is durable, torn blocks or not. *)
LEMMA CrashRefines ==
  ASSUME IInv, IInv', crash
  PROVE  [AD!Next]_(AD!vars)
<1>0. /\ dhead' = dhead /\ boot' = "read_head" /\ pc' = [p \in Procs |-> "user"] /\ torn
  BY DEF crash
<1>1. Active' = {}
  BY <1>0 DEF Active
<1>2. Current' = Stable'
  BY <1>0 DEF Current, Stable
<1>3. \A b \in Blocks : Stable'[b] = Stable[b]
  <2>1. CASE UNCHANGED <<home, dlog>>
    BY <1>0, <2>1 DEF Stable
  <2>2. ASSUME NEW p \in Procs, NEW v \in Vals, pc[p] = "write_log",
               dlog' = [dlog EXCEPT ![tail] = v], UNCHANGED home
        PROVE  \A b \in Blocks : Stable'[b] = Stable[b]
    <3>1. ~Installing
      BY <2>2, Committer DEF Installing, CommitPC
    <3>2. boot = "up"
      BY <2>2 DEF IInv, BootInv
    <3>3. dhead = <<>>
      BY <3>1, <3>2 DEF IInv, UpInv, HeadInv
    <3> QED BY <1>0, <2>2, <3>3 DEF Stable
  <2>3. ASSUME NEW v \in Vals, tail <= Len(lh), lh = dhead,
               home' = [home EXCEPT ![lh[tail]] = v], UNCHANGED dlog
        PROVE  \A b \in Blocks : Stable'[b] = Stable[b]
    <3>1. tail \in 1..Len(dhead)
      <4>1. tail \in Nat \ {0} /\ Len(dhead) \in Nat
        BY DEF IInv, TypeOK
      <4> QED BY <2>3, <4>1
    <3>2. \A b \in Blocks : b # dhead[tail] => home'[b] = home[b]
      BY <2>3 DEF IInv, TypeOK
    <3> QED BY <1>0, <2>3, <3>1, <3>2 DEF Stable
  <2>4. \A p \in Procs : pc[p] = "install" => lh = dhead
    BY DEF IInv, UpInv, BootInv, HeadInv, Installing
  <2>5. boot = "install" => lh = dhead
    BY DEF IInv, BootInv
  <2> QED BY <1>0, <2>1, <2>2, <2>3, <2>4, <2>5 DEF torn
<1>4. Stable' = Stable
  BY <1>3 DEF Stable
<1>5. AD!Crash
  BY <1>1, <1>2, <1>4 DEF AD!Crash
<1> QED BY <1>5 DEF AD!Next

(* The redo log, its cache and its recovery implement the atomic disk: the *)
(* file system's updates reach the disk in whole groups of finished calls, *)
(* whenever and however often the machine crashes.                         *)
THEOREM Refinement == Spec => CrashAtomic
<1>1. Init => AD!Init
  <2> SUFFICES ASSUME Init PROVE AD!Init
    OBVIOUS
  <2>1. Stable = [b \in Blocks |-> Zero]
    BY DEF Init, Stable
  <2>2. Current = Stable /\ Active = {}
    BY DEF Init, Current, Stable, Active
  <2> QED BY <2>1, <2>2 DEF AD!Init
<1>2. IInv /\ IInv' /\ [Next]_vars => [AD!Next]_(AD!vars)
  <2> SUFFICES ASSUME IInv, IInv', [Next]_vars PROVE [AD!Next]_(AD!vars)
    OBVIOUS
  <2>1. CASE Next
    BY <2>1, BeginRefines, LogWriteRefines, EndRefines, WriteLogRefines, WriteHeadRefines,
       InstallRefines, EraseRefines, EndCommitRefines, RecoverRefines, CacheRefines,
       CrashRefines DEF Next, op, commit
  <2>2. CASE UNCHANGED vars
    BY <2>2 DEF vars, AD!vars, Stable, Current, Active, View
  <2> QED BY <2>1, <2>2
<1> QED BY <1>1, <1>2, Invariance, PTL DEF Spec, CrashAtomic, AD!Spec

------------------------------------------------------------------------------
(* The blocks that the calls inside an operation may still add to the log. *)
Left == {r \in Procs \X (1..OPBLOCKS) : pc[r[1]] = "op" /\ r[2] > Cardinality(wrote[r[1]])}
CallInv(p) ==
  /\ IsFiniteSet(wrote[p]) /\ Cardinality(wrote[p]) <= OPBLOCKS
  /\ wrote[p] \subseteq Logged

(* There is room for them, and one entry more because log_write() tests the *)
(* room before it looks whether the block is logged already.                *)
RoomInv ==
  /\ panicked = 0
  /\ \A p \in Active : CallInv(p)
  /\ Active # {} => Len(lh) + Cardinality(Left) <= LOGSIZE - 2

(* Left is finite, and at most OPBLOCKS times the number of calls. *)
Bounded ==
  /\ IsFiniteSet(Left) /\ Cardinality(Left) \in Nat /\ Cardinality(Active) \in Nat
  /\ Cardinality(Left) <= Cardinality(Active) * OPBLOCKS

(* This holds of every state. *)
LEMMA LeftBound == Bounded
<1>1. IsFiniteSet(Active)
  BY ProcsAssumption, FS_Subset DEF Active
<1>2. IsFiniteSet(1..OPBLOCKS) /\ Cardinality(1..OPBLOCKS) = OPBLOCKS
  BY FS_Interval, SizeAssumption
<1>3. /\ IsFiniteSet(Active \X (1..OPBLOCKS))
      /\ Cardinality(Active \X (1..OPBLOCKS)) = Cardinality(Active) * OPBLOCKS
  BY <1>1, <1>2, FS_Product
<1>4. Left \in SUBSET (Active \X (1..OPBLOCKS))
  BY DEF Left, Active
<1> QED BY <1>1, <1>3, <1>4, FS_Subset, FS_CardinalityType DEF Bounded

(* And so of the next one. *)
LEMMA LeftBoundNext == Bounded'
BY LeftBound, PTL

(* The number of blocks a process wrote is a natural number. *)
LEMMA CallCount ==
  ASSUME NEW p \in Procs, CallInv(p) PROVE Cardinality(wrote[p]) \in 0..OPBLOCKS
BY FS_CardinalityType, SizeAssumption DEF CallInv

(* n calls that write fewer blocks than they reserve leave n blocks over. *)
LEMMA Reserve ==
  ASSUME NEW n \in Nat, NEW a \in Nat, NEW b \in Nat, a < b
  PROVE  n * a <= n * b - n
<1>1. n * (b - (a + 1)) \in Nat
  OBVIOUS
<1>2. n * (b - (a + 1)) = n * b - (n * a + n)
  OBVIOUS
<1>3. n * a \in Nat /\ n * b \in Nat
  OBVIOUS
<1> QED BY <1>1, <1>2, <1>3

(* begin_op() lets a call in only when there is room for all it may write. *)
LEMMA BeginRoom ==
  ASSUME NEW p \in Procs, IInv, IInv', RoomInv, begin_op(p)
  PROVE  RoomInv'
<1>0. /\ lh' = lh /\ panicked' = panicked /\ boot = "up"
      /\ pc \in [Procs -> {"user", "begin_op", "asleep", "op"} \cup CommitPC]
      /\ wrote \in [Procs -> SUBSET Blocks] /\ wrote' = [wrote EXCEPT ![p] = {}]
      /\ pc[p] # "op" /\ outstanding \in Nat /\ lh \in Seq(Blocks)
  BY DEF begin_op, IInv, TypeOK, Running
<1>1. \A q \in Active' : CallInv(q)'
  <2>1. ASSUME NEW q \in Procs, q # p, pc'[q] = "op" PROVE CallInv(q)'
    <3>1. q \in Active /\ wrote'[q] = wrote[q]
      BY <1>0, <2>1 DEF Active, begin_op
    <3> QED BY <1>0, <3>1 DEF RoomInv, CallInv, Logged
  <2>2. CallInv(p)'
    BY <1>0, FS_EmptySet, SizeAssumption DEF CallInv
  <2> QED BY <2>1, <2>2 DEF Active
<1>2. CASE must_wait
  <2>1. pc' = [pc EXCEPT ![p] = "asleep"]
    BY <1>2 DEF begin_op
  <2>2. Active' = Active /\ Left' = Left
    BY <1>0, <2>1 DEF Active, Left
  <2> QED BY <1>0, <1>1, <2>2 DEF RoomInv
<1>3. CASE ~must_wait
  <2>1. Len(lh) + (outstanding + 1) * MAXOPBLOCKS <= LOGSIZE /\ committing = 0
    BY <1>3, SizeAssumption, <1>0 DEF must_wait, log_full, IInv, TypeOK
  <2>2. outstanding' = outstanding + 1 /\ outstanding = Cardinality(Active)
    BY <1>3 DEF begin_op, IInv, ControlInv
  <2>3. Cardinality(Left') <= (outstanding + 1) * OPBLOCKS /\ Cardinality(Left') \in Nat
    <3>1. Cardinality(Active') = outstanding + 1
      BY <2>2 DEF IInv, ControlInv
    <3>2. Cardinality(Left') <= Cardinality(Active') * OPBLOCKS /\ Cardinality(Left') \in Nat
      BY LeftBoundNext DEF Bounded
    <3> QED BY <3>1, <3>2
  <2>4. (outstanding + 1) * OPBLOCKS <= (outstanding + 1) * MAXOPBLOCKS - (outstanding + 1)
    BY <1>0, Reserve, SizeAssumption, RoomAssumption
  <2>5. Len(lh) + Cardinality(Left') <= LOGSIZE - 2
    <3>1. CASE outstanding = 0
      <4>1. lh = <<>>
        <5>1. Active = {}
          BY <2>2, <3>1, FS_EmptySet, ProcsAssumption, FS_Subset DEF Active
        <5> QED BY <1>0, <2>1, <5>1 DEF IInv, UpInv, IdleInv
      <4> QED BY <2>3, <3>1, <4>1, SizeAssumption, RoomAssumption
    <3>2. CASE outstanding # 0
      <4> DEFINE A == (outstanding + 1) * OPBLOCKS
      <4> DEFINE B == (outstanding + 1) * MAXOPBLOCKS
      <4>1. A \in Nat /\ B \in Nat /\ Len(lh) \in Nat
        BY <1>0, SizeAssumption
      <4>2. /\ Cardinality(Left') <= A /\ A <= B - (outstanding + 1) /\ Len(lh) + B <= LOGSIZE
            /\ outstanding \in Nat /\ Cardinality(Left') \in Nat
        BY <1>0, <2>1, <2>3, <2>4
      <4> HIDE DEF A, B
      <4> QED BY <3>2, <4>1, <4>2, SizeAssumption
    <3> QED BY <3>1, <3>2
  <2> QED BY <1>0, <1>1, <2>5 DEF RoomInv
<1> QED BY <1>2, <1>3

(* log_write() finds room, and uses it up at most once for a block. *)
LEMMA LogWriteRoom ==
  ASSUME NEW p \in Procs, NEW b \in Blocks, NEW v \in Vals, IInv, RoomInv, log_write(p, b, v)
  PROVE  RoomInv'
<1> DEFINE k == Cardinality(wrote[p])
<1>0. /\ pc' = pc /\ pc[p] = "op" /\ p \in Active /\ CallInv(p) /\ lh \in Seq(Blocks)
      /\ wrote \in [Procs -> SUBSET Blocks] /\ wrote' = [wrote EXCEPT ![p] = @ \cup {b}]
      /\ b \in wrote[p] \/ k < OPBLOCKS
  BY DEF log_write, RoomInv, Active, IInv, TypeOK
<1>1. k \in 0..OPBLOCKS /\ Cardinality(Left) \in Nat /\ Len(lh) \in Nat
  BY <1>0, CallCount, LeftBound DEF Bounded
<1>2. Len(lh) + Cardinality(Left) <= LOGSIZE - 2
  BY <1>0 DEF RoomInv
<1>3. ~too_big
  BY <1>1, <1>2, SizeAssumption, RoomAssumption DEF too_big
<1>4. outstanding >= 1
  <2>1. IsFiniteSet(Active)
    BY ProcsAssumption, FS_Subset DEF Active
  <2>2. Cardinality(Active) # 0 /\ Cardinality(Active) \in Nat
    BY <1>0, <2>1, FS_EmptySet, FS_CardinalityType
  <2> QED BY <2>2 DEF IInv, ControlInv
<1>5. absorb(b) /\ panicked' = 0
  BY <1>3, <1>4 DEF log_write, RoomInv, IInv, TypeOK
<1>6. Logged' = Logged \cup {b}
  <2>1. CASE b \in Logged
    BY <1>5, <2>1 DEF absorb, Logged
  <2>2. CASE b \notin Logged
    <3>1. lh' = Append(lh, b)
      BY <1>5, <2>2 DEF absorb
    <3>2. /\ Len(lh') = Len(lh) + 1 /\ lh'[Len(lh) + 1] = b
          /\ \A i \in 1..Len(lh) : lh'[i] = lh[i]
      BY <1>0, <3>1
    <3> QED BY <1>0, <3>2 DEF Logged
  <2> QED BY <2>1, <2>2
<1>7. \A q \in Active' : CallInv(q)'
  <2>1. ASSUME NEW q \in Procs, q # p, pc[q] = "op" PROVE CallInv(q)'
    <3>1. CallInv(q) /\ wrote'[q] = wrote[q]
      BY <1>0, <2>1 DEF RoomInv, Active
    <3> QED BY <1>6, <3>1 DEF CallInv
  <2>2. CallInv(p)'
    <3>1. wrote'[p] = wrote[p] \cup {b} /\ IsFiniteSet(wrote[p]) /\ wrote[p] \subseteq Logged
      BY <1>0 DEF CallInv
    <3>2. IsFiniteSet(wrote'[p]) /\ Cardinality(wrote'[p]) = IF b \in wrote[p] THEN k ELSE k + 1
      BY <3>1, FS_AddElement
    <3>3. Cardinality(wrote'[p]) <= OPBLOCKS
      BY <1>0, <1>1, <3>2, SizeAssumption
    <3> QED BY <1>6, <3>1, <3>2, <3>3 DEF CallInv
  <2> QED BY <1>0, <2>1, <2>2 DEF Active
<1>8. Len(lh') + Cardinality(Left') <= LOGSIZE - 2
  <2>1. CASE b \in wrote[p]
    <3>1. wrote' = wrote
      BY <1>0, <2>1
    <3>2. lh' = lh
      BY <1>0, <1>5, <2>1 DEF absorb, CallInv
    <3>3. Left' = Left
      BY <1>0, <3>1 DEF Left
    <3> QED BY <1>2, <3>2, <3>3
  <2>2. CASE b \notin wrote[p]
    <3>1. Len(lh') \in Nat /\ Len(lh') <= Len(lh) + 1
      BY <1>0, <1>5 DEF absorb
    <3>2. IsFiniteSet(wrote[p]) /\ wrote'[p] = wrote[p] \cup {b}
      BY <1>0 DEF CallInv
    <3>3. Cardinality(wrote'[p]) = k + 1 /\ k < OPBLOCKS
      BY <1>0, <2>2, <3>2, FS_AddElement
    <3>4. Left' = Left \ {<<p, k + 1>>} /\ <<p, k + 1>> \in Left
      <4>1. <<p, k + 1>> \in Left
        BY <1>0, <1>1, <3>3, SizeAssumption DEF Left
      <4>2. ASSUME NEW q \in Procs, NEW n \in 1..OPBLOCKS
            PROVE  <<q, n>> \in Left' <=> <<q, n>> \in Left /\ <<q, n>> # <<p, k + 1>>
        <5>1. CASE q = p
          <6>1. n > k + 1 <=> n > k /\ n # k + 1
            BY <1>1, SizeAssumption
          <6> QED BY <1>0, <3>3, <5>1, <6>1 DEF Left
        <5>2. CASE q # p
          BY <1>0, <5>2 DEF Left
        <5> QED BY <5>1, <5>2
      <4>3. Left \subseteq Procs \X (1..OPBLOCKS) /\ Left' \subseteq Procs \X (1..OPBLOCKS)
        BY DEF Left
      <4> QED BY <4>1, <4>2, <4>3
    <3>5. Cardinality(Left') = Cardinality(Left) - 1
      BY <3>4, LeftBound, FS_RemoveElement DEF Bounded
    <3> QED BY <1>1, <1>2, <3>1, <3>5, SizeAssumption
  <2> QED BY <2>1, <2>2
<1> QED BY <1>5, <1>7, <1>8 DEF RoomInv

(* end_op() gives room back, and never while a commit is in progress. *)
LEMMA EndRoom ==
  ASSUME NEW p \in Procs, IInv, RoomInv, end_op(p)
  PROVE  RoomInv'
<1>1. /\ lh' = lh /\ wrote' = wrote /\ lh \in Seq(Blocks) /\ p \in Active
      /\ pc \in [Procs -> {"user", "begin_op", "asleep", "op"} \cup CommitPC]
  BY DEF end_op, IInv, TypeOK, Active
<1>2. committing = 0
  BY <1>1 DEF IInv, ControlInv, TypeOK
<1>3. panicked' = 0 /\ \A q \in Procs : pc'[q] = "op" => pc[q] = "op"
  BY <1>1, <1>2 DEF end_op, RoomInv, wakeup
<1>4. \A q \in Active' : CallInv(q)'
  BY <1>1, <1>3 DEF RoomInv, CallInv, Active, Logged
<1>5. Left' \in SUBSET Left
  BY <1>1, <1>3 DEF Left
<1>6. Cardinality(Left') <= Cardinality(Left) /\ Cardinality(Left) \in Nat
  BY <1>5, LeftBound, FS_Subset DEF Bounded
<1>7. Cardinality(Left') \in Nat
  BY LeftBoundNext DEF Bounded
<1>8. Len(lh) + Cardinality(Left) <= LOGSIZE - 2
  BY <1>1 DEF RoomInv
<1>9. Len(lh') + Cardinality(Left') <= LOGSIZE - 2
  BY <1>1, <1>6, <1>7, <1>8, SizeAssumption
<1> QED BY <1>3, <1>4, <1>9 DEF RoomInv

(* log_write() never finds the log too small and end_op() never finds a     *)
(* commit in progress, whatever the number of processes: what begin_op()    *)
(* reserves is enough for every interleaving.                               *)
THEOREM RoomCorrect == Spec => []NoPanic
<1>1. Init => RoomInv
  BY DEF Init, RoomInv, Active
<1>2. IInv /\ IInv' /\ RoomInv /\ [Next]_vars => RoomInv'
  <2> SUFFICES ASSUME IInv, IInv', RoomInv, [Next]_vars PROVE RoomInv'
    OBVIOUS
  <2>0. ASSUME panicked' = 0, Active' = {} PROVE RoomInv'
    BY <2>0 DEF RoomInv
  <2>1. ASSUME UNCHANGED <<panicked, pc, wrote, lh>> PROVE RoomInv'
    BY <2>1 DEF RoomInv, CallInv, Active, Left, Logged
  <2>2. ASSUME NEW p \in Procs, begin_op(p) \/ op(p) PROVE RoomInv'
    BY <2>2, BeginRoom, LogWriteRoom, EndRoom DEF op
  <2>3. ASSUME NEW p \in Procs, commit(p) PROVE RoomInv'
    <3>1. committing = 1
      BY <2>3, Committer DEF commit, write_log, write_head, install_trans, erase, end_commit,
         CommitPC
    <3>2. Active = {} /\ pc \in [Procs -> {"user", "begin_op", "asleep", "op"} \cup CommitPC]
      BY <3>1 DEF IInv, ControlInv, TypeOK
    <3>3. Active' = {} /\ panicked' = panicked
      BY <2>3, <3>2 DEF commit, write_log, write_head, install_trans, InstallBlock, erase,
         end_commit, wakeup, Active
    <3> QED BY <2>0, <3>3 DEF RoomInv
  <2>4. CASE recover_from_log
    <3>1. boot # "up" /\ UNCHANGED <<pc, panicked>>
      BY <2>4 DEF recover_from_log, read_head, recover_install, InstallBlock, recover_erase
    <3> QED BY <2>0, <3>1 DEF IInv, BootInv, Active, RoomInv
  <2>5. ASSUME NEW b \in Blocks, bread(b) \/ recycle(b) PROVE RoomInv'
    BY <2>1, <2>5 DEF bread, recycle
  <2>6. CASE crash
    BY <2>0, <2>6 DEF crash, Active
  <2>7. CASE UNCHANGED vars
    BY <2>1, <2>7 DEF vars
  <2> QED BY <2>2, <2>3, <2>4, <2>5, <2>6, <2>7 DEF Next
<1>3. RoomInv => NoPanic
  BY DEF RoomInv, NoPanic
<1> QED BY <1>1, <1>2, <1>3, Invariance, PTL DEF Spec
==============================================================================
