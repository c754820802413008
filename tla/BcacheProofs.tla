----------------------------- MODULE BcacheProofs -----------------------------
(***************************************************************************)
(* The buffer cache is coherent and its scans miss no buffer, for every    *)
(* number of processes, blocks and buffers.                                *)
(***************************************************************************)
EXTENDS Bcache, FiniteSetTheorems, WellFoundedInduction, TLAPS

(* The buffer that each process has, and who may touch it. *)
Users(x) == {p \in Procs : b[p] = x}
TypeInv ==
  /\ blockno \in [Bufs -> Blocks \cup {None}] /\ valid \in [Bufs -> {0, 1}]
  /\ refcnt \in [Bufs -> Int] /\ DOMAIN data = Bufs /\ data = [x \in Bufs |-> data[x]]
  /\ owner \in [Bufs -> Procs \cup {None}] /\ pinned \in [Bufs -> {0, 1}]
  /\ disk = [blk \in Blocks |-> disk[blk]] /\ latest = [blk \in Blocks |-> latest[blk]]
  /\ pc \in [Procs -> {"out", "acquire", "bread", "held", "brelse"}]
  /\ want \in [Procs -> Blocks \cup {None}] /\ b \in [Procs -> Bufs \cup {None}]
  /\ panicked \in {0, 1}

(* A process outside bget() and brelse() has a buffer with the block that it  *)
(* asked for; it holds the sleep-lock of that buffer and of no other.         *)
ProcInv(p) ==
  /\ pc[p] # "out" => b[p] \in Bufs /\ want[p] \in Blocks /\ blockno[b[p]] = want[p]
  /\ pc[p] = "out" => b[p] = None
  /\ pc[p] \in {"bread", "held"} => owner[b[p]] = p
  /\ pc[p] = "held" => valid[b[p]] = 1
OwnInv(x) ==
  owner[x] # None => b[owner[x]] = x /\ pc[owner[x]] \in {"bread", "held"}

(* refcnt counts the processes that have the buffer, and the log. *)
RefInv(x) == refcnt[x] = Cardinality(Users(x)) + pinned[x]

(* What a valid buffer holds. *)
DataInv(x) ==
  /\ valid[x] = 1 => blockno[x] \in Blocks /\ data[x] = latest[blockno[x]]
  /\ pinned[x] = 1 => valid[x] = 1

(* The list holds the buffers in the order of recent, both ways. *)
ListInv ==
  /\ next \in [Nodes -> Nodes] /\ prev \in [Nodes -> Nodes] /\ recent \in [1..NBUF -> Bufs]
  /\ \A x \in Bufs : \E k \in 1..NBUF : recent[k] = x
  /\ \A j, k \in 1..NBUF : recent[j] = recent[k] => j = k
  /\ next[head] = recent[1] /\ next[recent[NBUF]] = head
  /\ prev[head] = recent[NBUF] /\ prev[recent[1]] = head
  /\ \A k \in 1..(NBUF - 1) : next[recent[k]] = recent[k + 1] /\ prev[recent[k + 1]] = recent[k]

IInv ==
  /\ TypeInv /\ ListInv /\ OneCopy /\ HomeCurrent
  /\ \A p \in Procs : ProcInv(p)
  /\ \A x \in Bufs : OwnInv(x) /\ RefInv(x) /\ DataInv(x)
  /\ panicked = 1 => \A x \in Bufs : refcnt[x] # 0
------------------------------------------------------------------------------
(* A non-empty set of natural numbers has a least element: the intervals that *)
(* its elements end have one that contains no other.                          *)
LEMMA Least ==
  ASSUME NEW S \in SUBSET Nat, S # {}
  PROVE  \E m \in S : \A k \in S : m <= k
<1> DEFINE F == {0..n : n \in S}
<1> DEFINE R == StrictSubsetOrdering(Nat)
<1>1. IsWellFoundedOn(R, FiniteSubsetsOf(Nat))
  BY FS_StrictSubsetOrderingWellFounded
<1>2. F \subseteq FiniteSubsetsOf(Nat)
  <2>1. ASSUME NEW n \in S PROVE 0..n \in FiniteSubsetsOf(Nat)
    BY FS_Interval DEF FiniteSubsetsOf
  <2> QED BY <2>1
<1>3. F # {}
  BY Zenon
<1>4. PICK X \in F : \A Y \in F : <<Y, X>> \notin R
  <2> HIDE DEF F, R
  <2> QED BY <1>1, <1>2, <1>3, WFMin
<1>5. PICK m \in S : X = 0..m
  BY <1>4
<1>6. ASSUME NEW k \in S, k < m PROVE FALSE
  <2>1. 0..k \in F /\ 0..k \in SUBSET Nat /\ 0..m \in SUBSET Nat
    OBVIOUS
  <2>2. 0..k \subseteq 0..m /\ 0..k # 0..m
    BY <1>6
  <2>3. <<0..k, 0..m>> \in R
    BY <2>1, <2>2 DEF StrictSubsetOrdering
  <2> QED BY <1>4, <1>5, <2>1, <2>3, Zenon
<1> QED BY <1>6

(* The head is no buffer. *)
LEMMA HeadApart == head \notin Bufs /\ Nodes = Bufs \cup {head}
BY BcacheAssumption DEF Nodes, Bufs, head

(* Walk(f) is the sequence that starts at f[head] and follows f. *)
Follows(f, s) ==
  /\ s \in [1..(NBUF + 1) -> Nodes] /\ s[1] = f[head]
  /\ \A k \in 1..NBUF : s[k + 1] = f[s[k]]

(* The prefixes of that sequence. *)
Prefix(s, k) == [i \in 1..(k + 1) |-> s[i]]

(* A prefix and what follows it. *)
LEMMA PrefixNext ==
  ASSUME NEW f \in [Nodes -> Nodes], NEW s, Follows(f, s), NEW k \in 1..NBUF
  PROVE  Append(Prefix(s, k - 1), f[Last(Prefix(s, k - 1))]) = Prefix(s, k)
<1> DEFINE P == Prefix(s, k - 1)
<1>0. NBUF \in Nat \ {0}
  BY BcacheAssumption
<1>1. P \in Seq(Nodes) /\ Len(P) = k /\ \A i \in 1..k : P[i] = s[i]
  BY <1>0 DEF Prefix, Follows
<1>2. f[Last(P)] = s[k + 1] /\ s[k + 1] \in Nodes
  BY <1>0, <1>1 DEF Last, Follows
<1>3. Prefix(s, k) \in Seq(Nodes) /\ Len(Prefix(s, k)) = k + 1
  BY <1>0 DEF Prefix, Follows
<1>4. Append(P, s[k + 1]) \in Seq(Nodes) /\ Len(Append(P, s[k + 1])) = k + 1
  BY <1>1, <1>2
<1>5. ASSUME NEW i \in 1..(k + 1) PROVE Append(P, s[k + 1])[i] = Prefix(s, k)[i]
  <2>1. CASE i = k + 1
    BY <1>0, <1>1, <1>2, <2>1 DEF Prefix
  <2>2. CASE i # k + 1
    BY <1>0, <1>1, <1>2, <2>2 DEF Prefix
  <2> QED BY <2>1, <2>2, Zenon
<1> HIDE DEF P
<1>6. Append(P, s[k + 1]) = Prefix(s, k)
  BY <1>0, <1>3, <1>4, <1>5
<1> QED BY <1>2, <1>6 DEF P

(* What Walk computes. *)
LEMMA WalkIs ==
  ASSUME NEW f \in [Nodes -> Nodes], NEW s, Follows(f, s)
  PROVE  Walk(f) = s
<1> DEFINE Eq(g) == g = [k \in 0..NBUF |-> IF k = 0 THEN <<f[head]>>
                                          ELSE Append(g[k - 1], f[Last(g[k - 1])])]
<1> DEFINE h == [k \in 0..NBUF |-> Prefix(s, k)]
<1>0. NBUF \in Nat \ {0}
  BY BcacheAssumption
<1>1. Prefix(s, 0) = <<f[head]>>
  <2>1. Prefix(s, 0) \in Seq(Nodes) /\ Len(Prefix(s, 0)) = 1 /\ Prefix(s, 0)[1] = s[1]
    BY <1>0 DEF Prefix, Follows
  <2>2. s[1] = f[head]
    BY DEF Follows
  <2> QED BY <2>1, <2>2
<1>2. Eq(h)
  <2>1. ASSUME NEW k \in 0..NBUF
        PROVE  h[k] = IF k = 0 THEN <<f[head]>> ELSE Append(h[k - 1], f[Last(h[k - 1])])
    <3>1. CASE k = 0
      BY <1>1, <3>1
    <3>2. CASE k # 0
      <4>1. k \in 1..NBUF /\ h[k - 1] = Prefix(s, k - 1)
        BY <1>0, <3>2
      <4> QED BY <3>2, <4>1, PrefixNext, Zenon
    <3> QED BY <3>1, <3>2, Zenon
  <2> HIDE DEF h
  <2> QED BY <2>1, Zenon DEF h
<1>3. ASSUME NEW g, Eq(g) PROVE g[NBUF] = s
  <2> DEFINE S == {k \in 0..NBUF : g[k] # Prefix(s, k)}
  <2>1. CASE S # {}
    <3>1. PICK m \in S : \A k \in S : m <= k
      <4> HIDE DEF S
      <4>1. S \in SUBSET Nat
        BY DEF S
      <4> QED BY <2>1, <4>1, Least
    <3>2. m # 0
      BY <1>0, <1>1, <1>3, <3>1
    <3>3. m - 1 \in 0..NBUF /\ m \in 1..NBUF /\ m - 1 \notin S
      BY <1>0, <3>1, <3>2
    <3>4. g[m - 1] = Prefix(s, m - 1)
      BY <3>3
    <3>5. g[m] = Append(g[m - 1], f[Last(g[m - 1])])
      BY <1>0, <1>3, <3>1, <3>2, Zenon
    <3> QED BY <3>1, <3>3, <3>4, <3>5, PrefixNext, Zenon
  <2>2. CASE S = {}
    <3>1. g[NBUF] = Prefix(s, NBUF)
      BY <1>0, <2>2
    <3> QED BY <1>0, <3>1 DEF Prefix, Follows
  <2> QED BY <2>1, <2>2
<1>4. Walk(f) = (CHOOSE g : Eq(g))[NBUF]
  BY DEF Walk
<1> HIDE DEF Eq, h
<1>5. Eq(CHOOSE g : Eq(g))
  BY <1>2
<1> QED BY <1>3, <1>4, <1>5

(* A sequence of the buffers with the head after them. *)
LEMMA Closed ==
  ASSUME NEW r \in Seq(Bufs), Len(r) = NBUF
  PROVE  /\ Append(r, head) \in [1..(NBUF + 1) -> Nodes] /\ Append(r, head)[NBUF + 1] = head
         /\ \A k \in 1..NBUF : Append(r, head)[k] = r[k]
<1> DEFINE s == Append(r, head)
<1>0. NBUF \in Nat \ {0} /\ head \in Nodes /\ Bufs \subseteq Nodes
  BY BcacheAssumption DEF Nodes
<1>1. r \in Seq(Nodes)
  BY <1>0
<1>2. s \in Seq(Nodes) /\ Len(s) = NBUF + 1
  BY <1>0, <1>1
<1>3. s[NBUF + 1] = head /\ \A k \in 1..NBUF : s[k] = r[k]
  BY <1>0, <1>1
<1> HIDE DEF s
<1>4. s \in [1..(NBUF + 1) -> Nodes]
  BY <1>0, <1>2
<1> QED BY <1>3, <1>4 DEF s

(* The scans of bget() in either direction meet the buffers in order. *)
LEMMA Walks ==
  ASSUME ListInv
  PROVE  /\ Follows(next, Append(recent, head)) /\ Walk(next) = Append(recent, head)
         /\ Follows(prev, Append(Reverse(recent), head))
         /\ Walk(prev) = Append(Reverse(recent), head)
<1>0. /\ NBUF \in Nat \ {0} /\ next \in [Nodes -> Nodes] /\ prev \in [Nodes -> Nodes]
      /\ recent \in [1..NBUF -> Bufs] /\ head \in Nodes /\ Bufs \subseteq Nodes
  BY BcacheAssumption DEF ListInv, Nodes
<1>1. recent \in Seq(Bufs) /\ Len(recent) = NBUF
  BY <1>0
<1>2. Follows(next, Append(recent, head))
  <2> DEFINE s == Append(recent, head)
  <2>1. /\ s \in [1..(NBUF + 1) -> Nodes] /\ s[NBUF + 1] = head
        /\ \A k \in 1..NBUF : s[k] = recent[k]
    BY <1>1, Closed
  <2>2. ASSUME NEW k \in 1..NBUF PROVE s[k + 1] = next[s[k]]
    <3> HIDE DEF s
    <3>1. CASE k = NBUF
      BY <1>0, <2>1, <3>1 DEF ListInv
    <3>2. CASE k # NBUF
      <4>1. k \in 1..(NBUF - 1) /\ k + 1 \in 1..NBUF
        BY <1>0, <3>2
      <4>2. s[k + 1] = recent[k + 1] /\ next[recent[k]] = recent[k + 1]
        BY <2>1, <4>1 DEF ListInv
      <4> QED BY <2>1, <4>2
    <3> QED BY <3>1, <3>2
  <2>3. s[1] = next[head]
    BY <1>0, <2>1 DEF ListInv
  <2> HIDE DEF s
  <2>4. Follows(next, s)
    BY <2>1, <2>2, <2>3 DEF Follows
  <2> QED BY <2>4 DEF s
<1>3. Follows(prev, Append(Reverse(recent), head))
  <2> DEFINE r == Reverse(recent)
  <2> DEFINE s == Append(r, head)
  <2>0. r \in Seq(Bufs) /\ Len(r) = NBUF /\ \A k \in 1..NBUF : r[k] = recent[(NBUF - k) + 1]
    BY <1>0, <1>1 DEF Reverse
  <2> HIDE DEF r
  <2>1. /\ s \in [1..(NBUF + 1) -> Nodes] /\ s[NBUF + 1] = head
        /\ \A k \in 1..NBUF : s[k] = recent[(NBUF - k) + 1]
    BY <2>0, Closed
  <2>2. ASSUME NEW k \in 1..NBUF PROVE s[k + 1] = prev[s[k]]
    <3> HIDE DEF s
    <3>1. CASE k = NBUF
      <4>1. s[k] = recent[1]
        BY <1>0, <2>1, <3>1
      <4> QED BY <1>0, <2>1, <3>1, <4>1 DEF ListInv
    <3>2. CASE k # NBUF
      <4> DEFINE j == NBUF - k
      <4>1. j \in 1..(NBUF - 1) /\ k + 1 \in 1..NBUF /\ (NBUF - (k + 1)) + 1 = j
        BY <1>0, <3>2
      <4>2. s[k + 1] = recent[j] /\ s[k] = recent[j + 1]
        BY <2>1, <4>1, Zenon
      <4>3. prev[recent[j + 1]] = recent[j]
        <5> HIDE DEF j
        <5> QED BY <4>1 DEF ListInv
      <4> QED BY <4>2, <4>3
    <3> QED BY <3>1, <3>2
  <2>3. s[1] = prev[head]
    BY <1>0, <2>1 DEF ListInv
  <2> HIDE DEF s
  <2>4. Follows(prev, s)
    BY <2>1, <2>2, <2>3 DEF Follows
  <2> QED BY <2>4 DEF s, r
<1> QED BY <1>0, <1>2, <1>3, WalkIs, Zenon

(* A scan finds a buffer of S if there is one. *)
LEMMA FirstFinds ==
  ASSUME NEW f \in [Nodes -> Nodes], NEW s, Follows(f, s), NEW S \in SUBSET Bufs,
         \A x \in Bufs : \E k \in 1..NBUF : s[k] = x
  PROVE  IF S = {} THEN First(f, S) = None ELSE First(f, S) \in S
<1> DEFINE hits == {k \in 1..NBUF : s[k] # head /\ s[k] \in S}
<1>1. Walk(f) = s
  BY WalkIs
<1>2. First(f, S) = IF hits = {} THEN None ELSE s[CHOOSE k \in hits : \A j \in hits : k <= j]
  BY <1>1 DEF First
<1>3. \A x \in Bufs : x # head
  BY BcacheAssumption DEF Bufs, head
<1>4. S = {} <=> hits = {}
  BY <1>3
<1>5. ASSUME hits # {} PROVE s[CHOOSE k \in hits : \A j \in hits : k <= j] \in S
  <2> hits \in SUBSET Nat
    BY BcacheAssumption
  <2>1. \E k \in hits : \A j \in hits : k <= j
    <3> HIDE DEF hits
    <3> QED BY <1>5, Least
  <2>2. (CHOOSE k \in hits : \A j \in hits : k <= j) \in hits
    <3> HIDE DEF hits
    <3> QED BY <2>1, Zenon
  <2> QED BY <2>2
<1> QED BY <1>2, <1>4, <1>5

(* The two scans of bget(). *)
LEMMA Scans ==
  ASSUME ListInv, NEW S \in SUBSET Bufs
  PROVE  /\ IF S = {} THEN First(next, S) = None ELSE First(next, S) \in S
         /\ IF S = {} THEN First(prev, S) = None ELSE First(prev, S) \in S
<1>0. /\ NBUF \in Nat \ {0} /\ next \in [Nodes -> Nodes] /\ prev \in [Nodes -> Nodes]
      /\ recent \in Seq(Bufs) /\ Len(recent) = NBUF
      /\ \A x \in Bufs : \E k \in 1..NBUF : recent[k] = x
  BY BcacheAssumption DEF ListInv
<1>1. \A x \in Bufs : \E k \in 1..NBUF : Append(recent, head)[k] = x
  BY <1>0
<1>2. \A x \in Bufs : \E k \in 1..NBUF : Append(Reverse(recent), head)[k] = x
  <2> DEFINE r == Reverse(recent)
  <2>1. r \in Seq(Bufs) /\ Len(r) = NBUF /\ \A k \in 1..NBUF : r[k] = recent[(NBUF - k) + 1]
    BY <1>0 DEF Reverse
  <2> HIDE DEF r
  <2>2. ASSUME NEW x \in Bufs PROVE \E k \in 1..NBUF : Append(r, head)[k] = x
    <3>1. PICK k \in 1..NBUF : recent[k] = x
      BY <1>0
    <3>2. (NBUF - k) + 1 \in 1..NBUF /\ (NBUF - ((NBUF - k) + 1)) + 1 = k
      BY <1>0
    <3>3. r[(NBUF - k) + 1] = x
      BY <2>1, <3>1, <3>2
    <3>4. Append(r, head)[(NBUF - k) + 1] = x
      BY <2>1, <3>2, <3>3
    <3> QED BY <3>2, <3>4, Zenon
  <2> QED BY <2>2, Zenon DEF r
<1>3. Follows(next, Append(recent, head)) /\ Follows(prev, Append(Reverse(recent), head))
  BY Walks
<1>4. IF S = {} THEN First(next, S) = None ELSE First(next, S) \in S
  BY <1>0, <1>1, <1>3, FirstFinds, Zenon
<1>5. IF S = {} THEN First(prev, S) = None ELSE First(prev, S) \in S
  BY <1>0, <1>2, <1>3, FirstFinds, Zenon
<1> QED BY <1>4, <1>5, Zenon

(* The two neighbours of a buffer. *)
LEMMA Neighbours ==
  ASSUME ListInv, NEW i \in 1..NBUF
  PROVE  /\ next[recent[i]] = IF i = NBUF THEN head ELSE recent[i + 1]
         /\ prev[recent[i]] = IF i = 1 THEN head ELSE recent[i - 1]
<1>0. NBUF \in Nat \ {0}
  BY BcacheAssumption
<1>1. i # NBUF => next[recent[i]] = recent[i + 1]
  BY <1>0 DEF ListInv
<1>2. i # 1 => prev[recent[i]] = recent[i - 1]
  <2> SUFFICES ASSUME i # 1 PROVE prev[recent[i]] = recent[i - 1]
    OBVIOUS
  <2>1. i - 1 \in 1..(NBUF - 1) /\ (i - 1) + 1 = i
    BY <1>0
  <2>2. prev[recent[(i - 1) + 1]] = recent[i - 1]
    BY <2>1, Zenon DEF ListInv
  <2> QED BY <2>1, <2>2
<1> QED BY <1>1, <1>2 DEF ListInv

(* The six assignments, when the buffer is not the first already: what each   *)
(* link is afterwards.                                                        *)
LEMMA FrontLinks ==
  ASSUME ListInv, NEW i \in 2..NBUF, to_front(recent[i])
  PROVE  /\ next' \in [Nodes -> Nodes] /\ prev' \in [Nodes -> Nodes]
         /\ next'[head] = recent[i] /\ next'[recent[i]] = recent[1]
         /\ next'[recent[i - 1]] = next[recent[i]]
         /\ \A y \in Nodes \ {head, recent[i], recent[i - 1]} : next'[y] = next[y]
         /\ prev'[recent[i]] = head /\ prev'[recent[1]] = recent[i]
         /\ prev'[next[recent[i]]] = recent[i - 1]
         /\ \A y \in Nodes \ {recent[i], recent[1], next[recent[i]]} : prev'[y] = prev[y]
<1> DEFINE x == recent[i]
<1> DEFINE w == recent[i - 1]
<1> DEFINE z == next[x]
<1> DEFINE u == recent[1]
<1>0. NBUF \in Nat \ {0} /\ i \in 1..NBUF /\ i - 1 \in 1..NBUF /\ 1 \in 1..NBUF /\ i # 1
  BY BcacheAssumption
<1>1. /\ x \in Bufs /\ w \in Bufs /\ u \in Bufs /\ x # w /\ x # u /\ z \in Nodes
      /\ next \in [Nodes -> Nodes] /\ prev \in [Nodes -> Nodes]
      /\ head \notin Bufs /\ Nodes = Bufs \cup {head}
  <2>1. x \in Bufs /\ w \in Bufs /\ u \in Bufs /\ x # w /\ x # u
    BY <1>0 DEF ListInv
  <2>2. z \in Nodes /\ next \in [Nodes -> Nodes] /\ prev \in [Nodes -> Nodes]
    BY <2>1, HeadApart DEF ListInv
  <2> QED BY <2>1, <2>2, HeadApart
<1>2. prev[x] = w /\ next[head] = u /\ z # x /\ z # u
  <2>1. prev[x] = w /\ next[head] = u /\ z = IF i = NBUF THEN head ELSE recent[i + 1]
    BY <1>0, Neighbours DEF ListInv
  <2>2. CASE i = NBUF
    BY <1>1, <2>1, <2>2, Zenon
  <2>3. CASE i # NBUF
    <3>1. i + 1 \in 1..NBUF /\ i + 1 # i /\ i + 1 # 1
      BY <1>0, <2>3
    <3>2. recent[i + 1] # x /\ recent[i + 1] # u
      BY <1>0, <3>1, Zenon DEF ListInv
    <3> QED BY <2>1, <2>3, <3>2, Zenon
  <2> QED BY <2>2, <2>3, Zenon
<1> DEFINE n == [next EXCEPT ![w] = z]
<1> DEFINE q == [prev EXCEPT ![z] = w]
<1>3. /\ next' = [n EXCEPT ![x] = n[head], ![head] = x]
      /\ prev' = [q EXCEPT ![x] = head, ![n[head]] = x]
  BY <1>2 DEF to_front, unlink
<1>4. n[head] = u /\ n \in [Nodes -> Nodes] /\ q \in [Nodes -> Nodes]
  BY <1>1, <1>2, Zenon
<1>5. /\ next' \in [Nodes -> Nodes] /\ next'[head] = x /\ next'[x] = u /\ next'[w] = z
      /\ \A y \in Nodes \ {head, x, w} : next'[y] = next[y]
  <2> HIDE DEF x, w, z, u, q
  <2> QED BY <1>1, <1>3, <1>4
<1>6. /\ prev' \in [Nodes -> Nodes] /\ prev'[x] = head /\ prev'[u] = x /\ prev'[z] = w
      /\ \A y \in Nodes \ {x, u, z} : prev'[y] = prev[y]
  <2> HIDE DEF x, w, z, u, n
  <2> QED BY <1>1, <1>2, <1>3, <1>4
<1> QED BY <1>5, <1>6

(* The order of use afterwards. *)
LEMMA FrontOrder ==
  ASSUME ListInv, NEW i \in 1..NBUF, recent' = used(recent[i])
  PROVE  /\ recent' \in [1..NBUF -> Bufs] /\ recent'[1] = recent[i]
         /\ \A k \in 1..NBUF : 1 < k /\ k <= i => recent'[k] = recent[k - 1]
         /\ \A k \in 1..NBUF : i < k => recent'[k] = recent[k]
         /\ \A x \in Bufs : \E k \in 1..NBUF : recent'[k] = x
         /\ \A j, k \in 1..NBUF : recent'[j] = recent'[k] => j = k
<1>0. NBUF \in Nat \ {0} /\ recent \in [1..NBUF -> Bufs]
  BY BcacheAssumption DEF ListInv
<1>1. \A k \in 1..NBUF : recent[k] = recent[i] => k = i
  BY DEF ListInv
<1>2. (CHOOSE k \in 1..NBUF : recent[k] = recent[i]) = i
  BY <1>1
<1>3. recent' = [k \in 1..NBUF |-> IF k = 1 THEN recent[i]
                                   ELSE IF k <= i THEN recent[k - 1] ELSE recent[k]]
  BY <1>2 DEF used
<1>4. /\ recent' \in [1..NBUF -> Bufs] /\ recent'[1] = recent[i]
      /\ \A k \in 1..NBUF : 1 < k /\ k <= i => recent'[k] = recent[k - 1]
      /\ \A k \in 1..NBUF : i < k => recent'[k] = recent[k]
  BY <1>0, <1>3
<1>5. ASSUME NEW x \in Bufs PROVE \E k \in 1..NBUF : recent'[k] = x
  <2>1. PICK k \in 1..NBUF : recent[k] = x
    BY DEF ListInv
  <2>2. CASE k = i
    BY <1>0, <1>4, <2>1, <2>2
  <2>3. CASE k < i
    <3>1. k + 1 \in 1..NBUF /\ 1 < k + 1 /\ k + 1 <= i /\ (k + 1) - 1 = k
      BY <1>0, <2>3
    <3>2. recent'[k + 1] = recent[(k + 1) - 1]
      BY <1>4, <3>1
    <3> QED BY <2>1, <3>1, <3>2
  <2>4. CASE i < k
    BY <1>4, <2>1, <2>4
  <2> QED BY <1>0, <2>2, <2>3, <2>4
<1>6. ASSUME NEW j \in 1..NBUF, NEW k \in 1..NBUF, recent'[j] = recent'[k] PROVE j = k
  <2> DEFINE at(m) == IF m = 1 THEN i ELSE IF m <= i THEN m - 1 ELSE m
  <2>1. ASSUME NEW m \in 1..NBUF PROVE at(m) \in 1..NBUF /\ recent'[m] = recent[at(m)]
    BY <1>0, <1>4
  <2>2. at(j) \in 1..NBUF /\ at(k) \in 1..NBUF /\ recent[at(j)] = recent[at(k)]
    BY <1>6, <2>1
  <2>3. at(j) = at(k)
    <3> HIDE DEF at
    <3> QED BY <2>2 DEF ListInv
  <2> QED BY <1>0, <2>3
<1> QED BY <1>4, <1>5, <1>6

(* brelse() keeps the list in the order of use. *)
LEMMA MoveFront ==
  ASSUME ListInv, NEW x \in Bufs, to_front(x), recent' = used(x)
  PROVE  ListInv'
<1>0. NBUF \in Nat \ {0} /\ recent \in [1..NBUF -> Bufs] /\ 1 \in 1..NBUF /\ NBUF \in 1..NBUF
  BY BcacheAssumption DEF ListInv
<1>1. PICK i \in 1..NBUF : recent[i] = x
  BY DEF ListInv
<1>2. /\ recent' \in [1..NBUF -> Bufs] /\ recent'[1] = recent[i]
      /\ \A k \in 1..NBUF : 1 < k /\ k <= i => recent'[k] = recent[k - 1]
      /\ \A k \in 1..NBUF : i < k => recent'[k] = recent[k]
      /\ \A y \in Bufs : \E k \in 1..NBUF : recent'[k] = y
      /\ \A j, k \in 1..NBUF : recent'[j] = recent'[k] => j = k
  BY <1>1, FrontOrder, Zenon
<1>3. CASE i = 1
  <2>1. recent' = recent
    BY <1>0, <1>2, <1>3
  <2>2. /\ next \in [Nodes -> Nodes] /\ prev \in [Nodes -> Nodes] /\ x \in Nodes /\ head \in Nodes
        /\ head # x /\ next[head] = x /\ prev[x] = head /\ next[x] \in Nodes /\ next[x] # x
        /\ prev[next[x]] = x
    <3>1. /\ next \in [Nodes -> Nodes] /\ prev \in [Nodes -> Nodes] /\ x \in Nodes /\ head \in Nodes
          /\ head # x /\ next[head] = x /\ prev[x] = head /\ next[x] \in Nodes
      BY <1>0, <1>1, <1>3, HeadApart, Zenon DEF ListInv
    <3>2. CASE NBUF = 1
      <4>1. next[x] = head /\ prev[head] = x
        BY <1>1, <1>3, <3>2 DEF ListInv
      <4> QED BY <3>1, <4>1
    <3>3. CASE NBUF # 1
      <4>1. 1 \in 1..(NBUF - 1) /\ 2 \in 1..NBUF
        BY <1>0, <3>3
      <4>2. next[recent[1]] = recent[1 + 1] /\ prev[recent[1 + 1]] = recent[1]
        BY <4>1, Zenon DEF ListInv
      <4>3. recent[2] # recent[1]
        BY <1>0, <4>1 DEF ListInv
      <4> QED BY <1>1, <1>3, <3>1, <4>2, <4>3
    <3> QED BY <3>1, <3>2, <3>3
  <2>3. next' = next
    BY <2>2 DEF to_front, unlink
  <2>4. prev' = prev
    BY <2>2 DEF to_front, unlink
  <2> QED BY <2>1, <2>3, <2>4 DEF ListInv, Nodes
<1>4. CASE i # 1
  <2>0. i \in 2..NBUF /\ i - 1 \in 1..NBUF /\ i - 1 # i
    BY <1>0, <1>4
  <2>1. /\ next' \in [Nodes -> Nodes] /\ prev' \in [Nodes -> Nodes]
        /\ next'[head] = x /\ next'[x] = recent[1] /\ next'[recent[i - 1]] = next[x]
        /\ \A y \in Nodes \ {head, x, recent[i - 1]} : next'[y] = next[y]
        /\ prev'[x] = head /\ prev'[recent[1]] = x /\ prev'[next[x]] = recent[i - 1]
        /\ \A y \in Nodes \ {x, recent[1], next[x]} : prev'[y] = prev[y]
    BY <1>1, <2>0, FrontLinks
  <2>2. next[x] = IF i = NBUF THEN head ELSE recent[i + 1]
    BY <1>1, Neighbours
  <2>3. \A k \in 1..NBUF : recent[k] \in Nodes /\ recent[k] # head
    BY <1>0, HeadApart
  <2>4. \A j, k \in 1..NBUF : recent[j] = recent[k] => j = k
    BY Zenon DEF ListInv
  <2>5. next'[recent'[NBUF]] = head
    <3>1. CASE i = NBUF
      <4>1. recent'[NBUF] = recent[i - 1]
        BY <1>0, <1>2, <1>4, <3>1
      <4> QED BY <2>1, <2>2, <3>1, <4>1
    <3>2. CASE i # NBUF
      <4>1. recent'[NBUF] = recent[NBUF]
        BY <1>0, <1>2, <3>2
      <4>2. recent[NBUF] \notin {head, x, recent[i - 1]}
        BY <1>0, <1>1, <2>0, <2>3, <2>4, <3>2
      <4>3. next[recent[NBUF]] = head
        BY DEF ListInv
      <4> QED BY <1>0, <2>1, <2>3, <4>1, <4>2, <4>3
    <3> QED BY <3>1, <3>2, Zenon
  <2>6. prev'[head] = recent'[NBUF]
    <3>1. CASE i = NBUF
      <4>1. recent'[NBUF] = recent[i - 1]
        BY <1>0, <1>2, <1>4, <3>1
      <4> QED BY <2>1, <2>2, <3>1, <4>1
    <3>2. CASE i # NBUF
      <4>1. recent'[NBUF] = recent[NBUF] /\ i + 1 \in 1..NBUF
        BY <1>0, <1>2, <3>2
      <4>2. head \notin {x, recent[1], next[x]} /\ head \in Nodes
        BY <1>0, <1>1, <2>2, <2>3, <3>2, <4>1, HeadApart, Zenon
      <4>3. prev[head] = recent[NBUF]
        BY DEF ListInv
      <4> QED BY <2>1, <4>1, <4>2, <4>3
    <3> QED BY <3>1, <3>2
  <2>7. ASSUME NEW k \in 1..(NBUF - 1)
        PROVE  next'[recent'[k]] = recent'[k + 1] /\ prev'[recent'[k + 1]] = recent'[k]
    <3>0. k \in 1..NBUF /\ k + 1 \in 1..NBUF /\ (k + 1) - 1 = k
      BY <1>0
    <3>1. CASE k = 1
      <4>1. recent'[k + 1] = recent[1] /\ recent'[k] = x
        BY <1>1, <1>2, <2>0, <3>0, <3>1
      <4> QED BY <2>1, <4>1
    <3>2. CASE 1 < k /\ k < i
      <4>0. k - 1 \in 1..(NBUF - 1) /\ k - 1 \in 1..NBUF /\ (k - 1) + 1 = k
        BY <1>0, <3>2
      <4>1. recent'[k] = recent[k - 1] /\ recent'[k + 1] = recent[k]
        BY <1>2, <3>0, <3>2
      <4>2. next[recent[k - 1]] = recent[(k - 1) + 1] /\ prev[recent[(k - 1) + 1]] = recent[k - 1]
        BY <4>0, Zenon DEF ListInv
      <4>3. recent[k - 1] \notin {head, x, recent[i - 1]}
        BY <1>1, <2>0, <2>3, <2>4, <3>2, <4>0
      <4>4. recent[k] # next[x]
        <5>1. CASE i = NBUF
          BY <2>2, <2>3, <3>0, <5>1, Zenon
        <5>2. CASE i # NBUF
          <6>1. i + 1 \in 1..NBUF /\ i + 1 # k
            BY <1>0, <3>2, <5>2
          <6> QED BY <2>2, <2>4, <3>0, <5>2, <6>1, Zenon
        <5> QED BY <5>1, <5>2, Zenon
      <4>5. recent[k] \notin {x, recent[1]}
        BY <1>0, <1>1, <2>4, <3>0, <3>2
      <4> QED BY <2>1, <2>3, <3>0, <4>0, <4>1, <4>2, <4>3, <4>4, <4>5
    <3>3. CASE k = i
      <4>1. recent'[k] = recent[i - 1] /\ recent'[k + 1] = recent[i + 1]
        BY <1>2, <2>0, <3>0, <3>3
      <4>2. i # NBUF
        BY <1>0, <3>3
      <4> QED BY <2>1, <2>2, <4>1, <4>2, Zenon
    <3>4. CASE i < k
      <4>1. recent'[k] = recent[k] /\ recent'[k + 1] = recent[k + 1]
        BY <1>2, <3>0, <3>4
      <4>2. next[recent[k]] = recent[k + 1] /\ prev[recent[k + 1]] = recent[k]
        BY DEF ListInv
      <4>3. recent[k] \notin {head, x, recent[i - 1]}
        BY <1>1, <2>0, <2>3, <2>4, <3>0, <3>4
      <4>4. recent[k + 1] \notin {x, recent[1]}
        BY <1>0, <1>1, <2>4, <3>0, <3>4
      <4>5. recent[k + 1] # next[x]
        <5>1. i # NBUF /\ i + 1 \in 1..NBUF /\ i + 1 # k + 1
          BY <1>0, <3>4
        <5> QED BY <2>2, <2>4, <3>0, <5>1, Zenon
      <4> QED BY <2>1, <2>3, <3>0, <4>1, <4>2, <4>3, <4>4, <4>5
    <3> QED BY <1>0, <3>0, <3>1, <3>2, <3>3, <3>4
  <2>8. next'[head] = recent'[1] /\ prev'[recent'[1]] = head
    BY <1>1, <1>2, <2>1
  <2> QED BY <1>2, <2>1, <2>5, <2>6, <2>7, <2>8, Zenon DEF ListInv, Nodes
<1> QED BY <1>3, <1>4

------------------------------------------------------------------------------
(* The processes that have a buffer are finitely many. *)
LEMMA UsersCount ==
  ASSUME NEW x
  PROVE  /\ IsFiniteSet(Users(x)) /\ Cardinality(Users(x)) \in Nat
         /\ Cardinality(Users(x)) = 0 <=> \A p \in Procs : b[p] # x
<1>1. IsFiniteSet(Users(x))
  BY BcacheAssumption, FS_Subset, Zenon DEF Users
<1>2. Cardinality(Users(x)) \in Nat /\ (Cardinality(Users(x)) = 0 <=> Users(x) = {})
  BY <1>1, FS_CardinalityType, FS_EmptySet, Zenon
<1> QED BY <1>1, <1>2 DEF Users

(* One process more has buffer x. *)
LEMMA UsersAdd ==
  ASSUME NEW p \in Procs, NEW x \in Bufs, b \in [Procs -> Bufs \cup {None}], b[p] = None,
         b' = [b EXCEPT ![p] = x]
  PROVE  \A y \in Bufs : Cardinality(Users(y)') =
                           IF y = x THEN Cardinality(Users(y)) + 1 ELSE Cardinality(Users(y))
<1>1. None \notin Bufs
  BY BcacheAssumption DEF Nodes
<1>2. Users(x)' = Users(x) \cup {p} /\ p \notin Users(x)
  BY <1>1 DEF Users
<1>3. ASSUME NEW y \in Bufs, y # x PROVE Users(y)' = Users(y)
  BY <1>1, <1>3 DEF Users
<1>4. Cardinality(Users(x)') = Cardinality(Users(x)) + 1
  BY <1>2, UsersCount, FS_AddElement, Zenon
<1> QED BY <1>3, <1>4

(* One process fewer. *)
LEMMA UsersDrop ==
  ASSUME NEW p \in Procs, NEW x \in Bufs, b \in [Procs -> Bufs \cup {None}], b[p] = x,
         b' = [b EXCEPT ![p] = None]
  PROVE  \A y \in Bufs : Cardinality(Users(y)') =
                           IF y = x THEN Cardinality(Users(y)) - 1 ELSE Cardinality(Users(y))
<1>1. None \notin Bufs
  BY BcacheAssumption DEF Nodes
<1>2. Users(x)' = Users(x) \ {p} /\ p \in Users(x)
  BY <1>1 DEF Users
<1>3. ASSUME NEW y \in Bufs, y # x PROVE Users(y)' = Users(y)
  BY <1>1, <1>3 DEF Users
<1>4. Cardinality(Users(x)') = Cardinality(Users(x)) - 1
  BY <1>2, UsersCount, FS_RemoveElement, Zenon
<1> QED BY <1>3, <1>4

(* The invariant, while bget() has not panicked. *)
Going == /\ TypeInv /\ ListInv /\ OneCopy /\ HomeCurrent /\ panicked = 0
         /\ \A p \in Procs : ProcInv(p)
         /\ \A x \in Bufs : OwnInv(x) /\ RefInv(x) /\ DataInv(x)

(* None is not a buffer, a block or a process. *)
LEMMA NoneApart == None \notin Bufs /\ None \notin Blocks /\ None \notin Procs
BY BcacheAssumption DEF Nodes

(* bget() of a block that is cached: one more reference. *)
LEMMA CachedStep ==
  ASSUME Going, NEW p \in Procs, NEW blk \in Blocks, bget_cached(p, blk)
  PROVE  Going'
<1> DEFINE x == cached(blk)
<1>1. x \in Bufs /\ blockno[x] = blk
  <2> DEFINE S == {y \in Bufs : blockno[y] = blk}
  <2>1. x = First(next, S) /\ x # None /\ S \in SUBSET Bufs
    BY DEF bget_cached, cached
  <2>2. x \in S
    <3> HIDE DEF x, S
    <3> QED BY <2>1, Scans DEF Going
  <2> QED BY <2>2
<1>2. /\ pc[p] = "out" /\ pc' = [pc EXCEPT ![p] = "acquire"] /\ refcnt' = [refcnt EXCEPT ![x] = @ + 1]
      /\ b' = [b EXCEPT ![p] = x] /\ want' = [want EXCEPT ![p] = blk]
      /\ UNCHANGED <<blockno, valid, data, list, owner, pinned, disk, panicked, latest>>
  BY DEF bget_cached, Step, take_ref
<1> HIDE DEF x
<1>3. TypeInv /\ b[p] = None /\ ProcInv(p)
  BY <1>2 DEF Going, ProcInv
<1>4. TypeInv'
  BY <1>1, <1>2, <1>3 DEF TypeInv
<1>5. ListInv' /\ OneCopy' /\ HomeCurrent' /\ panicked' = 0
  BY <1>2 DEF Going, ListInv, OneCopy, HomeCurrent, list
<1>6. ASSUME NEW q \in Procs PROVE ProcInv(q)'
  <2>1. CASE q = p
    BY <1>1, <1>2, <1>3, <2>1, Zenon DEF TypeInv, ProcInv
  <2>2. CASE q # p
    BY <1>2, <1>3, <2>2, Zenon DEF Going, TypeInv, ProcInv
  <2> QED BY <2>1, <2>2, Zenon
<1>7. ASSUME NEW y \in Bufs PROVE OwnInv(y)'
  BY <1>2, <1>3, NoneApart DEF Going, TypeInv, OwnInv
<1>8. ASSUME NEW y \in Bufs PROVE RefInv(y)'
  <2>1. Cardinality(Users(y)') = IF y = x THEN Cardinality(Users(y)) + 1 ELSE Cardinality(Users(y))
    <3>1. b \in [Procs -> Bufs \cup {None}]
      BY <1>3, Zenon DEF TypeInv
    <3> QED BY <1>1, <1>2, <1>3, <3>1, UsersAdd, Zenon
  <2>2. /\ RefInv(y) /\ pinned' = pinned /\ pinned[y] \in {0, 1} /\ Cardinality(Users(y)) \in Nat
        /\ refcnt'[y] = IF y = x THEN refcnt[y] + 1 ELSE refcnt[y]
    BY <1>2, <1>3, UsersCount DEF Going, TypeInv
  <2> QED BY <2>1, <2>2 DEF RefInv
<1>9. ASSUME NEW y \in Bufs PROVE DataInv(y)'
  BY <1>2 DEF Going, DataInv
<1> QED BY <1>4, <1>5, <1>6, <1>7, <1>8, <1>9 DEF Going

(* bget() of a block that is not: the buffer it recycles is nobody's. *)
LEMMA RecycleStep ==
  ASSUME Going, NEW p \in Procs, NEW blk \in Blocks, bget_recycle(p, blk)
  PROVE  Going'
<1> DEFINE x == First(prev, unused)
<1>1. x \in Bufs /\ refcnt[x] = 0
  <2>1. x # None /\ unused \in SUBSET Bufs
    BY DEF bget_recycle, unused
  <2>2. x \in unused
    <3> HIDE DEF x
    <3> QED BY <2>1, Scans DEF Going, x
  <2> QED BY <2>2 DEF unused
<1>2. \A y \in Bufs : blockno[y] # blk
  <2> DEFINE S == {y \in Bufs : blockno[y] = blk}
  <2>1. First(next, S) = None /\ S \in SUBSET Bufs
    BY DEF bget_recycle, cached
  <2>2. S = {}
    <3> HIDE DEF S
    <3> QED BY <2>1, Scans, NoneApart DEF Going
  <2> QED BY <2>2
<1>3. /\ pc[p] = "out" /\ pc' = [pc EXCEPT ![p] = "acquire"] /\ refcnt' = [refcnt EXCEPT ![x] = 1]
      /\ blockno' = [blockno EXCEPT ![x] = blk] /\ valid' = [valid EXCEPT ![x] = 0]
      /\ b' = [b EXCEPT ![p] = x] /\ want' = [want EXCEPT ![p] = blk]
      /\ UNCHANGED <<data, list, owner, pinned, disk, panicked, latest>>
  BY DEF bget_recycle, Step, recycled
<1> HIDE DEF x
<1>4. TypeInv /\ b[p] = None /\ ProcInv(p)
  BY <1>3 DEF Going, ProcInv
<1>5. pinned[x] = 0 /\ Cardinality(Users(x)) = 0 /\ \A q \in Procs : b[q] # x
  <2>1. RefInv(x) /\ pinned[x] \in {0, 1} /\ Cardinality(Users(x)) \in Nat
    BY <1>1, <1>4, UsersCount DEF Going, TypeInv
  <2>2. pinned[x] = 0 /\ Cardinality(Users(x)) = 0
    BY <1>1, <2>1 DEF RefInv
  <2> QED BY <2>2, UsersCount
<1>6. TypeInv'
  BY <1>1, <1>3, <1>4 DEF TypeInv
<1>7. ListInv' /\ panicked' = 0
  BY <1>3 DEF Going, ListInv, list
<1>8. OneCopy'
  BY <1>1, <1>2, <1>3, <1>4 DEF Going, OneCopy, TypeInv
<1>9. HomeCurrent'
  <2> SUFFICES ASSUME NEW k \in Blocks, \A y \in Bufs : blockno'[y] = k => pinned'[y] = 0
               PROVE  disk'[k] = latest'[k]
    BY DEF HomeCurrent
  <2>1. \A y \in Bufs : y # x => blockno'[y] = blockno[y] /\ pinned'[y] = pinned[y]
    BY <1>3, <1>4 DEF TypeInv
  <2>2. \A y \in Bufs : blockno[y] = k => pinned[y] = 0
    BY <1>5, <2>1
  <2> QED BY <1>3, <2>2 DEF Going, HomeCurrent
<1>10. ASSUME NEW q \in Procs PROVE ProcInv(q)'
  <2>1. CASE q = p
    BY <1>1, <1>3, <1>4, <2>1 DEF TypeInv, ProcInv
  <2>2. CASE q # p
    <3>1. ProcInv(q) /\ b'[q] = b[q] /\ b[q] # x /\ pc'[q] = pc[q] /\ want'[q] = want[q]
      BY <1>3, <1>4, <1>5, <2>2, Zenon DEF Going, TypeInv
    <3>2. b[q] \in Bufs => blockno'[b[q]] = blockno[b[q]] /\ valid'[b[q]] = valid[b[q]]
      BY <1>3, <1>4, <3>1, Zenon DEF TypeInv
    <3> QED BY <1>3, <3>1, <3>2, Zenon DEF ProcInv
  <2> QED BY <2>1, <2>2
<1>11. ASSUME NEW y \in Bufs PROVE OwnInv(y)'
  BY <1>3, <1>4, NoneApart DEF Going, TypeInv, OwnInv
<1>12. ASSUME NEW y \in Bufs PROVE RefInv(y)'
  <2>1. Cardinality(Users(y)') = IF y = x THEN Cardinality(Users(y)) + 1 ELSE Cardinality(Users(y))
    <3>1. b \in [Procs -> Bufs \cup {None}]
      BY <1>4, Zenon DEF TypeInv
    <3> QED BY <1>1, <1>3, <1>4, <3>1, UsersAdd, Zenon
  <2>2. /\ RefInv(y) /\ pinned' = pinned /\ pinned[y] \in {0, 1} /\ Cardinality(Users(y)) \in Nat
        /\ refcnt'[y] = IF y = x THEN 1 ELSE refcnt[y]
    BY <1>3, <1>4, UsersCount DEF Going, TypeInv
  <2> QED BY <1>5, <2>1, <2>2 DEF RefInv
<1>13. ASSUME NEW y \in Bufs PROVE DataInv(y)'
  <2>1. CASE y = x
    BY <1>1, <1>3, <1>4, <1>5, <2>1 DEF TypeInv, DataInv
  <2>2. CASE y # x
    BY <1>3, <1>4, <2>2, Zenon DEF Going, TypeInv, DataInv
  <2> QED BY <2>1, <2>2
<1> QED BY <1>6, <1>7, <1>8, <1>9, <1>10, <1>11, <1>12, <1>13, Zenon DEF Going

(* The panic of bget(): every buffer is referenced. *)
LEMMA PanicStep ==
  ASSUME Going, NEW p \in Procs, NEW blk \in Blocks, bget_panic(p, blk)
  PROVE  IInv'
<1>1. \A x \in Bufs : refcnt[x] # 0
  <2>1. First(prev, unused) = None /\ unused \in SUBSET Bufs
    BY DEF bget_panic, unused
  <2>2. unused = {}
    BY <2>1, Scans, NoneApart DEF Going
  <2> QED BY <2>2 DEF unused
<1>2. /\ panicked' = 1
      /\ UNCHANGED <<blockno, valid, refcnt, data, next, prev, recent, owner, pinned, disk, pc, want, b,
                     latest>>
  BY DEF bget_panic, list
<1>3. TypeInv'
  BY <1>2 DEF Going, TypeInv
<1>4. ListInv' /\ OneCopy' /\ HomeCurrent'
  BY <1>2 DEF Going, ListInv, OneCopy, HomeCurrent
<1>5. \A q \in Procs : ProcInv(q)'
  BY <1>2, Zenon DEF Going, ProcInv
<1>6. \A x \in Bufs : OwnInv(x)' /\ RefInv(x)' /\ DataInv(x)'
  BY <1>2, Zenon DEF Going, OwnInv, RefInv, DataInv, Users
<1> QED BY <1>1, <1>2, <1>3, <1>4, <1>5, <1>6, Zenon DEF IInv

(* acquiresleep() of a buffer that nobody has locked. *)
LEMMA AcquireStep ==
  ASSUME Going, NEW p \in Procs, acquiresleep(p)
  PROVE  Going'
<1> DEFINE x == b[p]
<1>1. /\ pc[p] = "acquire" /\ pc' = [pc EXCEPT ![p] = "bread"] /\ owner[x] = None
      /\ owner' = [owner EXCEPT ![x] = p]
      /\ UNCHANGED <<blockno, valid, refcnt, data, next, prev, recent, pinned, disk, want, b, panicked,
                     latest>>
  BY DEF acquiresleep, Step, list
<1>2. TypeInv /\ ProcInv(p) /\ x \in Bufs
  BY <1>1 DEF Going, ProcInv
<1> HIDE DEF x
<1>3. TypeInv'
  BY <1>1, <1>2 DEF TypeInv
<1>4. ListInv' /\ OneCopy' /\ HomeCurrent' /\ panicked' = 0
  BY <1>1 DEF Going, ListInv, OneCopy, HomeCurrent
<1>5. ASSUME NEW q \in Procs PROVE ProcInv(q)'
  <2>1. CASE q = p
    BY <1>1, <1>2, <2>1, Zenon DEF TypeInv, ProcInv, x
  <2>2. CASE q # p
    <3>1. ProcInv(q) /\ pc'[q] = pc[q]
      BY <1>1, <1>2, <2>2 DEF Going, TypeInv
    <3>2. owner[b[q]] = q /\ b[q] \in Bufs => owner'[b[q]] = q
      BY <1>1, <1>2, NoneApart DEF TypeInv
    <3> QED BY <1>1, <3>1, <3>2 DEF ProcInv
  <2> QED BY <2>1, <2>2, Zenon
<1>6. ASSUME NEW y \in Bufs PROVE OwnInv(y)'
  <2>1. CASE y = x
    BY <1>1, <1>2, <2>1 DEF TypeInv, OwnInv, x
  <2>2. CASE y # x
    <3>1. OwnInv(y) /\ owner'[y] = owner[y] /\ owner[y] \in Procs \cup {None}
      BY <1>1, <1>2, <2>2 DEF Going, TypeInv
    <3> QED BY <1>1, <1>2, <3>1, Zenon DEF OwnInv, TypeInv
  <2> QED BY <2>1, <2>2, Zenon
<1>7. \A y \in Bufs : RefInv(y)' /\ DataInv(y)'
  BY <1>1, Zenon DEF Going, RefInv, DataInv, Users
<1> QED BY <1>3, <1>4, <1>5, <1>6, <1>7, Zenon DEF Going

(* bread(): a buffer that is not valid is not pinned, so the disk has the     *)
(* last value of its block.                                                   *)
LEMMA ReadStep ==
  ASSUME Going, NEW p \in Procs, bread(p)
  PROVE  Going'
<1> DEFINE x == b[p]
<1>1. /\ pc[p] = "bread" /\ pc' = [pc EXCEPT ![p] = "held"]
      /\ data' = IF valid[x] = 1 THEN data ELSE [data EXCEPT ![x] = disk[blockno[x]]]
      /\ valid' = [valid EXCEPT ![x] = 1]
      /\ UNCHANGED <<blockno, refcnt, next, prev, recent, owner, pinned, disk, want, b, panicked, latest>>
  BY Zenon DEF bread, Step, list
<1>2. TypeInv /\ ProcInv(p) /\ x \in Bufs /\ DataInv(x) /\ blockno[x] \in Blocks
  BY <1>1, Zenon DEF Going, ProcInv
<1> HIDE DEF x
<1>3. TypeInv'
  BY <1>1, <1>2 DEF TypeInv
<1>4. ListInv' /\ OneCopy' /\ HomeCurrent' /\ panicked' = 0
  BY <1>1 DEF Going, ListInv, OneCopy, HomeCurrent
<1>5. ASSUME NEW q \in Procs PROVE ProcInv(q)'
  <2>1. ProcInv(q) /\ (pc'[q] = IF q = p THEN "held" ELSE pc[q])
    BY <1>1, <1>2 DEF Going, TypeInv
  <2>2. \A y \in Bufs : valid'[y] = IF y = x THEN 1 ELSE valid[y]
    BY <1>1, <1>2, Zenon DEF TypeInv
  <2>3. CASE q = p
    BY <1>1, <1>2, <2>1, <2>2, <2>3 DEF ProcInv, x
  <2>4. CASE q # p
    BY <1>1, <2>1, <2>2, <2>4 DEF ProcInv
  <2> QED BY <2>3, <2>4
<1>6. ASSUME NEW y \in Bufs PROVE OwnInv(y)'
  BY <1>1, <1>2, NoneApart DEF Going, TypeInv, OwnInv
<1>7. ASSUME NEW y \in Bufs PROVE RefInv(y)'
  BY <1>1, Zenon DEF Going, RefInv, Users
<1>8. ASSUME NEW y \in Bufs PROVE DataInv(y)'
  <2>1. CASE y # x
    <3>1. DataInv(y) /\ data'[y] = data[y] /\ valid'[y] = valid[y]
      BY <1>1, <1>2, <2>1, Zenon DEF Going, TypeInv
    <3> QED BY <1>1, <3>1, Zenon DEF DataInv
  <2>2. CASE y = x /\ valid[x] = 1
    <3>1. data'[x] = data[x] /\ valid'[x] = 1
      BY <1>1, <1>2, <2>2 DEF TypeInv
    <3> QED BY <1>1, <1>2, <2>2, <3>1, Zenon DEF DataInv
  <2>3. CASE y = x /\ valid[x] # 1
    <3>1. data'[x] = disk[blockno[x]] /\ valid'[x] = 1
      BY <1>1, <1>2, <2>3, Zenon DEF TypeInv
    <3>2. pinned[x] = 0
      BY <1>2, <2>3, Zenon DEF DataInv, TypeInv
    <3>3. \A z \in Bufs : blockno[z] = blockno[x] => z = x
      BY <1>2, NoneApart DEF Going, OneCopy
    <3>4. disk[blockno[x]] = latest[blockno[x]]
      BY <1>2, <3>2, <3>3, Zenon DEF Going, HomeCurrent
    <3> QED BY <1>1, <1>2, <2>3, <3>1, <3>4, Zenon DEF DataInv
  <2> QED BY <2>1, <2>2, <2>3
<1> QED BY <1>3, <1>4, <1>5, <1>6, <1>7, <1>8, Zenon DEF Going

(* log_write() by the holder: the buffer has the last value, and is pinned    *)
(* until the disk has it.                                                     *)
LEMMA LogWriteStep ==
  ASSUME Going, NEW p \in Procs, NEW v \in Vals, log_write(p, v)
  PROVE  Going'
<1> DEFINE x == b[p]
<1>1. /\ pc[p] = "held" /\ data' = [data EXCEPT ![x] = v]
      /\ latest' = [latest EXCEPT ![blockno[x]] = v]
      /\ refcnt' = IF pinned[x] = 0 THEN [refcnt EXCEPT ![x] = @ + 1] ELSE refcnt
      /\ pinned' = [pinned EXCEPT ![x] = 1]
      /\ UNCHANGED <<blockno, valid, next, prev, recent, owner, disk, pc, want, b, panicked>>
  BY DEF log_write, bpin, list
<1>2. TypeInv /\ ProcInv(p) /\ x \in Bufs /\ blockno[x] \in Blocks /\ valid[x] = 1
  BY <1>1, Zenon DEF Going, ProcInv
<1>3. \A y \in Bufs : blockno[y] = blockno[x] => y = x
  BY <1>2, NoneApart, Zenon DEF Going, OneCopy
<1> HIDE DEF x
<1>4. TypeInv'
  <2>1. DOMAIN data' = Bufs /\ data' = [y \in Bufs |-> data'[y]]
    BY <1>1, <1>2 DEF TypeInv
  <2>2. latest' = [blk \in Blocks |-> latest'[blk]]
    BY <1>1, <1>2, Zenon DEF TypeInv
  <2>3. refcnt' \in [Bufs -> Int]
    BY <1>1, <1>2 DEF TypeInv
  <2>4. pinned' \in [Bufs -> {0, 1}]
    BY <1>1, <1>2 DEF TypeInv
  <2> QED BY <1>1, <1>2, <2>1, <2>2, <2>3, <2>4, Zenon DEF TypeInv
<1>5. ListInv' /\ OneCopy' /\ panicked' = 0
  BY <1>1 DEF Going, ListInv, OneCopy
<1>6. pinned'[x] = 1 /\ \A y \in Bufs : y # x => pinned'[y] = pinned[y]
  BY <1>1, <1>2 DEF TypeInv
<1>7. latest'[blockno[x]] = v /\ \A blk \in Blocks : blk # blockno[x] => latest'[blk] = latest[blk]
  BY <1>1, <1>2 DEF TypeInv
<1>8. HomeCurrent'
  <2> SUFFICES ASSUME NEW blk \in Blocks, \A y \in Bufs : blockno[y] = blk => pinned'[y] = 0
               PROVE  disk[blk] = latest'[blk]
    BY <1>1, Zenon DEF HomeCurrent
  <2>1. blk # blockno[x]
    BY <1>2, <1>6
  <2>2. \A y \in Bufs : blockno[y] = blk => pinned[y] = 0
    BY <1>6, <2>1, Zenon
  <2>3. disk[blk] = latest[blk]
    BY <2>2, Zenon DEF Going, HomeCurrent
  <2> QED BY <1>7, <2>1, <2>3, Zenon
<1>9. \A q \in Procs : ProcInv(q)'
  BY <1>1, Zenon DEF Going, ProcInv
<1>10. \A y \in Bufs : OwnInv(y)'
  BY <1>1, Zenon DEF Going, OwnInv
<1>11. ASSUME NEW y \in Bufs PROVE RefInv(y)'
  <2>1. Users(y)' = Users(y) /\ Cardinality(Users(y)) \in Nat
    BY <1>1, UsersCount, Zenon DEF Users
  <2>2. RefInv(y) /\ pinned[y] \in {0, 1}
    BY <1>2 DEF Going, TypeInv
  <2>3. refcnt'[y] = IF y = x /\ pinned[x] = 0 THEN refcnt[y] + 1 ELSE refcnt[y]
    BY <1>1, <1>2 DEF TypeInv
  <2> QED BY <1>6, <2>1, <2>2, <2>3 DEF RefInv
<1>12. ASSUME NEW y \in Bufs PROVE DataInv(y)'
  <2>1. DataInv(y) /\ (data'[y] = IF y = x THEN v ELSE data[y])
    BY <1>1, <1>2, Zenon DEF Going, TypeInv
  <2>2. CASE y = x
    BY <1>1, <1>2, <1>7, <2>1, <2>2, Zenon DEF DataInv
  <2>3. CASE y # x
    BY <1>1, <1>3, <1>6, <1>7, <2>1, <2>3, Zenon DEF DataInv
  <2> QED BY <2>2, <2>3
<1> QED BY <1>4, <1>5, <1>8, <1>9, <1>10, <1>11, <1>12, Zenon DEF Going

(* bwrite() and bunpin(): the disk has the last value when the pin goes. *)
LEMMA WriteStep ==
  ASSUME Going, NEW p \in Procs, bwrite(p)
  PROVE  Going'
<1> DEFINE x == b[p]
<1>1. /\ pc[p] = "held" /\ pinned[x] = 1 /\ disk' = [disk EXCEPT ![blockno[x]] = data[x]]
      /\ refcnt' = [refcnt EXCEPT ![x] = @ - 1] /\ pinned' = [pinned EXCEPT ![x] = 0]
      /\ UNCHANGED <<blockno, valid, data, next, prev, recent, owner, pc, want, b, panicked, latest>>
  BY DEF bwrite, transfer, bunpin, list
<1>2. /\ TypeInv /\ x \in Bufs /\ blockno[x] \in Blocks /\ valid[x] = 1
      /\ data[x] = latest[blockno[x]]
  BY <1>1, Zenon DEF Going, ProcInv, DataInv
<1> HIDE DEF x
<1>3. TypeInv'
  <2>1. disk' = [blk \in Blocks |-> disk'[blk]]
    BY <1>1, <1>2, Zenon DEF TypeInv
  <2>2. refcnt' \in [Bufs -> Int]
    BY <1>1, <1>2 DEF TypeInv
  <2>3. pinned' \in [Bufs -> {0, 1}]
    BY <1>1, <1>2, Zenon DEF TypeInv
  <2> QED BY <1>1, <1>2, <2>1, <2>2, <2>3, Zenon DEF TypeInv
<1>4. ListInv' /\ OneCopy' /\ panicked' = 0
  BY <1>1 DEF Going, ListInv, OneCopy
<1>5. pinned'[x] = 0 /\ \A y \in Bufs : y # x => pinned'[y] = pinned[y]
  BY <1>1, <1>2 DEF TypeInv
<1>6. HomeCurrent'
  <2> SUFFICES ASSUME NEW blk \in Blocks, \A y \in Bufs : blockno[y] = blk => pinned'[y] = 0
               PROVE  disk'[blk] = latest[blk]
    BY <1>1, Zenon DEF HomeCurrent
  <2>1. disk'[blk] = IF blk = blockno[x] THEN data[x] ELSE disk[blk]
    BY <1>1, <1>2 DEF TypeInv
  <2>2. CASE blk = blockno[x]
    BY <1>2, <2>1, <2>2, Zenon
  <2>3. CASE blk # blockno[x]
    <3>1. \A y \in Bufs : blockno[y] = blk => pinned[y] = 0
      BY <1>5, <2>3, Zenon
    <3> QED BY <2>1, <2>3, <3>1, Zenon DEF Going, HomeCurrent
  <2> QED BY <2>2, <2>3
<1>7. \A q \in Procs : ProcInv(q)'
  BY <1>1, Zenon DEF Going, ProcInv
<1>8. \A y \in Bufs : OwnInv(y)'
  BY <1>1, Zenon DEF Going, OwnInv
<1>9. ASSUME NEW y \in Bufs PROVE RefInv(y)'
  <2>1. Users(y)' = Users(y) /\ Cardinality(Users(y)) \in Nat
    BY <1>1, UsersCount, Zenon DEF Users
  <2>2. RefInv(y) /\ pinned[y] \in {0, 1}
    BY <1>2 DEF Going, TypeInv
  <2>3. refcnt'[y] = IF y = x THEN refcnt[y] - 1 ELSE refcnt[y]
    BY <1>1, <1>2 DEF TypeInv
  <2> QED BY <1>1, <1>5, <2>1, <2>2, <2>3 DEF RefInv
<1>10. ASSUME NEW y \in Bufs PROVE DataInv(y)'
  <2>1. DataInv(y) /\ (pinned'[y] = 1 => pinned[y] = 1)
    BY <1>1, <1>2, <1>5, Zenon DEF Going
  <2> QED BY <1>1, <2>1, Zenon DEF DataInv
<1> QED BY <1>3, <1>4, <1>6, <1>7, <1>8, <1>9, <1>10, Zenon DEF Going

(* brelse(): the sleep-lock is free again, the reference still counted. *)
LEMMA ReleaseStep ==
  ASSUME Going, NEW p \in Procs, brelse(p)
  PROVE  Going'
<1> DEFINE x == b[p]
<1>1. /\ pc[p] = "held" /\ pc' = [pc EXCEPT ![p] = "brelse"] /\ owner' = [owner EXCEPT ![x] = None]
      /\ UNCHANGED <<blockno, valid, refcnt, data, next, prev, recent, pinned, disk, want, b, panicked,
                     latest>>
  BY DEF brelse, Step, list
<1>2. TypeInv /\ ProcInv(p) /\ x \in Bufs /\ owner[x] = p
  BY <1>1 DEF Going, ProcInv
<1> HIDE DEF x
<1>3. TypeInv'
  BY <1>1, <1>2 DEF TypeInv
<1>4. ListInv' /\ OneCopy' /\ HomeCurrent' /\ panicked' = 0
  BY <1>1 DEF Going, ListInv, OneCopy, HomeCurrent
<1>5. ASSUME NEW q \in Procs PROVE ProcInv(q)'
  <2>1. CASE q = p
    BY <1>1, <1>2, <2>1, Zenon DEF TypeInv, ProcInv, x
  <2>2. CASE q # p
    <3>1. ProcInv(q) /\ pc'[q] = pc[q]
      BY <1>1, <1>2, <2>2 DEF Going, TypeInv
    <3>2. owner[b[q]] = q /\ b[q] \in Bufs => owner'[b[q]] = q
      BY <1>1, <1>2, <2>2 DEF TypeInv
    <3> QED BY <1>1, <3>1, <3>2 DEF ProcInv
  <2> QED BY <2>1, <2>2
<1>6. ASSUME NEW y \in Bufs PROVE OwnInv(y)'
  <2>1. CASE y = x
    BY <1>1, <1>2, <2>1 DEF TypeInv, OwnInv
  <2>2. CASE y # x
    <3>1. OwnInv(y) /\ owner'[y] = owner[y] /\ owner[y] \in Procs \cup {None}
      BY <1>1, <1>2, <2>2, Zenon DEF Going, TypeInv
    <3>2. owner[y] # None => owner[y] \in Procs /\ owner[y] # p
      BY <2>2, <3>1 DEF OwnInv, x
    <3>3. owner[y] # None => pc'[owner[y]] = pc[owner[y]]
      BY <1>1, <1>2, <3>2 DEF TypeInv
    <3> QED BY <1>1, <3>1, <3>3, Zenon DEF OwnInv
  <2> QED BY <2>1, <2>2
<1>7. \A y \in Bufs : RefInv(y)' /\ DataInv(y)'
  BY <1>1, Zenon DEF Going, RefInv, DataInv, Users
<1> QED BY <1>3, <1>4, <1>5, <1>6, <1>7, Zenon DEF Going

(* brelse(), under bcache.lock: the count loses the reference of p alone; a   *)
(* buffer that nobody has goes to the front of the list.                      *)
LEMMA DerefStep ==
  ASSUME Going, NEW p \in Procs, brelse_deref(p)
  PROVE  Going'
<1> DEFINE x == b[p]
<1>1. /\ pc[p] = "brelse" /\ pc' = [pc EXCEPT ![p] = "out"]
      /\ refcnt' = [refcnt EXCEPT ![x] = @ - 1]
      /\ b' = [b EXCEPT ![p] = None] /\ want' = [want EXCEPT ![p] = None]
      /\ UNCHANGED <<blockno, valid, data, owner, pinned, disk, panicked, latest>>
  BY DEF brelse_deref, Step
<1>2. TypeInv /\ ProcInv(p) /\ x \in Bufs
  BY <1>1, Zenon DEF Going, ProcInv
<1>3. ListInv'
  <2>1. CASE refcnt[x] = 1
    BY <1>2, <2>1, MoveFront, Zenon DEF brelse_deref, Going
  <2>2. CASE refcnt[x] # 1
    <3>1. UNCHANGED <<next, prev, recent>>
      BY <2>2 DEF brelse_deref, list
    <3> QED BY <3>1 DEF Going, ListInv
  <2> QED BY <2>1, <2>2
<1>4. \A y \in Bufs : Cardinality(Users(y)') =
                        IF y = x THEN Cardinality(Users(y)) - 1 ELSE Cardinality(Users(y))
  <2>1. b \in [Procs -> Bufs \cup {None}]
    BY <1>2, Zenon DEF TypeInv
  <2> QED BY <1>1, <1>2, <2>1, UsersDrop, Zenon
<1> HIDE DEF x
<1>5. TypeInv'
  <2>1. refcnt' \in [Bufs -> Int]
    BY <1>1, <1>2 DEF TypeInv
  <2>2. b' \in [Procs -> Bufs \cup {None}]
    BY <1>1, <1>2 DEF TypeInv
  <2>3. want' \in [Procs -> Blocks \cup {None}]
    BY <1>1, <1>2, Zenon DEF TypeInv
  <2>4. pc' \in [Procs -> {"out", "acquire", "bread", "held", "brelse"}]
    BY <1>1, <1>2, Zenon DEF TypeInv
  <2> QED BY <1>1, <1>2, <2>1, <2>2, <2>3, <2>4, Zenon DEF TypeInv
<1>6. OneCopy' /\ HomeCurrent' /\ panicked' = 0
  BY <1>1, Zenon DEF Going, OneCopy, HomeCurrent
<1>7. /\ \A q \in Procs : q # p => pc'[q] = pc[q] /\ b'[q] = b[q] /\ want'[q] = want[q]
      /\ pc'[p] = "out" /\ b'[p] = None
  BY <1>1, <1>2, Zenon DEF TypeInv
<1>8. ASSUME NEW q \in Procs PROVE ProcInv(q)'
  <2>1. CASE q = p
    BY <1>7, <2>1, Zenon DEF ProcInv
  <2>2. CASE q # p
    <3>1. ProcInv(q) /\ pc'[q] = pc[q] /\ b'[q] = b[q] /\ want'[q] = want[q]
      BY <1>7, <2>2 DEF Going
    <3> QED BY <1>1, <3>1, Zenon DEF ProcInv
  <2> QED BY <2>1, <2>2
<1>9. ASSUME NEW y \in Bufs PROVE OwnInv(y)'
  <2>1. OwnInv(y) /\ owner[y] \in Procs \cup {None} /\ owner'[y] = owner[y]
    BY <1>1, <1>2 DEF Going, TypeInv
  <2>2. owner[y] # None => owner[y] # p /\ owner[y] \in Procs
    BY <1>1, <2>1, Zenon DEF OwnInv
  <2>3. owner[y] # None => pc'[owner[y]] = pc[owner[y]] /\ b'[owner[y]] = b[owner[y]]
    BY <1>7, <2>2, Zenon
  <2> QED BY <2>1, <2>3, Zenon DEF OwnInv
<1>10. ASSUME NEW y \in Bufs PROVE RefInv(y)'
  <2>1. refcnt'[y] = IF y = x THEN refcnt[y] - 1 ELSE refcnt[y]
    BY <1>1, <1>2 DEF TypeInv
  <2>2. RefInv(y) /\ pinned'[y] = pinned[y] /\ pinned[y] \in {0, 1} /\ Cardinality(Users(y)) \in Nat
    BY <1>1, <1>2, UsersCount, Zenon DEF Going, TypeInv
  <2> QED BY <1>4, <2>1, <2>2 DEF RefInv
<1>11. \A y \in Bufs : DataInv(y)'
  BY <1>1, Zenon DEF Going, DataInv
<1> QED BY <1>3, <1>5, <1>6, <1>8, <1>9, <1>10, <1>11, Zenon DEF Going

(* binit() leaves the buffers on the list from the last to the first. *)
LEMMA InitList == ASSUME Init PROVE ListInv
<1>1. NBUF \in Nat \ {0}
  BY BcacheAssumption
<1>2. /\ next = [x \in Nodes |-> IF x = head THEN NBUF ELSE x - 1]
      /\ prev = [x \in Nodes |-> IF x = NBUF THEN head ELSE x + 1]
      /\ recent = [k \in 1..NBUF |-> NBUF + 1 - k]
  BY Zenon DEF Init
<1>3. head = 0 /\ Nodes = 0..NBUF /\ Bufs = 1..NBUF
  BY <1>1 DEF head, Nodes, Bufs
<1>4. \A k \in 1..NBUF : recent[k] = (NBUF + 1) - k
  BY <1>1, <1>2
<1>5. next \in [0..NBUF -> 0..NBUF] /\ prev \in [0..NBUF -> 0..NBUF]
  BY <1>1, <1>2, <1>3
<1>6. recent \in [1..NBUF -> 1..NBUF]
  BY <1>1, <1>2
<1>7. \A x \in 1..NBUF : \E k \in 1..NBUF : recent[k] = x
  <2> SUFFICES ASSUME NEW x \in 1..NBUF PROVE \E k \in 1..NBUF : recent[k] = x
    OBVIOUS
  <2>1. (NBUF + 1) - x \in 1..NBUF /\ recent[(NBUF + 1) - x] = x
    BY <1>1, <1>4
  <2> QED BY <2>1, Zenon
<1>8. \A j, k \in 1..NBUF : recent[j] = recent[k] => j = k
  BY <1>1, <1>4
<1>9. /\ next[0] = recent[1] /\ next[recent[NBUF]] = 0
      /\ prev[0] = recent[NBUF] /\ prev[recent[1]] = 0
  BY <1>1, <1>2, <1>3, <1>4
<1>10. \A k \in 1..(NBUF - 1) : next[recent[k]] = recent[k + 1] /\ prev[recent[k + 1]] = recent[k]
  <2> SUFFICES ASSUME NEW k \in 1..(NBUF - 1)
               PROVE  next[recent[k]] = recent[k + 1] /\ prev[recent[k + 1]] = recent[k]
    OBVIOUS
  <2>1. recent[k] = (NBUF + 1) - k /\ recent[k + 1] = NBUF - k
    BY <1>1, <1>4
  <2> QED BY <1>1, <1>2, <1>3, <2>1
<1> QED BY <1>3, <1>5, <1>6, <1>7, <1>8, <1>9, <1>10, Zenon DEF ListInv

(* The initial states. *)
LEMMA InitInv == Init => IInv
<1> SUFFICES ASSUME Init PROVE IInv
  OBVIOUS
<1>1. TypeInv
  <2>1. /\ blockno \in [Bufs -> Blocks \cup {None}] /\ valid \in [Bufs -> {0, 1}]
        /\ refcnt \in [Bufs -> Int] /\ owner \in [Bufs -> Procs \cup {None}]
        /\ pinned \in [Bufs -> {0, 1}]
    BY DEF Init
  <2>2. /\ pc \in [Procs -> {"out", "acquire", "bread", "held", "brelse"}]
        /\ want \in [Procs -> Blocks \cup {None}] /\ b \in [Procs -> Bufs \cup {None}]
    BY DEF Init
  <2>3. /\ DOMAIN data = Bufs /\ data = [x \in Bufs |-> data[x]]
        /\ disk = [blk \in Blocks |-> disk[blk]] /\ latest = [blk \in Blocks |-> latest[blk]]
    BY DEF Init
  <2> QED BY <2>1, <2>2, <2>3 DEF TypeInv, Init
<1>2. OneCopy /\ HomeCurrent /\ panicked = 0
  BY DEF Init, OneCopy, HomeCurrent
<1>3. \A p \in Procs : ProcInv(p)
  BY DEF Init, ProcInv
<1>4. ASSUME NEW x \in Bufs PROVE OwnInv(x) /\ RefInv(x) /\ DataInv(x)
  <2>1. owner[x] = None /\ refcnt[x] = 0 /\ pinned[x] = 0 /\ valid[x] = 0
    BY DEF Init
  <2>2. Cardinality(Users(x)) = 0
    BY UsersCount, NoneApart, Zenon DEF Init
  <2> QED BY <2>1, <2>2 DEF OwnInv, RefInv, DataInv
<1> QED BY <1>1, <1>2, <1>3, <1>4, InitList DEF IInv

(* Every step keeps the invariant. *)
LEMMA NextInv == IInv /\ [Next]_vars => IInv'
<1> SUFFICES ASSUME IInv, [Next]_vars PROVE IInv'
  OBVIOUS
<1>0. panicked = 0 => Going
  BY Zenon DEF IInv, Going
<1>1. Going' => IInv'
  BY DEF IInv, Going
<1>2. CASE UNCHANGED vars
  <2>1. UNCHANGED <<blockno, valid, refcnt, data, next, prev, recent, owner, pinned, disk, pc, want, b,
                    panicked, latest>>
    BY <1>2, Zenon DEF vars, list
  <2>2. TypeInv' /\ OneCopy' /\ HomeCurrent'
    BY <2>1, Zenon DEF IInv, TypeInv, OneCopy, HomeCurrent
  <2>3. ListInv'
    BY <2>1 DEF IInv, ListInv
  <2>4. \A p \in Procs : ProcInv(p)'
    BY <2>1, Zenon DEF IInv, ProcInv
  <2>5. \A x \in Bufs : OwnInv(x)' /\ RefInv(x)' /\ DataInv(x)'
    BY <2>1, Zenon DEF IInv, OwnInv, RefInv, DataInv, Users
  <2> QED BY <2>1, <2>2, <2>3, <2>4, <2>5, Zenon DEF IInv
<1>3. CASE panic
  BY <1>3, <1>2, Zenon DEF panic
<1>4. ASSUME Going, NEW p \in Procs, NEW blk \in Blocks, bget(p, blk) PROVE IInv'
  BY <1>1, <1>4, CachedStep, RecycleStep, PanicStep, Zenon DEF bget
<1>5. ASSUME Going, NEW p \in Procs, acquiresleep(p) PROVE IInv'
  BY <1>1, <1>5, AcquireStep, Zenon
<1>6. ASSUME Going, NEW p \in Procs, bread(p) PROVE IInv'
  BY <1>1, <1>6, ReadStep, Zenon
<1>7. ASSUME Going, NEW p \in Procs, NEW v \in Vals, log_write(p, v) PROVE IInv'
  BY <1>1, <1>7, LogWriteStep, Zenon
<1>8. ASSUME Going, NEW p \in Procs, bwrite(p) PROVE IInv'
  BY <1>1, <1>8, WriteStep, Zenon
<1>9. ASSUME Going, NEW p \in Procs, brelse(p) PROVE IInv'
  BY <1>1, <1>9, ReleaseStep, Zenon
<1>10. ASSUME Going, NEW p \in Procs, brelse_deref(p) PROVE IInv'
  BY <1>1, <1>10, DerefStep, Zenon
<1> QED BY <1>0, <1>2, <1>3, <1>4, <1>5, <1>6, <1>7, <1>8, <1>9, <1>10, Zenon DEF Next

(* The invariant of the buffer cache, for any number of buffers, blocks and   *)
(* processes: what bget(), bread(), brelse(), log_write() and bwrite() keep.  *)
THEOREM CacheInvariant == Spec => []IInv
BY InitInv, NextInv, PTL DEF Spec

(* bread() returns the one copy of the block that was asked for, locked by    *)
(* its caller, with the last value anybody wrote; a block that the log has    *)
(* not pinned is on the disk.                                                 *)
THEOREM CoherentCorrect == Spec => []Coherent
<1>1. IInv => Coherent
  <2> SUFFICES ASSUME IInv PROVE HeldIsLatest
    BY Zenon DEF IInv, Coherent
  <2> SUFFICES ASSUME NEW p \in Procs, pc[p] = "held"
               PROVE  /\ blockno[b[p]] = want[p] /\ owner[b[p]] = p
                      /\ data[b[p]] = latest[want[p]]
    BY Zenon DEF HeldIsLatest
  <2>1. ProcInv(p) /\ b[p] \in Bufs
    BY Zenon DEF IInv, ProcInv
  <2> QED BY <2>1 DEF IInv, ProcInv, DataInv
<1> QED BY <1>1, CacheInvariant, PTL

(* The scans of bget() meet every buffer once, in the order of use, and       *)
(* panic("bget: no buffers") comes only when each buffer is really taken.     *)
THEOREM ScansCorrect == Spec => []ScansSeeAll
<1>1. IInv => ScansSeeAll
  <2> SUFFICES ASSUME IInv PROVE ScansSeeAll
    OBVIOUS
  <2>1. ListSorted
    BY Walks, Zenon DEF IInv, ListSorted
  <2>2. ASSUME panicked = 1, NEW x \in Bufs PROVE pinned[x] = 1 \/ \E p \in Procs : b[p] = x
    <3>1. refcnt[x] # 0 /\ RefInv(x) /\ pinned[x] \in {0, 1}
      BY <2>2 DEF IInv, TypeInv
    <3>2. pinned[x] = 0 => Cardinality(Users(x)) # 0
      BY <3>1, UsersCount DEF RefInv
    <3> QED BY <3>1, <3>2, UsersCount, Zenon
  <2> QED BY <2>1, <2>2, Zenon DEF ScansSeeAll, PanicOnlyFull
<1> QED BY <1>1, CacheInvariant, PTL
==============================================================================
