----------------------------- MODULE VirtioProofs -----------------------------
(***************************************************************************)
(* The disk driver finishes what it returns, gives every descriptor to one *)
(* request at a time and sleeps for a reason, for every number of          *)
(* processes and every size of the rings.                                  *)
(***************************************************************************)
EXTENDS Virtio, FiniteSetTheorems, WellFoundedInduction, TLAPS

(* A ring holds the heads between two of its counters, each once, and no      *)
(* other: lo is where its reader looks next, hi where its writer puts one.    *)
Counters == 0..(IDX - 1)
Ring(r, lo, hi) ==
  /\ r \in [Desc -> Desc \cup {None}] /\ lo \in Counters /\ hi \in Counters
  /\ \A i, j \in Desc : r[i] = r[j] /\ r[i] # None => i = j
  /\ \E n \in 0..NUM : /\ hi = (lo + n) % IDX
                       /\ \A k \in Desc : r[(lo + k) % NUM] # None <=> k < n
Held(r) == {r[k] : k \in Desc} \ {None}

TypeInv ==
  /\ free \in SUBSET Desc
  /\ addr \in [Desc -> Procs \cup {None}] /\ link \in [Desc -> Desc \cup {None}]
  /\ DOMAIN type = Desc /\ status \in [Desc -> {0, 255}] /\ info \in [Desc -> Procs \cup {None}]
  /\ irq \in {0, 1} /\ intr \in {0, 1} /\ taken \in SUBSET Desc
  /\ bdisk \in [Procs -> {0, 1}] /\ DOMAIN data = Procs /\ DOMAIN block = Procs
  /\ pc \in [Procs -> {"out", "alloc", "nodesc", "asleep", "woken"}]
  /\ idx0 \in [Procs -> Desc \cup {None}]
  /\ panicked = 0

(* The three descriptors of a request. *)
d1(p) == idx0[p]
d2(p) == link[d1(p)]
d3(p) == link[d2(p)]
Three(p) == {d1(p), d2(p), d3(p)}

ReqInv(p) ==
  /\ d1(p) \in Desc \ free /\ d2(p) \in Desc \ free /\ d3(p) \in Desc \ free /\ link[d3(p)] = None
  /\ d1(p) # d2(p) /\ d1(p) # d3(p) /\ d2(p) # d3(p)
  /\ addr[d2(p)] = p /\ info[d1(p)] = p

(* The requests that the driver has not seen finished; where each of them is. *)
Heads == {idx0[p] : p \in {q \in Busy : bdisk[q] = 1}}
PlaceInv ==
  /\ Held(avail) \subseteq Heads /\ taken \subseteq Heads /\ Held(used) \subseteq Heads
  /\ Held(avail) \cap taken = {} /\ Held(avail) \cap Held(used) = {} /\ taken \cap Held(used) = {}
  /\ \A id \in Held(used) : status[id] = 0

(* A process that is not busy, or whose request is served, has its data. *)
DataInv(p) ==
  (p \notin Busy \/ bdisk[p] = 0 \/ idx0[p] \in Held(used)) => data[p] = block[p]

(* The descriptors that are not free belong to one request each. *)
Chains ==
  /\ \A p \in Busy : ReqInv(p)
  /\ \A p, q \in Busy : p # q => Three(p) \cap Three(q) = {}
  /\ \A d \in Desc \ free : \E p \in Busy : d \in Three(p)

IInv ==
  /\ TypeInv /\ Ring(avail, seen, avail_idx) /\ Ring(used, used_idx, usedidx) /\ PlaceInv
  /\ Chains /\ (\A p \in Procs : DataInv(p)) /\ SleepsForACause

------------------------------------------------------------------------------
(* Counters modulo 2^16 and indices modulo NUM. *)


(* Division with remainder. *)
LEMMA DivMod ==
  ASSUME NEW m \in Nat \ {0}, NEW x \in Int
  PROVE  x = m * (x \div m) + (x % m) /\ x \div m \in Int /\ x % m \in 0..(m - 1)
OBVIOUS

(* The remainder is unique. *)
LEMMA ModUnique ==
  ASSUME NEW m \in Nat \ {0}, NEW q \in Int, NEW r \in 0..(m - 1)
  PROVE  (m * q + r) % m = r
OBVIOUS

(* Numbers less than m apart fall into different slots of m. *)
LEMMA ModApart ==
  ASSUME NEW m \in Nat \ {0}, NEW x \in Int, NEW y \in Int, x < y, y < x + m
  PROVE  x % m # y % m
<1> SUFFICES ASSUME x % m = y % m PROVE FALSE
  OBVIOUS
<1>1. PICK i \in Int : x = m * i + (x % m)
  BY DivMod, Zenon
<1>2. PICK j \in Int : y = m * j + (x % m)
  BY DivMod, Zenon
<1>3. x % m \in Int
  BY DivMod
<1>4. y - x = m * j - m * i
  BY <1>1, <1>2, <1>3
<1>5. m * j - m * i = m * (j - i)
  OBVIOUS
<1>6. ASSUME NEW d \in Int, 0 < m * d, m * d < m PROVE FALSE
  BY <1>6
<1> QED BY <1>4, <1>5, <1>6

(* A multiple of m does not change the slot. *)
LEMMA ModShift ==
  ASSUME NEW m \in Nat \ {0}, NEW x \in Int, NEW n \in Nat, n % m = 0
  PROVE  (x + n) % m = x % m
<1> DEFINE q == (x \div m) + (n \div m)
<1>1. x + n = m * q + (x % m) /\ q \in Int
  BY DivMod
<1>2. x % m \in 0..(m - 1)
  BY DivMod
<1> HIDE DEF q
<1> QED BY <1>1, <1>2, ModUnique, Zenon

(* A counter that is at most one turn out of range. *)
LEMMA Wrap ==
  ASSUME NEW x \in 0..(2 * IDX - 1)
  PROVE  x % IDX = IF x < IDX THEN x ELSE x - IDX
BY RingAssumption

(* A counter that wraps keeps its place in the ring. *)
LEMMA Place ==
  ASSUME NEW x \in 0..(2 * IDX - 1), NEW k \in Nat
  PROVE  ((x % IDX) + k) % NUM = (x + k) % NUM
<1>1. NUM \in Nat \ {0} /\ IDX \in Nat /\ IDX % NUM = 0
  BY RingAssumption
<1>2. CASE x < IDX
  BY <1>2, Wrap
<1>3. CASE x >= IDX
  <2>1. (x - IDX) + k \in Int /\ ((x - IDX) + k) + IDX = x + k
    BY <1>1
  <2>2. (((x - IDX) + k) + IDX) % NUM = ((x - IDX) + k) % NUM
    BY <1>1, <2>1, ModShift, Zenon
  <2> QED BY <1>1, <1>3, <2>1, <2>2, Wrap
<1> QED BY <1>1, <1>2, <1>3

(* Two entries of the ring have different places. *)
LEMMA Places ==
  ASSUME NEW lo \in Nat, NEW j \in Desc, NEW k \in Desc, (lo + j) % NUM = (lo + k) % NUM
  PROVE  j = k
<1>1. NUM \in Nat \ {0} /\ j \in Int /\ k \in Int /\ lo + j \in Int /\ lo + k \in Int
  BY RingAssumption DEF Desc
<1>2. CASE j < k
  <2>1. lo + j < lo + k /\ lo + k < (lo + j) + NUM
    BY <1>1, <1>2 DEF Desc
  <2> QED BY <1>1, <2>1, ModApart, Zenon
<1>3. CASE k < j
  <2>1. lo + k < lo + j /\ lo + j < (lo + k) + NUM
    BY <1>1, <1>3 DEF Desc
  <2> QED BY <1>1, <2>1, ModApart, Zenon
<1> QED BY <1>1, <1>2, <1>3

(* A place in the ring. *)
LEMMA PlaceType == ASSUME NEW x \in Nat PROVE x % NUM \in Desc
BY RingAssumption DEF Desc

(* NUM - 1 descriptors do not fill a ring: a head that is not on it finds     *)
(* room.                                                                      *)
LEMMA Room ==
  ASSUME NEW r \in [Desc -> Desc \cup {None}], NEW x \in Desc, x \notin Held(r),
         \A i, j \in Desc : r[i] = r[j] /\ r[i] # None => i = j
  PROVE  \E i \in Desc : r[i] = None
<1> SUFFICES ASSUME \A i \in Desc : r[i] # None PROVE FALSE
  OBVIOUS
<1>1. r \in [Desc -> Desc \ {x}]
  BY DEF Held
<1>2. IsFiniteSet(Desc) /\ Cardinality(Desc) \in Nat
  BY RingAssumption, FS_Interval, FS_CardinalityType DEF Desc
<1>3. IsFiniteSet(Desc \ {x}) /\ Cardinality(Desc \ {x}) = Cardinality(Desc) - 1
  BY <1>2, FS_RemoveElement
<1>4. Cardinality(Desc \ {x}) < Cardinality(Desc)
  BY <1>2, <1>3
<1>5. \E i, j \in Desc : i # j /\ r[i] = r[j]
  BY <1>1, <1>2, <1>3, <1>4, FS_PigeonHole
<1> QED BY <1>5

Pushed(r, hi, x) == [r EXCEPT ![hi % NUM] = x]

(* A head that is not on the ring is put on it. *)
LEMMA Push ==
  ASSUME NEW r, NEW lo, NEW hi, Ring(r, lo, hi), NEW x \in Desc, x \notin Held(r)
  PROVE  /\ Ring(Pushed(r, hi, x), lo, plus1(hi))
         /\ Held(Pushed(r, hi, x)) = Held(r) \cup {x}
<1> DEFINE s == Pushed(r, hi, x)
<1>1. /\ r \in [Desc -> Desc \cup {None}] /\ lo \in Counters /\ hi \in Counters
      /\ \A i, j \in Desc : r[i] = r[j] /\ r[i] # None => i = j
  BY Zenon DEF Ring
<1>2. PICK n \in 0..NUM : /\ hi = (lo + n) % IDX
                          /\ \A k \in Desc : r[(lo + k) % NUM] # None <=> k < n
  BY Zenon DEF Ring
<1>3. NUM \in Nat \ {0} /\ IDX \in Nat \ {0} /\ IDX > NUM /\ None \notin Desc
  BY RingAssumption
<1>4. lo \in Nat /\ hi \in Nat /\ n \in Nat /\ lo < IDX /\ hi < IDX
  BY <1>1, <1>2, <1>3 DEF Counters
<1>5. \A i \in Desc : \E k \in Desc : i = (lo + k) % NUM
  <2> SUFFICES ASSUME NEW i \in Desc PROVE \E k \in Desc : i = (lo + k) % NUM
    OBVIOUS
  <2>1. i \in 0..(NUM - 1) /\ i - lo \in Int
    BY <1>3, <1>4 DEF Desc
  <2> DEFINE k == (i - lo) % NUM
  <2>2. PICK q \in Int : i - lo = NUM * q + k
    BY <1>3, <2>1, DivMod, Zenon
  <2>3. k \in 0..(NUM - 1)
    BY <1>3, <2>1, DivMod, Zenon
  <2> HIDE DEF k
  <2>4. lo + k = NUM * (-q) + i /\ -q \in Int
    BY <1>3, <1>4, <2>1, <2>2, <2>3
  <2>5. (lo + k) % NUM = i
    BY <1>3, <2>1, <2>4, ModUnique
  <2> QED BY <2>3, <2>5 DEF Desc
<1>6. n < NUM
  <2>1. PICK i \in Desc : r[i] = None
    BY <1>1, Room
  <2>2. PICK k \in Desc : i = (lo + k) % NUM
    BY <1>5
  <2>3. ~(k < n)
    BY <1>2, <2>1, <2>2
  <2> QED BY <1>3, <1>4, <2>3 DEF Desc
<1>7. n \in Desc /\ lo + n \in 0..(2 * IDX - 1) /\ lo + (n + 1) \in 0..(2 * IDX - 1)
  BY <1>3, <1>4, <1>6 DEF Desc
<1>8. hi % NUM = (lo + n) % NUM /\ hi % NUM \in Desc /\ r[hi % NUM] = None
  <2>1. (hi + 0) % NUM = ((lo + n) + 0) % NUM
    BY <1>2, <1>7, Place
  <2>2. hi % NUM = (lo + n) % NUM
    BY <1>4, <2>1
  <2> QED BY <1>2, <1>4, <1>7, <2>2, PlaceType
<1>9. plus1(hi) = (lo + (n + 1)) % IDX /\ plus1(hi) \in Counters
  <2>1. hi = IF lo + n < IDX THEN lo + n ELSE (lo + n) - IDX
    BY <1>2, <1>7, Wrap
  <2>2. hi + 1 \in 0..(2 * IDX - 1)
    BY <1>3, <1>4
  <2>3. (hi + 1) % IDX = IF hi + 1 < IDX THEN hi + 1 ELSE (hi + 1) - IDX
    BY <2>2, Wrap
  <2>4. (lo + (n + 1)) % IDX = IF lo + (n + 1) < IDX THEN lo + (n + 1) ELSE (lo + (n + 1)) - IDX
    BY <1>7, Wrap
  <2> QED BY <1>3, <1>4, <1>6, <2>1, <2>3, <2>4 DEF plus1, Counters
<1>10. s \in [Desc -> Desc \cup {None}]
  BY <1>1, Zenon DEF Pushed
<1>11. s[hi % NUM] = x /\ \A i \in Desc : i # hi % NUM => s[i] = r[i]
  BY <1>1, <1>8 DEF Pushed
<1> HIDE DEF s
<1>12. \A i, j \in Desc : s[i] = s[j] /\ s[i] # None => i = j
  <2>1. \A i \in Desc : r[i] # x
    BY <1>3, Zenon DEF Held
  <2> QED BY <1>1, <1>11, <2>1
<1>13. ASSUME NEW k \in Desc PROVE s[(lo + k) % NUM] # None <=> k < n + 1
  <2>0. lo + k \in Nat /\ (lo + k) % NUM \in Desc
    BY <1>3, <1>4, PlaceType DEF Desc
  <2>1. CASE k = n
    BY <1>3, <1>4, <1>8, <1>11, <2>1
  <2>2. CASE k # n
    <3>1. (lo + k) % NUM # hi % NUM
      BY <1>4, <1>7, <1>8, <2>2, Places, Zenon
    <3>2. s[(lo + k) % NUM] = r[(lo + k) % NUM]
      BY <1>11, <2>0, <3>1
    <3>3. r[(lo + k) % NUM] # None <=> k < n
      BY <1>2, Zenon
    <3>4. k < n <=> k < n + 1
      BY <1>3, <1>4, <2>2 DEF Desc
    <3> QED BY <3>2, <3>3, <3>4, Zenon
  <2> QED BY <2>1, <2>2
<1>14. Ring(s, lo, plus1(hi))
  <2>1. n + 1 \in 0..NUM
    BY <1>3, <1>4, <1>6
  <2> QED BY <1>1, <1>9, <1>10, <1>12, <1>13, <2>1, Zenon DEF Ring
<1>15. Held(s) = Held(r) \cup {x}
  BY <1>3, <1>8, <1>11, Zenon DEF Held
<1> QED BY <1>14, <1>15, Zenon DEF s

(* The head that the reader of a ring finds, and takes off it. *)
LEMMA Pop ==
  ASSUME NEW r, NEW lo, NEW hi, Ring(r, lo, hi), lo # hi
  PROVE  LET s == [r EXCEPT ![lo % NUM] = None]
         IN  /\ r[lo % NUM] \in Held(r) /\ r[lo % NUM] \in Desc
             /\ Ring(s, plus1(lo), hi) /\ Held(s) = Held(r) \ {r[lo % NUM]}
<1> DEFINE s == [r EXCEPT ![lo % NUM] = None]
<1>1. /\ r \in [Desc -> Desc \cup {None}] /\ lo \in Counters /\ hi \in Counters
      /\ \A i, j \in Desc : r[i] = r[j] /\ r[i] # None => i = j
  BY Zenon DEF Ring
<1>2. PICK n \in 0..NUM : /\ hi = (lo + n) % IDX
                          /\ \A k \in Desc : r[(lo + k) % NUM] # None <=> k < n
  BY Zenon DEF Ring
<1>3. NUM \in Nat \ {0} /\ IDX \in Nat \ {0} /\ IDX > NUM /\ None \notin Desc
  BY RingAssumption
<1>4. lo \in Nat /\ hi \in Nat /\ n \in Nat /\ lo < IDX /\ hi < IDX
  BY <1>1, <1>2, <1>3 DEF Counters
<1>5. n > 0
  <2>1. lo % IDX = lo
    BY <1>3, <1>4
  <2> QED BY <1>2, <1>4, <2>1
<1>6. lo % NUM \in Desc /\ r[lo % NUM] # None
  <2>1. 0 \in Desc /\ lo + 0 = lo
    BY <1>3, <1>4 DEF Desc
  <2> QED BY <1>2, <1>4, <1>5, <2>1, PlaceType
<1>7. plus1(lo) \in Counters /\ hi = (plus1(lo) + (n - 1)) % IDX
  <2>1. lo + 1 \in 0..(2 * IDX - 1) /\ lo + n \in 0..(2 * IDX - 1)
    BY <1>3, <1>4, <1>5
  <2>2. plus1(lo) = IF lo + 1 < IDX THEN lo + 1 ELSE (lo + 1) - IDX
    BY <2>1, Wrap DEF plus1
  <2>3. hi = IF lo + n < IDX THEN lo + n ELSE (lo + n) - IDX
    BY <1>2, <2>1, Wrap
  <2>4. plus1(lo) + (n - 1) \in 0..(2 * IDX - 1)
    BY <1>3, <1>4, <1>5, <2>2
  <2>5. (plus1(lo) + (n - 1)) % IDX = IF plus1(lo) + (n - 1) < IDX THEN plus1(lo) + (n - 1)
                                     ELSE (plus1(lo) + (n - 1)) - IDX
    BY <2>4, Wrap
  <2>6. plus1(lo) \in Counters
    BY <1>3, <1>4, <2>2 DEF Counters
  <2> QED BY <1>3, <1>4, <1>5, <2>2, <2>3, <2>5, <2>6
<1>8. s \in [Desc -> Desc \cup {None}]
  BY <1>1, Zenon
<1>9. s[lo % NUM] = None /\ \A i \in Desc : i # lo % NUM => s[i] = r[i]
  BY <1>1, <1>6
<1> HIDE DEF s
<1>10. \A i, j \in Desc : s[i] = s[j] /\ s[i] # None => i = j
  BY <1>1, <1>9, Zenon
<1>11. ASSUME NEW k \in Desc PROVE s[(plus1(lo) + k) % NUM] # None <=> k < n - 1
  <2>0. k \in Nat /\ k < NUM
    BY <1>3 DEF Desc
  <2>1. (plus1(lo) + k) % NUM = ((lo + 1) + k) % NUM
    <3>1. lo + 1 \in 0..(2 * IDX - 1)
      BY <1>3, <1>4
    <3> QED BY <2>0, <3>1, Place DEF plus1
  <2>2. (lo + 1) + k = lo + (k + 1)
    BY <1>4, <2>0
  <2>3. CASE k = NUM - 1
    <3>1. lo + (k + 1) = lo + NUM /\ NUM % NUM = 0
      BY <1>3, <1>4, <2>3
    <3>2. lo \in Int /\ NUM \in Nat
      BY <1>3, <1>4
    <3>3. (lo + NUM) % NUM = lo % NUM
      BY <1>3, <3>1, <3>2, ModShift, Zenon
    <3> QED BY <1>2, <1>3, <1>4, <1>9, <2>1, <2>2, <2>3, <3>1, <3>3
  <2>4. CASE k # NUM - 1
    <3>1. k + 1 \in Desc /\ 0 \in Desc /\ k + 1 # 0
      BY <1>3, <2>0, <2>4 DEF Desc
    <3>2. (lo + (k + 1)) % NUM # lo % NUM
      <4>1. lo + 0 = lo
        BY <1>4
      <4> QED BY <1>4, <3>1, <4>1, Places
    <3>3. (lo + (k + 1)) % NUM \in Desc
      BY <1>4, <2>0, PlaceType
    <3>4. s[(lo + (k + 1)) % NUM] = r[(lo + (k + 1)) % NUM]
      BY <1>9, <3>2, <3>3
    <3>5. r[(lo + (k + 1)) % NUM] # None <=> k + 1 < n
      BY <1>2, <3>1
    <3> QED BY <1>4, <2>0, <2>1, <2>2, <3>4, <3>5
  <2> QED BY <2>3, <2>4
<1>12. Ring(s, plus1(lo), hi)
  <2>1. n - 1 \in 0..NUM
    BY <1>3, <1>4, <1>5
  <2> QED BY <1>1, <1>7, <1>8, <1>10, <1>11, <2>1, Zenon DEF Ring
<1>13. Held(s) = Held(r) \ {r[lo % NUM]}
  <2>1. ASSUME NEW y PROVE y \in Held(s) => y \in Held(r) \ {r[lo % NUM]}
    <3> SUFFICES ASSUME NEW i \in Desc, s[i] # None
                 PROVE  s[i] \in Held(r) \ {r[lo % NUM]}
      BY Zenon DEF Held
    <3>1. i # lo % NUM /\ s[i] = r[i]
      BY <1>9, Zenon
    <3>2. r[i] # r[lo % NUM]
      BY <1>1, <1>6, <3>1, Zenon
    <3> QED BY <3>1, <3>2, Zenon DEF Held
  <2>2. ASSUME NEW y PROVE y \in Held(r) \ {r[lo % NUM]} => y \in Held(s)
    BY <1>9, Zenon DEF Held
  <2> QED BY <2>1, <2>2
<1>14. r[lo % NUM] \in Held(r) /\ r[lo % NUM] \in Desc
  BY <1>1, <1>6 DEF Held
<1> QED BY <1>12, <1>13, <1>14, Zenon DEF s
------------------------------------------------------------------------------
(* A non-empty set of natural numbers has a least element: the intervals that *)
(* its elements end have one that contains no other.                          *)
LEMMA Least ==
  ASSUME NEW S \in SUBSET Nat, S # {}
  PROVE  \E m \in S : \A k \in S : m <= k
<1> DEFINE F == {0..n : n \in S}
<1> DEFINE R == StrictSubsetOrdering(Nat)
<1>1. IsWellFoundedOn(R, FiniteSubsetsOf(Nat))
  BY FS_StrictSubsetOrderingWellFounded
<1>2. F \subseteq FiniteSubsetsOf(Nat)
  <2>1. ASSUME NEW n \in S PROVE 0..n \in FiniteSubsetsOf(Nat)
    BY FS_Interval DEF FiniteSubsetsOf
  <2> QED BY <2>1
<1>3. F # {}
  BY Zenon
<1>4. PICK X \in F : \A Y \in F : <<Y, X>> \notin R
  <2> HIDE DEF F, R
  <2> QED BY <1>1, <1>2, <1>3, WFMin
<1>5. PICK m \in S : X = 0..m
  BY <1>4
<1>6. ASSUME NEW k \in S, k < m PROVE FALSE
  <2>1. 0..k \in F /\ 0..k \in SUBSET Nat /\ 0..m \in SUBSET Nat
    OBVIOUS
  <2>2. 0..k \subseteq 0..m /\ 0..k # 0..m
    BY <1>6
  <2>3. <<0..k, 0..m>> \in R
    BY <2>1, <2>2 DEF StrictSubsetOrdering
  <2> QED BY <1>4, <1>5, <2>1, <2>3, Zenon
<1> QED BY <1>6

(* Min() of a set of descriptors. *)
LEMMA MinIn == ASSUME NEW S \in SUBSET Desc, S # {} PROVE Min(S) \in S
<1>1. S \in SUBSET Nat
  BY RingAssumption DEF Desc
<1> QED BY <1>1, Least, Zenon DEF Min

(* The set of descriptors is finite. *)
LEMMA FreeFinite == ASSUME NEW S \in SUBSET Desc PROVE IsFiniteSet(S) /\ Cardinality(S) \in Nat
<1>1. IsFiniteSet(Desc)
  BY RingAssumption, FS_Interval DEF Desc
<1>2. IsFiniteSet(S)
  BY <1>1, FS_Subset, Zenon
<1> QED BY <1>2, FS_CardinalityType, Zenon

(* alloc3_desc() gets three different descriptors that were free. *)
LEMMA Alloc3 ==
  ASSUME free \in SUBSET Desc, Cardinality(free) >= 3
  PROVE  /\ idx[1] \in free /\ idx[2] \in free /\ idx[3] \in free
         /\ idx[1] # idx[2] /\ idx[1] # idx[3] /\ idx[2] # idx[3]
<1> DEFINE i0 == Min(free)
           i1 == Min(free \ {i0})
           i2 == Min(free \ {i0, i1})
<1>1. IsFiniteSet(free) /\ Cardinality(free) \in Nat
  BY FreeFinite, Zenon
<1>2. i0 \in free
  <2>1. free # {}
    BY <1>1, FS_EmptySet
  <2> QED BY <2>1, MinIn, Zenon
<1> HIDE DEF i0
<1>3. /\ IsFiniteSet(free \ {i0}) /\ Cardinality(free \ {i0}) = Cardinality(free) - 1
  BY <1>1, <1>2, FS_RemoveElement, Zenon
<1>4. i1 \in free \ {i0}
  <2>1. free \ {i0} # {}
    BY <1>1, <1>3, FS_EmptySet
  <2> QED BY <2>1, MinIn
<1> HIDE DEF i1
<1>5. /\ IsFiniteSet((free \ {i0}) \ {i1})
      /\ Cardinality((free \ {i0}) \ {i1}) = Cardinality(free \ {i0}) - 1
  BY <1>3, <1>4, FS_RemoveElement, Zenon
<1>6. i2 \in free \ {i0, i1}
  <2>1. (free \ {i0}) \ {i1} # {}
    BY <1>1, <1>3, <1>5, FS_EmptySet
  <2>2. free \ {i0, i1} # {}
    BY <2>1, Zenon
  <2> QED BY <2>2, MinIn
<1> HIDE DEF i2
<1>7. idx[1] = i0 /\ idx[2] = i1 /\ idx[3] = i2
  BY DEF idx, i0, i1, i2
<1> QED BY <1>2, <1>4, <1>6, <1>7

(* What free_chain() visits: the three descriptors of a request. *)
LEMMA ChainIs ==
  ASSUME NEW i \in Desc, link \in [Desc -> Desc \cup {None}], link[i] \in Desc,
         link[link[i]] \in Desc, link[link[link[i]]] = None,
         i # link[i], i # link[link[i]], link[i] # link[link[i]]
  PROVE  /\ 3 \in 1..NUM
         /\ Chain(i) = [k \in 1..NUM |-> IF k = 1 THEN i ELSE IF k = 2 THEN link[i]
                                         ELSE IF k = 3 THEN link[link[i]] ELSE None]
<1> DEFINE follow == [d \in Desc \cup {None} |-> IF d = None THEN None ELSE link[d]]
           c == [k \in 1..NUM |-> IF k = 1 THEN i ELSE IF k = 2 THEN link[i]
                                  ELSE IF k = 3 THEN link[link[i]] ELSE None]
           Is(v) == v = [k \in 1..NUM |-> IF k = 1 THEN i ELSE follow[v[k - 1]]]
<1>0. NUM \in Nat \ {0} /\ None \notin Desc
  BY RingAssumption
<1>1. 3 \in 1..NUM
  BY <1>0 DEF Desc
<1>2. /\ follow[i] = link[i] /\ follow[link[i]] = link[link[i]]
      /\ follow[link[link[i]]] = None /\ follow[None] = None
  BY <1>0
<1>3. Is(c)
  <2> HIDE DEF follow
  <2>1. ASSUME NEW k \in 1..NUM PROVE c[k] = IF k = 1 THEN i ELSE follow[c[k - 1]]
    <3>1. CASE k = 1
      BY <3>1
    <3>2. CASE k > 1
      <4>1. k - 1 \in 1..NUM
        BY <1>0, <3>2
      <4> QED BY <1>0, <1>2, <3>2, <4>1
    <3> QED BY <1>0, <3>1, <3>2
  <2> QED BY <2>1, Zenon
<1> HIDE DEF follow
<1>4. ASSUME NEW v, Is(v) PROVE v = c
  <2>1. ASSUME NEW k \in 1..NUM PROVE v[k] = IF k = 1 THEN i ELSE follow[v[k - 1]]
    BY <1>4, Zenon
  <2>2. ASSUME NEW k \in 1..NUM PROVE c[k] = IF k = 1 THEN i ELSE follow[c[k - 1]]
    BY <1>3, Zenon
  <2>3. DOMAIN v = 1..NUM /\ DOMAIN c = 1..NUM
    BY <1>4, Zenon
  <2> HIDE DEF c
  <2> DEFINE S == {k \in 1..NUM : v[k] # c[k]}
  <2>4. S = {}
    <3> SUFFICES ASSUME S # {} PROVE FALSE
      OBVIOUS
    <3>0. S \in SUBSET Nat
      BY <1>0
    <3>1. PICK m \in S : \A k \in S : m <= k
      <4> HIDE DEF S
      <4> QED BY <3>0, Least, Zenon
    <3>2. m \in 1..NUM /\ v[m] # c[m] /\ m # 1
      BY <2>1, <2>2, <3>1
    <3>3. m - 1 \in 1..NUM /\ ~(m <= m - 1)
      BY <1>0, <3>2
    <3>4. v[m - 1] = c[m - 1]
      BY <3>1, <3>3
    <3> QED BY <2>1, <2>2, <3>2, <3>4
  <2>5. v = [k \in 1..NUM |-> v[k]] /\ c = [k \in 1..NUM |-> c[k]]
    BY <1>4, <1>3, <2>3, Zenon DEF c
  <2> QED BY <2>4, <2>5
<1>5. Chain(i) = CHOOSE v : Is(v)
  BY Zenon DEF Chain, follow
<1>6. Is(CHOOSE v : Is(v))
  BY <1>3, Zenon
<1>7. Chain(i) = c
  <2> HIDE DEF c
  <2> QED BY <1>4, <1>5, <1>6, Zenon
<1> QED BY <1>1, <1>7, Zenon

(* free_chain() visits the descriptors of its request, each once. *)
LEMMA Freed ==
  ASSUME NEW p, link \in [Desc -> Desc \cup {None}], ReqInv(p)
  PROVE  /\ DescOf(p) = Three(p)
         /\ ~\E j, k \in 1..NUM :
               j < k /\ Chain(idx0[p])[j] = Chain(idx0[p])[k] /\ Chain(idx0[p])[j] # None
<1> DEFINE c == Chain(idx0[p])
<1>1. /\ d1(p) \in Desc /\ d2(p) \in Desc /\ d3(p) \in Desc /\ link[d3(p)] = None
      /\ d1(p) # d2(p) /\ d1(p) # d3(p) /\ d2(p) # d3(p)
  BY Zenon DEF ReqInv
<1>2. NUM \in Nat /\ None \notin Desc
  BY RingAssumption
<1>3. /\ 3 \in 1..NUM
      /\ c = [k \in 1..NUM |-> IF k = 1 THEN d1(p) ELSE IF k = 2 THEN d2(p)
                               ELSE IF k = 3 THEN d3(p) ELSE None]
  BY <1>1, ChainIs, Zenon DEF d1, d2, d3
<1>4. /\ 1 \in 1..NUM /\ 2 \in 1..NUM /\ c[1] = d1(p) /\ c[2] = d2(p) /\ c[3] = d3(p)
      /\ \A k \in 1..NUM : k = 1 \/ k = 2 \/ k = 3 \/ c[k] = None
  BY <1>2, <1>3
<1> HIDE DEF c
<1>5. DescOf(p) = {c[k] : k \in 1..NUM} \ {None}
  BY Zenon DEF DescOf, c
<1>6. DescOf(p) = Three(p)
  <2>1. ASSUME NEW d \in DescOf(p) PROVE d \in Three(p)
    BY <1>4, <1>5, <2>1, Zenon DEF Three
  <2>2. ASSUME NEW d \in Three(p) PROVE d \in DescOf(p)
    BY <1>1, <1>2, <1>3, <1>4, <1>5, <2>2, Zenon DEF Three
  <2> QED BY <2>1, <2>2
<1>7. ASSUME NEW j \in 1..NUM, NEW k \in 1..NUM, j < k, c[j] = c[k], c[j] # None PROVE FALSE
  <2>1. (j = 1 \/ j = 2 \/ j = 3) /\ (k = 1 \/ k = 2 \/ k = 3)
    BY <1>4, <1>7
  <2> QED BY <1>1, <1>4, <1>7, <2>1
<1> QED BY <1>6, <1>7, Zenon DEF c

(* The invariant says what the runs check. *)
LEMMA Implies == IInv => Transfers /\ SleepsForACause
<1> SUFFICES ASSUME IInv PROVE Transfers /\ SleepsForACause
  OBVIOUS
<1>1. /\ link \in [Desc -> Desc \cup {None}] /\ panicked = 0 /\ free \in SUBSET Desc
      /\ \A p \in Busy : ReqInv(p)
  BY Zenon DEF IInv, TypeInv, Chains
<1>2. InSync
  BY Zenon DEF IInv, DataInv, InSync
<1>3. ASSUME NEW p \in Busy
      PROVE  /\ Cardinality(DescOf(p)) = 3 /\ info[idx0[p]] = p /\ addr[link[idx0[p]]] = p
             /\ DescOf(p) = Three(p) /\ Three(p) \subseteq Desc \ free
  <2>1. ReqInv(p)
    BY <1>1, <1>3, Zenon
  <2>2. DescOf(p) = Three(p)
    BY <1>1, <2>1, Freed, Zenon
  <2>3. d1(p) # d2(p) /\ d1(p) # d3(p) /\ d2(p) # d3(p)
    BY <2>1, Zenon DEF ReqInv
  <2>4. Cardinality(Three(p)) = 3
    <3>1. IsFiniteSet({d1(p)}) /\ Cardinality({d1(p)}) = 1
      BY FS_Singleton, Zenon
    <3>2. IsFiniteSet({d1(p)} \cup {d2(p)}) /\ Cardinality({d1(p)} \cup {d2(p)}) = 1 + 1
      BY <2>3, <3>1, FS_AddElement
    <3>3. Cardinality(({d1(p)} \cup {d2(p)}) \cup {d3(p)}) = (1 + 1) + 1
      BY <2>3, <3>2, FS_AddElement
    <3>4. Three(p) = ({d1(p)} \cup {d2(p)}) \cup {d3(p)}
      BY Zenon DEF Three
    <3> QED BY <3>3, <3>4
  <2>5. info[idx0[p]] = p /\ addr[link[idx0[p]]] = p
    BY <2>1, Zenon DEF ReqInv, d1, d2
  <2>6. Three(p) \subseteq Desc \ free
    BY <2>1, Zenon DEF ReqInv, Three
  <2> QED BY <2>2, <2>4, <2>5, <2>6, Zenon
<1>4. ASSUME NEW p \in Busy, NEW q \in Busy, p # q PROVE DescOf(p) \cap DescOf(q) = {}
  <2>1. DescOf(p) = Three(p) /\ DescOf(q) = Three(q)
    BY <1>3, Zenon
  <2>2. Three(p) \cap Three(q) = {}
    BY <1>4, Zenon DEF IInv, Chains
  <2> QED BY <2>1, <2>2, Zenon
<1>5. Desc \ free = UNION {DescOf(p) : p \in Busy}
  <2>1. ASSUME NEW d \in Desc \ free PROVE d \in UNION {DescOf(p) : p \in Busy}
    <3>1. PICK p \in Busy : d \in Three(p)
      BY <2>1, Zenon DEF IInv, Chains
    <3>2. d \in DescOf(p)
      BY <1>3, <3>1, Zenon
    <3> QED BY <3>2, Zenon
  <2>2. ASSUME NEW d \in UNION {DescOf(p) : p \in Busy} PROVE d \in Desc \ free
    <3>1. PICK p \in Busy : d \in DescOf(p)
      BY <2>2, Zenon
    <3> QED BY <1>3, <3>1, Zenon
  <2> QED BY <2>1, <2>2
<1>6. DescConserved
  BY <1>3, <1>4, <1>5, Zenon DEF DescConserved
<1> QED BY <1>1, <1>2, <1>6, Zenon DEF IInv, Transfers

(* A request that is not finished has its head, of its own, in use. *)
LEMMA HeadOf ==
  ASSUME IInv, NEW x \in Heads
  PROVE  /\ x \in Desc \ free
         /\ \E q \in Busy : /\ bdisk[q] = 1 /\ idx0[q] = x /\ info[x] = q /\ addr[link[x]] = q
                            /\ \A r \in Busy : idx0[r] = x => r = q
<1>1. PICK q \in Busy : bdisk[q] = 1 /\ idx0[q] = x
  BY Zenon DEF Heads
<1>2. ReqInv(q)
  BY Zenon DEF IInv, Chains
<1>3. x \in Desc \ free /\ info[x] = q /\ addr[link[x]] = q
  BY <1>1, <1>2, Zenon DEF ReqInv, d1, d2
<1>4. ASSUME NEW r \in Busy, idx0[r] = x, r # q PROVE FALSE
  <2>1. x \in Three(r) /\ x \in Three(q)
    BY <1>1, <1>4, Zenon DEF Three, d1
  <2>2. Three(r) \cap Three(q) = {}
    BY <1>4, Zenon DEF IInv, Chains
  <2> QED BY <2>1, <2>2, Zenon
<1> QED BY <1>1, <1>3, <1>4, Zenon

(* Chains is about the descriptors and the busy processes. *)
LEMMA ChainsSame ==
  ASSUME IInv, UNCHANGED <<free, addr, link, info, idx0>>, Busy' = Busy
  PROVE  Chains'
<1>1. free' = free /\ addr' = addr /\ link' = link /\ info' = info /\ idx0' = idx0
  OBVIOUS
<1>2. \A p : (ReqInv(p)' <=> ReqInv(p)) /\ Three(p)' = Three(p)
  BY <1>1, Zenon DEF ReqInv, Three, d1, d2, d3
<1>3. \A p \in Busy' : ReqInv(p)'
  BY <1>2, Zenon DEF IInv, Chains
<1>4. \A p, q \in Busy' : p # q => Three(p)' \cap Three(q)' = {}
  BY <1>2, Zenon DEF IInv, Chains
<1>5. \A d \in Desc \ free' : \E p \in Busy' : d \in Three(p)'
  BY <1>1, <1>2, Zenon DEF IInv, Chains
<1> QED BY <1>3, <1>4, <1>5, Zenon DEF Chains

(* Steps that only wake processes, put them to sleep, or enter and leave the  *)
(* handler.                                                                   *)
LEMMA Quiet ==
  ASSUME IInv, UNCHANGED <<free, req, rings, seen, taken, block, bdisk, data, idx0, panicked>>,
         pc' \in [Procs -> {"out", "alloc", "nodesc", "asleep", "woken"}],
         irq' \in {0, 1}, intr' \in {0, 1}, Busy' = Busy, SleepsForACause'
  PROVE  IInv'
<1>1. /\ free' = free /\ addr' = addr /\ link' = link /\ type' = type /\ status' = status
      /\ info' = info /\ avail' = avail /\ avail_idx' = avail_idx /\ used' = used
      /\ usedidx' = usedidx /\ used_idx' = used_idx /\ seen' = seen /\ taken' = taken
      /\ block' = block /\ bdisk' = bdisk /\ data' = data /\ idx0' = idx0 /\ panicked' = panicked
  BY Zenon DEF req, rings
<1>2. TypeInv'
  BY <1>1 DEF IInv, TypeInv
<1>3. Ring(avail, seen, avail_idx)' /\ Ring(used, used_idx, usedidx)'
  BY <1>1, Zenon DEF IInv, Ring
<1>4. Chains'
  BY <1>1, ChainsSame, Zenon
<1>5. PlaceInv'
  <2>1. Held(avail)' = Held(avail) /\ Held(used)' = Held(used) /\ Heads' = Heads
    BY <1>1, Zenon DEF Held, Heads
  <2> QED BY <1>1, <2>1 DEF IInv, PlaceInv
<1>6. \A p \in Procs : DataInv(p)'
  BY <1>1, Zenon DEF IInv, DataInv, Held
<1> QED BY <1>2, <1>3, <1>4, <1>5, <1>6, Zenon DEF IInv

(* Steps of virtio_disk_rw() that end in a sleep, and kill(). *)
LEMMA SleepSteps ==
  ASSUME IInv, NEW p \in Procs, no_desc(p) \/ sleep_again(p) \/ kill(p)
  PROVE  IInv'
<1>0. /\ pc \in [Procs -> {"out", "alloc", "nodesc", "asleep", "woken"}]
      /\ irq \in {0, 1} /\ intr \in {0, 1} /\ NoLostCompletion /\ DescSleeps
  BY Zenon DEF IInv, TypeInv, SleepsForACause
<1>1. /\ UNCHANGED <<free, req, rings, seen, taken, block, bdisk, data, idx0, panicked>>
      /\ irq' = irq /\ intr' = intr /\ used_idx' = used_idx /\ usedidx' = usedidx
  BY Zenon DEF no_desc, sleep_again, kill, given_back, device, rings
<1>2. free' = free
  BY <1>1, Zenon
<1>3. \/ /\ pc[p] \in {"out", "alloc"} /\ Cardinality(free) < 3
         /\ pc' = [(IF free = {} THEN pc ELSE wakeup_free(pc)) EXCEPT ![p] = "nodesc"]
      \/ pc[p] = "woken" /\ pc' = [pc EXCEPT ![p] = "asleep"]
      \/ pc[p] = "asleep" /\ pc' = [pc EXCEPT ![p] = "woken"]
      \/ pc[p] = "nodesc" /\ pc' = [pc EXCEPT ![p] = "alloc"]
  BY Zenon DEF no_desc, sleep_again, kill
<1>4. pc' \in [Procs -> {"out", "alloc", "nodesc", "asleep", "woken"}]
  BY <1>0, <1>3, Zenon DEF wakeup_free
<1>5. ASSUME NEW q \in Procs
      PROVE  /\ pc'[q] \in {"asleep", "woken"} <=> pc[q] \in {"asleep", "woken"}
             /\ pc'[q] = "nodesc" => pc[q] = "nodesc" \/ Cardinality(free) < 3
  BY <1>0, <1>3, Zenon DEF wakeup_free
<1>6. Busy' = Busy
  BY <1>5, Zenon DEF Busy
<1>7. SleepsForACause'
  BY <1>0, <1>1, <1>2, <1>5, Zenon DEF SleepsForACause, NoLostCompletion, DescSleeps
<1> QED BY <1>0, <1>1, <1>4, <1>6, <1>7, Quiet, Zenon

(* virtio_disk_intr() acknowledges, then looks; it ends when it has seen all. *)
LEMMA IntrSteps ==
  ASSUME IInv, virtio_disk_intr \/ intr_end
  PROVE  IInv'
<1>0. /\ pc \in [Procs -> {"out", "alloc", "nodesc", "asleep", "woken"}]
      /\ irq \in {0, 1} /\ intr \in {0, 1} /\ NoLostCompletion /\ DescSleeps
  BY Zenon DEF IInv, TypeInv, SleepsForACause
<1>1. /\ UNCHANGED <<free, req, rings, seen, taken, block, bdisk, data, idx0, panicked>>
      /\ pc' = pc /\ free' = free /\ used_idx' = used_idx /\ usedidx' = usedidx
  BY Zenon DEF virtio_disk_intr, intr_end, device, rings
<1>2. (intr' = 1 /\ irq' = 0) \/ (used_idx = usedidx /\ intr' = 0 /\ irq' = irq)
  BY Zenon DEF virtio_disk_intr, intr_end, device
<1>3. irq' \in {0, 1} /\ intr' \in {0, 1}
  BY <1>0, <1>2
<1>4. Busy' = Busy
  BY <1>1, Zenon DEF Busy
<1>5. SleepsForACause'
  BY <1>0, <1>1, <1>2, Zenon DEF SleepsForACause, NoLostCompletion, DescSleeps
<1> QED BY <1>0, <1>1, <1>3, <1>4, <1>5, Quiet, Zenon

(* The device takes the head that the ring has at seen. *)
LEMMA TakeStep == ASSUME IInv, device_take PROVE IInv'
<1> DEFINE x == avail[seen % NUM]
<1>1. /\ seen # avail_idx /\ taken' = taken \cup {x}
      /\ avail' = [avail EXCEPT ![seen % NUM] = None] /\ seen' = plus1(seen)
  BY Zenon DEF device_take
<1>2. /\ free' = free /\ addr' = addr /\ link' = link /\ type' = type /\ status' = status
      /\ info' = info /\ avail_idx' = avail_idx /\ used' = used
      /\ usedidx' = usedidx /\ used_idx' = used_idx /\ irq' = irq /\ intr' = intr
      /\ block' = block /\ bdisk' = bdisk /\ data' = data /\ idx0' = idx0 /\ panicked' = panicked
      /\ pc' = pc
  BY Zenon DEF device_take, req
<1>3. /\ x \in Held(avail) /\ x \in Desc /\ Ring(avail', seen', avail_idx)
      /\ Held(avail') = Held(avail) \ {x}
  BY <1>1, Pop, Zenon DEF IInv
<1> HIDE DEF x
<1>4. TypeInv'
  <2>1. taken' \in SUBSET Desc
    BY <1>1, <1>3, Zenon DEF IInv, TypeInv
  <2> QED BY <1>2, <2>1 DEF IInv, TypeInv
<1>5. Ring(avail, seen, avail_idx)' /\ Ring(used, used_idx, usedidx)'
  BY <1>2, <1>3, Zenon DEF IInv, Ring
<1>6. Busy' = Busy
  BY <1>2, Zenon DEF Busy
<1>7. Chains'
  BY <1>2, <1>6, ChainsSame, Zenon
<1>8. PlaceInv'
  <2>1. Held(avail)' = Held(avail) \ {x} /\ Held(used)' = Held(used) /\ Heads' = Heads
    BY <1>2, <1>3, <1>6, Zenon DEF Held, Heads
  <2>2. PlaceInv
    BY Zenon DEF IInv
  <2> QED BY <1>1, <1>2, <1>3, <2>1, <2>2, Zenon DEF PlaceInv
<1>9. \A p \in Procs : DataInv(p)'
  BY <1>2, <1>6, Zenon DEF IInv, DataInv, Held
<1>10. SleepsForACause'
  BY <1>2, Zenon DEF IInv, SleepsForACause, NoLostCompletion, DescSleeps
<1> QED BY <1>4, <1>5, <1>7, <1>8, <1>9, <1>10, Zenon DEF IInv

(* The device serves a request: it finds the buffer of the process that       *)
(* submitted it, and the used ring has room.                                  *)
LEMMA ServeStep == ASSUME IInv, NEW id \in Desc, device_serve(id) PROVE IInv'
<1>1. /\ id \in taken /\ taken' = taken \ {id} /\ status' = [status EXCEPT ![id] = 0]
      /\ used' = [used EXCEPT ![usedidx % NUM] = id] /\ usedidx' = plus1(usedidx) /\ irq' = 1
      /\ \/ data' = [data EXCEPT ![addr[link[id]]] = block[addr[link[id]]]] /\ block' = block
         \/ block' = [block EXCEPT ![addr[link[id]]] = data[addr[link[id]]]] /\ data' = data
  BY Zenon DEF device_serve
<1>2. /\ free' = free /\ addr' = addr /\ link' = link /\ type' = type
      /\ info' = info /\ avail' = avail /\ avail_idx' = avail_idx /\ seen' = seen
      /\ used_idx' = used_idx /\ intr' = intr
      /\ bdisk' = bdisk /\ idx0' = idx0 /\ panicked' = panicked /\ pc' = pc
  BY Zenon DEF device_serve
<1>3. PlaceInv /\ id \in Heads /\ id \notin Held(used) /\ id \notin Held(avail)
  BY <1>1 DEF IInv, PlaceInv
<1>4. PICK q \in Busy : /\ bdisk[q] = 1 /\ idx0[q] = id /\ addr[link[id]] = q
                        /\ \A r \in Busy : idx0[r] = id => r = q
  BY <1>3, HeadOf, Zenon
<1>5. Ring(used', used_idx, usedidx') /\ Held(used') = Held(used) \cup {id}
  <2>1. Ring(used, used_idx, usedidx)
    BY Zenon DEF IInv
  <2>2. used' = Pushed(used, usedidx, id) /\ usedidx' = plus1(usedidx)
    BY <1>1, Zenon DEF Pushed
  <2>3. id \in Desc /\ id \notin Held(used)
    BY <1>3, Zenon
  <2>4. /\ Ring(Pushed(used, usedidx, id), used_idx, plus1(usedidx))
        /\ Held(Pushed(used, usedidx, id)) = Held(used) \cup {id}
    BY <2>1, <2>3, Push
  <2> QED BY <2>2, <2>4, Zenon
<1>6. q \in Procs /\ DOMAIN data = Procs /\ DOMAIN block = Procs
  BY <1>4, Zenon DEF Busy, IInv, TypeInv
<1>7. /\ data'[q] = block'[q] /\ DOMAIN data' = Procs /\ DOMAIN block' = Procs
      /\ \A r \in Procs : r # q => data'[r] = data[r] /\ block'[r] = block[r]
  BY <1>1, <1>4, <1>6
<1>8. TypeInv'
  <2>1. taken' \in SUBSET Desc /\ status' \in [Desc -> {0, 255}] /\ irq' \in {0, 1}
    BY <1>1, Zenon DEF IInv, TypeInv
  <2> QED BY <1>2, <1>7, <2>1 DEF IInv, TypeInv
<1>9. Ring(avail, seen, avail_idx)' /\ Ring(used, used_idx, usedidx)'
  BY <1>2, <1>5, Zenon DEF IInv, Ring
<1>10. Busy' = Busy
  BY <1>2, Zenon DEF Busy
<1>11. Chains'
  BY <1>2, <1>10, ChainsSame, Zenon
<1>12. Held(avail)' = Held(avail) /\ Held(used)' = Held(used) \cup {id} /\ Heads' = Heads
  BY <1>2, <1>5, <1>10, Zenon DEF Held, Heads
<1>13. PlaceInv'
  <2>1. \A x \in Held(used)' : status'[x] = 0
    <3>1. Held(used) \subseteq Desc /\ status \in [Desc -> {0, 255}]
      BY <1>3, HeadOf, Zenon DEF IInv, TypeInv, PlaceInv
    <3> QED BY <1>1, <1>3, <1>12, <3>1 DEF PlaceInv
  <2> QED BY <1>1, <1>2, <1>3, <1>12, <2>1, Zenon DEF PlaceInv
<1>14. ASSUME NEW p \in Procs PROVE DataInv(p)'
  <2>1. CASE p = q
    BY <1>7, <2>1, Zenon DEF DataInv
  <2>2. CASE p # q
    <3>1. p \in Busy /\ idx0[p] \in Held(used)' => idx0[p] \in Held(used)
      BY <1>4, <1>12, <2>2, Zenon
    <3>2. DataInv(p) /\ data'[p] = data[p] /\ block'[p] = block[p]
      BY <1>7, <2>2, Zenon DEF IInv
    <3> QED BY <1>2, <1>10, <3>1, <3>2, Zenon DEF DataInv
  <2> QED BY <2>1, <2>2
<1>15. SleepsForACause'
  BY <1>1, <1>2, Zenon DEF IInv, SleepsForACause, NoLostCompletion, DescSleeps
<1> QED BY <1>8, <1>9, <1>11, <1>13, <1>14, <1>15, Zenon DEF IInv

(* One pass of the handler: the entry that it finds is a request that is      *)
(* served, and no other.                                                      *)
LEMMA LoopStep == ASSUME IInv, intr_loop PROVE IInv'
<1> DEFINE x == used[used_idx % NUM]
<1>1. /\ used_idx # usedidx /\ intr = 1 /\ used_idx' = plus1(used_idx)
      /\ used' = [used EXCEPT ![used_idx % NUM] = None]
      /\ IF x = None \/ status[x] # 0 \/ info[x] = None
           THEN panicked' = 1 /\ UNCHANGED <<bdisk, pc>>
           ELSE /\ bdisk' = [bdisk EXCEPT ![info[x]] = 0]
                /\ pc' = IF pc[info[x]] = "asleep" THEN [pc EXCEPT ![info[x]] = "woken"] ELSE pc
                /\ UNCHANGED panicked
  BY Zenon DEF intr_loop, finished_id
<1>2. /\ free' = free /\ addr' = addr /\ link' = link /\ type' = type /\ status' = status
      /\ info' = info /\ avail' = avail /\ avail_idx' = avail_idx /\ usedidx' = usedidx
      /\ seen' = seen /\ taken' = taken /\ irq' = irq /\ block' = block /\ intr' = intr
      /\ data' = data /\ idx0' = idx0
  BY Zenon DEF intr_loop, req, device
<1>3. /\ x \in Held(used) /\ x \in Desc /\ Ring(used', used_idx', usedidx)
      /\ Held(used') = Held(used) \ {x}
  BY <1>1, Pop, Zenon DEF IInv
<1> HIDE DEF x
<1>4. /\ PlaceInv /\ x \in Heads /\ x \notin taken /\ x \notin Held(avail) /\ status[x] = 0
  BY <1>3 DEF IInv, PlaceInv
<1>5. PICK q \in Busy : /\ bdisk[q] = 1 /\ idx0[q] = x /\ info[x] = q
                        /\ \A r \in Busy : idx0[r] = x => r = q
  BY <1>4, HeadOf, Zenon
<1>6. q \in Procs /\ None \notin Procs /\ None \notin Desc
  BY <1>5, RingAssumption DEF Busy
<1>7. /\ bdisk' = [bdisk EXCEPT ![q] = 0] /\ panicked' = panicked
      /\ pc' = IF pc[q] = "asleep" THEN [pc EXCEPT ![q] = "woken"] ELSE pc
  BY <1>1, <1>3, <1>4, <1>5, <1>6, Zenon
<1>8. /\ bdisk \in [Procs -> {0, 1}]
      /\ pc \in [Procs -> {"out", "alloc", "nodesc", "asleep", "woken"}]
  BY Zenon DEF IInv, TypeInv
<1>9. bdisk' \in [Procs -> {0, 1}] /\ bdisk'[q] = 0 /\ \A r \in Procs : r # q => bdisk'[r] = bdisk[r]
  BY <1>6, <1>7, <1>8
<1>10. /\ pc' \in [Procs -> {"out", "alloc", "nodesc", "asleep", "woken"}]
       /\ \A r \in Procs : /\ pc'[r] \in {"asleep", "woken"} <=> pc[r] \in {"asleep", "woken"}
                           /\ pc'[r] = "nodesc" => pc[r] = "nodesc"
  BY <1>6, <1>7, <1>8
<1>11. TypeInv'
  BY <1>2, <1>7, <1>9, <1>10, Zenon DEF IInv, TypeInv
<1>12. Ring(avail, seen, avail_idx)' /\ Ring(used, used_idx, usedidx)'
  BY <1>2, <1>3, Zenon DEF IInv, Ring
<1>13. Busy' = Busy
  BY <1>10, Zenon DEF Busy
<1>14. Chains'
  BY <1>2, <1>13, ChainsSame, Zenon
<1>15. Held(avail)' = Held(avail) /\ Held(used)' = Held(used) \ {x}
  BY <1>2, <1>3, Zenon DEF Held
<1>16. ASSUME NEW y \in Heads, y # x PROVE y \in Heads'
  <2>1. PICK r \in Busy : bdisk[r] = 1 /\ idx0[r] = y
    BY <1>16, Zenon DEF Heads
  <2>2. r # q /\ r \in Procs
    BY <1>5, <1>16, <2>1, Zenon DEF Busy
  <2>3. bdisk'[r] = 1 /\ idx0'[r] = y /\ r \in Busy'
    BY <1>2, <1>9, <1>13, <2>1, <2>2, Zenon
  <2> QED BY <2>3, Zenon DEF Heads
<1>17. PlaceInv'
  BY <1>2, <1>4, <1>15, <1>16 DEF PlaceInv
<1>18. ASSUME NEW p \in Procs PROVE DataInv(p)'
  <2>0. DataInv(p)
    BY Zenon DEF IInv
  <2>1. CASE p = q
    BY <1>2, <1>3, <1>5, <2>0, <2>1, Zenon DEF DataInv
  <2>2. CASE p # q
    BY <1>2, <1>9, <1>13, <1>15, <2>0, <2>2, Zenon DEF DataInv
  <2> QED BY <2>1, <2>2
<1>19. SleepsForACause'
  BY <1>1, <1>2, <1>10, Zenon DEF IInv, SleepsForACause, NoLostCompletion, DescSleeps
<1> QED BY <1>11, <1>12, <1>14, <1>17, <1>18, <1>19, Zenon DEF IInv

(* virtio_disk_rw() after its sleep: the chain of a finished request goes     *)
(* back whole, and whoever waits for descriptors is woken.                    *)
LEMMA FinishStep == ASSUME IInv, NEW p \in Procs, finish(p) PROVE IInv'
<1> DEFINE F == Three(p)
<1>0. /\ free \in SUBSET Desc /\ addr \in [Desc -> Procs \cup {None}]
      /\ link \in [Desc -> Desc \cup {None}] /\ info \in [Desc -> Procs \cup {None}]
      /\ bdisk \in [Procs -> {0, 1}] /\ idx0 \in [Procs -> Desc \cup {None}] /\ panicked = 0
      /\ pc \in [Procs -> {"out", "alloc", "nodesc", "asleep", "woken"}] /\ DOMAIN type = Desc
  BY Zenon DEF IInv, TypeInv
<1>1. pc[p] = "woken" /\ bdisk[p] # 1
  BY Zenon DEF finish, still_busy
<1>2. p \in Busy /\ ReqInv(p)
  BY <1>1, Zenon DEF Busy, IInv, Chains
<1>3. /\ F \subseteq Desc \ free /\ d1(p) \in F /\ DescOf(p) = F
      /\ ~\E j, k \in 1..NUM :
            j < k /\ Chain(idx0[p])[j] = Chain(idx0[p])[k] /\ Chain(idx0[p])[j] # None
  BY <1>0, <1>2, Freed, Zenon DEF ReqInv, Three
<1>4. /\ info' = [info EXCEPT ![idx0[p]] = None] /\ free' = free \cup DescOf(p)
      /\ addr' = [d \in Desc |-> IF d \in DescOf(p) THEN None ELSE addr[d]]
      /\ link' = [d \in Desc |-> IF d \in DescOf(p) THEN None ELSE link[d]]
      /\ type' = [type EXCEPT ![idx0[p]] = None] /\ idx0' = [idx0 EXCEPT ![p] = None]
      /\ pc' = [wakeup_free(pc) EXCEPT ![p] = "out"]
  BY Zenon DEF finish, DescOf, free_chain_wakes
<1>5. panicked' = 0
  <2>1. DescOf(p) \cap free = {}
    BY <1>3, Zenon
  <2> QED BY <1>0, <1>3, <2>1, Zenon DEF finish, DescOf
<1>6. /\ status' = status /\ avail' = avail /\ avail_idx' = avail_idx /\ used' = used
      /\ usedidx' = usedidx /\ used_idx' = used_idx /\ seen' = seen /\ taken' = taken /\ irq' = irq
      /\ block' = block /\ intr' = intr /\ bdisk' = bdisk /\ data' = data
  BY Zenon DEF finish, rings, device
<1>7. /\ \A d \in Desc \ F : addr'[d] = addr[d] /\ link'[d] = link[d] /\ info'[d] = info[d]
      /\ free' = free \cup F
  BY <1>0, <1>3, <1>4, Zenon DEF d1
<1>8. /\ pc' \in [Procs -> {"out", "alloc", "nodesc", "asleep", "woken"}]
      /\ \A q \in Procs : pc'[q] # "nodesc" /\ (q \in Busy' <=> q \in Busy /\ q # p)
  BY <1>0, <1>4, Zenon DEF wakeup_free, Busy
<1>9. \A q \in Procs : q # p => idx0'[q] = idx0[q]
  BY <1>0, <1>4, Zenon
<1>10. TypeInv'
  <2>1. addr' \in [Desc -> Procs \cup {None}] /\ link' \in [Desc -> Desc \cup {None}]
    BY <1>0, <1>4
  <2>2. info' \in [Desc -> Procs \cup {None}] /\ idx0' \in [Procs -> Desc \cup {None}]
    BY <1>0, <1>4, Zenon
  <2>3. free' \in SUBSET Desc /\ DOMAIN type' = Desc
    BY <1>0, <1>3, <1>4, Zenon
  <2> QED BY <1>5, <1>6, <1>8, <2>1, <2>2, <2>3, Zenon DEF IInv, TypeInv
<1> HIDE DEF F
<1>11. ASSUME NEW q \in Busy' PROVE q \in Busy /\ q # p /\ q \in Procs
  BY <1>8, <1>11, Zenon DEF Busy
<1>12. ASSUME NEW q \in Busy'
       PROVE  /\ Three(q) \cap F = {} /\ ReqInv(q) /\ d1(q)' = d1(q) /\ d2(q)' = d2(q)
              /\ d3(q)' = d3(q) /\ Three(q)' = Three(q)
  <2>1. q \in Busy /\ q # p /\ q \in Procs
    BY <1>11, Zenon
  <2>2. Three(q) \cap F = {} /\ ReqInv(q)
    BY <1>2, <2>1, Zenon DEF IInv, Chains, F
  <2>3. d1(q) \in Desc \ F /\ d2(q) \in Desc \ F
    BY <2>2, Zenon DEF ReqInv, Three
  <2>4. d1(q)' = d1(q)
    BY <1>9, <2>1, Zenon DEF d1
  <2>5. d2(q)' = d2(q)
    BY <1>7, <2>3, <2>4, Zenon DEF d2
  <2>6. d3(q)' = d3(q)
    BY <1>7, <2>3, <2>5, Zenon DEF d3
  <2> QED BY <2>2, <2>4, <2>5, <2>6, Zenon DEF Three
<1>13. ASSUME NEW q \in Busy' PROVE ReqInv(q)'
  <2>1. /\ d1(q) \in Desc \ F /\ d2(q) \in Desc \ F /\ d3(q) \in Desc \ F /\ ReqInv(q)
    BY <1>12, Zenon DEF ReqInv, Three
  <2>2. link'[d3(q)] = link[d3(q)] /\ addr'[d2(q)] = addr[d2(q)] /\ info'[d1(q)] = info[d1(q)]
    BY <1>7, <2>1, Zenon
  <2> QED BY <1>7, <1>12, <2>1, <2>2, Zenon DEF ReqInv
<1>14. Chains'
  <2>1. ASSUME NEW q \in Busy', NEW r \in Busy', q # r PROVE Three(q)' \cap Three(r)' = {}
    <3>1. Three(q) \cap Three(r) = {}
      BY <1>11, <2>1, Zenon DEF IInv, Chains
    <3> QED BY <1>12, <3>1, Zenon
  <2>2. ASSUME NEW d \in Desc \ free' PROVE \E q \in Busy' : d \in Three(q)'
    <3>1. d \in Desc \ free /\ d \notin F
      BY <1>7, <2>2, Zenon
    <3>2. PICK q \in Busy : d \in Three(q)
      BY <3>1, Zenon DEF IInv, Chains
    <3>3. q \in Busy'
      BY <1>8, <3>1, <3>2, Zenon DEF Busy, F
    <3> QED BY <1>12, <3>2, <3>3, Zenon
  <2> QED BY <1>13, <2>1, <2>2, Zenon DEF Chains
<1>15. Ring(avail, seen, avail_idx)' /\ Ring(used, used_idx, usedidx)'
  BY <1>6, Zenon DEF IInv, Ring
<1>16. Heads \subseteq Heads'
  <2> SUFFICES ASSUME NEW q \in Busy, bdisk[q] = 1 PROVE idx0[q] \in Heads'
    BY Zenon DEF Heads
  <2>1. q \in Procs /\ q # p /\ q \in Busy' /\ idx0'[q] = idx0[q] /\ bdisk'[q] = 1
    BY <1>1, <1>6, <1>8, <1>9, Zenon DEF Busy
  <2> QED BY <2>1, Zenon DEF Heads
<1>17. PlaceInv'
  <2>1. Held(avail)' = Held(avail) /\ Held(used)' = Held(used)
    BY <1>6, Zenon DEF Held
  <2> QED BY <1>6, <1>16, <2>1 DEF IInv, PlaceInv
<1>18. ASSUME NEW q \in Procs PROVE DataInv(q)'
  <2>1. CASE q = p
    <3>1. DataInv(p) /\ bdisk[p] = 0
      BY <1>0, <1>1, Zenon DEF IInv
    <3> QED BY <1>6, <2>1, <3>1, Zenon DEF DataInv
  <2>2. CASE q # p
    <3>1. DataInv(q) /\ idx0'[q] = idx0[q] /\ (q \in Busy' <=> q \in Busy)
      BY <1>8, <1>9, <2>2, Zenon DEF IInv
    <3> QED BY <1>6, <3>1, Zenon DEF DataInv, Held
  <2> QED BY <2>1, <2>2
<1>19. SleepsForACause'
  BY <1>6, <1>8, Zenon DEF IInv, SleepsForACause, NoLostCompletion, DescSleeps
<1> QED BY <1>10, <1>14, <1>15, <1>17, <1>18, <1>19, Zenon DEF IInv

(* virtio_disk_rw() up to its sleep: three free descriptors become the chain  *)
(* of the request, and its head goes on the available ring, which has room.   *)
LEMMA SubmitStep ==
  ASSUME IInv, NEW p \in Procs, NEW t, NEW v, submit(p, t, v)
  PROVE  IInv'
<1> DEFINE x1 == idx[1]
           x2 == idx[2]
           x3 == idx[3]
<1>0. /\ free \in SUBSET Desc /\ addr \in [Desc -> Procs \cup {None}]
      /\ link \in [Desc -> Desc \cup {None}] /\ info \in [Desc -> Procs \cup {None}]
      /\ bdisk \in [Procs -> {0, 1}] /\ idx0 \in [Procs -> Desc \cup {None}] /\ panicked = 0
      /\ pc \in [Procs -> {"out", "alloc", "nodesc", "asleep", "woken"}] /\ DOMAIN type = Desc
      /\ status \in [Desc -> {0, 255}] /\ DOMAIN data = Procs
  BY Zenon DEF IInv, TypeInv
<1>1. pc[p] \in {"out", "alloc"} /\ Cardinality(free) >= 3
  BY Zenon DEF submit
<1>2. /\ free' = free \ {x1, x2, x3} /\ type' = [type EXCEPT ![x1] = t]
      /\ addr' = [addr EXCEPT ![x2] = p]
      /\ link' = [link EXCEPT ![x1] = x2, ![x2] = x3, ![x3] = None]
      /\ status' = [status EXCEPT ![x1] = 255] /\ info' = [info EXCEPT ![x1] = p]
  BY Zenon DEF submit, last_link
<1>3. /\ bdisk' = [bdisk EXCEPT ![p] = 1] /\ data' = [data EXCEPT ![p] = v]
      /\ idx0' = [idx0 EXCEPT ![p] = x1] /\ pc' = [pc EXCEPT ![p] = "asleep"]
  BY Zenon DEF submit
<1>4. /\ avail' = Pushed(avail, avail_idx, x1) /\ avail_idx' = plus1(avail_idx)
      /\ used' = used /\ usedidx' = usedidx /\ used_idx' = used_idx /\ seen' = seen
      /\ taken' = taken /\ irq' = irq /\ block' = block /\ intr' = intr /\ panicked' = panicked
  BY Zenon DEF submit, device, Pushed
<1>5. x1 \in free /\ x2 \in free /\ x3 \in free /\ x1 # x2 /\ x1 # x3 /\ x2 # x3
  BY <1>0, <1>1, Alloc3, Zenon
<1> HIDE DEF x1, x2, x3
<1>6. x1 \in Desc /\ x2 \in Desc /\ x3 \in Desc
  BY <1>0, <1>5, Zenon
<1>7. link'[x1] = x2 /\ link'[x2] = x3 /\ link'[x3] = None /\ addr'[x2] = p /\ info'[x1] = p
  BY <1>0, <1>2, <1>5, <1>6
<1>8. \A d \in Desc \ free : addr'[d] = addr[d] /\ link'[d] = link[d] /\ info'[d] = info[d]
  BY <1>0, <1>2, <1>5, <1>6
<1>9. /\ idx0'[p] = x1 /\ bdisk'[p] = 1 /\ pc'[p] = "asleep"
      /\ \A q \in Procs : q # p => /\ idx0'[q] = idx0[q] /\ bdisk'[q] = bdisk[q]
                                   /\ data'[q] = data[q] /\ pc'[q] = pc[q]
  BY <1>0, <1>3
<1>10. p \notin Busy /\ p \in Busy' /\ \A q \in Procs : q # p => (q \in Busy' <=> q \in Busy)
  BY <1>1, <1>9 DEF Busy
<1>11. TypeInv'
  <2>1. addr' \in [Desc -> Procs \cup {None}] /\ info' \in [Desc -> Procs \cup {None}]
    BY <1>0, <1>2, Zenon
  <2>2. link' \in [Desc -> Desc \cup {None}]
    BY <1>0, <1>2, <1>6
  <2>3. status' \in [Desc -> {0, 255}] /\ bdisk' \in [Procs -> {0, 1}]
    BY <1>0, <1>2, <1>3, Zenon
  <2>4. idx0' \in [Procs -> Desc \cup {None}]
    BY <1>0, <1>3, <1>6
  <2>5. pc' \in [Procs -> {"out", "alloc", "nodesc", "asleep", "woken"}]
    BY <1>0, <1>3
  <2>6. free' \in SUBSET Desc /\ DOMAIN type' = Desc /\ DOMAIN data' = Procs
    BY <1>0, <1>2, <1>3, Zenon
  <2> QED BY <1>4, <2>1, <2>2, <2>3, <2>4, <2>5, <2>6, Zenon DEF IInv, TypeInv
<1>12. Heads \subseteq Desc \ free /\ x1 \notin Heads
  BY <1>5, HeadOf, Zenon
<1>13. PlaceInv /\ x1 \notin Held(avail) /\ x1 \notin Held(used) /\ x1 \notin taken
  BY <1>12, Zenon DEF IInv, PlaceInv
<1>14. /\ Ring(avail, seen, avail_idx)' /\ Ring(used, used_idx, usedidx)'
       /\ Held(avail)' = Held(avail) \cup {x1} /\ Held(used)' = Held(used)
  <2>1. Ring(avail, seen, avail_idx) /\ Ring(used, used_idx, usedidx)
    BY Zenon DEF IInv
  <2>2. x1 \in Desc /\ x1 \notin Held(avail)
    BY <1>6, <1>13, Zenon
  <2>3. /\ Ring(Pushed(avail, avail_idx, x1), seen, plus1(avail_idx))
        /\ Held(Pushed(avail, avail_idx, x1)) = Held(avail) \cup {x1}
    BY <2>1, <2>2, Push
  <2>4. Ring(avail', seen', avail_idx') /\ Held(avail') = Held(avail) \cup {x1}
    BY <1>4, <2>3, Zenon
  <2>5. Ring(used', used_idx', usedidx') /\ Held(used') = Held(used)
    BY <1>4, <2>1, Zenon
  <2>6. Ring(avail, seen, avail_idx)' /\ Ring(used, used_idx, usedidx)'
    BY <2>4, <2>5, Zenon DEF Ring
  <2> QED BY <2>4, <2>5, <2>6, Zenon DEF Held
<1>15. Heads \subseteq Heads' /\ x1 \in Heads'
  <2>1. ASSUME NEW q \in Busy, bdisk[q] = 1 PROVE idx0[q] \in Heads'
    <3>1. q \in Procs /\ q # p /\ q \in Busy' /\ idx0'[q] = idx0[q] /\ bdisk'[q] = 1
      BY <1>9, <1>10, <2>1, Zenon DEF Busy
    <3> QED BY <3>1, Zenon DEF Heads
  <2>2. x1 \in Heads'
    BY <1>9, <1>10, Zenon DEF Heads
  <2> QED BY <2>1, <2>2, Zenon DEF Heads
<1>16. PlaceInv'
  <2>1. \A id \in Held(used) : status'[id] = 0
    <3>1. \A id \in Held(used) : id \in Desc /\ id # x1 /\ status[id] = 0
      BY <1>12, <1>13, Zenon DEF PlaceInv
    <3> QED BY <1>0, <1>2, <3>1
  <2>2. /\ Held(avail)' \subseteq Heads' /\ taken' \subseteq Heads' /\ Held(used)' \subseteq Heads'
    BY <1>4, <1>13, <1>14, <1>15, Zenon DEF PlaceInv
  <2>3. /\ Held(avail)' \cap taken' = {} /\ Held(avail)' \cap Held(used)' = {}
        /\ taken' \cap Held(used)' = {}
    BY <1>4, <1>13, <1>14 DEF PlaceInv
  <2> QED BY <1>14, <2>1, <2>2, <2>3, Zenon DEF PlaceInv
<1>17. d1(p)' = x1 /\ d2(p)' = x2 /\ d3(p)' = x3 /\ Three(p)' = {x1, x2, x3}
  BY <1>7, <1>9, Zenon DEF d1, d2, d3, Three
<1>18. ASSUME NEW q \in Busy
       PROVE  /\ Three(q) \subseteq Desc \ free /\ ReqInv(q) /\ d1(q)' = d1(q) /\ d2(q)' = d2(q)
              /\ d3(q)' = d3(q) /\ Three(q)' = Three(q)
  <2>1. q # p /\ q \in Procs
    BY <1>10, Zenon DEF Busy
  <2>2. ReqInv(q)
    BY Zenon DEF IInv, Chains
  <2>3. d1(q) \in Desc \ free /\ d2(q) \in Desc \ free /\ d3(q) \in Desc \ free
    BY <2>2, Zenon DEF ReqInv
  <2>4. d1(q)' = d1(q)
    BY <1>9, <2>1, Zenon DEF d1
  <2>5. d2(q)' = d2(q)
    BY <1>8, <2>3, <2>4, Zenon DEF d2
  <2>6. d3(q)' = d3(q)
    BY <1>8, <2>3, <2>5, Zenon DEF d3
  <2> QED BY <2>2, <2>3, <2>4, <2>5, <2>6, Zenon DEF Three
<1>19. ASSUME NEW q \in Busy' PROVE q = p \/ q \in Busy
  BY <1>10, <1>19, Zenon DEF Busy
<1>20. ASSUME NEW q \in Busy' PROVE ReqInv(q)'
  <2>1. CASE q = p
    <3>1. x1 \in Desc \ free' /\ x2 \in Desc \ free' /\ x3 \in Desc \ free'
      BY <1>2, <1>6, Zenon
    <3> QED BY <1>5, <1>7, <1>17, <2>1, <3>1, Zenon DEF ReqInv
  <2>2. CASE q # p
    <3>1. q \in Busy
      BY <1>19, <2>2, Zenon
    <3>2. ReqInv(q) /\ d1(q) \in Desc \ free /\ d2(q) \in Desc \ free /\ d3(q) \in Desc \ free
      BY <1>18, <3>1, Zenon DEF ReqInv
    <3>3. link'[d3(q)] = link[d3(q)] /\ addr'[d2(q)] = addr[d2(q)] /\ info'[d1(q)] = info[d1(q)]
      BY <1>8, <3>2, Zenon
    <3>4. Desc \ free \subseteq Desc \ free'
      BY <1>2, Zenon
    <3> QED BY <1>18, <3>1, <3>2, <3>3, <3>4, Zenon DEF ReqInv
  <2> QED BY <2>1, <2>2
<1>21. Chains'
  <2>0. ASSUME NEW q \in Busy PROVE Three(p)' \cap Three(q)' = {}
    BY <1>5, <1>17, <1>18, <2>0, Zenon
  <2>1. ASSUME NEW q \in Busy', NEW r \in Busy', q # r PROVE Three(q)' \cap Three(r)' = {}
    <3>1. CASE q \in Busy /\ r \in Busy
      <4>1. Three(q) \cap Three(r) = {}
        BY <2>1, <3>1, Zenon DEF IInv, Chains
      <4> QED BY <1>18, <3>1, <4>1, Zenon
    <3>2. CASE q = p
      <4>1. r \in Busy
        BY <1>19, <2>1, <3>2, Zenon
      <4> QED BY <2>0, <3>2, <4>1, Zenon
    <3>3. CASE r = p
      <4>1. q \in Busy
        BY <1>19, <2>1, <3>3, Zenon
      <4>2. Three(p)' \cap Three(q)' = {}
        BY <2>0, <4>1, Zenon
      <4> QED BY <3>3, <4>2, Zenon
    <3> QED BY <1>19, <3>1, <3>2, <3>3, Zenon
  <2>2. ASSUME NEW d \in Desc \ free' PROVE \E q \in Busy' : d \in Three(q)'
    <3>1. CASE d \in {x1, x2, x3}
      BY <1>10, <1>17, <3>1, Zenon
    <3>2. CASE d \notin {x1, x2, x3}
      <4>1. d \in Desc \ free
        BY <1>2, <2>2, <3>2, Zenon
      <4>2. PICK q \in Busy : d \in Three(q)
        BY <4>1, Zenon DEF IInv, Chains
      <4>3. q \in Busy' /\ d \in Three(q)'
        BY <1>10, <1>18, <4>2, Zenon DEF Busy
      <4> QED BY <4>3, Zenon
    <3> QED BY <3>1, <3>2
  <2> QED BY <1>20, <2>1, <2>2, Zenon DEF Chains
<1>22. ASSUME NEW q \in Procs PROVE DataInv(q)'
  <2>1. CASE q = p
    BY <1>9, <1>10, <1>13, <1>14, <2>1 DEF DataInv
  <2>2. CASE q # p
    <3>1. /\ DataInv(q) /\ idx0'[q] = idx0[q] /\ bdisk'[q] = bdisk[q] /\ data'[q] = data[q]
          /\ (q \in Busy' <=> q \in Busy)
      BY <1>9, <1>10, <2>2, Zenon DEF IInv
    <3> QED BY <1>4, <1>14, <3>1, Zenon DEF DataInv
  <2> QED BY <2>1, <2>2
<1>23. SleepsForACause'
  <2>1. Cardinality(free) \in Nat
    BY <1>0, FreeFinite, Zenon
  <2>2. \A q \in Procs : pc[q] # "nodesc"
    BY <1>1, <2>1 DEF IInv, SleepsForACause, DescSleeps
  <2>3. \A q \in Procs : pc'[q] # "nodesc"
    BY <1>9, <2>2
  <2> QED BY <1>4, <2>3, Zenon DEF IInv, SleepsForACause, NoLostCompletion, DescSleeps
<1> QED BY <1>11, <1>14, <1>16, <1>21, <1>22, <1>23, Zenon DEF IInv

(* virtio_disk_init(): no request, both rings empty. *)
LEMMA InitInv == Init => IInv
<1> SUFFICES ASSUME Init PROVE IInv
  OBVIOUS
<1>0. NUM \in Nat \ {0} /\ IDX \in Nat \ {0} /\ IDX > NUM
  BY RingAssumption
<1>1. TypeInv
  BY DEF Init, TypeInv
<1>2. Busy = {}
  BY DEF Init, Busy
<1>3. \A r : r = [k \in Desc |-> None] => Ring(r, 0, 0) /\ Held(r) = {}
  <2> SUFFICES ASSUME NEW r, r = [k \in Desc |-> None] PROVE Ring(r, 0, 0) /\ Held(r) = {}
    OBVIOUS
  <2>1. r \in [Desc -> Desc \cup {None}] /\ \A k \in Desc : r[k] = None
    BY Zenon
  <2>2. 0 \in Counters /\ 0 = (0 + 0) % IDX /\ 0 \in 0..NUM
    BY <1>0 DEF Counters
  <2>3. \A k \in Desc : r[(0 + k) % NUM] # None <=> k < 0
    <3> SUFFICES ASSUME NEW k \in Desc PROVE r[(0 + k) % NUM] = None /\ ~(k < 0)
      OBVIOUS
    <3>1. 0 + k \in Nat /\ ~(k < 0)
      BY <1>0 DEF Desc
    <3> QED BY <2>1, <3>1, PlaceType
  <2> QED BY <2>1, <2>2, <2>3, Zenon DEF Ring, Held
<1>4. /\ Ring(avail, seen, avail_idx) /\ Ring(used, used_idx, usedidx)
      /\ Held(avail) = {} /\ Held(used) = {}
  BY <1>3, Zenon DEF Init
<1>5. PlaceInv
  BY <1>4, Zenon DEF PlaceInv, Init
<1>6. Chains
  BY <1>2, Zenon DEF Chains, Init
<1>7. \A p \in Procs : DataInv(p)
  BY Zenon DEF DataInv, Init
<1>8. SleepsForACause
  BY DEF SleepsForACause, NoLostCompletion, DescSleeps, Init
<1> QED BY <1>1, <1>4, <1>5, <1>6, <1>7, <1>8, Zenon DEF IInv

(* Every step of the driver, its handler and the device keeps the invariant. *)
LEMMA NextInv == IInv /\ [Next]_vars => IInv'
<1> SUFFICES ASSUME IInv, [Next]_vars PROVE IInv'
  OBVIOUS
<1>1. CASE UNCHANGED vars
  <2>1. /\ UNCHANGED <<free, req, rings, seen, taken, block, bdisk, data, idx0, panicked>>
        /\ pc' = pc /\ irq' = irq /\ intr' = intr
    BY <1>1, Zenon DEF vars, device
  <2>2. free' = free /\ used_idx' = used_idx /\ usedidx' = usedidx
    BY <2>1, Zenon DEF rings
  <2>3. Busy' = Busy
    BY <2>1, Zenon DEF Busy
  <2>4. SleepsForACause'
    BY <2>1, <2>2, Zenon DEF IInv, SleepsForACause, NoLostCompletion, DescSleeps
  <2>5. /\ pc' \in [Procs -> {"out", "alloc", "nodesc", "asleep", "woken"}]
        /\ irq' \in {0, 1} /\ intr' \in {0, 1}
    BY <2>1, Zenon DEF IInv, TypeInv
  <2> QED BY <2>1, <2>3, <2>4, <2>5, Quiet, Zenon
<1>2. ASSUME NEW p \in Procs, NEW t \in {"IN", "OUT"}, NEW v \in Vals, submit(p, t, v) PROVE IInv'
  BY <1>2, SubmitStep, Zenon
<1>3. ASSUME NEW p \in Procs, no_desc(p) \/ sleep_again(p) \/ kill(p) PROVE IInv'
  BY <1>3, SleepSteps, Zenon
<1>4. ASSUME NEW p \in Procs, finish(p) PROVE IInv'
  BY <1>4, FinishStep, Zenon
<1>5. CASE virtio_disk_intr \/ intr_end
  BY <1>5, IntrSteps, Zenon
<1>6. CASE intr_loop
  BY <1>6, LoopStep, Zenon
<1>7. CASE device_take
  BY <1>7, TakeStep, Zenon
<1>8. ASSUME NEW id \in Desc, device_serve(id) PROVE IInv'
  BY <1>8, ServeStep, Zenon
<1> QED BY <1>1, <1>2, <1>3, <1>4, <1>5, <1>6, <1>7, <1>8, Zenon DEF Next

(* The invariant of the driver and the device, for every number of processes  *)
(* and every size of the rings.                                               *)
THEOREM DriverInvariant == Spec => []IInv
BY InitInv, NextInv, PTL DEF Spec

(* virtio_disk_rw() returns only when the transfer is done, whatever the      *)
(* order of the device; a descriptor belongs to one request at a time, and    *)
(* neither free_desc() nor virtio_disk_intr() panics.                         *)
THEOREM TransfersCorrect == Spec => []Transfers
BY DriverInvariant, Implies, PTL

(* A finished request has an interrupt pending or the handler at work, and    *)
(* nobody sleeps on disk.free[0] while three descriptors are free.            *)
THEOREM SleepCorrect == Spec => []SleepsForACause
BY DriverInvariant, Implies, PTL
==============================================================================
