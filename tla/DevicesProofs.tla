---------------------------- MODULE DevicesProofs -----------------------------
(***************************************************************************)
(* The console's ring is a terminal, the UART's buffer a queue, nobody     *)
(* sleeps beside what they wait for and sys_sleep() is long enough, for    *)
(* every number of processes and all sizes of the buffers and of an uint.  *)
(***************************************************************************)
EXTENDS Devices, SequenceTheorems, TLAPS

------------------------------------------------------------------------------
(* The inductive invariant. *)
Locks == {"cons", "tx", "ticks"}
SysCalls == {"read", "write", "sleep"}
Uints == 0..(UINT - 1)
Slots == 0..(INPUT_BUF_SIZE - 1)
TxSlots == 0..(UART_TX_BUF_SIZE - 1)
Written == (Procs \X Int) \cup {None}
State == [at : {"user", "run", "sleep", "asleep", "start", "thr"}, call : SysCalls \cup {None},
          n : Int, target : Int, ticks0 : Uints \cup {None}, slept : Nat]

TypeInv ==
  /\ lock \in [Locks -> Procs \cup {Intr, None}]
  /\ pr \in [Procs -> State]
  /\ intr \in {"idle", "getc", "echo", "echothr", "start", "thr"}
  /\ fifo \in Nat /\ rx \in Seq(Keys) /\ ticks \in Uints

(* Who holds the locks, and where. *)
Own(p) ==
  /\ pr[p].at # "user" => pr[p].call \in SysCalls
  /\ pr[p].at = "sleep" => lock[LockOf(pr[p].call)] = p
  /\ pr[p].at \in {"start", "thr"} => lock["tx"] = p
  /\ lock["cons"] = p => pr[p].call = "read" /\ pr[p].at \in {"run", "sleep"}
  /\ lock["tx"] = p => pr[p].call = "write" /\ pr[p].at \in {"sleep", "start", "thr"}
  /\ lock["ticks"] = p => pr[p].call = "sleep" /\ pr[p].at = "sleep"
IntrOwns ==
  /\ lock["cons"] = Intr <=> intr \in {"echo", "echothr"}
  /\ lock["tx"] = Intr => intr \in {"start", "thr"}
  /\ intr = "thr" => lock["tx"] = Intr
  /\ lock["ticks"] # Intr
LockInv == IntrOwns /\ \A p \in Procs : Own(p)

(* Why a process goes to sleep, which holds until it is woken. *)
Cause(p) ==
  pr[p].at \in {"sleep", "asleep"} =>
    /\ pr[p].call = "read" => cons.r = cons.w
    /\ pr[p].call = "write" => full
    /\ pr[p].call = "sleep" => pr[p].slept < pr[p].n
CauseInv == \A p \in Procs : Cause(p)

(* What is buffered goes out, unless somebody is in uartstart(). *)
TxWaits == lock["tx"] = None \/ \E p \in Procs : lock["tx"] = p /\ pr[p].at = "sleep"
MovesInv == tx_w # tx_r /\ TxWaits => fifo > 0 \/ thre \/ intr # "idle"

(* sys_sleep() has seen the clock start. *)
Timed(p) ==
  /\ Sleeping(p) => ticks = (pr[p].ticks0 + pr[p].slept) % UINT
  /\ pr[p].slept <= MaxTicks
  /\ pr[p].ticks0 = None => pr[p].slept = 0
ClockInv == \A p \in Procs : Timed(p)

(* uart_tx_buf is what was put and not sent. *)
TxInv ==
  /\ tx \in [TxSlots -> Written] /\ tx_r \in Nat /\ tx_w \in tx_r..(tx_r + UART_TX_BUF_SIZE)
  /\ put \in Seq(Written) /\ sent \in Seq(Written)
  /\ OutputInOrder

(* The ring of the console, with nothing but the line's own characters in it. *)
QueueLen(C) == Minus(C.w, C.r)
LineLen(C) == Minus(C.e, C.w)
QueueOf(C) == [i \in 1..QueueLen(C) |-> C.buf[slot(C.r + i - 1)]]
LineOf(C) == [i \in 1..LineLen(C) |-> C.buf[slot(C.w + i - 1)]]
Ringlike(C) ==
  /\ C \in [buf : [Slots -> Keys \cup {None}], r : Uints, w : Uints, e : Uints]
  /\ QueueLen(C) + LineLen(C) <= INPUT_BUF_SIZE
  /\ \A i \in 1..LineLen(C) : LineOf(C)[i] # "nl"

IInv == TypeInv /\ LockInv /\ CauseInv /\ MovesInv /\ ClockInv /\ TxInv /\ Ringlike(cons)

------------------------------------------------------------------------------
(* Unsigned integers and the slots of the ring. *)

(* Division with remainder. *)
LEMMA DivMod ==
  ASSUME NEW m \in Nat \ {0}, NEW x \in Int
  PROVE  x = m * (x \div m) + (x % m) /\ x \div m \in Int /\ x % m \in 0..(m - 1)
OBVIOUS

(* The remainder is unique. *)
LEMMA ModUnique ==
  ASSUME NEW m \in Nat \ {0}, NEW q \in Int, NEW r \in 0..(m - 1)
  PROVE  (m * q + r) % m = r
OBVIOUS

(* Numbers less than m apart fall into different slots of m. *)
LEMMA ModApart ==
  ASSUME NEW m \in Nat \ {0}, NEW x \in Int, NEW y \in Int, x < y, y < x + m
  PROVE  x % m # y % m
<1> SUFFICES ASSUME x % m = y % m PROVE FALSE
  BY Zenon
<1>1. PICK i \in Int : x = m * i + (x % m)
  BY DivMod, Zenon
<1>2. PICK j \in Int : y = m * j + (x % m)
  BY DivMod, Zenon
<1>3. x % m \in Int
  BY DivMod
<1>4. y - x = m * j - m * i
  BY <1>1, <1>2, <1>3
<1>5. m * j - m * i = m * (j - i)
  OBVIOUS
<1>6. ASSUME NEW d \in Int, 0 < m * d, m * d < m PROVE FALSE
  BY <1>6
<1> QED BY <1>4, <1>5, <1>6

(* A multiple of m does not change the slot. *)
LEMMA ModShift ==
  ASSUME NEW m \in Nat \ {0}, NEW x \in Int, NEW n \in Nat, n % m = 0
  PROVE  (x + n) % m = x % m
<1> DEFINE q == (x \div m) + (n \div m)
<1>1. x + n = m * q + (x % m) /\ q \in Int
  BY DivMod
<1>2. x % m \in 0..(m - 1)
  BY DivMod
<1> HIDE DEF q
<1> QED BY <1>1, <1>2, ModUnique, Zenon

(* An integer that is at most one turn out of range. *)
LEMMA Wrap ==
  ASSUME NEW x \in (-UINT)..(2 * UINT - 1)
  PROVE  x % UINT = IF x < 0 THEN x + UINT ELSE IF x < UINT THEN x ELSE x - UINT
BY RingFits

(* The difference of two unsigned integers. *)
LEMMA MinusIs ==
  ASSUME NEW x \in Uints, NEW y \in Uints
  PROVE  Minus(y, x) \in Uints /\ Minus(y, x) = IF y < x THEN y - x + UINT ELSE y - x
<1> DEFINE z == y - x + UINT
<1>1. UINT \in Nat \ {0} /\ z \in (-UINT)..(2 * UINT - 1) /\ 0 <= z /\ (y < x <=> z < UINT)
  BY RingFits DEF Uints
<1>2. Minus(y, x) = z % UINT
  BY DEF Minus
<1> HIDE DEF z
<1>3. Minus(y, x) = IF z < UINT THEN z ELSE z - UINT
  BY <1>1, <1>2, Wrap
<1> QED BY <1>1, <1>3 DEF z, Uints

(* The sum of two. *)
LEMMA PlusIs ==
  ASSUME NEW x \in Uints, NEW k \in 0..UINT
  PROVE  /\ (x + k) % UINT \in Uints
         /\ (x + k) % UINT = IF x + k < UINT THEN x + k ELSE x + k - UINT
<1> DEFINE z == x + k
<1>1. UINT \in Nat \ {0} /\ z \in (-UINT)..(2 * UINT - 1) /\ 0 <= z
  BY RingFits DEF Uints
<1> HIDE DEF z
<1>2. z % UINT = IF z < UINT THEN z ELSE z - UINT
  BY <1>1, Wrap
<1> QED BY <1>1, <1>2 DEF z, Uints

(* A slot. *)
LEMMA SlotType == ASSUME NEW x \in Int PROVE slot(x) \in Slots
BY RingFits, DivMod DEF slot, Slots

(* A turn of the index is many turns of the ring. *)
LEMMA SlotTurn == ASSUME NEW x \in Int PROVE slot(x + UINT) = slot(x)
BY RingFits, ModShift, Zenon DEF slot

(* Places of the ring that are less than its size apart. *)
LEMMA SlotApart ==
  ASSUME NEW x \in Int, NEW y \in Int, x < y, y < x + INPUT_BUF_SIZE
  PROVE  slot(x) # slot(y)
BY RingFits, ModApart, Zenon DEF slot

(* A function on 1..n is a sequence. *)
LEMMA FunIsSeq ==
  ASSUME NEW n \in Nat, NEW f, NEW S, f = [k \in 1..n |-> f[k]], \A k \in 1..n : f[k] \in S
  PROVE  f \in Seq(S) /\ Len(f) = n
<1>1. f \in [1..n -> S]
  OBVIOUS
<1> QED BY <1>1

------------------------------------------------------------------------------
(* The console's ring as a queue and a line. *)
Chars == Keys \cup {None}
Indexed == [buf : [Slots -> Chars], r : Uints, w : Uints, e : Uints]

(* The three indices of a ring. *)
LEMMA RingFacts ==
  ASSUME NEW C \in Indexed, QueueLen(C) + LineLen(C) <= INPUT_BUF_SIZE
  PROVE  /\ C.buf \in [Slots -> Chars] /\ C.r \in Uints /\ C.w \in Uints /\ C.e \in Uints
         /\ QueueLen(C) \in Nat /\ LineLen(C) \in Nat
         /\ QueueLen(C) < UINT /\ LineLen(C) < UINT
         /\ C.w = C.r + QueueLen(C) \/ C.w = C.r + QueueLen(C) - UINT
         /\ C.e = C.w + LineLen(C) \/ C.e = C.w + LineLen(C) - UINT
         /\ Minus(C.e, C.r) = QueueLen(C) + LineLen(C)
<1>1. C.buf \in [Slots -> Chars] /\ C.r \in Uints /\ C.w \in Uints /\ C.e \in Uints
  BY DEF Indexed
<1>2. UINT \in Nat \ {0} /\ INPUT_BUF_SIZE \in Nat /\ INPUT_BUF_SIZE < UINT
  BY RingFits
<1>3. QueueLen(C) \in Uints /\ QueueLen(C) = IF C.w < C.r THEN C.w - C.r + UINT ELSE C.w - C.r
  BY <1>1, MinusIs, Zenon DEF QueueLen
<1>4. LineLen(C) \in Uints /\ LineLen(C) = IF C.e < C.w THEN C.e - C.w + UINT ELSE C.e - C.w
  BY <1>1, MinusIs, Zenon DEF LineLen
<1>5. Minus(C.e, C.r) \in Uints /\ Minus(C.e, C.r) = IF C.e < C.r THEN C.e - C.r + UINT ELSE C.e - C.r
  BY <1>1, MinusIs, Zenon
<1> QED BY <1>1, <1>2, <1>3, <1>4, <1>5 DEF Uints

(* The character i of the line is one of the ring. *)
LEMMA LineSlots ==
  ASSUME NEW C \in Indexed, QueueLen(C) + LineLen(C) <= INPUT_BUF_SIZE, NEW i \in Int
  PROVE  slot(C.w + i) = slot(C.r + (QueueLen(C) + i))
<1>1. /\ C.r \in Int /\ C.w \in Int /\ QueueLen(C) \in Int /\ UINT \in Int
      /\ C.w = C.r + QueueLen(C) \/ C.w = C.r + QueueLen(C) - UINT
  BY RingFacts, RingFits DEF Uints
<1>2. CASE C.w = C.r + QueueLen(C)
  <2>1. C.w + i = C.r + (QueueLen(C) + i)
    BY <1>1, <1>2
  <2> QED BY <2>1, Zenon
<1>3. CASE C.w = C.r + QueueLen(C) - UINT
  <2>1. (C.w + i) + UINT = C.r + (QueueLen(C) + i) /\ C.w + i \in Int
    BY <1>1, <1>3
  <2> QED BY <2>1, SlotTurn
<1> QED BY <1>1, <1>2, <1>3

(* Queue and line are sequences. *)
LEMMA QueueIsSeq ==
  ASSUME NEW C \in Indexed, QueueLen(C) + LineLen(C) <= INPUT_BUF_SIZE
  PROVE  /\ QueueOf(C) \in Seq(Chars) /\ Len(QueueOf(C)) = QueueLen(C)
         /\ LineOf(C) \in Seq(Chars) /\ Len(LineOf(C)) = LineLen(C)
<1>1. C.buf \in [Slots -> Chars] /\ C.r \in Int /\ C.w \in Int
  BY RingFacts, RingFits DEF Uints
<1>2. QueueLen(C) \in Nat /\ LineLen(C) \in Nat
  BY RingFacts
<1>3. ASSUME NEW k \in 1..QueueLen(C) PROVE C.buf[slot(C.r + k - 1)] \in Chars
  <2>1. C.r + k - 1 \in Int
    BY <1>1, <1>2
  <2> QED BY <1>1, <2>1, SlotType
<1>4. ASSUME NEW k \in 1..LineLen(C) PROVE C.buf[slot(C.w + k - 1)] \in Chars
  <2>1. C.w + k - 1 \in Int
    BY <1>1, <1>2
  <2> QED BY <1>1, <2>1, SlotType, Zenon
<1> HIDE DEF QueueLen, LineLen
<1>5. QueueOf(C) \in Seq(Chars) /\ Len(QueueOf(C)) = QueueLen(C)
  BY <1>2, <1>3 DEF QueueOf
<1>6. LineOf(C) \in Seq(Chars) /\ Len(LineOf(C)) = LineLen(C)
  BY <1>2, <1>4 DEF LineOf
<1> QED BY <1>5, <1>6

(* Rings with the same indices and the same characters between them. *)
LEMMA SameRing ==
  ASSUME NEW C \in Indexed, NEW D \in Indexed, QueueLen(C) + LineLen(C) <= INPUT_BUF_SIZE,
         D.r = C.r, D.w = C.w, D.e = C.e,
         \A k \in 0..(Minus(C.e, C.r) - 1) : D.buf[slot(C.r + k)] = C.buf[slot(C.r + k)]
  PROVE  /\ QueueLen(D) = QueueLen(C) /\ LineLen(D) = LineLen(C)
         /\ QueueOf(D) = QueueOf(C) /\ LineOf(D) = LineOf(C)
<1>1. QueueLen(D) = QueueLen(C) /\ LineLen(D) = LineLen(C)
  BY Zenon DEF QueueLen, LineLen
<1>2. /\ C.r \in Int /\ C.w \in Int /\ QueueLen(C) \in Nat /\ LineLen(C) \in Nat
      /\ Minus(C.e, C.r) = QueueLen(C) + LineLen(C)
  BY RingFacts, RingFits DEF Uints
<1> HIDE DEF QueueLen, LineLen, Minus
<1>3. ASSUME NEW i \in 1..QueueLen(C) PROVE D.buf[slot(C.r + i - 1)] = C.buf[slot(C.r + i - 1)]
  <2>1. C.r + i - 1 = C.r + (i - 1) /\ i - 1 \in 0..(Minus(C.e, C.r) - 1)
    BY <1>2
  <2> QED BY <2>1, Zenon
<1>4. ASSUME NEW i \in 1..LineLen(C) PROVE D.buf[slot(C.w + i - 1)] = C.buf[slot(C.w + i - 1)]
  <2>1. C.w + i - 1 = C.w + (i - 1) /\ i - 1 \in Int
    BY <1>2
  <2>2. slot(C.w + i - 1) = slot(C.r + (QueueLen(C) + (i - 1)))
    BY <2>1, LineSlots, Zenon
  <2>3. QueueLen(C) + (i - 1) \in 0..(Minus(C.e, C.r) - 1)
    BY <1>2
  <2> QED BY <2>2, <2>3, Zenon
<1>5. QueueOf(D) = QueueOf(C)
  BY <1>1, <1>3, Zenon DEF QueueOf
<1>6. LineOf(D) = LineOf(C)
  BY <1>1, <1>4, Zenon DEF LineOf
<1> QED BY <1>1, <1>5, <1>6, Zenon

(* Forget() leaves queue and line as they are. *)
LEMMA Forgets ==
  ASSUME NEW C, Ringlike(C)
  PROVE  /\ Ringlike(Forget(C)) /\ QueueOf(Forget(C)) = QueueOf(C) /\ LineOf(Forget(C)) = LineOf(C)
         /\ Forget(C).r = C.r /\ Forget(C).w = C.w /\ Forget(C).e = C.e
<1> DEFINE kept(i) == \E k \in 0..(Minus(C.e, C.r) - 1) : slot(C.r + k) = i
<1> DEFINE B == [i \in DOMAIN C.buf |-> IF kept(i) THEN C.buf[i] ELSE None]
<1> DEFINE D == Forget(C)
<1>1. C \in Indexed /\ QueueLen(C) + LineLen(C) <= INPUT_BUF_SIZE
  BY Zenon DEF Ringlike, Indexed, Chars
<1>2. C.buf \in [Slots -> Chars] /\ C.r \in Int
  BY <1>1, RingFacts, RingFits DEF Uints
<1>3. B \in [Slots -> Chars]
  BY <1>2, Zenon DEF Chars
<1>4. D = [C EXCEPT !.buf = B]
  BY DEF Forget
<1>5. ASSUME NEW k \in 0..(Minus(C.e, C.r) - 1) PROVE B[slot(C.r + k)] = C.buf[slot(C.r + k)]
  <2>1. C.r + k \in Int
    BY <1>2
  <2>2. slot(C.r + k) \in DOMAIN C.buf
    BY <1>2, <2>1, SlotType
  <2> QED BY <2>2, Zenon
<1> HIDE DEF B, D
<1>6. D \in Indexed /\ D.buf = B /\ D.r = C.r /\ D.w = C.w /\ D.e = C.e
  BY <1>1, <1>3, <1>4 DEF Indexed
<1>7. /\ QueueLen(D) = QueueLen(C) /\ LineLen(D) = LineLen(C)
      /\ QueueOf(D) = QueueOf(C) /\ LineOf(D) = LineOf(C)
  BY <1>1, <1>5, <1>6, SameRing
<1>8. Ringlike(D)
  BY <1>1, <1>6, <1>7, Zenon DEF Ringlike, Indexed, Chars
<1> QED BY <1>6, <1>7, <1>8 DEF D

(* consoleread() takes the first character of the queue. *)
LEMMA Takes ==
  ASSUME NEW C, Ringlike(C), C.r # C.w,
         NEW N \in Indexed, N.buf = C.buf, N.r = (C.r + 1) % UINT, N.w = C.w, N.e = C.e
  PROVE  /\ Ringlike(N) /\ QueueOf(C) # <<>>
         /\ QueueOf(N) = Tail(QueueOf(C)) /\ LineOf(N) = LineOf(C)
<1>1. C \in Indexed /\ QueueLen(C) + LineLen(C) <= INPUT_BUF_SIZE
  BY Zenon DEF Ringlike, Indexed, Chars
<1>2. /\ C.r \in Uints /\ C.w \in Uints /\ C.buf \in [Slots -> Chars]
      /\ QueueLen(C) \in Nat /\ LineLen(C) \in Nat /\ QueueLen(C) < UINT
      /\ C.w = C.r + QueueLen(C) \/ C.w = C.r + QueueLen(C) - UINT
  BY <1>1, RingFacts
<1>3. UINT \in Nat \ {0} /\ INPUT_BUF_SIZE \in Nat
  BY RingFits
<1>4. QueueLen(C) > 0
  BY <1>2, <1>3 DEF Uints
<1>5. N.r \in Uints /\ N.r = IF C.r + 1 < UINT THEN C.r + 1 ELSE 0
  <2>1. 1 \in 0..UINT
    BY <1>3
  <2>2. (C.r + 1) % UINT \in Uints
    BY <1>2, <2>1, PlusIs
  <2>3. (C.r + 1) % UINT = IF C.r + 1 < UINT THEN C.r + 1 ELSE C.r + 1 - UINT
    BY <1>2, <2>1, PlusIs, Zenon
  <2> QED BY <1>2, <1>3, <2>2, <2>3 DEF Uints
<1>6. QueueLen(N) = QueueLen(C) - 1
  <2>1. QueueLen(N) = IF C.w < N.r THEN C.w - N.r + UINT ELSE C.w - N.r
    BY <1>2, <1>5, MinusIs DEF QueueLen
  <2> QED BY <1>2, <1>3, <1>4, <1>5, <2>1 DEF Uints
<1>7. LineLen(N) = LineLen(C) /\ LineOf(N) = LineOf(C)
  BY Zenon DEF LineLen, LineOf
<1>8. QueueLen(N) + LineLen(N) <= INPUT_BUF_SIZE
  BY <1>1, <1>2, <1>3, <1>6, <1>7
<1>9. Ringlike(N)
  BY <1>7, <1>8, Zenon DEF Ringlike, Indexed, Chars
<1>10. /\ QueueOf(C) \in Seq(Chars) /\ Len(QueueOf(C)) = QueueLen(C)
       /\ QueueOf(N) \in Seq(Chars) /\ Len(QueueOf(N)) = QueueLen(C) - 1
  BY <1>1, <1>6, <1>8, QueueIsSeq
<1>11. ASSUME NEW k \in 1..(QueueLen(C) - 1) PROVE QueueOf(N)[k] = QueueOf(C)[k + 1]
  <2>1. k + 1 \in 1..QueueLen(C) /\ k \in 1..QueueLen(N) /\ N.r + k - 1 \in Int
    BY <1>2, <1>5, <1>6 DEF Uints
  <2>2. C.r + (k + 1) - 1 = N.r + k - 1 \/ C.r + (k + 1) - 1 = (N.r + k - 1) + UINT
    <3>1. k \in Int /\ C.r \in Int /\ C.r < UINT /\ UINT \in Int
      BY <1>2, <1>3 DEF Uints
    <3> QED BY <1>5, <3>1
  <2>3. slot(C.r + (k + 1) - 1) = slot(N.r + k - 1)
    BY <2>1, <2>2, SlotTurn, Zenon
  <2>4. QueueOf(N)[k] = N.buf[slot(N.r + k - 1)]
    BY <2>1, Zenon DEF QueueOf
  <2>5. QueueOf(C)[k + 1] = C.buf[slot(C.r + (k + 1) - 1)]
    BY <2>1, Zenon DEF QueueOf
  <2> QED BY <2>3, <2>4, <2>5, Zenon
<1>12. QueueOf(C) # <<>>
  BY <1>4, <1>10
<1>13. /\ Tail(QueueOf(C)) \in Seq(Chars) /\ Len(Tail(QueueOf(C))) = QueueLen(C) - 1
       /\ \A k \in 1..(QueueLen(C) - 1) : Tail(QueueOf(C))[k] = QueueOf(C)[k + 1]
  BY <1>2, <1>10, <1>12, HeadTailProperties
<1>14. QueueOf(N) = Tail(QueueOf(C))
  BY <1>10, <1>11, <1>13, SeqEqual
<1> QED BY <1>7, <1>9, <1>12, <1>14, Zenon

(* Backspace takes the last character of the line. *)
LEMMA Erases ==
  ASSUME NEW C, Ringlike(C), C.e # C.w,
         NEW N \in Indexed, N.buf = C.buf, N.r = C.r, N.w = C.w, N.e = Minus(C.e, 1)
  PROVE  /\ Ringlike(N) /\ LineOf(C) # <<>>
         /\ QueueOf(N) = QueueOf(C) /\ LineOf(N) = SubSeq(LineOf(C), 1, Len(LineOf(C)) - 1)
<1>1. /\ C \in Indexed /\ QueueLen(C) + LineLen(C) <= INPUT_BUF_SIZE
      /\ \A i \in 1..LineLen(C) : LineOf(C)[i] # "nl"
  BY Zenon DEF Ringlike, Indexed, Chars
<1>2. /\ C.e \in Uints /\ C.w \in Uints /\ C.buf \in [Slots -> Chars]
      /\ QueueLen(C) \in Nat /\ LineLen(C) \in Nat /\ LineLen(C) < UINT
      /\ C.e = C.w + LineLen(C) \/ C.e = C.w + LineLen(C) - UINT
  BY <1>1, RingFacts
<1>3. UINT \in Nat \ {0} /\ INPUT_BUF_SIZE \in Nat \ {0} /\ UINT > INPUT_BUF_SIZE
  BY RingFits
<1>4. LineLen(C) > 0
  BY <1>2, <1>3 DEF Uints
<1>5. N.e \in Uints /\ N.e = IF C.e < 1 THEN C.e - 1 + UINT ELSE C.e - 1
  <2>1. 1 \in Uints
    BY <1>3 DEF Uints
  <2> QED BY <1>2, <2>1, MinusIs
<1>6. LineLen(N) = LineLen(C) - 1
  <2>1. LineLen(N) = IF N.e < C.w THEN N.e - C.w + UINT ELSE N.e - C.w
    BY <1>2, <1>5, MinusIs DEF LineLen
  <2> QED BY <1>2, <1>3, <1>4, <1>5, <2>1 DEF Uints
<1>7. QueueLen(N) = QueueLen(C) /\ QueueOf(N) = QueueOf(C)
  BY Zenon DEF QueueLen, QueueOf
<1>8. QueueLen(N) + LineLen(N) <= INPUT_BUF_SIZE
  BY <1>1, <1>2, <1>3, <1>6, <1>7
<1>9. ASSUME NEW i \in 1..(LineLen(C) - 1)
      PROVE  i \in 1..LineLen(C) /\ LineOf(N)[i] = LineOf(C)[i]
  <2>1. i \in 1..LineLen(N) /\ i \in 1..LineLen(C)
    BY <1>2, <1>6
  <2> QED BY <2>1, Zenon DEF LineOf
<1>10. \A i \in 1..LineLen(N) : LineOf(N)[i] # "nl"
  BY <1>1, <1>6, <1>9, Zenon
<1>11. Ringlike(N)
  BY <1>8, <1>10, Zenon DEF Ringlike, Indexed, Chars
<1>12. /\ LineOf(C) \in Seq(Chars) /\ Len(LineOf(C)) = LineLen(C)
       /\ LineOf(N) \in Seq(Chars) /\ Len(LineOf(N)) = LineLen(C) - 1
  BY <1>1, <1>6, <1>8, QueueIsSeq
<1>13. LineOf(C) # <<>>
  BY <1>4, <1>12
<1>14. /\ SubSeq(LineOf(C), 1, LineLen(C) - 1) \in Seq(Chars)
       /\ Len(SubSeq(LineOf(C), 1, LineLen(C) - 1)) = LineLen(C) - 1
       /\ \A i \in 1..(LineLen(C) - 1) : SubSeq(LineOf(C), 1, LineLen(C) - 1)[i] = LineOf(C)[i]
  BY <1>2, <1>4, <1>12
<1>15. LineOf(N) = SubSeq(LineOf(C), 1, LineLen(C) - 1)
  BY <1>9, <1>12, <1>14, SeqEqual
<1> QED BY <1>7, <1>11, <1>12, <1>13, <1>15

(* ^U takes the line: no newline in it stops the loop before cons.w does. *)
LEMMA Kills ==
  ASSUME NEW C, Ringlike(C),
         NEW N \in Indexed, N.buf = C.buf, N.r = C.r, N.w = C.w, N.e = C.w
  PROVE  Ringlike(N) /\ QueueOf(N) = QueueOf(C) /\ LineOf(N) = <<>>
<1>1. C \in Indexed /\ QueueLen(C) + LineLen(C) <= INPUT_BUF_SIZE
  BY Zenon DEF Ringlike, Indexed, Chars
<1>2. C.w \in Uints /\ QueueLen(C) \in Nat /\ LineLen(C) \in Nat /\ INPUT_BUF_SIZE \in Nat
  BY <1>1, RingFacts, RingFits
<1>3. LineLen(N) = 0
  <2>1. Minus(C.w, C.w) = IF C.w < C.w THEN C.w - C.w + UINT ELSE C.w - C.w
    BY <1>2, MinusIs, Zenon
  <2> QED BY <1>2, <2>1, RingFits DEF LineLen, Uints
<1>4. QueueLen(N) = QueueLen(C) /\ QueueOf(N) = QueueOf(C)
  BY Zenon DEF QueueLen, QueueOf
<1>5. QueueLen(N) + LineLen(N) <= INPUT_BUF_SIZE
  BY <1>1, <1>2, <1>3, <1>4
<1>6. Ringlike(N)
  <2>1. 1..LineLen(N) = {}
    BY <1>3
  <2> QED BY <1>5, <2>1, Zenon DEF Ringlike, Indexed, Chars
<1>7. LineOf(N) = <<>>
  BY <1>3, <1>5, QueueIsSeq, EmptySeq, Zenon
<1> QED BY <1>4, <1>6, <1>7, Zenon

(* killed_line is where the line starts. *)
LEMMA KilledLine == ASSUME Ringlike(cons) PROVE killed_line = cons.w
<1> DEFINE b == LineLen(cons)
<1>1. /\ cons \in Indexed /\ QueueLen(cons) + LineLen(cons) <= INPUT_BUF_SIZE
      /\ \A i \in 1..b : LineOf(cons)[i] # "nl"
  BY Zenon DEF Ringlike, Indexed, Chars
<1>2. /\ cons.e \in Uints /\ cons.w \in Uints /\ QueueLen(cons) \in Nat /\ b \in Nat /\ b < UINT
      /\ cons.e = cons.w + b \/ cons.e = cons.w + b - UINT
  BY <1>1, RingFacts, Zenon
<1>3. UINT \in Nat \ {0} /\ INPUT_BUF_SIZE \in Nat \ {0} /\ UINT > INPUT_BUF_SIZE
  BY RingFits
<1>4. b \in 0..INPUT_BUF_SIZE
  BY <1>1, <1>2, <1>3
<1> HIDE DEF b
<1>5. ASSUME NEW j \in 0..b
      PROVE  Minus(cons.e, j) = IF cons.e < j THEN cons.e - j + UINT ELSE cons.e - j
  <2>1. j \in Uints
    BY <1>2, <1>3 DEF Uints
  <2> QED BY <1>2, <2>1, MinusIs, Zenon
<1>6. Minus(cons.e, b) = cons.w
  BY <1>2, <1>3, <1>5 DEF Uints
<1>7. ASSUME NEW j \in 0..(b - 1) PROVE ~line_start(j)
  <2>1. j \in 0..b /\ j + 1 \in 0..b /\ b - j \in 1..b /\ j # b
    BY <1>2
  <2>2. Minus(cons.e, j) # cons.w
    BY <1>2, <1>3, <1>5, <2>1 DEF Uints
  <2> DEFINE x == Minus(cons.e, j + 1)
  <2> DEFINE y == cons.w + (b - j) - 1
  <2>3. x = IF cons.e < j + 1 THEN cons.e - (j + 1) + UINT ELSE cons.e - (j + 1)
    BY <1>5, <2>1
  <2>4. x \in Int /\ y \in Int /\ (x = y \/ y = x + UINT)
    BY <1>2, <1>3, <2>1, <2>3 DEF Uints
  <2> HIDE DEF x, y
  <2>5. slot(x) = slot(y)
    BY <2>4, SlotTurn
  <2>6. cons.buf[slot(y)] # "nl"
    BY <1>1, <2>1, Zenon DEF LineOf, y, b
  <2> QED BY <2>2, <2>5, <2>6, Zenon DEF line_start, x
<1> DEFINE P(k) == line_start(k) /\ \A j \in 0..(k - 1) : ~line_start(j)
<1>8. P(b)
  BY <1>6, <1>7 DEF line_start
<1>9. ASSUME NEW k \in 0..INPUT_BUF_SIZE, P(k) PROVE k = b
  <2>1. ~(b \in 0..(k - 1))
    BY <1>8, <1>9
  <2>2. ~(k \in 0..(b - 1))
    BY <1>7, <1>9, Zenon
  <2> QED BY <1>2, <1>3, <2>1, <2>2
<1> HIDE DEF P
<1>10. (CHOOSE k \in 0..INPUT_BUF_SIZE : P(k)) = b
  BY <1>4, <1>8, <1>9, Zenon
<1> QED BY <1>6, <1>10, Zenon DEF killed_line, P

Grown(C, N, c) ==
  \A j \in 0..(QueueLen(C) + LineLen(C)) :
    N.buf[slot(C.r + j)] = IF j = QueueLen(C) + LineLen(C) THEN c ELSE C.buf[slot(C.r + j)]

(* A character typed goes behind the line, and into no slot that is in use. *)
LEMMA Grows ==
  ASSUME NEW C, Ringlike(C), Minus(C.e, C.r) < INPUT_BUF_SIZE, NEW c \in Keys,
         NEW N \in Indexed, N.buf = [C.buf EXCEPT ![slot(C.e)] = c], N.r = C.r,
         N.e = (C.e + 1) % UINT
  PROVE  /\ QueueLen(C) + LineLen(C) < INPUT_BUF_SIZE
         /\ C.e + 1 < UINT => N.e = C.e + 1
         /\ C.e + 1 >= UINT => N.e = C.e + 1 - UINT
         /\ N.e \in Uints /\ Grown(C, N, c)
<1> DEFINE n == QueueLen(C) + LineLen(C)
<1>1. C \in Indexed /\ QueueLen(C) + LineLen(C) <= INPUT_BUF_SIZE
  BY Zenon DEF Ringlike, Indexed, Chars
<1>2. /\ C.r \in Uints /\ C.e \in Uints /\ C.buf \in [Slots -> Chars] /\ n \in Nat
      /\ Minus(C.e, C.r) = n
  BY <1>1, RingFacts
<1>3. UINT \in Nat \ {0} /\ INPUT_BUF_SIZE \in Nat \ {0} /\ UINT > INPUT_BUF_SIZE
  BY RingFits
<1>4. C.e = C.r + n \/ C.r + n = C.e + UINT
  <2>1. Minus(C.e, C.r) = IF C.e < C.r THEN C.e - C.r + UINT ELSE C.e - C.r
    BY <1>2, MinusIs, Zenon
  <2> HIDE DEF n
  <2> QED BY <1>2, <1>3, <2>1 DEF Uints
<1> HIDE DEF n
<1>5. slot(C.r + n) = slot(C.e) /\ slot(C.e) \in Slots
  <2>1. C.r + n \in Int /\ C.e \in Int
    BY <1>2, <1>3 DEF Uints
  <2> QED BY <1>4, <2>1, SlotTurn, SlotType
<1>6. ASSUME NEW j \in 0..n PROVE N.buf[slot(C.r + j)] = IF j = n THEN c ELSE C.buf[slot(C.r + j)]
  <2>1. CASE j = n
    BY <1>2, <1>5, <2>1, Zenon
  <2>2. CASE j # n
    <3>1. C.r + j \in Int /\ C.r + n \in Int /\ C.r + j < C.r + n /\ C.r + n < C.r + j + INPUT_BUF_SIZE
      BY <1>2, <1>3, <2>2 DEF Uints
    <3>2. slot(C.r + j) # slot(C.r + n)
      BY <3>1, SlotApart
    <3>3. slot(C.r + j) \in Slots
      BY <3>1, SlotType
    <3> QED BY <1>2, <1>5, <2>2, <3>2, <3>3
  <2> QED BY <2>1, <2>2, Zenon
<1>7. /\ N.e \in Uints
      /\ N.e = IF C.e + 1 < UINT THEN C.e + 1 ELSE C.e + 1 - UINT
  <2>1. 1 \in 0..UINT
    BY <1>3
  <2> QED BY <1>2, <2>1, PlusIs, Zenon
<1>8. QueueLen(C) + LineLen(C) < INPUT_BUF_SIZE
  BY <1>2 DEF n
<1>9. (C.e + 1 < UINT => N.e = C.e + 1) /\ (C.e + 1 >= UINT => N.e = C.e + 1 - UINT)
  <2>1. C.e \in Int /\ UINT \in Int
    BY <1>2, <1>3 DEF Uints
  <2> QED BY <1>7, <2>1
<1> QED BY <1>6, <1>7, <1>8, <1>9, Zenon DEF n, Grown

(* It is appended to the line ... *)
LEMMA TypesOn ==
  ASSUME NEW C, Ringlike(C), Minus(C.e, C.r) < INPUT_BUF_SIZE, NEW c \in Keys, c # "nl",
         NEW N \in Indexed, N.buf = [C.buf EXCEPT ![slot(C.e)] = c], N.r = C.r,
         N.e = (C.e + 1) % UINT, N.w = C.w
  PROVE  Ringlike(N) /\ QueueOf(N) = QueueOf(C) /\ LineOf(N) = Append(LineOf(C), c)
<1> DEFINE a == QueueLen(C)
<1> DEFINE b == LineLen(C)
<1>1. /\ C \in Indexed /\ QueueLen(C) + LineLen(C) <= INPUT_BUF_SIZE
      /\ \A i \in 1..b : LineOf(C)[i] # "nl"
  BY Zenon DEF Ringlike, Indexed, Chars
<1>2. /\ C.r \in Uints /\ C.e \in Uints /\ C.w \in Uints /\ a \in Nat /\ b \in Nat
      /\ C.e = C.w + b \/ C.e = C.w + b - UINT
  BY <1>1, RingFacts
<1>3. UINT \in Nat \ {0} /\ INPUT_BUF_SIZE \in Nat \ {0} /\ UINT > INPUT_BUF_SIZE
  BY RingFits
<1>4. /\ a + b < INPUT_BUF_SIZE /\ N.e \in Uints
      /\ C.e + 1 < UINT => N.e = C.e + 1
      /\ C.e + 1 >= UINT => N.e = C.e + 1 - UINT
  BY Grows
<1>5. \A j \in 0..(a + b) : N.buf[slot(C.r + j)] = IF j = a + b THEN c ELSE C.buf[slot(C.r + j)]
  <2>1. Grown(C, N, c)
    BY Grows, Zenon
  <2> QED BY <2>1, Zenon DEF Grown
<1>6. QueueLen(N) = a
  BY Zenon DEF QueueLen
<1>7. LineLen(N) = b + 1
  <2>1. LineLen(N) = IF N.e < C.w THEN N.e - C.w + UINT ELSE N.e - C.w
    BY <1>2, <1>4, MinusIs, Zenon DEF LineLen
  <2> HIDE DEF a, b
  <2> QED BY <1>2, <1>3, <1>4, <2>1 DEF Uints
<1>8. QueueLen(N) + LineLen(N) <= INPUT_BUF_SIZE
  <2> HIDE DEF a, b
  <2> QED BY <1>2, <1>3, <1>4, <1>6, <1>7
<1> HIDE DEF a, b
<1>9. ASSUME NEW k \in 1..a PROVE N.buf[slot(C.r + k - 1)] = C.buf[slot(C.r + k - 1)]
  <2>1. C.r + k - 1 = C.r + (k - 1) /\ k - 1 \in 0..(a + b) /\ k - 1 # a + b
    BY <1>2, <1>3 DEF Uints
  <2> QED BY <1>5, <2>1, Zenon
<1>10. QueueOf(N) = QueueOf(C)
  BY <1>6, <1>9, Zenon DEF QueueOf, a
<1>11. ASSUME NEW i \in 1..(b + 1) PROVE LineOf(N)[i] = IF i = b + 1 THEN c ELSE LineOf(C)[i]
  <2>1. C.w + i - 1 = C.w + (i - 1) /\ i - 1 \in Int
    BY <1>2, <1>3 DEF Uints
  <2>2. slot(C.w + i - 1) = slot(C.r + (a + (i - 1)))
    BY <1>1, <2>1, LineSlots, Zenon DEF a
  <2>3. a + (i - 1) \in 0..(a + b) /\ (a + (i - 1) = a + b <=> i = b + 1)
    BY <1>2
  <2>4. LineOf(N)[i] = N.buf[slot(C.w + i - 1)]
    BY <1>7, Zenon DEF LineOf
  <2>5. i # b + 1 => LineOf(C)[i] = C.buf[slot(C.w + i - 1)]
    <3>1. i # b + 1 => i \in 1..b
      BY <1>2
    <3> QED BY <3>1, Zenon DEF LineOf, b
  <2> QED BY <1>5, <2>2, <2>3, <2>4, <2>5
<1>12. Ringlike(N)
  <2>1. \A i \in 1..(b + 1) : i # b + 1 => i \in 1..b
    BY <1>2
  <2>2. \A i \in 1..LineLen(N) : LineOf(N)[i] # "nl"
    BY <1>1, <1>7, <1>11, <2>1, Zenon
  <2> QED BY <1>8, <2>2, Zenon DEF Ringlike, Indexed, Chars
<1>13. /\ LineOf(C) \in Seq(Chars) /\ Len(LineOf(C)) = b
       /\ LineOf(N) \in Seq(Chars) /\ Len(LineOf(N)) = b + 1
  BY <1>1, <1>7, <1>8, QueueIsSeq DEF b
<1>14. /\ Append(LineOf(C), c) \in Seq(Chars) /\ Len(Append(LineOf(C), c)) = b + 1
       /\ \A i \in 1..(b + 1) : Append(LineOf(C), c)[i] = IF i = b + 1 THEN c ELSE LineOf(C)[i]
  BY <1>2, <1>13, AppendProperties DEF Chars
<1>15. LineOf(N) = Append(LineOf(C), c)
  BY <1>11, <1>13, <1>14, SeqEqual
<1> QED BY <1>10, <1>12, <1>15

(* ... or enters it, with the line. *)
LEMMA TypesEnd ==
  ASSUME NEW C, Ringlike(C), Minus(C.e, C.r) < INPUT_BUF_SIZE, NEW c \in Keys,
         NEW N \in Indexed, N.buf = [C.buf EXCEPT ![slot(C.e)] = c], N.r = C.r,
         N.e = (C.e + 1) % UINT, N.w = N.e
  PROVE  Ringlike(N) /\ QueueOf(N) = QueueOf(C) \o Append(LineOf(C), c) /\ LineOf(N) = <<>>
<1> DEFINE a == QueueLen(C)
<1> DEFINE b == LineLen(C)
<1>1. C \in Indexed /\ QueueLen(C) + LineLen(C) <= INPUT_BUF_SIZE
  BY Zenon DEF Ringlike, Indexed, Chars
<1>2. /\ C.r \in Uints /\ C.e \in Uints /\ C.w \in Uints /\ a \in Nat /\ b \in Nat
      /\ C.e = C.w + b \/ C.e = C.w + b - UINT
      /\ C.w = C.r + a \/ C.w = C.r + a - UINT
  BY <1>1, RingFacts, Zenon
<1>3. UINT \in Nat \ {0} /\ INPUT_BUF_SIZE \in Nat \ {0} /\ UINT > INPUT_BUF_SIZE
  BY RingFits
<1>4. /\ a + b < INPUT_BUF_SIZE /\ N.e \in Uints
      /\ C.e + 1 < UINT => N.e = C.e + 1
      /\ C.e + 1 >= UINT => N.e = C.e + 1 - UINT
  BY Grows
<1>5. \A j \in 0..(a + b) : N.buf[slot(C.r + j)] = IF j = a + b THEN c ELSE C.buf[slot(C.r + j)]
  <2>1. Grown(C, N, c)
    BY Grows
  <2> QED BY <2>1, Zenon DEF Grown
<1>6. LineLen(N) = 0
  BY <1>4, MinusIs, RingFits DEF LineLen, Uints
<1>7. QueueLen(N) = a + b + 1
  <2>1. QueueLen(N) = IF N.e < C.r THEN N.e - C.r + UINT ELSE N.e - C.r
    BY <1>2, <1>4, MinusIs DEF QueueLen
  <2> HIDE DEF a, b
  <2> DEFINE n == a + b
  <2>2. n \in Nat /\ n + 1 < UINT /\ (C.e = C.r + n \/ C.e = C.r + n - UINT)
    BY <1>2, <1>3, <1>4 DEF Uints
  <2>3. /\ C.r \in Nat /\ C.r < UINT /\ C.e \in Nat /\ C.e < UINT /\ UINT \in Nat
        /\ N.e = IF C.e + 1 < UINT THEN C.e + 1 ELSE C.e + 1 - UINT
    BY <1>2, <1>3, <1>4 DEF Uints
  <2> HIDE DEF n
  <2>4. QueueLen(N) = n + 1
    BY <2>1, <2>2, <2>3
  <2> QED BY <2>4 DEF n
<1> HIDE DEF a, b
<1>8. QueueLen(N) + LineLen(N) <= INPUT_BUF_SIZE
  BY <1>2, <1>3, <1>4, <1>6, <1>7
<1>9. Ringlike(N)
  <2>1. 1..LineLen(N) = {}
    BY <1>6
  <2> QED BY <1>8, <2>1, Zenon DEF Ringlike, Indexed, Chars
<1>10. LineOf(N) = <<>>
  BY <1>6, <1>8, QueueIsSeq, EmptySeq, Zenon
<1>11. /\ LineOf(C) \in Seq(Chars) /\ Len(LineOf(C)) = b
       /\ QueueOf(C) \in Seq(Chars) /\ Len(QueueOf(C)) = a
       /\ QueueOf(N) \in Seq(Chars) /\ Len(QueueOf(N)) = a + b + 1
  BY <1>1, <1>7, <1>8, QueueIsSeq DEF a, b
<1> DEFINE L == Append(LineOf(C), c)
<1>12. /\ L \in Seq(Chars) /\ Len(L) = b + 1
       /\ \A i \in 1..(b + 1) : L[i] = IF i = b + 1 THEN c ELSE LineOf(C)[i]
  BY <1>2, <1>11, AppendProperties DEF Chars
<1> HIDE DEF L
<1>13. /\ QueueOf(C) \o L \in Seq(Chars) /\ Len(QueueOf(C) \o L) = a + b + 1
       /\ \A i \in 1..(a + b + 1) : (QueueOf(C) \o L)[i] = IF i <= a THEN QueueOf(C)[i] ELSE L[i - a]
  <2>0. QueueOf(C) \in Seq(Chars) /\ L \in Seq(Chars)
    BY <1>11, <1>12, Zenon
  <2>1. QueueOf(C) \o L \in Seq(Chars) /\ Len(QueueOf(C) \o L) = Len(QueueOf(C)) + Len(L)
    BY <2>0, ConcatProperties, Zenon
  <2>2. \A i \in 1..(Len(QueueOf(C)) + Len(L)) :
          (QueueOf(C) \o L)[i] = IF i <= Len(QueueOf(C)) THEN QueueOf(C)[i] ELSE L[i - Len(QueueOf(C))]
    BY <2>0, ConcatProperties
  <2>3. Len(QueueOf(C)) = a /\ Len(QueueOf(C)) + Len(L) = a + b + 1
    BY <1>2, <1>11, <1>12
  <2> QED BY <2>1, <2>2, <2>3, Zenon
<1>14. ASSUME NEW i \in 1..(a + b + 1) PROVE QueueOf(N)[i] = (QueueOf(C) \o L)[i]
  <2>1. C.r + i - 1 = C.r + (i - 1) /\ i - 1 \in 0..(a + b)
    BY <1>2, <1>3 DEF Uints
  <2>2. QueueOf(N)[i] = N.buf[slot(C.r + i - 1)]
    BY <1>7, Zenon DEF QueueOf
  <2>3. QueueOf(N)[i] = IF i - 1 = a + b THEN c ELSE C.buf[slot(C.r + i - 1)]
    BY <1>5, <2>1, <2>2, Zenon
  <2>4. CASE i <= a
    <3>1. i \in 1..a /\ i - 1 # a + b
      BY <1>2, <2>4
    <3>2. QueueOf(C)[i] = C.buf[slot(C.r + i - 1)]
      BY <3>1, Zenon DEF QueueOf, a
    <3> QED BY <1>13, <2>3, <2>4, <3>1, <3>2
  <2>5. CASE ~(i <= a) /\ i # a + b + 1
    <3>1. i - a \in 1..b /\ i - a \in 1..(b + 1) /\ i - a # b + 1 /\ i - 1 # a + b /\ i - a - 1 \in Int
      BY <1>2, <2>5
    <3>2. LineOf(C)[i - a] = C.buf[slot(C.w + (i - a) - 1)]
      BY <3>1, Zenon DEF LineOf, b
    <3>3. C.w + (i - a) - 1 = C.w + (i - a - 1) /\ a + (i - a - 1) = i - 1
      BY <1>2, <1>3 DEF Uints
    <3>4. slot(C.w + (i - a - 1)) = slot(C.r + (a + (i - a - 1)))
      BY <1>1, <3>1, LineSlots, Zenon DEF a
    <3>5. LineOf(C)[i - a] = C.buf[slot(C.r + i - 1)]
      BY <2>1, <3>2, <3>3, <3>4, Zenon
    <3>6. (QueueOf(C) \o L)[i] = L[i - a]
      BY <1>13, <2>5, Zenon
    <3>7. L[i - a] = LineOf(C)[i - a]
      BY <1>12, <3>1, Zenon
    <3> QED BY <2>3, <3>1, <3>5, <3>6, <3>7, Zenon
  <2>6. CASE i = a + b + 1
    <3>1. i - a = b + 1 /\ ~(i <= a) /\ i - 1 = a + b /\ i - a \in 1..(b + 1)
      BY <1>2, <2>6
    <3> QED BY <1>12, <1>13, <2>3, <3>1
  <2> QED BY <2>4, <2>5, <2>6, Zenon
<1>15. QueueOf(N) = QueueOf(C) \o L
  BY <1>11, <1>13, <1>14, SeqEqual, Zenon
<1> QED BY <1>9, <1>10, <1>15 DEF L

------------------------------------------------------------------------------
(* What the steps do to the ring: each is a step of Terminal, or none. *)
TermStep == [Term!Next]_<<Line, Queue>>

(* Line and queue before and after a step. *)
LEMMA TermVars ==
  /\ Line = LineOf(cons) /\ Queue = QueueOf(cons)
  /\ Line' = LineOf(cons') /\ Queue' = QueueOf(cons')
BY DEF Line, Queue, Ring, LineOf, QueueOf, LineLen, QueueLen, Minus, slot

(* The abstract steps, for a ring that is then tidied up. *)
LEMMA TermTakes ==
  ASSUME NEW N, Ringlike(N), cons' = Forget(N), LineOf(N) = LineOf(cons),
         QueueOf(N) = QueueOf(cons) \/ (QueueOf(cons) # <<>> /\ QueueOf(N) = Tail(QueueOf(cons)))
  PROVE  Ringlike(cons') /\ TermStep
<1>1. Ringlike(cons') /\ QueueOf(cons') = QueueOf(N) /\ LineOf(cons') = LineOf(N)
  BY Forgets
<1>2. CASE QueueOf(N) = QueueOf(cons)
  BY <1>1, <1>2, TermVars DEF TermStep
<1>3. CASE QueueOf(cons) # <<>> /\ QueueOf(N) = Tail(QueueOf(cons))
  <2>1. Term!take
    BY <1>1, <1>3, TermVars DEF Term!take
  <2> QED BY <1>1, <2>1 DEF TermStep, Term!Next
<1> QED BY <1>2, <1>3

(* consoleread(). *)
LEMMA ReadRing ==
  ASSUME Ringlike(cons), NEW p \in Procs, consoleread(p)
  PROVE  Ringlike(cons') /\ TermStep
<1>1. CASE cons' = cons
  BY <1>1, TermVars DEF TermStep
<1>2. ASSUME NEW c, NEW copied, read_char(p, c, copied), cons.r # cons.w
      PROVE  Ringlike(cons') /\ TermStep
  <2>1. cons \in Indexed
    BY Zenon DEF Ringlike, Indexed, Chars
  <2>2. CASE cons' = Forget([cons EXCEPT !.r = cons.r])
    <3>1. [cons EXCEPT !.r = cons.r] = cons
      BY <2>1 DEF Indexed
    <3> QED BY <2>2, <3>1, TermTakes, Zenon
  <2>3. CASE cons' = Forget([cons EXCEPT !.r = (cons.r + 1) % UINT])
    <3> DEFINE N == [cons EXCEPT !.r = (cons.r + 1) % UINT]
    <3>1. cons.r \in Uints /\ 1 \in 0..UINT
      BY <2>1, RingFits DEF Indexed
    <3>2. (cons.r + 1) % UINT \in Uints
      BY <3>1, PlusIs
    <3>3. N \in Indexed /\ N.buf = cons.buf /\ N.r = (cons.r + 1) % UINT /\ N.w = cons.w /\ N.e = cons.e
      BY <2>1, <3>2 DEF Indexed
    <3> HIDE DEF N
    <3>4. /\ Ringlike(N) /\ QueueOf(cons) # <<>>
          /\ QueueOf(N) = Tail(QueueOf(cons)) /\ LineOf(N) = LineOf(cons)
      BY <1>2, <3>3, Takes, Zenon
    <3> QED BY <2>3, <3>4, TermTakes, Zenon DEF N
  <2>4. \/ cons' = Forget([cons EXCEPT !.r = cons.r])
        \/ cons' = Forget([cons EXCEPT !.r = (cons.r + 1) % UINT])
    BY <1>2, Zenon DEF read_char, after_eof
  <2> QED BY <2>2, <2>3, <2>4, Zenon
<1> QED BY <1>1, <1>2 DEF consoleread

(* consoleintr(): the four things that a key does. *)
LEMMA EditRing ==
  ASSUME Ringlike(cons), NEW c \in Keys
  PROVE  LET N == edited(c) IN
         /\ Ringlike(N)
         /\ \/ QueueOf(N) = QueueOf(cons) /\ LineOf(N) = LineOf(cons)
            \/ /\ LineOf(cons) # <<>> /\ QueueOf(N) = QueueOf(cons)
               /\ LineOf(N) = SubSeq(LineOf(cons), 1, Len(LineOf(cons)) - 1)
            \/ QueueOf(N) = QueueOf(cons) /\ LineOf(N) = <<>>
            \/ /\ Len(QueueOf(cons)) + Len(LineOf(cons)) < INPUT_BUF_SIZE
               /\ IF Term!Ends(c) \/ Len(QueueOf(cons)) + Len(LineOf(cons)) + 1 = INPUT_BUF_SIZE
                  THEN QueueOf(N) = QueueOf(cons) \o Append(LineOf(cons), c) /\ LineOf(N) = <<>>
                  ELSE QueueOf(N) = QueueOf(cons) /\ LineOf(N) = Append(LineOf(cons), c)
         /\ N.r = cons.r
<1> DEFINE N == edited(c)
<1> USE DEF N
<1>1. cons \in Indexed /\ QueueLen(cons) + LineLen(cons) <= INPUT_BUF_SIZE
  BY Zenon DEF Ringlike, Indexed, Chars
<1>2. /\ cons.buf \in [Slots -> Chars] /\ cons.r \in Uints /\ cons.w \in Uints /\ cons.e \in Uints
      /\ Minus(cons.e, cons.r) = QueueLen(cons) + LineLen(cons)
      /\ QueueLen(cons) \in Nat /\ LineLen(cons) \in Nat
  BY <1>1, RingFacts
<1>3. Len(QueueOf(cons)) = QueueLen(cons) /\ Len(LineOf(cons)) = LineLen(cons)
  BY <1>1, QueueIsSeq
<1>4. 1 \in Uints /\ 1 \in 0..UINT
  BY RingFits DEF Uints
<1>5. CASE N = cons
  BY <1>5, Zenon
<1>6. CASE c = "^H" /\ cons.e # cons.w
  <2>1. N = [cons EXCEPT !.e = Minus(cons.e, 1)]
    BY <1>6, Zenon DEF edited, erased
  <2>2. Minus(cons.e, 1) \in Uints
    BY <1>2, <1>4, MinusIs, Zenon
  <2>3. /\ N \in Indexed /\ N.buf = cons.buf /\ N.r = cons.r /\ N.w = cons.w
        /\ N.e = Minus(cons.e, 1)
    BY <1>1, <2>1, <2>2 DEF Indexed
  <2> HIDE DEF N
  <2>4. /\ Ringlike(N) /\ LineOf(cons) # <<>> /\ QueueOf(N) = QueueOf(cons)
        /\ LineOf(N) = SubSeq(LineOf(cons), 1, Len(LineOf(cons)) - 1)
    BY <1>6, <2>3, Erases, Zenon
  <2> QED BY <2>3, <2>4, Zenon DEF N
<1>7. CASE c = "^U"
  <2>1. N = [cons EXCEPT !.e = cons.w]
    BY <1>7, KilledLine DEF edited
  <2>2. /\ N \in Indexed /\ N.buf = cons.buf /\ N.r = cons.r /\ N.w = cons.w /\ N.e = cons.w
    BY <1>1, <1>2, <2>1 DEF Indexed
  <2> HIDE DEF N
  <2>3. Ringlike(N) /\ QueueOf(N) = QueueOf(cons) /\ LineOf(N) = <<>>
    BY <2>2, Kills, Zenon
  <2> QED BY <2>2, <2>3 DEF N
<1>8. CASE c \notin {"^H", "^U"} /\ Minus(cons.e, cons.r) < INPUT_BUF_SIZE
  <2> DEFINE e == (cons.e + 1) % UINT
  <2> DEFINE ends == c \in {"nl", "^D"} \/ Minus(e, cons.r) = INPUT_BUF_SIZE
  <2>1. N = [cons EXCEPT !.buf[slot(cons.e)] = c, !.e = e, !.w = IF ends THEN e ELSE @]
    BY <1>8 DEF edited, entered
  <2>2. e \in Uints /\ e = IF cons.e + 1 < UINT THEN cons.e + 1 ELSE cons.e + 1 - UINT
    BY <1>2, <1>4, PlusIs, Zenon
  <2> HIDE DEF e
  <2>3. Minus(e, cons.r) = Len(QueueOf(cons)) + Len(LineOf(cons)) + 1
    <3>1. Minus(e, cons.r) = IF e < cons.r THEN e - cons.r + UINT ELSE e - cons.r
      BY <1>2, <2>2, MinusIs, Zenon
    <3>2. Minus(cons.e, cons.r) = IF cons.e < cons.r THEN cons.e - cons.r + UINT ELSE cons.e - cons.r
      BY <1>2, MinusIs, Zenon
    <3>3. UINT \in Nat /\ INPUT_BUF_SIZE \in Nat /\ INPUT_BUF_SIZE < UINT
      BY RingFits
    <3>4. Minus(e, cons.r) = Minus(cons.e, cons.r) + 1
      BY <1>2, <1>8, <2>2, <3>1, <3>2, <3>3 DEF Uints
    <3> QED BY <1>2, <1>3, <3>4, Zenon
  <2>4. Len(QueueOf(cons)) + Len(LineOf(cons)) < INPUT_BUF_SIZE
    BY <1>2, <1>3, <1>8, Zenon
  <2> HIDE DEF ends
  <2>5. /\ N \in Indexed /\ N.r = cons.r /\ N.e = e /\ N.w = IF ends THEN e ELSE cons.w
        /\ N.buf = [cons.buf EXCEPT ![slot(cons.e)] = c]
    <3> DEFINE B == [cons.buf EXCEPT ![slot(cons.e)] = c]
    <3>1. B \in [Slots -> Chars]
      BY <1>2, Zenon DEF Chars
    <3>2. N = [cons EXCEPT !.buf = B, !.e = e, !.w = IF ends THEN e ELSE cons.w]
      BY <1>1, <2>1, Zenon DEF Indexed
    <3> HIDE DEF B, N
    <3>3. N \in Indexed /\ N.r = cons.r /\ N.e = e /\ N.w = IF ends THEN e ELSE cons.w
      BY <1>1, <1>2, <2>2, <3>1, <3>2, Zenon DEF Indexed
    <3>4. N.buf = B
      BY <1>1, <3>2 DEF Indexed
    <3> QED BY <3>3, <3>4 DEF B
  <2>6. ends <=> Term!Ends(c) \/ Len(QueueOf(cons)) + Len(LineOf(cons)) + 1 = INPUT_BUF_SIZE
    BY <2>3 DEF ends, Term!Ends
  <2> HIDE DEF N
  <2>7. CASE ends
    <3>1. /\ Ringlike(N) /\ QueueOf(N) = QueueOf(cons) \o Append(LineOf(cons), c)
          /\ LineOf(N) = <<>>
      BY <1>8, <2>5, <2>7, TypesEnd, Zenon DEF e
    <3> QED BY <2>4, <2>5, <2>6, <2>7, <3>1, Zenon DEF N
  <2>8. CASE ~ends
    <3>1. Ringlike(N) /\ QueueOf(N) = QueueOf(cons) /\ LineOf(N) = Append(LineOf(cons), c)
      BY <1>8, <2>5, <2>8, TypesOn, Zenon DEF e, ends
    <3> QED BY <2>4, <2>5, <2>6, <2>8, <3>1, Zenon DEF N
  <2> QED BY <2>7, <2>8, Zenon
<1>9. N = cons \/ (c = "^H" /\ cons.e # cons.w) \/ c = "^U"
      \/ (c \notin {"^H", "^U"} /\ Minus(cons.e, cons.r) < INPUT_BUF_SIZE)
  <2>1. [cons EXCEPT !.e = cons.e] = cons
    BY <1>1, Zenon DEF Indexed
  <2> QED BY <2>1 DEF edited, erased
<1> HIDE DEF N
<1> QED BY <1>5, <1>6, <1>7, <1>8, <1>9, Zenon DEF N

(* consoleintr() with a key is a step of Terminal, and moves no reader. *)
LEMMA IntrRing ==
  ASSUME Ringlike(cons), rx \in Seq(Keys), consoleintr
  PROVE  Ringlike(cons') /\ TermStep /\ cons'.r = cons.r
<1> DEFINE c == Head(rx)
<1> DEFINE N == edited(c)
<1> DEFINE q == QueueOf(cons)
<1> DEFINE l == LineOf(cons)
<1>1. rx # <<>> /\ cons' = Forget(N)
  BY DEF consoleintr
<1>2. c \in Keys
  BY <1>1, HeadTailProperties, Zenon
<1> HIDE DEF c
<1>3. Ringlike(N) /\ N.r = cons.r
  BY <1>2, EditRing, Zenon
<1>4. \/ QueueOf(N) = q /\ LineOf(N) = l
      \/ l # <<>> /\ QueueOf(N) = q /\ LineOf(N) = SubSeq(l, 1, Len(l) - 1)
      \/ QueueOf(N) = q /\ LineOf(N) = <<>>
      \/ /\ Len(q) + Len(l) < INPUT_BUF_SIZE
         /\ IF Term!Ends(c) \/ Len(q) + Len(l) + 1 = INPUT_BUF_SIZE
            THEN QueueOf(N) = q \o Append(l, c) /\ LineOf(N) = <<>>
            ELSE QueueOf(N) = q /\ LineOf(N) = Append(l, c)
  BY <1>2, EditRing, Zenon
<1> HIDE DEF N, q, l
<1>5. /\ Ringlike(cons') /\ QueueOf(cons') = QueueOf(N) /\ LineOf(cons') = LineOf(N)
      /\ cons'.r = cons.r
  BY <1>1, <1>3, Forgets, Zenon
<1>6. Line = l /\ Queue = q /\ Line' = LineOf(N) /\ Queue' = QueueOf(N)
  BY <1>5, TermVars DEF q, l
<1>7. UNCHANGED <<Line, Queue>> \/ Term!erase \/ Term!kill_line \/ Term!type(c)
  BY <1>4, <1>6, Zenon DEF Term!erase, Term!kill_line, Term!type
<1>8. TermStep
  BY <1>2, <1>7 DEF TermStep, Term!Next
<1> QED BY <1>5, <1>8, Zenon

------------------------------------------------------------------------------
(* The UART's buffer. *)
Pending(t, lo, n) == [i \in 1..n |-> t[(lo + i - 1) % UART_TX_BUF_SIZE]]

(* What is buffered, as a sequence. *)
LEMMA PendingIsSeq ==
  ASSUME NEW t \in [TxSlots -> Written], NEW lo \in Nat, NEW n \in Nat
  PROVE  Pending(t, lo, n) \in Seq(Written) /\ Len(Pending(t, lo, n)) = n
<1>1. ASSUME NEW i \in 1..n PROVE t[(lo + i - 1) % UART_TX_BUF_SIZE] \in Written
  <2>1. lo + i - 1 \in Int /\ UART_TX_BUF_SIZE \in Nat \ {0}
    BY RingFits
  <2>2. (lo + i - 1) % UART_TX_BUF_SIZE \in TxSlots
    BY <2>1, DivMod DEF TxSlots
  <2> QED BY <2>2
<1> QED BY <1>1 DEF Pending

Stored(t, u, k, x) == u = [t EXCEPT ![k % UART_TX_BUF_SIZE] = x]

(* A character is put behind what is buffered. *)
LEMMA PendingPut ==
  ASSUME NEW t \in [TxSlots -> Written], NEW lo \in Nat, NEW n \in 0..(UART_TX_BUF_SIZE - 1),
         NEW x \in Written, NEW u, Stored(t, u, lo + n, x)
  PROVE  Pending(u, lo, n + 1) = Append(Pending(t, lo, n), x)
<1>1. UART_TX_BUF_SIZE \in Nat \ {0} /\ n \in Nat /\ n + 1 \in Nat
  BY RingFits
<1>2. u \in [TxSlots -> Written]
  BY Zenon DEF Stored
<1>3. /\ Pending(t, lo, n) \in Seq(Written) /\ Len(Pending(t, lo, n)) = n
      /\ Pending(u, lo, n + 1) \in Seq(Written) /\ Len(Pending(u, lo, n + 1)) = n + 1
  BY <1>1, <1>2, PendingIsSeq, Zenon
<1>4. ASSUME NEW k \in 0..n
      PROVE  u[(lo + k) % UART_TX_BUF_SIZE] = IF k = n THEN x ELSE t[(lo + k) % UART_TX_BUF_SIZE]
  <2>1. lo + k \in Int /\ lo + n \in Int
    BY <1>1
  <2>2. (lo + k) % UART_TX_BUF_SIZE \in TxSlots
    BY <1>1, <2>1, DivMod DEF TxSlots
  <2>3. CASE k = n
    BY <2>2, <2>3, Zenon DEF Stored
  <2>4. CASE k # n
    <3>1. lo + k < lo + n /\ lo + n < lo + k + UART_TX_BUF_SIZE
      BY <1>1, <2>4
    <3>2. (lo + k) % UART_TX_BUF_SIZE # (lo + n) % UART_TX_BUF_SIZE
      BY <1>1, <2>1, <3>1, ModApart, Zenon
    <3> QED BY <2>2, <2>4, <3>2 DEF Stored
  <2> QED BY <2>3, <2>4, Zenon
<1>5. ASSUME NEW i \in 1..(n + 1)
      PROVE  Pending(u, lo, n + 1)[i] = IF i = n + 1 THEN x ELSE Pending(t, lo, n)[i]
  <2>1. lo + i - 1 = lo + (i - 1) /\ i - 1 \in 0..n /\ (i - 1 = n <=> i = n + 1) /\ (i # n + 1 => i \in 1..n)
    BY <1>1
  <2>2. Pending(u, lo, n + 1)[i] = u[(lo + (i - 1)) % UART_TX_BUF_SIZE]
    BY <2>1, Zenon DEF Pending
  <2>3. i # n + 1 => Pending(t, lo, n)[i] = t[(lo + (i - 1)) % UART_TX_BUF_SIZE]
    BY <2>1, Zenon DEF Pending
  <2> QED BY <1>4, <2>1, <2>2, <2>3, Zenon
<1>6. /\ Append(Pending(t, lo, n), x) \in Seq(Written) /\ Len(Append(Pending(t, lo, n), x)) = n + 1
      /\ \A i \in 1..(n + 1) :
           Append(Pending(t, lo, n), x)[i] = IF i = n + 1 THEN x ELSE Pending(t, lo, n)[i]
  BY <1>1, <1>3, AppendProperties
<1> DEFINE P == Pending(u, lo, n + 1)
<1> DEFINE A == Append(Pending(t, lo, n), x)
<1>7. P \in Seq(Written) /\ A \in Seq(Written) /\ Len(P) = Len(A) /\ Len(P) = n + 1
  BY <1>3, <1>6, Zenon
<1>8. \A i \in 1..(n + 1) : P[i] = A[i]
  BY <1>5, <1>6, Zenon
<1> HIDE DEF P, A
<1>9. P = A
  BY <1>7, <1>8, SeqEqual, Zenon
<1> QED BY <1>9, Zenon DEF P, A

(* The first is taken off. *)
LEMMA PendingGet ==
  ASSUME NEW t \in [TxSlots -> Written], NEW lo \in Nat, NEW n \in Nat \ {0}
  PROVE  /\ Pending(t, lo, n) # <<>>
         /\ Head(Pending(t, lo, n)) = t[lo % UART_TX_BUF_SIZE]
         /\ Tail(Pending(t, lo, n)) = Pending(t, lo + 1, n - 1)
<1>1. n \in Nat /\ n - 1 \in Nat /\ lo + 1 \in Nat /\ 1 \in 1..n
  OBVIOUS
<1>2. /\ Pending(t, lo, n) \in Seq(Written) /\ Len(Pending(t, lo, n)) = n
      /\ Pending(t, lo + 1, n - 1) \in Seq(Written) /\ Len(Pending(t, lo + 1, n - 1)) = n - 1
  BY <1>1, PendingIsSeq
<1>3. Pending(t, lo, n) # <<>>
  BY <1>1, <1>2
<1>4. Head(Pending(t, lo, n)) = t[lo % UART_TX_BUF_SIZE]
  <2>1. Head(Pending(t, lo, n)) = Pending(t, lo, n)[1]
    BY <1>2, <1>3
  <2>2. Pending(t, lo, n)[1] = t[(lo + 1 - 1) % UART_TX_BUF_SIZE]
    BY <1>1, Zenon DEF Pending
  <2>3. lo + 1 - 1 = lo
    OBVIOUS
  <2> QED BY <2>1, <2>2, <2>3, Zenon
<1>5. ASSUME NEW i \in 1..(n - 1) PROVE Pending(t, lo + 1, n - 1)[i] = Pending(t, lo, n)[i + 1]
  <2>1. i + 1 \in 1..n /\ lo + 1 + i - 1 = lo + (i + 1) - 1
    OBVIOUS
  <2>2. Pending(t, lo + 1, n - 1)[i] = t[(lo + 1 + i - 1) % UART_TX_BUF_SIZE]
    BY Zenon DEF Pending
  <2>3. Pending(t, lo, n)[i + 1] = t[(lo + (i + 1) - 1) % UART_TX_BUF_SIZE]
    BY <2>1, Zenon DEF Pending
  <2> QED BY <2>1, <2>2, <2>3, Zenon
<1>6. /\ Tail(Pending(t, lo, n)) \in Seq(Written) /\ Len(Tail(Pending(t, lo, n))) = n - 1
      /\ \A i \in 1..(n - 1) : Tail(Pending(t, lo, n))[i] = Pending(t, lo, n)[i + 1]
  BY <1>1, <1>2, <1>3, HeadTailProperties
<1>7. Tail(Pending(t, lo, n)) = Pending(t, lo + 1, n - 1)
  BY <1>2, <1>5, <1>6, SeqEqual
<1> QED BY <1>3, <1>4, <1>7

(* To append to what is put, or to move the first character to what is sent. *)
LEMMA Queues ==
  ASSUME NEW s \in Seq(Written), NEW q \in Seq(Written), NEW x \in Written
  PROVE  /\ Append(s \o q, x) = s \o Append(q, x)
         /\ q # <<>> => Append(s, Head(q)) \o Tail(q) = s \o q
<1>1. Append(s \o q, x) = s \o Append(q, x)
  OBVIOUS
<1>2. ASSUME q # <<>> PROVE Append(s, Head(q)) \o Tail(q) = s \o q
  BY <1>2
<1> QED BY <1>1, <1>2, Zenon

(* What uartputc() takes goes behind the rest. *)
LEMMA TxPut ==
  ASSUME TxInv, ~full, NEW x \in Written, Stored(tx, tx', tx_w, x),
         tx_w' = tx_w + 1, tx_r' = tx_r, put' = Append(put, x), sent' = sent
  PROVE  TxInv'
<1> DEFINE n == tx_w - tx_r
<1>1. /\ tx \in [TxSlots -> Written] /\ tx_r \in Nat /\ tx_w \in Nat /\ n \in Nat
      /\ put \in Seq(Written) /\ sent \in Seq(Written) /\ tx_w \in tx_r..(tx_r + UART_TX_BUF_SIZE)
      /\ UART_TX_BUF_SIZE \in Nat \ {0}
  BY RingFits DEF TxInv
<1>2. n \in 0..(UART_TX_BUF_SIZE - 1) /\ tx_r + n = tx_w /\ tx_w' - tx_r' = n + 1
  BY <1>1 DEF full
<1>3. put = sent \o Pending(tx, tx_r, n)
  BY Zenon DEF TxInv, OutputInOrder, Pending
<1> HIDE DEF n
<1>4. Stored(tx, tx', tx_r + n, x)
  BY <1>2, Zenon
<1>5. Pending(tx', tx_r, n + 1) = Append(Pending(tx, tx_r, n), x)
  <2>1. tx \in [TxSlots -> Written] /\ tx_r \in Nat /\ n \in 0..(UART_TX_BUF_SIZE - 1)
    BY <1>1, <1>2, Zenon
  <2> QED BY <1>4, <2>1, PendingPut, Zenon
<1>6. Pending(tx, tx_r, n) \in Seq(Written)
  BY <1>1, <1>2, PendingIsSeq
<1>7. put' = sent \o Append(Pending(tx, tx_r, n), x)
  BY <1>1, <1>3, <1>6, Queues, Zenon
<1>8. put' = sent' \o Pending(tx', tx_r', tx_w' - tx_r')
  BY <1>2, <1>5, <1>7, Zenon
<1>9. OutputInOrder'
  BY <1>8, Zenon DEF OutputInOrder, Pending
<1>10. tx' \in [TxSlots -> Written]
  BY <1>1, Zenon DEF Stored
<1>11. put' \in Seq(Written) /\ sent' \in Seq(Written)
  BY <1>1, AppendProperties, Zenon
<1>12. tx_r' \in Nat /\ tx_w' \in tx_r'..(tx_r' + UART_TX_BUF_SIZE)
  BY <1>1, <1>2 DEF n
<1> QED BY <1>9, <1>10, <1>11, <1>12, Zenon DEF TxInv

(* uartstart() sends the first of the rest. *)
LEMMA TxGet ==
  ASSUME TxInv, tx_w # tx_r, tx' = tx, tx_w' = tx_w, tx_r' = tx_r + 1, put' = put,
         sent' = Append(sent, tx[tx_r % UART_TX_BUF_SIZE])
  PROVE  TxInv'
<1> DEFINE n == tx_w - tx_r
<1>1. /\ tx \in [TxSlots -> Written] /\ tx_r \in Nat /\ tx_w \in Nat /\ n \in Nat \ {0}
      /\ put \in Seq(Written) /\ sent \in Seq(Written) /\ tx_w \in tx_r..(tx_r + UART_TX_BUF_SIZE)
      /\ UART_TX_BUF_SIZE \in Nat \ {0} /\ tx_w' - tx_r' = n - 1
  BY RingFits DEF TxInv
<1>2. put = sent \o Pending(tx, tx_r, n)
  BY Zenon DEF TxInv, OutputInOrder, Pending
<1>3. tx_r' \in Nat /\ tx_w' \in tx_r'..(tx_r' + UART_TX_BUF_SIZE)
  BY <1>1
<1> HIDE DEF n
<1> DEFINE q == Pending(tx, tx_r, n)
<1>4. q \in Seq(Written)
  BY <1>1, PendingIsSeq, Zenon
<1>5. q # <<>> /\ Head(q) = tx[tx_r % UART_TX_BUF_SIZE] /\ Tail(q) = Pending(tx, tx_r + 1, n - 1)
  BY <1>1, PendingGet, Zenon
<1> HIDE DEF q
<1>6. Head(q) \in Written
  BY <1>4, <1>5, HeadTailProperties, Zenon
<1>7. Append(sent, Head(q)) \o Tail(q) = sent \o q
  BY <1>1, <1>4, <1>5, <1>6, Queues, Zenon
<1>8. put' = sent' \o Pending(tx', tx_r', tx_w' - tx_r')
  BY <1>1, <1>2, <1>5, <1>7, Zenon DEF q
<1>9. OutputInOrder'
  BY <1>8, Zenon DEF OutputInOrder, Pending
<1>10. sent' \in Seq(Written)
  BY <1>1, <1>5, <1>6, AppendProperties, Zenon
<1> QED BY <1>1, <1>3, <1>9, <1>10 DEF TxInv

------------------------------------------------------------------------------
(* What a step of one actor leaves alone. *)
Actors == Procs \cup {Intr}
Woken(q) == pr'[q] = pr[q] \/ (pr[q].at = "asleep" /\ pr'[q] = [pr[q] EXCEPT !.at = "run"])
Touches(a) ==
  /\ lock' \in [Locks -> Procs \cup {Intr, None}]
  /\ \A l \in Locks : lock'[l] = lock[l] \/ (lock[l] \in {None, a} /\ lock'[l] \in {None, a})

(* The actors are different. *)
LEMMA Apartness == /\ Intr # None /\ Intr \notin Procs /\ None \notin Procs /\ None \notin Nat
                   /\ None \notin SysCalls
BY CallsAssumption DEF SysCalls

(* A process that is woken, or not. *)
LEMMA WokenFacts ==
  ASSUME TypeInv, NEW q \in Procs, Woken(q)
  PROVE  /\ pr'[q] \in State /\ pr'[q].call = pr[q].call /\ pr'[q].n = pr[q].n
         /\ pr'[q].ticks0 = pr[q].ticks0 /\ pr'[q].slept = pr[q].slept
         /\ pr'[q].at = pr[q].at \/ (pr[q].at = "asleep" /\ pr'[q].at = "run")
<1>1. pr[q] \in State
  BY DEF TypeInv
<1>2. CASE pr'[q] = pr[q]
  BY <1>1, <1>2, Zenon
<1>3. CASE pr[q].at = "asleep" /\ pr'[q] = [pr[q] EXCEPT !.at = "run"]
  BY <1>1, <1>3 DEF State
<1> QED BY <1>2, <1>3, Zenon DEF Woken

(* A lock taken or released. *)
LEMMA Holding ==
  ASSUME TypeInv, NEW a \in Actors, NEW l \in Locks, NEW h \in {None, a}, lock[l] \in {None, a},
         Holds(l, h)
  PROVE  Touches(a) /\ lock'[l] = h /\ \A m \in Locks : m # l => lock'[m] = lock[m]
BY DEF TypeInv, Holds, Touches, Actors

(* No lock is touched. *)
LEMMA NoLock == ASSUME TypeInv, NEW a \in Actors, lock' = lock PROVE Touches(a)
BY Zenon DEF TypeInv, Touches

(* The others own what they owned. *)
LEMMA OwnOthers ==
  ASSUME TypeInv, NEW a \in Actors, Touches(a), NEW q \in Procs, q # a, Own(q), Woken(q)
  PROVE  Own(q)'
<1>1. \A l \in Locks : lock'[l] = q <=> lock[l] = q
  BY Apartness DEF Touches
<1>2. /\ pr'[q].call = pr[q].call
      /\ pr'[q].at = pr[q].at \/ (pr[q].at = "asleep" /\ pr'[q].at = "run")
  BY WokenFacts
<1>3. pr[q].at # "user" => LockOf(pr[q].call) \in Locks
  BY Zenon DEF Own, LockOf, Locks, SysCalls
<1>4. "cons" \in Locks /\ "tx" \in Locks /\ "ticks" \in Locks
  BY DEF Locks
<1>5. LockOf(pr'[q].call) = LockOf(pr[q].call)
  BY <1>2
<1> QED BY <1>1, <1>2, <1>3, <1>4, <1>5, Zenon DEF Own

(* They sleep for the same cause. *)
LEMMA CauseOthers ==
  ASSUME TypeInv, NEW q \in Procs, Woken(q), Cause(q),
         cons.r = cons.w => cons'.r = cons'.w, full => full'
  PROVE  Cause(q)'
<1>1. /\ pr'[q].call = pr[q].call /\ pr'[q].n = pr[q].n /\ pr'[q].slept = pr[q].slept
      /\ pr'[q].at = pr[q].at \/ (pr[q].at = "asleep" /\ pr'[q].at = "run")
  BY WokenFacts
<1> QED BY <1>1, Zenon DEF Cause

(* The clock of the others goes on. *)
LEMMA TimedOthers ==
  ASSUME TypeInv, NEW q \in Procs, Woken(q), Timed(q), ticks' = ticks
  PROVE  Timed(q)'
<1>1. /\ pr'[q].call = pr[q].call /\ pr'[q].ticks0 = pr[q].ticks0 /\ pr'[q].slept = pr[q].slept
  BY WokenFacts
<1> QED BY <1>1, Zenon DEF Timed, Sleeping

(* The interrupt handler's locks, while a process steps. *)
LEMMA IntrOwnsSame ==
  ASSUME TypeInv, IntrOwns, NEW p \in Procs, Touches(p), intr' = intr
  PROVE  IntrOwns'
<1>1. \A l \in Locks : lock'[l] = Intr <=> lock[l] = Intr
  BY Apartness DEF Touches
<1>2. "cons" \in Locks /\ "tx" \in Locks /\ "ticks" \in Locks
  BY DEF Locks
<1> QED BY <1>1, <1>2 DEF IntrOwns

(* A process that is neither in a call's critical part nor on its way there. *)
LEMMA Unheld ==
  ASSUME LockInv, NEW p \in Procs
  PROVE  /\ pr[p].at \in {"user", "asleep"} => \A l \in Locks : lock[l] # p
         /\ pr[p].at = "run" => lock["tx"] # p /\ lock["ticks"] # p
         /\ pr[p].at = "run" /\ pr[p].call # "read" => lock["cons"] # p
BY DEF LockInv, Own, Locks

------------------------------------------------------------------------------
Becomes(p, R) == pr' = [pr EXCEPT ![p] = R]
ProcStepInv == TypeInv /\ LockInv /\ CauseInv /\ ClockInv

(* A step of a process: what is left to show of that process and of its step. *)
LEMMA ProcStep ==
  ASSUME ProcStepInv, NEW p \in Procs, NEW R \in State, Becomes(p, R), Touches(p),
         intr' = intr, ticks' = ticks, fifo' \in Nat, rx' \in Seq(Keys),
         cons.r = cons.w => cons'.r = cons'.w, full => full',
         Own(p)', Cause(p)', Timed(p)'
  PROVE  ProcStepInv'
<1>1. pr \in [Procs -> State]
  BY Zenon DEF ProcStepInv, TypeInv
<1>2. pr' \in [Procs -> State]
  BY <1>1, Zenon DEF Becomes
<1>3. \A q \in Procs : q # p => Woken(q)
  BY <1>1, Zenon DEF Becomes, Woken
<1>4. p \in Actors
  BY DEF Actors
<1>5. TypeInv'
  <2>1. lock' \in [Locks -> Procs \cup {Intr, None}]
    BY Zenon DEF Touches
  <2> QED BY <1>2, <2>1, Zenon DEF ProcStepInv, TypeInv
<1>6. TypeInv /\ IntrOwns /\ \A q \in Procs : Own(q) /\ Cause(q) /\ Timed(q)
  BY Zenon DEF ProcStepInv, LockInv, CauseInv, ClockInv
<1>7. IntrOwns'
  BY <1>6, IntrOwnsSame, Zenon
<1>8. ASSUME NEW q \in Procs PROVE Own(q)' /\ Cause(q)' /\ Timed(q)'
  <2>1. CASE q = p
    BY <2>1, Zenon
  <2>2. CASE q # p
    <3>1. Own(q)'
      BY <1>3, <1>4, <1>6, <2>2, OwnOthers, Zenon
    <3>2. Cause(q)'
      BY <1>3, <1>6, <2>2, CauseOthers, Zenon
    <3>3. Timed(q)'
      BY <1>3, <1>6, <2>2, TimedOthers, Zenon
    <3> QED BY <3>1, <3>2, <3>3
  <2> QED BY <2>1, <2>2
<1> QED BY <1>5, <1>7, <1>8, Zenon DEF ProcStepInv, LockInv, CauseInv, ClockInv

(* A step that leaves the devices alone. *)
LEMMA QuietStep ==
  ASSUME IInv, NEW p \in Procs, NEW R \in State, Becomes(p, R), Touches(p),
         UNCHANGED <<cons, rx, output, intr, ticks>>,
         Own(p)', Cause(p)', Timed(p)', TxWaits' => TxWaits
  PROVE  IInv'
<1>1. ProcStepInv /\ MovesInv /\ TxInv /\ Ringlike(cons) /\ fifo \in Nat /\ rx \in Seq(Keys)
  BY Zenon DEF IInv, ProcStepInv, TypeInv
<1>2. UNCHANGED <<cons, rx, intr, ticks, tx, tx_r, tx_w, fifo, thre, put, sent>>
  BY DEF output
<1>3. full => full'
  BY <1>2 DEF full
<1>4. ProcStepInv'
  <2>1. /\ intr' = intr /\ ticks' = ticks /\ fifo' \in Nat /\ rx' \in Seq(Keys)
        /\ cons.r = cons.w => cons'.r = cons'.w
    BY <1>1, <1>2
  <2> QED BY <1>1, <1>3, <2>1, ProcStep, Zenon
<1>5. MovesInv'
  BY <1>1, <1>2 DEF MovesInv
<1>6. TxInv'
  BY <1>1, <1>2, Zenon DEF TxInv, OutputInOrder
<1>7. Ringlike(cons')
  BY <1>1, <1>2
<1> QED BY <1>4, <1>5, <1>6, <1>7, Zenon DEF IInv, ProcStepInv

(* The state of a process, and what is known of it. *)
LEMMA Known ==
  ASSUME IInv, NEW p \in Procs
  PROVE  /\ TypeInv /\ LockInv /\ pr \in [Procs -> State] /\ pr[p] \in State
         /\ Own(p) /\ Cause(p) /\ Timed(p) /\ p \in Actors
BY DEF IInv, TypeInv, LockInv, CauseInv, ClockInv, Actors

(* call(): the process was in user mode. *)
LEMMA CallStep ==
  ASSUME IInv, NEW p \in Procs, NEW k \in Calls[p], call(p, k)
  PROVE  IInv'
<1> DEFINE R == [Idle EXCEPT !.at = "run", !.call = k.call, !.n = k.n, !.target = k.n]
<1>1. /\ pr[p].at = "user" /\ Becomes(p, R) /\ lock' = lock
      /\ UNCHANGED <<cons, rx, output, intr, ticks>>
  BY DEF call, input, Becomes
<1>2. k.call \in SysCalls /\ k.n \in Int
  BY CallsAssumption DEF SysCalls
<1>3. R \in State /\ R.at = "run" /\ R.call \in SysCalls /\ R.ticks0 = None /\ R.slept = 0
  BY <1>2, Zenon DEF Idle, State, SysCalls
<1>4. pr'[p] = R /\ TypeInv /\ LockInv /\ p \in Actors
  BY <1>1, Known DEF Becomes
<1> HIDE DEF R
<1>5. Touches(p)
  BY <1>1, <1>4, NoLock
<1>6. \A l \in Locks : lock'[l] # p
  BY <1>1, <1>4, Unheld, Zenon
<1>7. Own(p)'
  BY <1>3, <1>4, <1>6 DEF Own, Locks
<1>8. Cause(p)'
  BY <1>3, <1>4 DEF Cause
<1>9. Timed(p)'
  BY <1>3, <1>4, CallsAssumption DEF Timed, Sleeping
<1>10. TxWaits' => TxWaits
  <2>1. \A q \in Procs : lock["tx"] = q => q # p
    BY <1>1, <1>6 DEF Locks
  <2>2. \A q \in Procs : q # p => pr'[q] = pr[q]
    BY <1>1, Known, Zenon DEF Becomes
  <2> QED BY <1>1, <2>1, <2>2, Zenon DEF TxWaits
<1> QED BY <1>1, <1>3, <1>5, <1>7, <1>8, <1>9, <1>10, QuietStep, Zenon

(* TxWaits only looks at the holder of uart_tx_lock. *)
LEMMA TxWaitsSame ==
  ASSUME NEW p \in Procs, NEW R, Becomes(p, R), IInv, lock'["tx"] = lock["tx"], lock["tx"] # p
  PROVE  TxWaits' => TxWaits
<1>1. \A q \in Procs : q # p => pr'[q] = pr[q]
  BY Known, Zenon DEF Becomes
<1> QED BY <1>1, Zenon DEF TxWaits

(* sleep() releases the lock of its caller. *)
LEMMA SleepStep == ASSUME IInv, NEW p \in Procs, sleep(p) PROVE IInv'
<1> DEFINE R == [pr[p] EXCEPT !.at = "asleep"]
<1> DEFINE m == LockOf(pr[p].call)
<1>1. /\ pr[p].at = "sleep" /\ Becomes(p, R) /\ Holds(m, None)
      /\ UNCHANGED <<cons, rx, output, intr, ticks>>
  BY Known DEF sleep, input, Becomes, Go
<1>2. /\ TypeInv /\ LockInv /\ pr[p] \in State /\ Own(p) /\ Cause(p) /\ Timed(p) /\ p \in Actors
  BY Known
<1>3. /\ R \in State /\ R.at = "asleep" /\ R.call = pr[p].call /\ R.n = pr[p].n
      /\ R.ticks0 = pr[p].ticks0 /\ R.slept = pr[p].slept
  BY <1>2 DEF State
<1>4. pr'[p] = R
  BY <1>1, Known DEF Becomes
<1> HIDE DEF R
<1>5. m \in Locks /\ lock[m] = p
  BY <1>1, <1>2, Zenon DEF Own, LockOf, Locks, SysCalls
<1>6. \A l \in Locks : l # m => lock[l] # p
  BY <1>1, <1>2, <1>5, Zenon DEF Own, LockOf, Locks, SysCalls
<1>7. Touches(p) /\ lock'[m] = None /\ \A l \in Locks : l # m => lock'[l] = lock[l]
  <2> HIDE DEF m
  <2> QED BY <1>1, <1>2, <1>5, Holding
<1> HIDE DEF m
<1>8. \A l \in Locks : lock'[l] # p
  BY <1>6, <1>7, Apartness
<1>9. Own(p)'
  BY <1>1, <1>2, <1>3, <1>4, <1>8, Zenon DEF Own, Locks
<1>10. Cause(p)'
  <2>1. UNCHANGED <<cons, tx_r, tx_w>>
    BY <1>1 DEF output
  <2> QED BY <1>1, <1>2, <1>3, <1>4, <2>1, Zenon DEF Cause, full
<1>11. Timed(p)'
  BY <1>1, <1>2, <1>3, <1>4, Zenon DEF Timed, Sleeping
<1>12. TxWaits' => TxWaits
  <2>1. "tx" \in Locks
    BY DEF Locks
  <2>2. CASE m = "tx"
    BY <1>1, <1>5, <2>2, Zenon DEF TxWaits
  <2>3. CASE m # "tx"
    BY <1>1, <1>6, <1>7, <2>1, <2>3, TxWaitsSame
  <2> QED BY <2>2, <2>3, Zenon
<1> QED BY <1>1, <1>3, <1>7, <1>9, <1>10, <1>11, <1>12, QuietStep, Zenon

(* A process returns to user mode, and holds no lock then. *)
LEMMA ReturnStep ==
  ASSUME NEW p \in Procs, IInv, Return(p), Touches(p), \A l \in Locks : lock'[l] # p
  PROVE  Idle \in State /\ Becomes(p, Idle) /\ Own(p)' /\ Cause(p)' /\ Timed(p)'
<1>1. /\ Idle \in State /\ Idle.at = "user" /\ Idle.call = None /\ Idle.ticks0 = None
      /\ Idle.slept = 0
  BY DEF Idle, State
<1>2. Becomes(p, Idle) /\ pr'[p] = Idle
  BY Known DEF Return, Becomes
<1>3. Own(p)'
  BY <1>1, <1>2, Zenon DEF Own, Locks
<1>4. Cause(p)'
  BY <1>1, <1>2, Zenon DEF Cause
<1>5. Timed(p)'
  BY <1>1, <1>2, CallsAssumption, Apartness DEF Timed, Sleeping, SysCalls
<1> QED BY <1>1, <1>2, <1>3, <1>4, <1>5

(* consolewrite() gives up. *)
LEMMA WriteFailsStep == ASSUME IInv, NEW p \in Procs, consolewrite_fails(p) PROVE IInv'
<1>1. /\ pr[p].at = "run" /\ pr[p].call = "write" /\ Return(p) /\ lock' = lock
      /\ UNCHANGED <<cons, rx, output, intr, ticks>>
  BY DEF consolewrite_fails, input, Runs
<1>2. TypeInv /\ LockInv /\ p \in Actors
  BY Known
<1>3. Touches(p) /\ \A l \in Locks : lock'[l] # p
  BY <1>1, <1>2, NoLock, Unheld, Zenon DEF Locks
<1>4. Idle \in State /\ Becomes(p, Idle) /\ Own(p)' /\ Cause(p)' /\ Timed(p)'
  BY <1>1, <1>3, ReturnStep
<1>5. TxWaits' => TxWaits
  BY <1>1, <1>3, <1>4, TxWaitsSame DEF Locks
<1> QED BY <1>1, <1>3, <1>4, <1>5, QuietStep, Zenon

Start(p) == IF pr[p].ticks0 = None THEN ticks ELSE pr[p].ticks0

(* sys_sleep() computes how long it has slept. *)
LEMMA Elapsed ==
  ASSUME IInv, NEW p \in Procs, Runs(p, "sleep")
  PROVE  Start(p) \in Uints /\ elapsed(Start(p)) = pr[p].slept
<1>1. /\ pr[p] \in State /\ Timed(p) /\ ticks \in Uints /\ pr[p].call = "sleep"
  BY Known DEF Runs, TypeInv
<1>2. pr[p].ticks0 \in Uints \cup {None} /\ pr[p].slept \in Nat
  BY <1>1, Zenon DEF State
<1>3. UINT \in Nat \ {0} /\ MaxTicks \in Nat /\ MaxTicks < UINT
  BY RingFits, CallsAssumption
<1>4. CASE pr[p].ticks0 = None
  <2>1. pr[p].slept = 0 /\ Start(p) = ticks
    BY <1>1, <1>4, Zenon DEF Timed, Start
  <2>2. Minus(ticks, ticks) = IF ticks < ticks THEN ticks - ticks + UINT ELSE ticks - ticks
    BY <1>1, MinusIs, Zenon
  <2> QED BY <1>1, <1>3, <2>1, <2>2 DEF elapsed, Uints
<1>5. CASE pr[p].ticks0 # None
  <2> DEFINE t == pr[p].ticks0
  <2> DEFINE s == pr[p].slept
  <2>1. /\ t \in Uints /\ s \in Nat /\ Start(p) = t /\ s <= MaxTicks
        /\ ticks = (t + s) % UINT
    BY <1>1, <1>2, <1>5, Zenon DEF Timed, Start, Sleeping
  <2> HIDE DEF t, s
  <2>2. s \in 0..UINT
    BY <1>3, <2>1
  <2>3. (t + s) % UINT = IF t + s < UINT THEN t + s ELSE t + s - UINT
    BY <2>1, <2>2, PlusIs, Zenon
  <2>4. Minus(ticks, t) = IF ticks < t THEN ticks - t + UINT ELSE ticks - t
    BY <1>1, <2>1, MinusIs, Zenon
  <2>5. Minus(ticks, t) = s
    BY <1>3, <2>1, <2>2, <2>3, <2>4 DEF Uints
  <2> QED BY <2>1, <2>5 DEF elapsed, s
<1> QED BY <1>4, <1>5

(* sys_sleep(). *)
LEMMA SysSleepStep == ASSUME IInv, NEW p \in Procs, sys_sleep(p) PROVE IInv'
<1> DEFINE t0 == Start(p)
<1>1. /\ pr[p].at = "run" /\ pr[p].call = "sleep" /\ Runs(p, "sleep")
      /\ lock["ticks"] = None
      /\ UNCHANGED <<cons, rx, output, intr, ticks>>
  BY Zenon DEF sys_sleep, input, Runs, Free
<1>2. /\ TypeInv /\ LockInv /\ pr[p] \in State /\ Own(p) /\ Timed(p) /\ p \in Actors
  BY Known
<1>3. t0 \in Uints /\ elapsed(t0) = pr[p].slept
  BY <1>1, Elapsed, Zenon
<1>4. \A l \in Locks : lock[l] # p
  BY <1>1, <1>2, Unheld DEF Locks
<1>5. CASE Return(p) /\ lock' = lock
  <2>1. Touches(p) /\ \A l \in Locks : lock'[l] # p
    BY <1>2, <1>4, <1>5, NoLock
  <2>2. Idle \in State /\ Becomes(p, Idle) /\ Own(p)' /\ Cause(p)' /\ Timed(p)'
    BY <1>5, <2>1, ReturnStep
  <2>3. TxWaits' => TxWaits
    BY <1>4, <1>5, <2>2, TxWaitsSame DEF Locks
  <2> QED BY <1>1, <2>1, <2>2, <2>3, QuietStep, Zenon
<1>6. CASE /\ ~(elapsed(t0) >= pr[p].n)
           /\ pr' = [pr EXCEPT ![p].at = "sleep", ![p].ticks0 = t0] /\ Holds("ticks", p)
  <2> DEFINE R == [pr[p] EXCEPT !.at = "sleep", !.ticks0 = t0]
  <2>1. Becomes(p, R) /\ pr'[p] = R
    BY <1>6, Known, Zenon DEF Becomes
  <2> HIDE DEF t0
  <2>2. /\ R \in State /\ R.at = "sleep" /\ R.call = "sleep" /\ R.n = pr[p].n
        /\ R.ticks0 = t0 /\ R.slept = pr[p].slept
    BY <1>1, <1>2, <1>3, Zenon DEF State
  <2> HIDE DEF R
  <2>3. Touches(p) /\ lock'["ticks"] = p /\ \A l \in Locks : l # "ticks" => lock'[l] = lock[l]
    <3>1. "ticks" \in Locks /\ lock["ticks"] \in {None, p}
      BY <1>1 DEF Locks
    <3> QED BY <1>2, <1>6, <3>1, Holding
  <2>4. lock'["cons"] # p /\ lock'["tx"] # p /\ lock'["tx"] = lock["tx"] /\ lock["tx"] # p
    BY <1>4, <2>3 DEF Locks
  <2>5. Own(p)'
    BY <2>1, <2>2, <2>3, <2>4 DEF Own, LockOf, SysCalls
  <2>6. Cause(p)'
    <3>1. pr[p].slept \in Nat /\ pr[p].n \in Int
      BY <1>2 DEF State
    <3>2. pr[p].slept < pr[p].n
      BY <1>3, <1>6, <3>1
    <3> QED BY <2>1, <2>2, <3>2 DEF Cause
  <2>7. Timed(p)'
    <3>1. pr[p].slept <= MaxTicks /\ t0 # None
      BY <1>2, <1>3, Apartness, RingFits DEF Timed, Uints
    <3>2. ticks = (t0 + pr[p].slept) % UINT
      <4>1. CASE pr[p].ticks0 = None
        <5>1. pr[p].slept = 0 /\ t0 = ticks /\ ticks \in Uints
          BY <1>2, <4>1 DEF Timed, t0, Start, TypeInv
        <5>2. ticks + 0 = ticks /\ ticks % UINT = ticks
          BY <5>1, RingFits DEF Uints
        <5> QED BY <5>1, <5>2
      <4>2. CASE pr[p].ticks0 # None
        BY <1>1, <1>2, <4>2, Zenon DEF Timed, Sleeping, t0, Start
      <4> QED BY <4>1, <4>2
    <3> QED BY <1>1, <2>1, <2>2, <3>1, <3>2, Zenon DEF Timed
  <2>8. TxWaits' => TxWaits
    BY <2>1, <2>4, TxWaitsSame
  <2> QED BY <1>1, <2>1, <2>2, <2>3, <2>5, <2>6, <2>7, <2>8, QuietStep, Zenon
<1> QED BY <1>1, <1>5, <1>6, Zenon DEF sys_sleep, Start

(* uartputc(). *)
LEMMA PutcStep == ASSUME IInv, NEW p \in Procs, uartputc(p) PROVE IInv'
<1>1. /\ pr[p].at = "run" /\ pr[p].call = "write" /\ lock["tx"] = None /\ Holds("tx", p)
      /\ UNCHANGED <<cons, rx, intr, ticks, tx_r, fifo, thre, sent>>
  BY Zenon DEF uartputc, input, Runs, Free
<1>2. /\ TypeInv /\ LockInv /\ pr[p] \in State /\ Own(p) /\ Timed(p) /\ p \in Actors
  BY Known
<1>3. Touches(p) /\ lock'["tx"] = p /\ \A l \in Locks : l # "tx" => lock'[l] = lock[l]
  <2>1. "tx" \in Locks /\ lock["tx"] \in {None, p}
    BY <1>1 DEF Locks
  <2> QED BY <1>1, <1>2, <2>1, Holding
<1>4. lock'["cons"] # p /\ lock'["ticks"] # p
  BY <1>1, <1>2, <1>3, Unheld, Zenon DEF Locks
<1>5. ASSUME NEW at \in {"sleep", "start"}, Go(p, at)
      PROVE  LET R == [pr[p] EXCEPT !.at = at]
             IN  /\ R \in State /\ Becomes(p, R) /\ pr'[p] = R /\ R.call = "write" /\ R.at = at
                 /\ Own(p)' /\ Timed(p)'
  <2> DEFINE R == [pr[p] EXCEPT !.at = at]
  <2>1. Becomes(p, R) /\ pr'[p] = R
    BY <1>5, Known DEF Becomes, Go
  <2>2. /\ R \in State /\ R.at = at /\ R.call = "write" /\ R.ticks0 = pr[p].ticks0
        /\ R.slept = pr[p].slept
    BY <1>1, <1>2 DEF State
  <2> HIDE DEF R
  <2>3. Own(p)'
    BY <1>3, <1>4, <2>1, <2>2 DEF Own, LockOf, SysCalls
  <2>4. Timed(p)'
    BY <1>1, <1>2, <2>1, <2>2, Zenon DEF Timed, Sleeping
  <2> QED BY <2>1, <2>2, <2>3, <2>4 DEF R
<1>6. CASE full
  <2> DEFINE R == [pr[p] EXCEPT !.at = "sleep"]
  <2>1. Go(p, "sleep") /\ UNCHANGED <<tx, tx_w, put>>
    BY <1>6 DEF uartputc
  <2>2. R \in State /\ Becomes(p, R) /\ pr'[p] = R /\ R.call = "write" /\ Own(p)' /\ Timed(p)'
    BY <1>5, <2>1, Zenon
  <2> HIDE DEF R
  <2>3. UNCHANGED <<cons, rx, output, intr, ticks>>
    BY <1>1, <2>1 DEF output
  <2>4. Cause(p)'
    BY <1>1, <1>6, <2>1, <2>2 DEF Cause, full
  <2>5. TxWaits' => TxWaits
    BY <1>1 DEF TxWaits
  <2> QED BY <1>3, <2>2, <2>3, <2>4, <2>5, QuietStep, Zenon
<1>7. CASE ~full
  <2> DEFINE R == [pr[p] EXCEPT !.at = "start"]
  <2>1. /\ Go(p, "start") /\ Stored(tx, tx', tx_w, <<p, pr[p].n>>) /\ tx_w' = tx_w + 1
        /\ put' = Append(put, <<p, pr[p].n>>)
    BY <1>7 DEF uartputc, Stored
  <2>2. /\ R \in State /\ Becomes(p, R) /\ pr'[p] = R /\ R.call = "write" /\ R.at = "start"
        /\ Own(p)' /\ Timed(p)'
    BY <1>5, <2>1
  <2> HIDE DEF R
  <2>3. <<p, pr[p].n>> \in Written
    BY <1>2 DEF Written, State
  <2>4. TxInv'
    <3>1. TxInv
      BY Zenon DEF IInv
    <3> QED BY <1>1, <1>7, <2>1, <2>3, <3>1, TxPut, Zenon
  <2>5. ~TxWaits'
    BY <1>3, <2>2, Apartness DEF TxWaits
  <2>6. ProcStepInv'
    <3>1. Cause(p)'
      BY <2>2 DEF Cause
    <3>2. ProcStepInv /\ fifo' \in Nat /\ rx' \in Seq(Keys) /\ intr' = intr /\ ticks' = ticks /\ cons' = cons
      BY <1>1, Zenon DEF IInv, ProcStepInv, TypeInv
    <3>3. full => full'
      BY <1>7, Zenon
    <3>4. cons.r = cons.w => cons'.r = cons'.w
      BY <3>2
    <3> QED BY <1>3, <2>2, <3>1, <3>2, <3>3, <3>4, ProcStep, Zenon
  <2>7. Ringlike(cons')
    BY <1>1 DEF IInv
  <2> QED BY <2>4, <2>5, <2>6, <2>7 DEF IInv, ProcStepInv, MovesInv
<1> QED BY <1>6, <1>7

(* consoleread(): a character is only taken when nobody sleeps for one. *)
LEMMA ReadStep == ASSUME IInv, NEW p \in Procs, consoleread(p) PROVE IInv'
<1>1. /\ pr[p].at = "run" /\ pr[p].call = "read" /\ lock["cons"] \in {None, p}
      /\ UNCHANGED <<rx, output, intr, ticks>>
  BY Zenon DEF consoleread, Runs, Free
<1>2. /\ TypeInv /\ LockInv /\ pr[p] \in State /\ Own(p) /\ Timed(p) /\ p \in Actors
  BY Known
<1>3. "cons" \in Locks /\ "tx" \in Locks /\ lock["tx"] # p /\ lock["ticks"] # p
  BY <1>1, <1>2, Unheld, Zenon DEF Locks
<1>4. ASSUME NEW h \in {None, p}, Holds("cons", h)
      PROVE  Touches(p) /\ lock'["cons"] = h /\ \A l \in Locks : l # "cons" => lock'[l] = lock[l]
  BY <1>1, <1>2, <1>3, <1>4, Holding
<1>5. ASSUME Return(p), Holds("cons", None)
      PROVE  /\ Touches(p) /\ Idle \in State /\ Becomes(p, Idle) /\ Own(p)' /\ Cause(p)' /\ Timed(p)'
             /\ TxWaits' => TxWaits
  <2>1. Touches(p) /\ lock'["tx"] = lock["tx"] /\ \A l \in Locks : lock'[l] # p
    BY <1>3, <1>4, <1>5, Apartness, Zenon DEF Locks
  <2>2. Idle \in State /\ Becomes(p, Idle) /\ Own(p)' /\ Cause(p)' /\ Timed(p)'
    BY <1>5, <2>1, ReturnStep
  <2>3. TxWaits' => TxWaits
    BY <1>3, <2>1, <2>2, TxWaitsSame
  <2> QED BY <2>1, <2>2, <2>3
<1>6. CASE cons.r = cons.w
  <2>1. cons' = cons
    BY <1>6, Zenon DEF consoleread
  <2>2. UNCHANGED <<cons, rx, output, intr, ticks>>
    BY <1>1, <2>1
  <2>3. CASE Return(p) /\ Holds("cons", None)
    BY <1>5, <2>2, <2>3, QuietStep, Zenon
  <2>4. CASE Go(p, "sleep") /\ Holds("cons", p)
    <3> DEFINE R == [pr[p] EXCEPT !.at = "sleep"]
    <3>1. Becomes(p, R) /\ pr'[p] = R
      BY <2>4, Known, Zenon DEF Becomes, Go
    <3>2. /\ R \in State /\ R.at = "sleep" /\ R.call = "read" /\ R.ticks0 = pr[p].ticks0
          /\ R.slept = pr[p].slept
      BY <1>1, <1>2, Zenon DEF State
    <3> HIDE DEF R
    <3>3. /\ Touches(p) /\ lock'["cons"] = p /\ lock'["tx"] = lock["tx"] /\ lock'["tx"] # p
          /\ lock'["ticks"] # p
      BY <1>3, <1>4, <2>4 DEF Locks
    <3>4. Own(p)'
      BY <3>1, <3>2, <3>3 DEF Own, LockOf, SysCalls
    <3>5. Cause(p)'
      BY <1>6, <2>1, <3>1, <3>2 DEF Cause
    <3>6. Timed(p)'
      BY <1>1, <1>2, <3>1, <3>2, Zenon DEF Timed, Sleeping
    <3>7. TxWaits' => TxWaits
      BY <1>3, <3>1, <3>3, TxWaitsSame, Zenon
    <3> QED BY <2>2, <3>1, <3>2, <3>3, <3>4, <3>5, <3>6, <3>7, QuietStep, Zenon
  <2> QED BY <1>6, <2>3, <2>4 DEF consoleread
<1>7. CASE cons.r # cons.w
  <2>1. ASSUME NEW R \in State, Becomes(p, R), Touches(p), Own(p)', Cause(p)', Timed(p)',
               TxWaits' => TxWaits
        PROVE  IInv'
    <3>1. ProcStepInv /\ MovesInv /\ TxInv /\ Ringlike(cons) /\ fifo \in Nat /\ rx \in Seq(Keys)
      BY DEF IInv, ProcStepInv, TypeInv
    <3>2. UNCHANGED <<rx, intr, ticks, tx, tx_r, tx_w, fifo, thre, put, sent>>
      BY <1>1 DEF output
    <3>3. ProcStepInv'
      <4>1. /\ intr' = intr /\ ticks' = ticks /\ fifo' \in Nat /\ rx' \in Seq(Keys)
            /\ cons.r = cons.w => cons'.r = cons'.w
            /\ full => full'
        BY <1>7, <3>1, <3>2 DEF full
      <4> QED BY <2>1, <3>1, <4>1, ProcStep, Zenon
    <3>4. MovesInv'
      BY <2>1, <3>1, <3>2, Zenon DEF MovesInv
    <3>5. TxInv'
      BY <3>1, <3>2, Zenon DEF TxInv, OutputInOrder
    <3>6. Ringlike(cons')
      BY <3>1, ReadRing
    <3> QED BY <3>3, <3>4, <3>5, <3>6 DEF IInv, ProcStepInv
  <2>2. CASE Return(p) /\ Holds("cons", None)
    BY <1>5, <2>1, <2>2
  <2>3. CASE pr' = [pr EXCEPT ![p].n = @ - 1] /\ Holds("cons", p)
    <3> DEFINE R == [pr[p] EXCEPT !.n = pr[p].n - 1]
    <3>1. Becomes(p, R) /\ pr'[p] = R
      BY <2>3, Known, Zenon DEF Becomes
    <3>2. pr[p].n - 1 \in Int
      BY <1>2 DEF State
    <3>3. /\ R \in State /\ R.at = "run" /\ R.call = "read" /\ R.ticks0 = pr[p].ticks0
          /\ R.slept = pr[p].slept
      BY <1>1, <1>2, <3>2, Zenon DEF State
    <3> HIDE DEF R
    <3>4. /\ Touches(p) /\ lock'["cons"] = p /\ lock'["tx"] = lock["tx"] /\ lock'["tx"] # p
          /\ lock'["ticks"] # p
      BY <1>3, <1>4, <2>3 DEF Locks
    <3>5. Own(p)' /\ Cause(p)'
      BY <3>1, <3>3, <3>4, Zenon DEF Own, Cause, SysCalls
    <3>6. Timed(p)'
      BY <1>1, <1>2, <3>1, <3>3 DEF Timed, Sleeping
    <3>7. TxWaits' => TxWaits
      BY <1>3, <3>1, <3>4, TxWaitsSame
    <3> QED BY <2>1, <3>1, <3>3, <3>4, <3>5, <3>6, <3>7
  <2> QED BY <1>7, <2>2, <2>3 DEF consoleread, read_char
<1> QED BY <1>6, <1>7, Zenon

------------------------------------------------------------------------------
(* Steps that wake processes. *)
Awake(q, c) == ~(pr'[q].at = "asleep" /\ pr'[q].call = c)

(* wakeup() of a channel. *)
LEMMA WakeupIs ==
  ASSUME TypeInv, NEW c
  PROVE  /\ wakeup(pr, c) \in [Procs -> State]
         /\ \A q \in Procs : IF pr[q].at = "asleep" /\ pr[q].call = c
                             THEN wakeup(pr, c)[q] = [pr[q] EXCEPT !.at = "run"]
                             ELSE wakeup(pr, c)[q] = pr[q]
<1>1. pr \in [Procs -> State]
  BY Zenon DEF TypeInv
<1>2. ASSUME NEW q \in Procs PROVE pr[q] \in State /\ [pr[q] EXCEPT !.at = "run"] \in State
  BY <1>1, Zenon DEF State
<1> QED BY <1>2, Zenon DEF wakeup

(* After it nobody sleeps there, and nothing else has changed. *)
LEMMA WakeupFacts ==
  ASSUME TypeInv, NEW c, pr' = wakeup(pr, c)
  PROVE  pr' \in [Procs -> State] /\ \A q \in Procs : Woken(q) /\ Awake(q, c)
<1>1. pr' \in [Procs -> State] /\ pr \in [Procs -> State]
  BY WakeupIs DEF TypeInv
<1>2. ASSUME NEW q \in Procs PROVE Woken(q) /\ Awake(q, c)
  <2>1. CASE pr[q].at = "asleep" /\ pr[q].call = c
    <3>1. pr'[q] = [pr[q] EXCEPT !.at = "run"] /\ pr[q] \in State
      BY <1>1, <2>1, WakeupIs, Zenon
    <3>2. pr'[q].at = "run"
      BY <3>1, Zenon DEF State
    <3> QED BY <2>1, <3>1, <3>2, Zenon DEF Woken, Awake
  <2>2. CASE ~(pr[q].at = "asleep" /\ pr[q].call = c)
    BY <2>2, WakeupIs, Zenon DEF Woken, Awake
  <2> QED BY <2>1, <2>2
<1> QED BY <1>1, <1>2

(* Nobody is woken. *)
LEMMA AllSame == ASSUME TypeInv, pr' = pr PROVE pr' \in [Procs -> State] /\ \A q \in Procs : Woken(q)
BY DEF TypeInv, Woken

(* A step of any actor: what is left to show of it. *)
LEMMA ActorStep ==
  ASSUME ProcStepInv, NEW a \in Actors, pr' \in [Procs -> State], Touches(a), IntrOwns',
         \A q \in Procs : Cause(q)' /\ (q # a => Woken(q)),
         a \in Procs => Own(a)' /\ Timed(a)',
         intr' \in {"idle", "getc", "echo", "echothr", "start", "thr"},
         fifo' \in Nat, rx' \in Seq(Keys), ticks' = ticks
  PROVE  ProcStepInv'
<1>1. TypeInv /\ \A q \in Procs : Own(q) /\ Timed(q)
  BY Zenon DEF ProcStepInv, LockInv, ClockInv
<1>2. TypeInv'
  <2>1. lock' \in [Locks -> Procs \cup {Intr, None}]
    BY Zenon DEF Touches
  <2> QED BY <1>1, <2>1, Zenon DEF TypeInv
<1>3. ASSUME NEW q \in Procs PROVE Own(q)' /\ Timed(q)'
  <2>1. CASE q = a
    BY <2>1, Zenon
  <2>2. CASE q # a
    BY <1>1, <2>2, OwnOthers, TimedOthers, Zenon
  <2> QED BY <2>1, <2>2
<1> QED BY <1>2, <1>3, Zenon DEF ProcStepInv, LockInv, CauseInv, ClockInv

(* Those who are woken do not hold uart_tx_lock. *)
LEMMA TxWaitsWoken ==
  ASSUME TypeInv, \A q \in Procs : Woken(q), lock'["tx"] = lock["tx"]
  PROVE  TxWaits' => TxWaits
<1>1. \A q \in Procs : pr'[q].at = "sleep" => pr[q].at = "sleep"
  BY WokenFacts
<1> QED BY <1>1, Zenon DEF TxWaits

(* kill(): a process that was asleep looks why, as if it had been woken. *)
LEMMA KillStep == ASSUME IInv, NEW p \in Procs, kill(p) PROVE IInv'
<1>1. /\ TypeInv /\ LockInv /\ ProcStepInv /\ MovesInv /\ TxInv /\ Ringlike(cons) /\ IntrOwns
      /\ pr \in [Procs -> State] /\ intr \in {"idle", "getc", "echo", "echothr", "start", "thr"}
      /\ fifo \in Nat /\ rx \in Seq(Keys) /\ \A q \in Procs : Cause(q)
  BY DEF IInv, ProcStepInv, TypeInv, LockInv, CauseInv
<1>2. /\ UNCHANGED <<cons, rx, tx, tx_r, tx_w, fifo, thre, put, sent, ticks, lock, intr>>
  BY DEF kill, input, output
<1>3. pr' \in [Procs -> State] /\ \A q \in Procs : Woken(q)
  <2>1. CASE pr[p].at = "asleep" /\ pr' = [pr EXCEPT ![p].at = "run"]
    <3> DEFINE R == [pr[p] EXCEPT !.at = "run"]
    <3>1. R \in State
      BY <1>1, Zenon DEF State
    <3>2. pr' = [pr EXCEPT ![p] = R]
      BY <2>1
    <3>3. pr'[p] = R /\ \A q \in Procs : q # p => pr'[q] = pr[q]
      BY <1>1, <3>2, Zenon
    <3>4. pr' \in [Procs -> State]
      BY <1>1, <3>1, <3>2, Zenon
    <3> QED BY <2>1, <3>3, <3>4, Zenon DEF Woken
  <2>2. CASE pr' = pr
    BY <1>1, <2>2, AllSame, Zenon
  <2> QED BY <2>1, <2>2, Zenon DEF kill
<1>4. Intr \in Actors /\ Intr \notin Procs
  BY Apartness DEF Actors
<1>5. Touches(Intr) /\ IntrOwns'
  BY <1>1, <1>2, <1>4, NoLock, Zenon DEF IntrOwns
<1>6. \A q \in Procs : Cause(q)'
  <2>1. (cons.r = cons.w => cons'.r = cons'.w) /\ (full => full')
    BY <1>2 DEF full
  <2> QED BY <1>1, <1>3, <2>1, CauseOthers, Zenon
<1>7. ProcStepInv'
  <2>1. ticks' = ticks /\ intr' = intr /\ fifo' = fifo /\ rx' = rx
    BY <1>2
  <2> QED BY <1>1, <1>3, <1>4, <1>5, <1>6, <2>1, ActorStep, Zenon
<1>8. MovesInv'
  BY <1>1, <1>2, <1>3, TxWaitsWoken DEF MovesInv
<1>9. TxInv'
  BY <1>1, <1>2, Zenon DEF TxInv, OutputInOrder
<1> QED BY <1>1, <1>2, <1>7, <1>8, <1>9 DEF IInv, ProcStepInv

(* Who is in uartstart() has written, and can have uart_tx_lock. *)
LEMMA Starter ==
  ASSUME IInv, NEW a \in Actors, AtStart(a), Free("tx", a)
  PROVE  /\ a \in Procs => /\ pr[a].at = "start" /\ pr[a].call = "write" /\ lock["tx"] = a
                           /\ pr[a].ticks0 \in Uints \cup {None}
         /\ a \notin Procs => a = Intr /\ intr = "start" /\ lock["tx"] \in {None, Intr}
         /\ lock["cons"] # a /\ lock["ticks"] # a
         /\ \A q \in Procs : q # a => lock["tx"] # q
<1>1. IntrOwns /\ \A q \in Procs : Own(q) /\ pr[q] \in State
  BY DEF IInv, LockInv, TypeInv
<1>2. CASE a \in Procs
  <2>1. pr[a].at = "start" /\ Own(a) /\ a # Intr /\ pr[a] \in State
    BY <1>1, <1>2, Apartness DEF AtStart
  <2>2. lock["tx"] = a /\ pr[a].call = "write" /\ lock["cons"] # a /\ lock["ticks"] # a
    BY <2>1 DEF Own
  <2> QED BY <1>2, <2>1, <2>2, Zenon DEF State
<1>3. CASE a \notin Procs
  <2>1. a = Intr /\ intr = "start" /\ lock["tx"] \in {None, Intr}
    BY <1>3 DEF Actors, AtStart, Free
  <2>2. lock["cons"] # Intr /\ lock["ticks"] # Intr
    BY <1>1, <2>1 DEF IntrOwns
  <2> QED BY <1>3, <2>1, <2>2, Apartness, Zenon
<1> QED BY <1>2, <1>3

(* uartstart() returns: the buffer is empty, or the UART will interrupt. *)
LEMMA StartedStep ==
  ASSUME IInv, NEW a \in Actors, AtStart(a), Free("tx", a), started(a),
         UNCHANGED <<cons, rx, tx, tx_r, tx_w, fifo, put, sent, ticks>>,
         tx_w # tx_r => fifo > 0 \/ thre'
  PROVE  IInv'
<1>1. /\ TypeInv /\ LockInv /\ ProcStepInv /\ TxInv /\ Ringlike(cons) /\ IntrOwns
      /\ pr \in [Procs -> State] /\ fifo \in Nat /\ rx \in Seq(Keys) /\ \A q \in Procs : Cause(q)
  BY DEF IInv, ProcStepInv, TypeInv, LockInv, CauseInv
<1>2. Touches(a) /\ lock'["tx"] = None /\ \A l \in Locks : l # "tx" => lock'[l] = lock[l]
  <2>1. "tx" \in Locks /\ None \in {None, a} /\ lock["tx"] \in {None, a} /\ Holds("tx", None)
    BY DEF Locks, Free, started
  <2> QED BY <1>1, <2>1, Holding
<1>3. lock'["cons"] # a /\ lock'["ticks"] # a
  BY <1>2, Starter DEF Locks
<1>4. /\ ticks' = ticks /\ fifo' \in Nat /\ rx' \in Seq(Keys)
      /\ cons.r = cons.w => cons'.r = cons'.w
      /\ full => full'
  BY <1>1, Zenon DEF full
<1>5. CASE a \in Procs
  <2>1. /\ pr[a].at = "start" /\ pr[a].call = "write" /\ a # Intr /\ pr[a] \in State /\ Timed(a)
        /\ pr[a].slept <= MaxTicks
    BY <1>5, Known, Starter, Apartness, Zenon DEF Timed
  <2> DEFINE S == [pr[a] EXCEPT !.at = "run", !.n = pr[a].n - 1]
  <2> DEFINE R == IF pr[a].n = 1 THEN Idle ELSE S
  <2>2. Becomes(a, R) /\ pr'[a] = R /\ intr' = intr
    <3>1. intr' = intr /\ pr' = [pr EXCEPT ![a] = R]
      BY <2>1, Zenon DEF started
    <3> QED BY <1>1, <1>5, <3>1, Zenon DEF Becomes
  <2>3. S \in State /\ S.at = "run" /\ S.call = "write" /\ S.slept = pr[a].slept /\ S.ticks0 = pr[a].ticks0
    <3>1. pr[a].n \in Int
      BY <2>1, Zenon DEF State
    <3>2. \A n \in Int : n - 1 \in Int
      OBVIOUS
    <3> QED BY <2>1, <3>1, <3>2, Zenon DEF State
  <2>4. /\ Idle \in State /\ Idle.at = "user" /\ Idle.call = None /\ Idle.ticks0 = None
        /\ Idle.slept = 0
    BY DEF Idle, State
  <2> HIDE DEF S
  <2>5. /\ R \in State /\ R.at \in {"run", "user"} /\ R.call \in {"write", None}
        /\ R.at = "run" => R.call = "write"
        /\ R.ticks0 = None => R.slept = 0
        /\ R.slept <= MaxTicks
    <3>1. 0 <= MaxTicks
      BY CallsAssumption
    <3>2. CASE pr[a].n = 1
      BY <2>4, <3>1, <3>2, Zenon
    <3>3. CASE pr[a].n # 1
      BY <2>1, <2>3, <3>3, Zenon DEF Timed
    <3> QED BY <3>2, <3>3, Zenon
  <2> HIDE DEF R
  <2>6. Own(a)'
    BY <1>2, <1>3, <1>5, <2>2, <2>5, Apartness DEF Own, SysCalls
  <2>7. Cause(a)' /\ Timed(a)'
    BY <2>2, <2>5, Apartness, Zenon DEF Cause, Timed, Sleeping, SysCalls
  <2> QED
    <3>1. ProcStepInv'
      BY <1>1, <1>2, <1>4, <1>5, <2>2, <2>5, <2>6, <2>7, ProcStep, Zenon
    <3>2. MovesInv'
      BY DEF MovesInv
    <3>3. TxInv' /\ Ringlike(cons')
      BY <1>1, Zenon DEF TxInv, OutputInOrder
    <3> QED BY <3>1, <3>2, <3>3, Zenon DEF IInv, ProcStepInv
<1>6. CASE a \notin Procs
  <2>1. a = Intr /\ intr = "start" /\ intr' = "idle" /\ pr' = pr
    BY <1>6, Starter DEF started
  <2>2. pr' \in [Procs -> State] /\ \A q \in Procs : Woken(q)
    BY <1>1, <2>1, AllSame, Zenon
  <2>3. IntrOwns'
    BY <1>2, <1>3, <2>1, Apartness DEF IntrOwns
  <2>4. \A q \in Procs : Cause(q)'
    BY <1>1, <1>4, <2>2, CauseOthers, Zenon
  <2>5. ProcStepInv'
    BY <1>1, <1>2, <1>4, <1>6, <2>1, <2>2, <2>3, <2>4, ActorStep, Zenon
  <2>6. MovesInv'
    BY DEF MovesInv
  <2>7. TxInv' /\ Ringlike(cons')
    BY <1>1, Zenon DEF TxInv, OutputInOrder
  <2> QED BY <2>5, <2>6, <2>7 DEF IInv, ProcStepInv
<1> QED BY <1>5, <1>6, Zenon

(* It takes a character, and wakes whoever waits for room. *)
LEMMA TakesStep ==
  ASSUME IInv, NEW a \in Actors, AtStart(a), Free("tx", a), tx_w # tx_r,
         UNCHANGED <<cons, rx, tx, tx_w, fifo, thre, put, ticks>>,
         sent' = Append(sent, tx[tx_r % UART_TX_BUF_SIZE]), tx_r' = tx_r + 1,
         Moves(a, wakeup(pr, "write"), "thr"), Holds("tx", a)
  PROVE  IInv'
<1>1. /\ TypeInv /\ LockInv /\ ProcStepInv /\ TxInv /\ Ringlike(cons) /\ IntrOwns
      /\ pr \in [Procs -> State] /\ fifo \in Nat /\ rx \in Seq(Keys)
      /\ \A q \in Procs : Cause(q) /\ Own(q)
      /\ intr \in {"idle", "getc", "echo", "echothr", "start", "thr"}
  BY Zenon DEF IInv, ProcStepInv, TypeInv, LockInv, CauseInv
<1>2. Touches(a) /\ lock'["tx"] = a /\ \A l \in Locks : l # "tx" => lock'[l] = lock[l]
  <2>1. "tx" \in Locks /\ a \in {None, a} /\ lock["tx"] \in {None, a}
    BY DEF Locks, Free
  <2> QED BY <1>1, <2>1, Holding, Zenon
<1>3. lock'["cons"] # a /\ lock'["ticks"] # a /\ lock'["cons"] = lock["cons"]
      /\ lock'["ticks"] = lock["ticks"]
  BY <1>2, Starter, Zenon DEF Locks
<1>4. /\ pr' \in [Procs -> State]
      /\ \A q \in Procs : q # a => Woken(q) /\ Awake(q, "write")
      /\ a \in Procs => Own(a)' /\ Timed(a)' /\ pr'[a].at = "thr"
      /\ IntrOwns' /\ intr' \in {"idle", "getc", "echo", "echothr", "start", "thr"}
  <2>1. CASE a \in Procs
    <3>1. /\ pr[a].at = "start" /\ pr[a].call = "write" /\ a # Intr /\ pr[a] \in State /\ Timed(a)
      BY <2>1, Known, Starter, Apartness
    <3> DEFINE P == wakeup(pr, "write")
    <3> DEFINE R == [pr[a] EXCEPT !.at = "thr"]
    <3>2. P \in [Procs -> State] /\ P[a] = pr[a]
      BY <1>1, <2>1, <3>1, WakeupIs, Zenon
    <3>3. intr' = intr /\ pr' = [P EXCEPT ![a].at = "thr"]
      BY <3>1 DEF Moves
    <3> HIDE DEF P
    <3>4. pr' = [P EXCEPT ![a] = R]
      BY <3>2, <3>3
    <3>5. R \in State /\ R.at = "thr" /\ R.call = "write" /\ R.slept = pr[a].slept /\ R.ticks0 = pr[a].ticks0
      BY <3>1, Zenon DEF State
    <3>6. /\ pr' \in [Procs -> State] /\ pr'[a] = R
          /\ \A q \in Procs : q # a => pr'[q] = P[q]
      BY <2>1, <3>2, <3>4, <3>5, Zenon
    <3> HIDE DEF R
    <3>7. ASSUME NEW q \in Procs, q # a PROVE Woken(q) /\ Awake(q, "write")
      <4>1. pr'[q] = P[q] /\ pr[q] \in State
        BY <1>1, <3>6, <3>7
      <4>2. CASE pr[q].at = "asleep" /\ pr[q].call = "write"
        <5>1. pr'[q] = [pr[q] EXCEPT !.at = "run"]
          BY <1>1, <4>1, <4>2, WakeupIs, Zenon DEF P
        <5>2. pr'[q].at = "run"
          BY <4>1, <5>1 DEF State
        <5> QED BY <4>2, <5>1, <5>2, Zenon DEF Woken, Awake
      <4>3. CASE ~(pr[q].at = "asleep" /\ pr[q].call = "write")
        <5>1. pr'[q] = pr[q]
          BY <1>1, <4>1, <4>3, WakeupIs, Zenon DEF P
        <5> QED BY <4>3, <5>1, Zenon DEF Woken, Awake
      <4> QED BY <4>2, <4>3, Zenon
    <3>8. Own(a)'
      BY <1>2, <1>3, <3>5, <3>6, Zenon DEF Own, SysCalls
    <3>9. Timed(a)'
      BY <3>1, <3>5, <3>6 DEF Timed, Sleeping
    <3>10. IntrOwns'
      BY <1>1, <1>2, <2>1, <3>3, IntrOwnsSame, Zenon
    <3> QED BY <1>1, <3>3, <3>5, <3>6, <3>7, <3>8, <3>9, <3>10
  <2>2. CASE a \notin Procs
    <3>1. a = Intr /\ intr = "start" /\ intr' = "thr" /\ pr' = wakeup(pr, "write")
      BY <2>2, Starter DEF Moves
    <3>2. pr' \in [Procs -> State] /\ \A q \in Procs : Woken(q) /\ Awake(q, "write")
      BY <1>1, <3>1, WakeupFacts
    <3>3. IntrOwns'
      BY <1>2, <1>3, <3>1, Zenon DEF IntrOwns
    <3> QED BY <2>2, <3>1, <3>2, <3>3, Zenon
  <2> QED BY <2>1, <2>2
<1>5. ASSUME NEW q \in Procs PROVE Cause(q)'
  <2>1. CASE q = a
    BY <1>4, <2>1 DEF Cause
  <2>2. CASE q # a
    <3>1. Woken(q) /\ Awake(q, "write") /\ Own(q) /\ Cause(q) /\ lock["tx"] # q
      BY <1>1, <1>4, <2>2, Starter
    <3>2. /\ pr'[q].call = pr[q].call /\ pr'[q].n = pr[q].n /\ pr'[q].slept = pr[q].slept
          /\ pr'[q].at = pr[q].at \/ (pr[q].at = "asleep" /\ pr'[q].at = "run")
      BY <1>1, <3>1, WokenFacts, Zenon
    <3>3. pr[q].at = "sleep" => pr[q].call # "write"
      BY <3>1, Zenon DEF Own, LockOf
    <3> QED BY <3>1, <3>2, <3>3, Zenon DEF Cause, Awake
  <2> QED BY <2>1, <2>2
<1>6. ProcStepInv'
  <2>1. ticks' = ticks /\ fifo' \in Nat /\ rx' \in Seq(Keys)
    BY <1>1
  <2> QED BY <1>1, <1>2, <1>4, <1>5, <2>1, ActorStep, Zenon
<1>7. MovesInv'
  <2>1. ~TxWaits'
    BY <1>2, <1>4, Apartness DEF TxWaits, Actors
  <2> QED BY <2>1 DEF MovesInv
<1>8. TxInv'
  BY <1>1, TxGet
<1> QED BY <1>1, <1>6, <1>7, <1>8, Zenon DEF IInv, ProcStepInv

(* uartstart(). *)
LEMMA StartStep == ASSUME IInv, NEW a \in Actors, uartstart(a) PROVE IInv'
<1>1. /\ AtStart(a) /\ Free("tx", a) /\ UNCHANGED <<cons, rx, tx, tx_w, fifo, put, ticks>>
  BY DEF uartstart, input
<1>2. CASE started(a) /\ UNCHANGED <<tx_r, sent>> /\ (tx_w = tx_r \/ fifo # 0)
  <2>1. tx_w # tx_r => fifo > 0 \/ thre'
    BY <1>2 DEF IInv, TypeInv
  <2>2. UNCHANGED <<cons, rx, tx, tx_r, tx_w, fifo, put, sent, ticks>>
    BY <1>1, <1>2
  <2> QED BY <1>1, <1>2, <2>1, <2>2, StartedStep, Zenon
<1>3. CASE /\ tx_w # tx_r /\ sent' = Append(sent, tx[tx_r % UART_TX_BUF_SIZE]) /\ tx_r' = tx_r + 1
           /\ Moves(a, wakeup(pr, "write"), "thr") /\ Holds("tx", a) /\ UNCHANGED thre
  <2>1. UNCHANGED <<cons, rx, tx, tx_w, fifo, thre, put, ticks>>
    BY <1>1, <1>3, Zenon
  <2> QED BY <1>1, <1>3, <2>1, TakesStep, Zenon
<1> QED BY <1>2, <1>3, Zenon DEF uartstart

(* The write of THR. *)
LEMMA ThrStep == ASSUME IInv, NEW a \in Actors, uartstart_thr(a) PROVE IInv'
<1>1. /\ TypeInv /\ LockInv /\ ProcStepInv /\ TxInv /\ Ringlike(cons) /\ IntrOwns
      /\ pr \in [Procs -> State] /\ fifo \in Nat /\ rx \in Seq(Keys)
      /\ \A q \in Procs : Cause(q) /\ Own(q)
  BY DEF IInv, ProcStepInv, TypeInv, LockInv, CauseInv
<1>2. /\ AtThr(a) /\ fifo' = fifo + 1 /\ Moves(a, pr, "start")
      /\ UNCHANGED <<cons, rx, tx, tx_r, tx_w, put, sent, ticks, lock>>
  BY Zenon DEF uartstart_thr, input
<1>3. /\ ticks' = ticks /\ fifo' \in Nat /\ rx' \in Seq(Keys) /\ fifo' > 0
      /\ cons.r = cons.w => cons'.r = cons'.w
      /\ full => full'
      /\ Touches(a)
  BY <1>1, <1>2, NoLock DEF full
<1>4. CASE a \in Procs
  <2> DEFINE R == [pr[a] EXCEPT !.at = "start"]
  <2>1. /\ pr[a].at = "thr" /\ a # Intr /\ pr[a] \in State /\ Timed(a) /\ Own(a)
    BY <1>2, <1>4, Known, Apartness, Zenon DEF AtThr
  <2>2. Becomes(a, R) /\ pr'[a] = R /\ intr' = intr
    <3>1. intr' = intr /\ pr' = [pr EXCEPT ![a] = R]
      BY <1>2, <2>1 DEF Moves
    <3> QED BY <1>1, <1>4, <3>1, Zenon DEF Becomes
  <2>3. /\ R \in State /\ R.at = "start" /\ R.call = pr[a].call /\ R.slept = pr[a].slept
        /\ R.ticks0 = pr[a].ticks0
    BY <2>1, Zenon DEF State
  <2> HIDE DEF R
  <2>4. Own(a)'
    BY <1>2, <2>1, <2>2, <2>3, Zenon DEF Own
  <2>5. Cause(a)' /\ Timed(a)'
    BY <1>2, <2>1, <2>2, <2>3, Zenon DEF Cause, Timed, Sleeping
  <2>6. ProcStepInv'
    BY <1>1, <1>3, <1>4, <2>2, <2>3, <2>4, <2>5, ProcStep, Zenon
  <2>7. MovesInv' /\ TxInv' /\ Ringlike(cons')
    BY <1>1, <1>2, <1>3, Zenon DEF MovesInv, TxInv, OutputInOrder
  <2> QED BY <2>6, <2>7, Zenon DEF IInv, ProcStepInv
<1>5. CASE a \notin Procs
  <2>1. a = Intr /\ intr = "thr" /\ intr' = "start" /\ pr' = pr
    BY <1>2, <1>5 DEF Actors, AtThr, Moves
  <2>2. pr' \in [Procs -> State] /\ \A q \in Procs : Woken(q)
    BY <1>1, <2>1, AllSame, Zenon
  <2>3. IntrOwns'
    BY <1>1, <1>2, <2>1 DEF IntrOwns
  <2>4. \A q \in Procs : Cause(q)'
    BY <1>1, <1>3, <2>2, CauseOthers, Zenon
  <2>5. ProcStepInv'
    BY <1>1, <1>3, <1>5, <2>1, <2>2, <2>3, <2>4, ActorStep, Zenon
  <2>6. MovesInv' /\ TxInv' /\ Ringlike(cons')
    BY <1>1, <1>2, <1>3, Zenon DEF MovesInv, TxInv, OutputInOrder
  <2> QED BY <2>5, <2>6 DEF IInv, ProcStepInv
<1> QED BY <1>4, <1>5

(* A step of the handler or of the UART that wakes nobody. *)
LEMMA DeviceStep ==
  ASSUME IInv, UNCHANGED <<cons, tx, tx_r, tx_w, put, sent, ticks, pr>>, Touches(Intr), IntrOwns',
         intr' \in {"idle", "getc", "echo", "echothr", "start", "thr"}, fifo' \in Nat, rx' \in Seq(Keys),
         MovesInv'
  PROVE  IInv'
<1>1. /\ TypeInv /\ ProcStepInv /\ TxInv /\ Ringlike(cons) /\ \A q \in Procs : Cause(q)
  BY DEF IInv, ProcStepInv, CauseInv
<1>2. pr' \in [Procs -> State] /\ \A q \in Procs : Woken(q)
  BY <1>1, AllSame
<1>3. (cons.r = cons.w => cons'.r = cons'.w) /\ (full => full') /\ ticks' = ticks
  BY DEF full
<1>4. \A q \in Procs : Cause(q)'
  BY <1>1, <1>2, <1>3, CauseOthers
<1>5. Intr \in Actors /\ Intr \notin Procs
  BY Apartness, Zenon DEF Actors
<1>6. ProcStepInv'
  BY <1>1, <1>2, <1>3, <1>4, <1>5, ActorStep, Zenon
<1>7. TxInv' /\ Ringlike(cons')
  BY <1>1, Zenon DEF TxInv, OutputInOrder
<1> QED BY <1>6, <1>7 DEF IInv, ProcStepInv

(* What the steps of the devices start from. *)
LEMMA DeviceKnown ==
  ASSUME IInv
  PROVE  /\ TypeInv /\ IntrOwns /\ MovesInv /\ fifo \in Nat /\ rx \in Seq(Keys)
         /\ intr \in {"idle", "getc", "echo", "echothr", "start", "thr"} /\ Intr \in Actors
         /\ lock' = lock => Touches(Intr)
BY NoLock DEF IInv, TypeInv, LockInv, Actors

(* consputc(), from consoleintr(): THR is empty, or the echo is complete. *)
LEMMA EchoStep == ASSUME IInv, consputc PROVE IInv'
<1>1. /\ intr = "echo" /\ UNCHANGED <<cons, rx, tx, tx_r, tx_w, fifo, thre, put, sent, ticks, pr>>
  BY DEF consputc, input, output
<1>2. CASE intr' = "echothr" /\ UNCHANGED lock
  <2>1. IntrOwns' /\ MovesInv' /\ Touches(Intr) /\ fifo' \in Nat /\ rx' \in Seq(Keys)
        /\ intr' \in {"idle", "getc", "echo", "echothr", "start", "thr"}
    BY <1>1, <1>2, DeviceKnown DEF IntrOwns, MovesInv
  <2> QED BY <1>1, <2>1, DeviceStep
<1>3. CASE Holds("cons", None) /\ intr' = "getc"
  <2>1. "cons" \in Locks /\ lock["cons"] \in {None, Intr}
    BY <1>1, DeviceKnown DEF IntrOwns, Locks
  <2>2. Touches(Intr) /\ lock'["cons"] = None /\ \A l \in Locks : l # "cons" => lock'[l] = lock[l]
    BY <1>3, <2>1, DeviceKnown, Holding
  <2>3. IntrOwns' /\ MovesInv'
    BY <1>1, <1>3, <2>2, DeviceKnown, Apartness DEF IntrOwns, MovesInv, Locks
  <2>4. fifo' \in Nat /\ rx' \in Seq(Keys) /\ intr' \in {"idle", "getc", "echo", "echothr", "start", "thr"}
    BY <1>1, <1>3, DeviceKnown
  <2> QED BY <1>1, <2>2, <2>3, <2>4, DeviceStep
<1> QED BY <1>2, <1>3 DEF consputc

(* uartputc_sync() writes THR. *)
LEMMA SyncStep == ASSUME IInv, uartputc_sync PROVE IInv'
<1>1. /\ intr = "echothr" /\ intr' = "echo" /\ fifo' = fifo + 1
      /\ UNCHANGED <<cons, rx, tx, tx_r, tx_w, put, sent, ticks, lock, pr>>
  BY DEF uartputc_sync
<1>2. IntrOwns' /\ MovesInv' /\ Touches(Intr) /\ fifo' \in Nat /\ rx' \in Seq(Keys)
      /\ intr' \in {"idle", "getc", "echo", "echothr", "start", "thr"}
  BY <1>1, DeviceKnown DEF IntrOwns, MovesInv
<1> QED BY <1>1, <1>2, DeviceStep

(* uartintr(). *)
LEMMA UartintrStep == ASSUME IInv, uartintr PROVE IInv'
<1>1. UNCHANGED <<cons, rx, tx, tx_r, tx_w, fifo, put, sent, ticks, pr, lock>>
  BY DEF uartintr, input, output
<1>2. (intr = "idle" /\ intr' = "getc") \/ (intr = "getc" /\ intr' = "start")
  BY DEF uartintr
<1>3. IntrOwns' /\ MovesInv' /\ Touches(Intr) /\ fifo' \in Nat /\ rx' \in Seq(Keys)
      /\ intr' \in {"idle", "getc", "echo", "echothr", "start", "thr"}
  BY <1>1, <1>2, DeviceKnown DEF IntrOwns, MovesInv
<1> QED BY <1>1, <1>3, DeviceStep, Zenon

(* A key is typed. *)
LEMMA KeyStep == ASSUME IInv, NEW c \in Keys, key(c) PROVE IInv'
<1>1. UNCHANGED <<cons, tx, tx_r, tx_w, fifo, thre, put, sent, ticks, pr, lock, intr>> /\ rx' = Append(rx, c)
  BY DEF key, output
<1>2. rx' \in Seq(Keys)
  BY <1>1, DeviceKnown, AppendProperties, Zenon
<1>3. IntrOwns' /\ Touches(Intr) /\ fifo' \in Nat /\ intr' \in {"idle", "getc", "echo", "echothr", "start", "thr"}
  BY <1>1, DeviceKnown, Zenon DEF IntrOwns
<1>4. MovesInv'
  BY <1>1, DeviceKnown, Zenon DEF MovesInv, TxWaits
<1> QED BY <1>1, <1>2, <1>3, <1>4, DeviceStep, Zenon

(* The UART has sent a character: after the last it interrupts. *)
LEMMA TransmitStep == ASSUME IInv, transmit PROVE IInv'
<1>1. /\ UNCHANGED <<cons, rx, tx, tx_r, tx_w, put, sent, ticks, pr, lock, intr>>
      /\ fifo > 0 /\ fifo' = fifo - 1 /\ thre' = (fifo = 1)
  BY DEF transmit, input
<1>2. fifo' \in Nat /\ (fifo' > 0 \/ thre')
  <2>1. fifo' \in Nat /\ (fifo' > 0 \/ fifo = 1)
    BY <1>1, DeviceKnown
  <2>2. fifo = 1 => thre'
    BY <1>1, Zenon
  <2> QED BY <2>1, <2>2, Zenon
<1>3. /\ IntrOwns' /\ Touches(Intr) /\ intr' \in {"idle", "getc", "echo", "echothr", "start", "thr"}
      /\ rx' \in Seq(Keys)
  BY <1>1, DeviceKnown DEF IntrOwns
<1>4. MovesInv'
  BY <1>2 DEF MovesInv
<1> QED BY <1>1, <1>2, <1>3, <1>4, DeviceStep

(* consoleintr(): nobody is about to sleep, since cons.lock was free. *)
LEMMA ConsoleintrStep == ASSUME IInv, consoleintr PROVE IInv'
<1>1. /\ TypeInv /\ ProcStepInv /\ TxInv /\ Ringlike(cons) /\ IntrOwns /\ fifo \in Nat
      /\ rx \in Seq(Keys) /\ Intr \in Actors /\ Intr \notin Procs
      /\ \A q \in Procs : Cause(q) /\ Own(q)
  BY Apartness DEF IInv, ProcStepInv, TypeInv, LockInv, CauseInv, Actors
<1>2. /\ intr = "getc" /\ rx # <<>> /\ lock["cons"] = None /\ rx' = Tail(rx) /\ Holds("cons", Intr)
      /\ intr' = "echo" /\ pr' = IF cons'.w # cons.w THEN wakeup(pr, "read") ELSE pr
      /\ UNCHANGED <<tx, tx_r, tx_w, fifo, thre, put, sent, ticks>>
  BY DEF consoleintr, Free, output
<1>3. Ringlike(cons') /\ cons'.r = cons.r
  BY <1>1, IntrRing
<1>4. Touches(Intr) /\ lock'["cons"] = Intr /\ \A l \in Locks : l # "cons" => lock'[l] = lock[l]
  <2>1. "cons" \in Locks /\ lock["cons"] \in {None, Intr}
    BY <1>2 DEF Locks
  <2> QED BY <1>1, <1>2, <2>1, Holding
<1>5. /\ pr' \in [Procs -> State] /\ \A q \in Procs : Woken(q)
      /\ cons'.w # cons.w => \A q \in Procs : Awake(q, "read")
  <2>1. CASE cons'.w # cons.w
    BY <1>1, <1>2, <2>1, WakeupFacts
  <2>2. CASE cons'.w = cons.w
    BY <1>1, <1>2, <2>2, AllSame, Zenon
  <2> QED BY <2>1, <2>2, Zenon
<1>6. ASSUME NEW q \in Procs PROVE Cause(q)'
  <2>1. CASE cons'.w = cons.w
    <3>1. (cons.r = cons.w => cons'.r = cons'.w) /\ (full => full')
      BY <1>2, <1>3, <2>1 DEF full
    <3> QED BY <1>1, <1>5, <3>1, CauseOthers, Zenon
  <2>2. CASE cons'.w # cons.w
    <3>1. Woken(q) /\ Awake(q, "read") /\ Own(q) /\ Cause(q) /\ lock["cons"] # q
      BY <1>1, <1>2, <1>5, <2>2, Apartness
    <3>2. /\ pr'[q].call = pr[q].call /\ pr'[q].n = pr[q].n /\ pr'[q].slept = pr[q].slept
          /\ pr'[q].at = pr[q].at \/ (pr[q].at = "asleep" /\ pr'[q].at = "run")
      BY <1>1, <3>1, WokenFacts, Zenon
    <3>3. pr[q].at = "sleep" => pr[q].call # "read"
      BY <3>1 DEF Own, LockOf
    <3>4. full' = full
      BY <1>2 DEF full
    <3> QED BY <3>1, <3>2, <3>3, <3>4 DEF Cause, Awake
  <2> QED BY <2>1, <2>2
<1>7. IntrOwns'
  BY <1>1, <1>2, <1>4 DEF IntrOwns, Locks
<1>8. rx' \in Seq(Keys) /\ fifo' \in Nat /\ ticks' = ticks
      /\ intr' \in {"idle", "getc", "echo", "echothr", "start", "thr"}
  BY <1>1, <1>2, HeadTailProperties
<1>9. ProcStepInv'
  BY <1>1, <1>4, <1>5, <1>6, <1>7, <1>8, ActorStep, Zenon
<1>10. MovesInv' /\ TxInv'
  BY <1>1, <1>2, Zenon DEF MovesInv, TxInv, OutputInOrder
<1> QED BY <1>3, <1>9, <1>10 DEF IInv, ProcStepInv

------------------------------------------------------------------------------
(* The clock: a sleeper has slept for one tick more, and looks. *)
Ticked(q) ==
  /\ pr'[q] \in State /\ pr'[q].call = pr[q].call /\ pr'[q].n = pr[q].n
  /\ pr'[q].ticks0 = pr[q].ticks0
  /\ pr'[q].slept = IF Sleeping(q) THEN pr[q].slept + 1 ELSE pr[q].slept
  /\ pr'[q].at = pr[q].at \/ (pr[q].at = "asleep" /\ pr'[q].at = "run")
  /\ Awake(q, "sleep")

(* What clockintr() does to a process. *)
LEMMA ClockTicks ==
  ASSUME TypeInv, clockintr
  PROVE  pr' \in [Procs -> State] /\ \A q \in Procs : Ticked(q)
<1> DEFINE P == [p \in Procs |-> IF Sleeping(p) THEN [pr[p] EXCEPT !.slept = @ + 1] ELSE pr[p]]
<1>1. pr' = wakeup(P, "sleep") /\ pr \in [Procs -> State]
  BY Zenon DEF clockintr, TypeInv
<1>2. ASSUME NEW q \in Procs
      PROVE  /\ P[q] \in State /\ P[q].at = pr[q].at /\ P[q].call = pr[q].call /\ P[q].n = pr[q].n
             /\ P[q].ticks0 = pr[q].ticks0
             /\ P[q].slept = IF Sleeping(q) THEN pr[q].slept + 1 ELSE pr[q].slept
  <2>1. pr[q] \in State /\ pr[q].slept + 1 \in Nat
    BY <1>1 DEF State
  <2>2. CASE Sleeping(q)
    <3>1. P[q] = [pr[q] EXCEPT !.slept = pr[q].slept + 1]
      BY <2>2, Zenon
    <3> HIDE DEF P
    <3> QED BY <2>1, <2>2, <3>1, Zenon DEF State
  <2>3. CASE ~Sleeping(q)
    <3>1. P[q] = pr[q]
      BY <2>3, Zenon
    <3> QED BY <2>1, <2>3, <3>1, Zenon
  <2> QED BY <2>2, <2>3
<1> HIDE DEF P
<1>3. ASSUME NEW q \in Procs PROVE Ticked(q)
  <2>1. CASE P[q].at = "asleep" /\ P[q].call = "sleep"
    <3>1. pr'[q] = [P[q] EXCEPT !.at = "run"]
      BY <1>1, <2>1, Zenon DEF wakeup
    <3>2. /\ pr'[q] \in State /\ pr'[q].at = "run" /\ pr'[q].call = P[q].call /\ pr'[q].n = P[q].n
          /\ pr'[q].ticks0 = P[q].ticks0 /\ pr'[q].slept = P[q].slept
      BY <1>2, <3>1, Zenon DEF State
    <3> QED BY <1>2, <2>1, <3>2, Zenon DEF Ticked, Awake
  <2>2. CASE ~(P[q].at = "asleep" /\ P[q].call = "sleep")
    <3>1. pr'[q] = P[q]
      BY <1>1, <2>2, Zenon DEF wakeup
    <3> QED BY <1>2, <2>2, <3>1, Zenon DEF Ticked, Awake
  <2> QED BY <2>1, <2>2
<1>4. pr' \in [Procs -> State]
  <2>1. pr' = [q \in Procs |-> pr'[q]]
    BY <1>1, Zenon DEF wakeup
  <2>2. \A q \in Procs : pr'[q] \in State
    BY <1>3, Zenon DEF Ticked
  <2> QED BY <2>1, <2>2, Zenon
<1> QED BY <1>3, <1>4

(* The time that a process has slept, on a clock that wraps. *)
LEMMA ClockTimes ==
  ASSUME TypeInv, NEW q \in Procs, Timed(q), Ticked(q), ticks' = (ticks + 1) % UINT,
         pr[q].slept < MaxTicks
  PROVE  Timed(q)'
<1>1. /\ pr[q] \in State /\ ticks \in Uints /\ pr[q].slept \in Nat
      /\ pr[q].ticks0 \in Uints \cup {None}
  BY Zenon DEF TypeInv, State
<1>2. UINT \in Nat \ {0} /\ MaxTicks \in Nat /\ MaxTicks < UINT /\ 1 \in 0..UINT
  BY RingFits, CallsAssumption
<1>3. Sleeping(q)' <=> Sleeping(q)
  BY Zenon DEF Sleeping, Ticked
<1>4. CASE Sleeping(q)
  <2> DEFINE t == pr[q].ticks0
  <2> DEFINE s == pr[q].slept
  <2>1. /\ t \in Uints /\ s \in Nat /\ s < MaxTicks /\ ticks = (t + s) % UINT
        /\ pr'[q].ticks0 = t /\ pr'[q].slept = s + 1 /\ t # None
    BY <1>1, <1>4, Zenon DEF Timed, Sleeping, Ticked
  <2> HIDE DEF t, s
  <2>2. s \in 0..UINT /\ s + 1 \in 0..UINT
    BY <1>2, <2>1
  <2>3. (t + s) % UINT = IF t + s < UINT THEN t + s ELSE t + s - UINT
    BY <2>1, <2>2, PlusIs, Zenon
  <2>4. (t + (s + 1)) % UINT = IF t + (s + 1) < UINT THEN t + (s + 1) ELSE t + (s + 1) - UINT
    BY <2>1, <2>2, PlusIs, Zenon
  <2>5. (ticks + 1) % UINT = IF ticks + 1 < UINT THEN ticks + 1 ELSE ticks + 1 - UINT
    BY <1>1, <1>2, PlusIs, Zenon
  <2>6. (ticks + 1) % UINT = (t + (s + 1)) % UINT
    BY <1>2, <2>1, <2>2, <2>3, <2>4, <2>5 DEF Uints
  <2>7. s + 1 <= MaxTicks
    BY <1>2, <2>1
  <2> QED BY <2>1, <2>6, <2>7, Zenon DEF Timed
<1>5. CASE ~Sleeping(q)
  BY <1>3, <1>5, Zenon DEF Timed, Ticked
<1> QED BY <1>4, <1>5

(* clockintr(): nobody is about to sleep, since tickslock is free. *)
LEMMA ClockStep == ASSUME IInv, clockintr PROVE IInv'
<1>1. /\ TypeInv /\ LockInv /\ MovesInv /\ TxInv /\ Ringlike(cons) /\ IntrOwns
      /\ intr \in {"idle", "getc", "echo", "echothr", "start", "thr"} /\ ticks \in Uints
      /\ \A q \in Procs : Cause(q) /\ Own(q) /\ Timed(q)
  BY DEF IInv, TypeInv, LockInv, CauseInv, ClockInv
<1>2. /\ lock["ticks"] = None /\ (\A p \in Procs : pr[p].slept < MaxTicks)
      /\ ticks' = (ticks + 1) % UINT
      /\ UNCHANGED <<cons, rx, tx, tx_r, tx_w, fifo, thre, put, sent, lock, intr>>
  BY DEF clockintr, Free, input, output
<1>3. pr' \in [Procs -> State] /\ \A q \in Procs : Ticked(q)
  BY <1>1, ClockTicks
<1>4. ASSUME NEW q \in Procs PROVE Own(q)' /\ Cause(q)' /\ Timed(q)'
  <2>1. Ticked(q) /\ Own(q) /\ Cause(q) /\ Timed(q) /\ lock["ticks"] # q
    BY <1>1, <1>2, <1>3, Apartness
  <2>2. Own(q)'
    <3>1. LockOf(pr'[q].call) = LockOf(pr[q].call) /\ lock' = lock
      BY <1>2, <2>1 DEF Ticked
    <3> QED BY <2>1, <3>1, Zenon DEF Own, Ticked
  <2>3. Cause(q)'
    <3>1. pr[q].at = "sleep" => pr[q].call # "sleep"
      BY <2>1, Zenon DEF Own, LockOf
    <3>2. cons' = cons /\ full' = full
      BY <1>2 DEF full
    <3> QED BY <2>1, <3>1, <3>2, Zenon DEF Cause, Ticked, Awake
  <2>4. Timed(q)'
    BY <1>1, <1>2, <2>1, ClockTimes, Zenon
  <2> QED BY <2>2, <2>3, <2>4
<1>5. TypeInv'
  <2>1. 1 \in 0..UINT
    BY RingFits
  <2>2. ticks' \in Uints
    BY <1>1, <1>2, <2>1, PlusIs, Zenon
  <2> QED BY <1>1, <1>2, <1>3, <2>2, Zenon DEF TypeInv
<1>6. IntrOwns'
  BY <1>1, <1>2 DEF IntrOwns
<1>7. MovesInv'
  <2>1. \A q \in Procs : pr'[q].at = "sleep" => pr[q].at = "sleep"
    BY <1>3 DEF Ticked
  <2>2. TxWaits' => TxWaits
    BY <1>2, <2>1, Zenon DEF TxWaits
  <2> QED BY <1>1, <1>2, <2>2, Zenon DEF MovesInv
<1>8. TxInv' /\ Ringlike(cons')
  BY <1>1, <1>2, Zenon DEF TxInv, OutputInOrder
<1> QED BY <1>4, <1>5, <1>6, <1>7, <1>8 DEF IInv, LockInv, CauseInv, ClockInv

------------------------------------------------------------------------------
(* Nothing is in the buffers at first. *)
LEMMA InitInv == ASSUME Init PROVE IInv /\ Term!Init
<1>1. /\ cons = [buf |-> [i \in Slots |-> None], r |-> UINT - 1, w |-> UINT - 1, e |-> UINT - 1]
      /\ tx = [i \in TxSlots |-> None] /\ tx_r = 0 /\ tx_w = 0
      /\ lock = [l \in Locks |-> None] /\ rx = <<>> /\ fifo = 0 /\ intr = "idle"
      /\ ticks = UINT - 1 /\ pr = [p \in Procs |-> Idle] /\ put = <<>> /\ sent = <<>>
  BY DEF Init, Slots, TxSlots, Locks
<1>2. UINT - 1 \in Uints /\ UINT \in Nat \ {0} /\ INPUT_BUF_SIZE \in Nat \ {0}
      /\ UART_TX_BUF_SIZE \in Nat \ {0} /\ MaxTicks \in Nat
  BY RingFits, CallsAssumption DEF Uints
<1>3. /\ Idle \in State /\ Idle.at = "user" /\ Idle.call = None /\ Idle.ticks0 = None
      /\ Idle.slept = 0
  BY DEF Idle, State
<1>4. TypeInv
  <2>1. lock \in [Locks -> Procs \cup {Intr, None}] /\ pr \in [Procs -> State]
    BY <1>1, <1>3, Zenon
  <2>2. fifo \in Nat /\ rx \in Seq(Keys)
    BY <1>1
  <2> QED BY <1>1, <1>2, <2>1, <2>2, Zenon DEF TypeInv
<1>5. lock["cons"] = None /\ lock["tx"] = None /\ lock["ticks"] = None
  BY <1>1 DEF Locks
<1>6. ASSUME NEW p \in Procs PROVE Own(p) /\ Cause(p) /\ Timed(p)
  <2>1. pr[p] = Idle
    BY <1>1, Zenon
  <2>2. Own(p)
    BY <1>3, <1>5, <2>1, Apartness DEF Own
  <2>3. Cause(p)
    BY <1>3, <2>1 DEF Cause
  <2>4. Timed(p)
    BY <1>2, <1>3, <2>1, Apartness DEF Timed, Sleeping, SysCalls
  <2> QED BY <2>2, <2>3, <2>4
<1>7. IntrOwns
  BY <1>1, <1>5, Apartness DEF IntrOwns
<1>8. MovesInv
  BY <1>1 DEF MovesInv
<1>9. TxInv
  <2>1. tx \in [TxSlots -> Written]
    BY <1>1, Zenon DEF Written
  <2>2. tx_r \in Nat /\ tx_w \in tx_r..(tx_r + UART_TX_BUF_SIZE)
    BY <1>1, <1>2
  <2>3. put \in Seq(Written) /\ sent \in Seq(Written)
    BY <1>1
  <2>4. Pending(tx, 0, 0) \in Seq(Written) /\ Len(Pending(tx, 0, 0)) = 0
    BY <2>1, PendingIsSeq
  <2>5. put = sent \o Pending(tx, 0, 0)
    BY <1>1, <2>4
  <2>6. Pending(tx, 0, 0) = Pending(tx, tx_r, tx_w - tx_r)
    BY <1>1
  <2>7. OutputInOrder
    BY <2>5, <2>6, Zenon DEF OutputInOrder, Pending
  <2> QED BY <2>1, <2>2, <2>3, <2>7 DEF TxInv
<1>10. /\ cons \in Indexed /\ cons.r = UINT - 1 /\ cons.w = UINT - 1 /\ cons.e = UINT - 1
  <2>1. [i \in Slots |-> None] \in [Slots -> Chars]
    BY Zenon DEF Chars
  <2> QED BY <1>1, <1>2, <2>1 DEF Indexed
<1>11. QueueLen(cons) = 0 /\ LineLen(cons) = 0
  <2>1. Minus(UINT - 1, UINT - 1) = IF UINT - 1 < UINT - 1 THEN UINT - 1 - (UINT - 1) + UINT
                                                          ELSE UINT - 1 - (UINT - 1)
    BY <1>2, MinusIs
  <2> QED BY <1>2, <1>10, <2>1 DEF QueueLen, LineLen
<1>12. Ringlike(cons)
  <2>1. 0 + 0 <= INPUT_BUF_SIZE /\ \A i \in 1..0 : FALSE
    BY <1>2
  <2> QED BY <1>10, <1>11, <2>1 DEF Ringlike, Indexed, Chars
<1>13. Term!Init
  <2>1. /\ QueueOf(cons) \in Seq(Chars) /\ Len(QueueOf(cons)) = 0
        /\ LineOf(cons) \in Seq(Chars) /\ Len(LineOf(cons)) = 0
    BY <1>2, <1>10, <1>11, QueueIsSeq
  <2>2. QueueOf(cons) = <<>> /\ LineOf(cons) = <<>>
    BY <2>1
  <2> QED BY <2>2, TermVars DEF Term!Init
<1> QED BY <1>4, <1>6, <1>7, <1>8, <1>9, <1>12, <1>13 DEF IInv, LockInv, CauseInv, ClockInv

(* Every step preserves the invariant. *)
LEMMA NextInv == ASSUME IInv, [Next]_vars PROVE IInv'
<1>1. CASE Next
  <2>1. ASSUME NEW p \in Procs,
               sleep(p) \/ consoleread(p) \/ uartputc(p) \/ consolewrite_fails(p) \/ sys_sleep(p) \/ kill(p)
        PROVE  IInv'
    BY <2>1, SleepStep, ReadStep, PutcStep, WriteFailsStep, SysSleepStep, KillStep
  <2>2. ASSUME NEW p \in Procs, NEW k \in Calls[p], call(p, k) PROVE IInv'
    BY <2>2, CallStep
  <2>3. ASSUME NEW a \in Procs \cup {Intr}, uartstart(a) \/ uartstart_thr(a) PROVE IInv'
    BY <2>3, StartStep, ThrStep DEF Actors
  <2>4. CASE consoleintr \/ consputc \/ uartputc_sync \/ uartintr \/ clockintr \/ transmit
    BY <2>4, ConsoleintrStep, EchoStep, SyncStep, UartintrStep, ClockStep, TransmitStep
  <2>5. ASSUME NEW c \in Keys, key(c) PROVE IInv'
    BY <2>5, KeyStep
  <2> QED BY <1>1, <2>1, <2>2, <2>3, <2>4, <2>5 DEF Next
<1>2. CASE UNCHANGED vars
  <2>1. /\ UNCHANGED <<cons, rx, tx, tx_r, tx_w, fifo, thre, put, sent, ticks, lock, intr, pr>>
    BY <1>2 DEF vars, input, output
  <2>2. TypeInv'
    BY <2>1 DEF IInv, TypeInv
  <2>3. LockInv'
    BY <2>1, Zenon DEF IInv, LockInv, IntrOwns, Own
  <2>4. CauseInv' /\ ClockInv'
    BY <2>1, Zenon DEF IInv, CauseInv, Cause, ClockInv, Timed, Sleeping, full
  <2>5. MovesInv' /\ TxInv' /\ Ringlike(cons')
    BY <2>1, Zenon DEF IInv, MovesInv, TxWaits, TxInv, OutputInOrder
  <2> QED BY <2>2, <2>3, <2>4, <2>5 DEF IInv
<1> QED BY <1>1, <1>2

(* Every step is one of the abstract terminal, or none. *)
LEMMA NextTerm == ASSUME IInv, [Next]_vars PROVE TermStep
<1>1. Ringlike(cons) /\ rx \in Seq(Keys)
  BY DEF IInv, TypeInv
<1>2. CASE cons' = cons
  BY <1>2, TermVars DEF TermStep
<1>3. ASSUME NEW p \in Procs, consoleread(p) PROVE TermStep
  BY <1>1, <1>3, ReadRing, Zenon
<1>4. CASE consoleintr
  BY <1>1, <1>4, IntrRing
<1>5. ASSUME NEW p \in Procs,
             \/ sleep(p) \/ uartputc(p) \/ consolewrite_fails(p) \/ sys_sleep(p) \/ kill(p)
             \/ \E k \in Calls[p] : call(p, k)
      PROVE  cons' = cons
  BY <1>5, Zenon DEF sleep, uartputc, consolewrite_fails, sys_sleep, kill, call, input
<1>6. ASSUME NEW a \in Procs \cup {Intr}, uartstart(a) \/ uartstart_thr(a) PROVE cons' = cons
  BY <1>6, Zenon DEF uartstart, uartstart_thr, input
<1>7. CASE consputc \/ uartputc_sync \/ uartintr \/ clockintr \/ transmit \/ \E c \in Keys : key(c)
  BY <1>2, <1>7, Zenon DEF consputc, uartputc_sync, uartintr, clockintr, transmit, key, input
<1>8. CASE UNCHANGED vars
  BY <1>2, <1>8 DEF vars, input
<1> QED BY <1>2, <1>3, <1>4, <1>5, <1>6, <1>7, <1>8, Zenon DEF Next

------------------------------------------------------------------------------
(* Only sys_sleep() brings a process that is in it back to user mode. *)
LEMMA OnlySysSleep ==
  ASSUME IInv, Next, NEW p \in Procs, Runs(p, "sleep"), pr'[p].at = "user"
  PROVE  sys_sleep(p)
<1>1. /\ pr[p].at = "run" /\ pr[p].call = "sleep" /\ pr[p] \in State /\ TypeInv
      /\ pr \in [Procs -> State] /\ p # Intr
  BY Known, Apartness DEF Runs
<1>2. pr'[p] # pr[p]
  BY <1>1
<1>3. ASSUME NEW q \in Procs, NEW R, pr' = [pr EXCEPT ![q] = R] PROVE q = p
  BY <1>1, <1>2, <1>3, Zenon
<1>4. \A c : wakeup(pr, c)[p] = pr[p]
  BY <1>1, WakeupIs, Zenon
<1>5. ASSUME NEW q \in Procs,
             sleep(q) \/ consoleread(q) \/ uartputc(q) \/ consolewrite_fails(q) \/ sys_sleep(q)
      PROVE  sys_sleep(p)
  <2>1. \E R : pr' = [pr EXCEPT ![q] = R]
    <3>1. CASE sleep(q)
      BY <3>1, Zenon DEF sleep, Go
    <3>2. CASE consoleread(q)
      BY <3>2 DEF consoleread, read_char, Return, Go
    <3>3. CASE uartputc(q)
      BY <3>3 DEF uartputc, Go
    <3>4. CASE consolewrite_fails(q)
      BY <3>4, Zenon DEF consolewrite_fails, Return
    <3>5. CASE sys_sleep(q)
      <4>1. CASE Return(q)
        BY <4>1, Zenon DEF Return
      <4>2. ASSUME NEW t, pr' = [pr EXCEPT ![q].at = "sleep", ![q].ticks0 = t]
            PROVE  \E R : pr' = [pr EXCEPT ![q] = R]
        <5>1. pr' = [pr EXCEPT ![q] = [pr[q] EXCEPT !.at = "sleep", !.ticks0 = t]]
          BY <1>1, <4>2, Zenon
        <5> QED BY <5>1, Zenon
      <4> QED BY <3>5, <4>1, <4>2, Zenon DEF sys_sleep
    <3> QED BY <1>5, <3>1, <3>2, <3>3, <3>4, <3>5, Zenon
  <2>2. q = p
    BY <1>3, <2>1, Zenon
  <2> QED BY <1>1, <1>5, <2>2, Zenon DEF sleep, consoleread, uartputc, consolewrite_fails, Runs
<1>6. ASSUME NEW q \in Procs, NEW k \in Calls[q], call(q, k) PROVE FALSE
  <2>1. pr[q].at = "user" /\ \E R : pr' = [pr EXCEPT ![q] = R]
    BY <1>6, Zenon DEF call
  <2> QED BY <1>1, <1>3, <2>1
<1>7. ASSUME NEW q \in Procs, kill(q) PROVE FALSE
  <2>1. pr' = pr \/ (pr[q].at = "asleep" /\ pr' = [pr EXCEPT ![q].at = "run"])
    BY <1>7 DEF kill
  <2>2. pr' # pr
    BY <1>2
  <2>3. pr[q].at = "asleep" /\ \E R : pr' = [pr EXCEPT ![q] = R]
    BY <2>1, <2>2, Zenon
  <2> QED BY <1>1, <1>3, <2>3
<1>8. ASSUME NEW a \in Actors, uartstart(a) \/ uartstart_thr(a) PROVE FALSE
  <2>1. a # p
    BY <1>1, <1>8, Zenon DEF uartstart, uartstart_thr, AtStart, AtThr
  <2>2. ASSUME NEW P, NEW at, P[p] = pr[p], Moves(a, P, at), P \in [Procs -> State] PROVE FALSE
    BY <1>2, <2>1, <2>2, Zenon DEF Moves, Actors
  <2>3. CASE started(a)
    BY <1>1, <1>2, <2>1, <2>3, Zenon DEF started, Actors
  <2>4. wakeup(pr, "write") \in [Procs -> State]
    BY <1>1, WakeupIs, Zenon
  <2> QED BY <1>1, <1>4, <1>8, <2>2, <2>3, <2>4, Zenon DEF uartstart, uartstart_thr
<1>9. CASE consoleintr
  <2>1. pr' = pr \/ pr' = wakeup(pr, "read")
    BY <1>9 DEF consoleintr
  <2> QED BY <1>2, <1>4, <2>1, Zenon
<1>10. CASE clockintr
  <2>1. Ticked(p)
    BY <1>1, <1>10, ClockTicks, Zenon
  <2> QED BY <1>1, <2>1 DEF Ticked
<1>11. CASE consputc \/ uartputc_sync \/ uartintr \/ transmit \/ \E c \in Keys : key(c)
  <2>1. pr' = pr
    BY <1>11, Zenon DEF consputc, uartputc_sync, uartintr, transmit, key
  <2> QED BY <1>2, <2>1
<1>12. Actors = Procs \cup {Intr}
  BY DEF Actors
<1> QED BY <1>5, <1>6, <1>7, <1>8, <1>9, <1>10, <1>11, <1>12, Zenon DEF Next

(* The step that SleepsLongEnough is about. *)
SleptEnough ==
  \A p \in Procs : (Runs(p, "sleep") /\ pr'[p].at = "user" /\ p \notin killed) => pr[p].slept >= pr[p].n

(* sys_sleep() returns from its loop when the time has elapsed. *)
LEMMA NextSlept == ASSUME IInv, Next PROVE SleptEnough
<1> SUFFICES ASSUME NEW p \in Procs, Runs(p, "sleep"), pr'[p].at = "user", p \notin killed
             PROVE  pr[p].slept >= pr[p].n
  BY DEF SleptEnough
<1>1. sys_sleep(p)
  BY OnlySysSleep
<1>2. elapsed(Start(p)) = pr[p].slept /\ pr[p] \in State /\ pr \in [Procs -> State]
  BY Elapsed, Known
<1>3. CASE elapsed(Start(p)) >= pr[p].n
  BY <1>2, <1>3
<1>4. CASE ~(elapsed(Start(p)) >= pr[p].n)
  <2>1. pr' = [pr EXCEPT ![p].at = "sleep", ![p].ticks0 = Start(p)]
    BY <1>1, <1>4, Zenon DEF sys_sleep, Start
  <2>2. pr'[p] = [pr[p] EXCEPT !.at = "sleep", !.ticks0 = Start(p)]
    BY <1>2, <2>1, Zenon
  <2>3. pr'[p].at = "sleep"
    BY <1>2, <2>2, Zenon DEF State
  <2> QED BY <2>3, Zenon
<1> QED BY <1>3, <1>4

------------------------------------------------------------------------------
(* The invariant of console, UART and clock: every reachable state of the     *)
(* drivers, for any sizes of the buffers, has the locks, the causes to sleep, *)
(* the clock and the two rings as IInv describes them.                        *)
THEOREM DevicesInvariant == Spec => []IInv
<1>1. Init => IInv
  BY InitInv
<1>2. IInv /\ [Next]_vars => IInv'
  BY NextInv
<1> QED BY <1>1, <1>2, PTL DEF Spec

(* consoleread(), uartputc() and sys_sleep() sleep only while they have a     *)
(* cause to, and what uartputc() has buffered is on its way out.              *)
THEOREM CausesCorrect == Spec => []SleepsForACause
<1>1. IInv => SleepsForACause
  <2> SUFFICES ASSUME IInv PROVE SleepsForACause
    OBVIOUS
  <2>1. ASSUME NEW p \in Procs, pr[p].at = "asleep"
        PROVE  CASE pr[p].call = "read" -> cons.r = cons.w
                 [] pr[p].call = "write" -> full
                 [] pr[p].call = "sleep" -> pr[p].slept < pr[p].n
    <3>1. Cause(p) /\ pr[p].call \in SysCalls
      BY <2>1, Known DEF Own
    <3> QED BY <2>1, <3>1, Zenon DEF Cause, SysCalls
  <2>2. OutputMoves
    BY DEF IInv, MovesInv, TxWaits, OutputMoves
  <2> QED BY <2>1, <2>2, Zenon DEF SleepsForACause
<1> QED BY <1>1, DevicesInvariant, PTL

(* Every character that uartputc() took is sent once and in order, whoever    *)
(* runs uartstart().                                                          *)
THEOREM OutputCorrect == Spec => []OutputInOrder
<1>1. IInv => OutputInOrder
  BY DEF IInv, TxInv
<1> QED BY <1>1, DevicesInvariant, PTL

(* sys_sleep() sleeps for n ticks at least, also when ticks wraps.            *)
THEOREM ClockCorrect == Spec => SleepsLongEnough
<1>1. IInv /\ [Next]_vars => [SleptEnough]_vars
  BY NextSlept, Zenon
<1> QED BY <1>1, DevicesInvariant, PTL DEF Spec, SleepsLongEnough, SleptEnough

(* The ring with its wrapping indices implements a line that is edited and a  *)
(* queue of what was entered: consoleintr() and consoleread() only take steps *)
(* of Terminal.                                                               *)
THEOREM TerminalCorrect == Spec => IsTerminal
<1>1. Init => Term!Init
  BY InitInv
<1>2. IInv /\ [Next]_vars => [Term!Next]_<<Line, Queue>>
  BY NextTerm DEF TermStep
<1> QED BY <1>1, <1>2, DevicesInvariant, PTL DEF Spec, IsTerminal, Term!Spec

==============================================================================
