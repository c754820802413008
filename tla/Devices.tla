------------------------------- MODULE Devices --------------------------------
(***************************************************************************)
(* The console (kernel/console.c), the UART driver (kernel/uart.c) and the *)
(* clock (clockintr() of kernel/trap.c, sys_sleep() of kernel/sysproc.c).  *)
(*                                                                         *)
(* Processes read lines, write characters and sleep; the UART's interrupt  *)
(* handler (one at a time: the PLIC waits for plic_complete()) edits the   *)
(* line that is typed and sends what is buffered; the clock ticks.  A step *)
(* is a pass of a loop under a lock.  sleep() and wakeup() are atomic, as  *)
(* Sleeplock shows of them; kill() takes none of these locks.              *)
(***************************************************************************)
EXTENDS Integers, Sequences

CONSTANTS Procs, Intr, None,
          INPUT_BUF_SIZE, UART_TX_BUF_SIZE,
          RX,         \* characters that the UART keeps until they are read
          UINT,       \* one more than the largest uint
          Keys,       \* what is typed
          Calls,      \* of each process: [call, n], made in any order
          Bounds,     \* how many keys and calls of each kind a behaviour has at most
          MaxTicks    \* the longest sleep

ASSUME RingFits ==
  /\ INPUT_BUF_SIZE \in Nat \ {0} /\ UART_TX_BUF_SIZE \in Nat \ {0}
  /\ UINT \in Nat /\ UINT % INPUT_BUF_SIZE = 0 /\ UINT > INPUT_BUF_SIZE

(* No process sleeps for so long that ticks comes round before it looks.      *)
ASSUME CallsAssumption ==
  /\ MaxTicks \in 0..(UINT - 1)
  /\ Intr # None /\ Procs \cap {Intr, None} = {}
  /\ None \notin Nat /\ None \notin {"read", "write", "sleep"}
  /\ \A p \in Procs : Calls[p] \subseteq [call : {"read", "write", "sleep"}, n : Nat \ {0}]

VARIABLES
  cons,               \* buf, r, w, e
  tx, tx_r, tx_w,     \* uart_tx_buf and its indices
  lock,               \* cons.lock, uart_tx_lock, tickslock: the holder
  rx, fifo, thre,     \* the UART: input, characters being sent, "THR is empty" interrupt
  intr, echo,         \* where uartintr() is, what it has to echo
  ticks,
  pr, killed,         \* the processes: at, call, n, target, ticks0, slept
  left,               \* of the bounds that this behaviour has
  put, sent           \* the characters of uartputc(), in the order of the calls; of uartstart()

input == <<cons, rx, echo>>
output == <<tx, tx_r, tx_w, fifo, thre, put, sent>>
vars == <<input, output, ticks, lock, intr, pr, killed, left>>

Idle == [at |-> "user", call |-> None, n |-> 0, target |-> 0, ticks0 |-> None, slept |-> 0]

(* The machine has run for long: the indices and the clock are about to wrap. *)
Init ==
  /\ cons = [buf |-> [i \in 0..(INPUT_BUF_SIZE - 1) |-> None], r |-> UINT - 1, w |-> UINT - 1, e |-> UINT - 1]
  /\ tx = [i \in 0..(UART_TX_BUF_SIZE - 1) |-> None] /\ tx_r = 0 /\ tx_w = 0
  /\ lock = [l \in {"cons", "tx", "ticks"} |-> None]
  /\ rx = <<>> /\ fifo = 0 /\ thre = FALSE
  /\ intr = "idle" /\ echo = 0
  /\ ticks = UINT - 1
  /\ pr = [p \in Procs |-> Idle] /\ killed = {}
  /\ left \in Bounds
  /\ put = <<>> /\ sent = <<>>

Free(l, a) == lock[l] \in {None, a}
Holds(l, a) == lock' = [lock EXCEPT ![l] = a]
Runs(p, c) == pr[p].at = "run" /\ pr[p].call = c
Go(p, at) == pr' = [pr EXCEPT ![p].at = at]
Return(p) == pr' = [pr EXCEPT ![p] = Idle]

(* A process that was killed exits on its way back to user mode. *)
call(p, k) ==
  /\ pr[p].at = "user" /\ p \notin killed /\ left[k.call] > 0
  /\ left' = [left EXCEPT ![k.call] = @ - 1]
  /\ pr' = [pr EXCEPT ![p] = [Idle EXCEPT !.at = "run", !.call = k.call, !.n = k.n, !.target = k.n]]
  /\ UNCHANGED <<input, output, ticks, lock, intr, killed>>

(* wakeup(): the call that sleeps tells the channel. *)
wakeup_bug(P, c) ==
  LET A == {p \in Procs : P[p].at = "asleep" /\ P[p].call = c} IN
  IF A = {} THEN P ELSE [P EXCEPT ![CHOOSE p \in A : TRUE].at = "run"]
wakeup(P, c) == [p \in Procs |-> IF P[p].at = "asleep" /\ P[p].call = c
                                 THEN [P[p] EXCEPT !.at = "run"] ELSE P[p]]

(* kill(): a process that is not asleep goes on as if nothing had happened. *)
kill(p) ==
  /\ p \notin killed /\ pr[p].at # "user"
  /\ killed' = killed \cup {p}
  /\ pr' = IF pr[p].at = "asleep" THEN [pr EXCEPT ![p].at = "run"] ELSE pr
  /\ UNCHANGED <<input, output, ticks, lock, intr, left>>

(* sleep(): marks the process and releases the lock. *)
LockOf(c) == CASE c = "read" -> "cons" [] c = "write" -> "tx" [] c = "sleep" -> "ticks"
sleep(p) ==
  /\ pr[p].at = "sleep"
  /\ Go(p, "asleep") /\ Holds(LockOf(pr[p].call), None)
  /\ UNCHANGED <<input, output, ticks, intr, killed, left>>

------------------------------------------------------------------------------
(* consoleread(): a pass of its loop, with cons.lock; n > 0. *)
Minus(a, b) == (a - b + UINT) % UINT
slot(i) == i % INPUT_BUF_SIZE

(* Characters that were read or erased are forgotten, to have fewer states. *)
Forget(N) == [N EXCEPT !.buf = [i \in DOMAIN N.buf |->
                IF \E k \in 0..(Minus(N.e, N.r) - 1) : slot(N.r + k) = i THEN N.buf[i] ELSE None]]

(* After ^D: it is kept for the next read if this one has something. *)
after_eof(p) == IF pr[p].n < pr[p].target THEN cons.r ELSE (cons.r + 1) % UINT

read_char(p, c, copied) ==
  /\ cons' = Forget([cons EXCEPT !.r = IF c = "^D" THEN after_eof(p) ELSE (@ + 1) % UINT])
  /\ IF c \in {"^D", "nl"} \/ ~copied \/ pr[p].n = 1
     THEN Return(p) /\ Holds("cons", None)
     ELSE pr' = [pr EXCEPT ![p].n = @ - 1] /\ Holds("cons", p)

consoleread(p) ==
  /\ Runs(p, "read") /\ Free("cons", p)
  /\ \/ /\ cons.r = cons.w
        /\ IF p \in killed THEN Return(p) /\ Holds("cons", None)
                            ELSE Go(p, "sleep") /\ Holds("cons", p)
        /\ UNCHANGED cons
     \/ cons.r # cons.w /\ \E copied \in BOOLEAN : read_char(p, cons.buf[slot(cons.r)], copied)
  /\ UNCHANGED <<rx, echo, output, ticks, intr, killed, left>>

(* consoleintr() up to the release of cons.lock, which comes after the echo.  *)
(* The three characters that erase one are echoed as one; ^P, which lists the *)
(* processes, is left out.                                                    *)
erased_bug == Minus(cons.e, 1)
erased == IF cons.e # cons.w THEN Minus(cons.e, 1) ELSE cons.e

(* ^U erases k characters: to the end of the line before, or to a newline.    *)
line_start(k) == Minus(cons.e, k) = cons.w \/ cons.buf[slot(Minus(cons.e, k + 1))] = "nl"
killed_line == Minus(cons.e, CHOOSE k \in 0..INPUT_BUF_SIZE :
                               line_start(k) /\ \A j \in 0..(k - 1) : ~line_start(j))

entered(c) ==
  LET e == (cons.e + 1) % UINT
      ends == c \in {"nl", "^D"} \/ Minus(e, cons.r) = INPUT_BUF_SIZE
  IN  [cons EXCEPT !.buf[slot(cons.e)] = c, !.e = e, !.w = IF ends THEN e ELSE @]

edited(c) == CASE c = "^H" -> [cons EXCEPT !.e = erased]
               [] c = "^U" -> [cons EXCEPT !.e = killed_line]
               [] OTHER -> IF Minus(cons.e, cons.r) < INPUT_BUF_SIZE THEN entered(c) ELSE cons

consoleintr ==
  /\ intr = "getc" /\ rx # <<>> /\ Free("cons", None)
  /\ \E N \in {Forget(edited(Head(rx)))} :
       /\ cons' = N
       /\ echo' = IF Head(rx) \in {"^H", "^U"} THEN Minus(cons.e, N.e) ELSE Minus(N.e, cons.e)
       /\ pr' = IF N.w # cons.w THEN wakeup(pr, "read") ELSE pr
  /\ rx' = Tail(rx)
  /\ Holds("cons", Intr) /\ intr' = "echo"
  /\ UNCHANGED <<output, ticks, killed, left>>

(* consputc(): uartputc_sync() waits for THR to be empty, without             *)
(* uart_tx_lock: uartstart() may write THR before it does.                    *)
consputc ==
  /\ intr = "echo"
  /\ \/ echo > 0 /\ fifo = 0 /\ intr' = "echothr" /\ UNCHANGED lock
     \/ echo = 0 /\ Holds("cons", None) /\ intr' = "getc"
  /\ UNCHANGED <<input, output, ticks, pr, killed, left>>

uartputc_sync ==
  /\ intr = "echothr"
  /\ fifo' = fifo + 1 /\ thre' = FALSE /\ echo' = echo - 1
  /\ intr' = "echo"
  /\ UNCHANGED <<cons, rx, tx, tx_r, tx_w, put, sent, ticks, lock, pr, killed, left>>

------------------------------------------------------------------------------
(* uartputc(): with uart_tx_lock, sleeps while the buffer is full. *)
full_bug == tx_w = tx_r + UART_TX_BUF_SIZE + 1
full == tx_w = tx_r + UART_TX_BUF_SIZE

uartputc(p) ==
  /\ Runs(p, "write") /\ Free("tx", None)
  /\ Holds("tx", p)
  /\ IF full THEN Go(p, "sleep") /\ UNCHANGED <<tx, tx_w, put>>
     ELSE /\ tx' = [tx EXCEPT ![tx_w % UART_TX_BUF_SIZE] = <<p, pr[p].n>>]
          /\ tx_w' = tx_w + 1
          /\ put' = Append(put, <<p, pr[p].n>>)
          /\ Go(p, "start")
  /\ UNCHANGED <<input, tx_r, fifo, thre, sent, ticks, intr, killed, left>>

(* consolewrite() stops when a character cannot be copied in. *)
consolewrite_fails(p) ==
  /\ Runs(p, "write") /\ lock["tx"] # p
  /\ Return(p)
  /\ UNCHANGED <<input, output, ticks, lock, intr, killed, left>>

(* uartstart(), of a process or of uartintr(): a pass of the loop up to the   *)
(* write of THR; then the write.  To read ISR clears the interrupt for THR,   *)
(* unless input is waiting, which is then what is read.                       *)
AtStart(a) == IF a = Intr THEN intr = "start" ELSE pr[a].at = "start"
AtThr(a) == IF a = Intr THEN intr = "thr" ELSE pr[a].at = "thr"
Moves(a, P, at) ==
  IF a = Intr THEN intr' = at /\ pr' = P
  ELSE intr' = intr /\ pr' = [P EXCEPT ![a].at = at]

(* After uartstart(), uart_tx_lock is released. *)
started(a) ==
  /\ Holds("tx", None)
  /\ IF a = Intr THEN intr' = "idle" /\ pr' = pr
     ELSE /\ intr' = intr
          /\ pr' = [pr EXCEPT ![a] = IF @.n = 1 THEN Idle ELSE [pr[a] EXCEPT !.at = "run", !.n = pr[a].n - 1]]

uartstart(a) ==
  /\ AtStart(a) /\ Free("tx", a)
  /\ \/ /\ tx_w = tx_r
        /\ thre' = (thre /\ rx # <<>>)
        /\ started(a) /\ UNCHANGED <<tx_r, sent>>
     \/ /\ tx_w # tx_r /\ fifo # 0
        /\ started(a) /\ UNCHANGED <<thre, tx_r, sent>>
     \/ /\ tx_w # tx_r /\ fifo = 0
        /\ sent' = Append(sent, tx[tx_r % UART_TX_BUF_SIZE])
        /\ tx_r' = tx_r + 1
        /\ Moves(a, wakeup(pr, "write"), "thr")
        /\ Holds("tx", a) /\ UNCHANGED thre
  /\ UNCHANGED <<input, tx, tx_w, fifo, put, ticks, killed, left>>

uartstart_thr(a) ==
  /\ AtThr(a)
  /\ fifo' = fifo + 1 /\ thre' = FALSE
  /\ Moves(a, pr, "start")
  /\ UNCHANGED <<input, tx, tx_r, tx_w, put, sent, ticks, lock, killed, left>>

(* uartintr(). *)
uartintr ==
  /\ \/ intr = "idle" /\ (rx # <<>> \/ thre) /\ intr' = "getc"
     \/ intr = "getc" /\ rx = <<>> /\ intr' = "start"
  /\ UNCHANGED <<input, output, ticks, lock, pr, killed, left>>

(* The UART: a key is a character is sent. *)
key(c) ==
  /\ left["key"] > 0 /\ Len(rx) < RX
  /\ left' = [left EXCEPT !["key"] = @ - 1]
  /\ rx' = Append(rx, c)
  /\ UNCHANGED <<cons, echo, output, ticks, lock, intr, pr, killed>>

transmit ==
  /\ fifo > 0
  /\ fifo' = fifo - 1
  /\ thre' = (fifo = 1)
  /\ UNCHANGED <<input, tx, tx_r, tx_w, put, sent, ticks, lock, intr, pr, killed, left>>

------------------------------------------------------------------------------
(* clockintr() on CPU 0; it is the only writer of ticks.  No process is left  *)
(* alone with its lock for so long that ticks comes round.                    *)
Sleeping(p) == pr[p].call = "sleep" /\ pr[p].ticks0 # None

clockintr ==
  /\ Free("ticks", None)
  /\ \E p \in Procs : Sleeping(p)
  /\ \A p \in Procs : pr[p].slept < MaxTicks
  /\ ticks' = (ticks + 1) % UINT
  /\ pr' = wakeup([p \in Procs |-> IF Sleeping(p) THEN [pr[p] EXCEPT !.slept = @ + 1] ELSE pr[p]], "sleep")
  /\ UNCHANGED <<input, output, lock, intr, killed, left>>

(* sys_sleep(): a test of its loop. *)
elapsed_bug(t0) == IF ticks < t0 THEN UINT ELSE ticks - t0
elapsed(t0) == Minus(ticks, t0)

sys_sleep(p) ==
  LET t0 == IF pr[p].ticks0 = None THEN ticks ELSE pr[p].ticks0 IN
  /\ Runs(p, "sleep") /\ Free("ticks", None)
  /\ IF elapsed(t0) >= pr[p].n \/ p \in killed THEN Return(p) /\ UNCHANGED lock
     ELSE pr' = [pr EXCEPT ![p].at = "sleep", ![p].ticks0 = t0] /\ Holds("ticks", p)
  /\ UNCHANGED <<input, output, ticks, intr, killed, left>>

------------------------------------------------------------------------------
Next ==
  \/ \E p \in Procs :
       \/ sleep(p) \/ consoleread(p) \/ uartputc(p) \/ consolewrite_fails(p) \/ sys_sleep(p)
       \/ kill(p) \/ \E k \in Calls[p] : call(p, k)
  \/ \E a \in Procs \cup {Intr} : uartstart(a) \/ uartstart_thr(a)
  \/ consoleintr \/ consputc \/ uartputc_sync \/ uartintr \/ clockintr
  \/ transmit \/ \E c \in Keys : key(c)

Spec == Init /\ [][Next]_vars

------------------------------------------------------------------------------
(* The ring with its three wrapping indices is a line that is edited and a    *)
(* queue of characters entered: erasing never reaches a line that was entered *)
(* or read, nothing is overwritten, and a read of ^D gives nothing twice.     *)
Ring(from, to) == [i \in 1..Minus(to, from) |-> cons.buf[slot(from + i - 1)]]
Line == Ring(cons.w, cons.e)
Queue == Ring(cons.r, cons.w)
Term == INSTANCE Terminal WITH Size <- INPUT_BUF_SIZE, Chars <- Keys, line <- Line, queue <- Queue
IsTerminal == Term!Spec

(* A process is asleep only while there is nothing to read, no room to write, *)
(* or not enough ticks: no wakeup is missed, with several sleepers either.    *)
(* And what is buffered goes out: something is being sent, the interrupt for  *)
(* an empty THR is pending, or the handler is on its way to uartstart(); the  *)
(* echo, uartputc() and the handler never clear that interrupt between them.  *)
OutputMoves == (tx_w # tx_r /\ lock["tx"] = None) => (fifo > 0 \/ thre \/ intr # "idle")
SleepsForACause ==
  /\ \A p \in Procs : pr[p].at = "asleep" =>
       CASE pr[p].call = "read" -> cons.r = cons.w
         [] pr[p].call = "write" -> full
         [] pr[p].call = "sleep" -> pr[p].slept < pr[p].n
  /\ OutputMoves

(* sys_sleep() returns after n ticks and not before, unless it is killed,     *)
(* across the wrap-around of ticks.                                           *)
SleepsLongEnough ==
  [][\A p \in Procs : (Runs(p, "sleep") /\ pr'[p].at = "user" /\ p \notin killed)
       => pr[p].slept >= pr[p].n]_vars

(* Every character that uartputc() took is sent once, in order, although      *)
(* processes and the interrupt handler both start the UART.                   *)
OutputInOrder == put = sent \o [i \in 1..(tx_w - tx_r) |-> tx[(tx_r + i - 1) % UART_TX_BUF_SIZE]]
==============================================================================
