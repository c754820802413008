------------------------------- MODULE Terminal -------------------------------
(* What the console promises of its input: a line that is edited, and a queue *)
(* of the characters that were entered, of at most Size characters together.  *)
EXTENDS Naturals, Sequences

CONSTANTS Size, Chars

VARIABLES line, queue

Ends(c) == c \in {"nl", "^D"}

Init == line = <<>> /\ queue = <<>>

(* A character is appended; the end of a line, or a full buffer, enters it. *)
type(c) ==
  /\ Len(queue) + Len(line) < Size
  /\ IF Ends(c) \/ Len(queue) + Len(line) + 1 = Size
     THEN queue' = queue \o Append(line, c) /\ line' = <<>>
     ELSE line' = Append(line, c) /\ UNCHANGED queue

erase == line # <<>> /\ line' = SubSeq(line, 1, Len(line) - 1) /\ UNCHANGED queue
kill_line == line' = <<>> /\ UNCHANGED queue
take == queue # <<>> /\ queue' = Tail(queue) /\ UNCHANGED line

Next == (\E c \in Chars : type(c)) \/ erase \/ kill_line \/ take

Spec == Init /\ [][Next]_<<line, queue>>
==============================================================================
