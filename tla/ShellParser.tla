----------------------------- MODULE ShellParser ------------------------------
(***************************************************************************)
(* The parser of user/sh.c.  A line is a sequence of characters: blanks,   *)
(* symbols and letters; a word is told from others by its first letter.    *)
(* A parsing operator returns the command and the tokens that are left;    *)
(* panic() ends the process that parses, here with the command Syntax.     *)
(***************************************************************************)
EXTENDS Integers, Sequences

CONSTANTS Words,       \* letters, and the words that begin with them
          MAXARGS

Blank == " "
symbols == {"<", "|", ">", "&", ";", "(", ")"}
Redirs == {"<", ">", ">>"}
Chars == symbols \cup Words \cup {Blank}

(* gettoken() from the start of a line to its end: blanks are skipped, ">>"  *)
(* is one token, a word goes on to the next blank or symbol.                 *)
RECURSIVE gettoken(_), skipword(_)
skipword(s) == IF s # <<>> /\ Head(s) \notin symbols \cup {Blank} THEN skipword(Tail(s)) ELSE s
gettoken(s) ==
  IF s = <<>> THEN <<>>
  ELSE IF Head(s) = Blank THEN gettoken(Tail(s))
  ELSE IF Head(s) = ">" /\ Len(s) > 1 /\ s[2] = ">" THEN <<">>">> \o gettoken(Tail(Tail(s)))
  ELSE IF Head(s) \in symbols THEN <<Head(s)>> \o gettoken(Tail(s))
  ELSE <<Head(s)>> \o gettoken(skipword(s))

execcmd(argv) == [type |-> "EXEC", argv |-> argv]
redircmd(cmd, tok) == [type |-> "REDIR", cmd |-> cmd, fd |-> IF tok = "<" THEN 0 ELSE 1]
pipecmd(left, right) == [type |-> "PIPE", left |-> left, right |-> right]
listcmd(left, right) == [type |-> "LIST", left |-> left, right |-> right]
backcmd(cmd) == [type |-> "BACK", cmd |-> cmd]
Syntax == [type |-> "syntax"]

Parsed(c, s) == [c |-> c, s |-> s, ok |-> TRUE]
panic == [c |-> Syntax, s |-> <<>>, ok |-> FALSE]
peek(s, toks) == s # <<>> /\ Head(s) \in toks
Bad(R) == ~R.ok

RECURSIVE parseline(_), parsepipe(_), parseredirs(_, _), parseblock(_), parseexec(_), parseargs(_, _, _)

parseredirs(redirs, s) ==
  IF ~peek(s, Redirs) THEN Parsed(redirs, s)
  ELSE IF ~peek(Tail(s), Words) THEN panic         \* missing file
  ELSE parseredirs(Append(redirs, Head(s)), Tail(Tail(s)))

(* The redirections around a command, the first innermost. *)
RECURSIVE redirected(_, _)
redirected(cmd, redirs) ==
  IF redirs = <<>> THEN cmd ELSE redirected(redircmd(cmd, Head(redirs)), Tail(redirs))

parseargs(argv, redirs, s) ==
  IF s = <<>> \/ peek(s, {"|", ")", "&", ";"}) THEN Parsed(redirected(execcmd(argv), redirs), s)
  ELSE IF ~peek(s, Words) \/ Len(argv) + 1 >= MAXARGS THEN panic
  ELSE LET R == parseredirs(redirs, Tail(s)) IN
       IF Bad(R) THEN R ELSE parseargs(Append(argv, Head(s)), R.c, R.s)

parseblock(s) ==
  LET R == parseline(Tail(s)) IN
  IF Bad(R) \/ ~peek(R.s, {")"}) THEN panic
  ELSE LET Q == parseredirs(<<>>, Tail(R.s)) IN
       IF Bad(Q) THEN Q ELSE Parsed(redirected(R.c, Q.c), Q.s)

parseexec(s) ==
  IF peek(s, {"("}) THEN parseblock(s)
  ELSE LET R == parseredirs(<<>>, s) IN IF Bad(R) THEN R ELSE parseargs(<<>>, R.c, R.s)

parsepipe(s) ==
  LET R == parseexec(s) IN
  IF Bad(R) \/ ~peek(R.s, {"|"}) THEN R
  ELSE LET Q == parsepipe(Tail(R.s)) IN
       IF Bad(Q) THEN Q ELSE Parsed(pipecmd(R.c, Q.c), Q.s)

RECURSIVE parseback(_)
parseback(R) == IF ~Bad(R) /\ peek(R.s, {"&"}) THEN parseback(Parsed(backcmd(R.c), Tail(R.s))) ELSE R

listed_bug(R, Q) == Parsed(IF Q.c.type = "LIST" THEN listcmd(listcmd(R.c, Q.c.left), Q.c.right)
                                               ELSE listcmd(R.c, Q.c), Q.s)
listed(R, Q) == Parsed(listcmd(R.c, Q.c), Q.s)

parseline(s) ==
  LET R == parseback(parsepipe(s)) IN
  IF Bad(R) \/ ~peek(R.s, {";"}) THEN R
  ELSE LET Q == parseline(Tail(R.s)) IN IF Bad(Q) THEN Q ELSE listed(R, Q)

parsecmd(s) == LET R == parseline(gettoken(s)) IN IF R.s # <<>> THEN Syntax ELSE R.c

------------------------------------------------------------------------------
(* Where tokens begin, and the tokens of a line. *)
Arrows(s, i) == Len(SelectSeq([k \in 1..i - 1 |-> \A j \in k..i - 1 : s[j] = ">"], LAMBDA b : b))
Begins(s, i) == /\ s[i] # Blank
                /\ s[i] \in Words /\ i > 1 => s[i - 1] \notin Words
                /\ s[i] = ">" => Arrows(s, i) % 2 = 0
TokenAt(s, i) == IF s[i] = ">" /\ i < Len(s) /\ s[i + 1] = ">" THEN ">>" ELSE s[i]
RECURSIVE Concat(_)
Concat(ss) == IF ss = <<>> THEN <<>> ELSE Head(ss) \o Concat(Tail(ss))
TokensOf(s) == Concat([i \in 1..Len(s) |-> IF Begins(s, i) THEN <<TokenAt(s, i)>> ELSE <<>>])

(* What tokens mean, by where the operators are: outside of parentheses, ";" *)
(* binds least, then a final "&", then "|"; the first one splits the line.    *)
Count(s, t) == Len(SelectSeq(s, LAMBDA x : x = t))
Outside(s, i) == LET p == SubSeq(s, 1, i - 1) IN Count(p, "(") = Count(p, ")")
Splits(s, t) == {i \in 1..Len(s) : s[i] = t /\ Outside(s, i)}
First(S) == CHOOSE i \in S : \A j \in S : i <= j
Before(s, i) == SubSeq(s, 1, i - 1)
After(s, i) == SubSeq(s, i + 1, Len(s))
Both(c, d, both) == IF Syntax \in {c, d} THEN Syntax ELSE both

(* Words and redirections of a simple command: each symbol with its file. *)
Files(s) == {i \in 1..Len(s) : i > 1 /\ s[i - 1] \in Redirs}
Plain(s) == /\ \A i \in 1..Len(s) : s[i] \in Words \cup Redirs
            /\ \A i \in 1..Len(s) : s[i] \in Redirs => i < Len(s) /\ s[i + 1] \in Words
Argv(s) == LET idx == {i \in 1..Len(s) : s[i] \in Words} \ Files(s) IN
           [k \in 1..Len(s) |-> IF k \in idx THEN <<s[k]>> ELSE <<>>]

Simple(s) ==
  IF ~Plain(s) \/ Len(Concat(Argv(s))) >= MAXARGS THEN Syntax
  ELSE redirected(execcmd(Concat(Argv(s))), SelectSeq(s, LAMBDA x : x \in Redirs))

RECURSIVE Line(_), Back(_), Pipe(_), Command(_)
Line(s) == IF Splits(s, ";") = {} THEN Back(s)
           ELSE LET i == First(Splits(s, ";"))  l == Back(Before(s, i))  r == Line(After(s, i)) IN
                Both(l, r, listcmd(l, r))
Back(s) == IF s # <<>> /\ s[Len(s)] = "&" /\ Outside(s, Len(s))
           THEN LET c == Back(Before(s, Len(s))) IN Both(c, c, backcmd(c)) ELSE Pipe(s)
Pipe(s) == IF Splits(s, "|") = {} THEN Command(s)
           ELSE LET i == First(Splits(s, "|"))  l == Command(Before(s, i))  r == Pipe(After(s, i)) IN
                Both(l, r, pipecmd(l, r))
Command(s) ==
  IF s = <<>> \/ s[1] # "(" THEN Simple(s)
  ELSE LET ends == {i \in 2..Len(s) : s[i] = ")" /\ Outside(s, i + 1)} IN
       IF ends = {} THEN Syntax
       ELSE LET i == First(ends)  rest == After(s, i)  c == Line(SubSeq(s, 2, i - 1)) IN
            IF ~Plain(rest) \/ Len(Concat(Argv(rest))) > 0 THEN Syntax
            ELSE Both(c, c, redirected(c, SelectSeq(rest, LAMBDA x : x \in Redirs)))
==============================================================================
