------------------------------- MODULE MCShell --------------------------------
(* Every line of up to four characters is parsed, and of five without "<";   *)
(* every one of up to three with a word is run, and longer ones with all     *)
(* programs: twice in a row, with few slots, files, descriptors or pages.    *)
EXTENDS Shell, TLC

Case(line, times, nproc, nfile, nofile, npipe) ==
  [line |-> line, times |-> times, nproc |-> nproc, nfile |-> nfile, nofile |-> nofile, npipe |-> npipe]
Typed == symbols \cup {Blank, "cat"}
Short(n) == UNION {[1..k -> Typed] : k \in 0..n}

pipe2 == <<"gen", "|", "cat">>
pipe3 == <<"gen", "|", "cat", "|", "cat">>
early == <<"gen", "|", "nop">>
group == <<"(", "gen", ";", "none", "<", "cat", ")", "|", "cat", ">", ">", "cat">>
job == <<"gen", "|", "cat", "&", ";", "nop">>
Long == {pipe2, pipe3, early, group, job, <<"(", "(", "cat", ")", ")", ">", "cat", "<", "cat">>,
         <<"cat", ";", "cat", ";", "cat">>, <<"cat", "nop", " ", "cat", ";">>, <<"cat", " ", "cat", " ", "cat", ";">>, <<"cat", "|", "(", "nop", "&", ")">>}

MCCases == {Case(s, 0, 7, 5, 5, 2) : s \in Short(4) \cup [1..5 -> Typed \ {"<"}]}
  \cup {Case(s, 1, 7, 5, 5, 2) : s \in Short(2) \cup {s \in Short(3) : Count(s, "cat") > 0} \cup Long}
  \cup {Case(<<"nop", "&">>, 2, 7, 5, 5, 2), Case(pipe2, 2, 7, 5, 5, 2)}
  \cup {Case(s, 1, n, 5, 5, 2) : s \in {pipe2, pipe3, job}, n \in 4..6}
  \cup {Case(s, 1, 7, n, 5, 2) : s \in {pipe3, group}, n \in 1..4}
  \cup {Case(s, 1, 7, 5, n, 2) : s \in {pipe2}, n \in 3..4}
  \cup {Case(s, 1, 7, 5, 5, n) : s \in {pipe2, pipe3}, n \in 0..1}
==============================================================================
