-------------------------------- MODULE Shell ---------------------------------
(***************************************************************************)
(* user/sh.c running command lines over the kernel's descriptors: the fd   *)
(* tables of the processes (kernel/sysfile.c), the open-file table         *)
(* (kernel/file.c), and, as far as descriptors see them, pipes and         *)
(* fork/exit/wait.  runcmd() compiles a command to the system calls it     *)
(* makes; a process executes its calls one by one, those of different      *)
(* processes interleaved.                                                  *)
(*                                                                         *)
(* Abstractions: a pipe carries a number of unread items; reading a file   *)
(* or the console finds its end at once; programs are "gen" (writes ITEMS  *)
(* items), "cat" (copies its input) and "nop" (exits), any other name does *)
(* not exist; paths can be opened unless files or descriptors run out.     *)
(***************************************************************************)
EXTENDS ShellParser, FiniteSets

CONSTANTS Procs,       \* process slots: 1 is init, 2 the shell
          NOFILE,      \* descriptors of a process
          FileSlots,      \* slots of ftable
          Pipes,       \* pages a pipe may be allocated in
          ITEMS,       \* items "gen" writes
          PIPESIZE,
          Cases        \* what is typed, how often, and how much the kernel has left

VARIABLES proc,        \* slot -> [st, parent, code, ofile, p, bg]
          ftable,      \* file -> [ref, type, pipe, readable, writable]
          pipe,        \* page -> [n, readopen, writeopen], neither open: free
          setting,     \* the element of Cases of this behaviour
          typed,       \* lines typed so far
          starved      \* some fork() has failed

vars == <<proc, ftable, pipe, setting, typed, starved>>

Fds == 0..NOFILE - 1
init == 1
shell == 2
NoFile == [ref |-> 0, type |-> "none", pipe |-> 0, readable |-> FALSE, writable |-> FALSE]
NoPipe == [n |-> 0, readopen |-> FALSE, writeopen |-> FALSE]
Unused == [st |-> "unused", parent |-> 0, code |-> <<>>, ofile |-> [fd \in Fds |-> 0],
           p |-> <<0, 0>>, bg |-> FALSE]
Least(S) == CHOOSE x \in S : \A y \in S : x <= y

------------------------------------------------------------------------------
(* runcmd() as the system calls it makes. *)
Call(op, arg) == [op |-> op, arg |-> arg]
exit == <<Call("exit", 0)>>
p0 == NOFILE           \* for the descriptors in p[0] and p[1]
p1 == NOFILE + 1

(* A process between two commands of a pipe: what each does with p[0], p[1]. *)
pipe_left == <<Call("close", 1), Call("dup", p1), Call("close", p0), Call("close", p1)>>
pipe_right_bug == <<Call("close", 0), Call("dup", p0), Call("close", p0)>>
pipe_right == <<Call("close", 0), Call("dup", p0), Call("close", p0), Call("close", p1)>>
pipe_parent_bug == <<Call("close", p0), Call("wait", 0), Call("wait", 0)>>
pipe_parent == <<Call("close", p0), Call("close", p1), Call("wait", 0), Call("wait", 0)>>
list_parent_bug == <<>>
list_parent == <<Call("wait", 0)>>

RECURSIVE runcmd(_)
runcmd(cmd) ==
  CASE cmd.type = "EXEC" -> (IF cmd.argv = <<>> THEN <<>> ELSE <<Call("exec", cmd.argv[1])>>) \o exit
    [] cmd.type = "REDIR" -> <<Call("close", cmd.fd), Call("open", cmd.fd)>> \o runcmd(cmd.cmd)
    [] cmd.type = "LIST" -> <<Call("fork", runcmd(cmd.left))>> \o list_parent \o runcmd(cmd.right)
    [] cmd.type = "PIPE" -> <<Call("pipe", 0),
                              Call("fork", pipe_left \o runcmd(cmd.left)),
                              Call("fork", pipe_right \o runcmd(cmd.right))>> \o pipe_parent \o exit
    [] cmd.type = "BACK" -> <<Call("back", runcmd(cmd.cmd))>> \o exit
    [] cmd.type = "syntax" -> exit

(* One turn of main()'s loop, once getcmd() has the line. *)
turn(cmd) == <<Call("fork", runcmd(cmd)), Call("wait", 0), Call("getcmd", 0)>>

------------------------------------------------------------------------------
call(i) == IF proc[i].st = "run" /\ proc[i].code # <<>> THEN Head(proc[i].code).op ELSE "none"
Arg(i) == Head(proc[i].code).arg
later(i) == Tail(proc[i].code)
Rest == <<setting, typed, starved>>

(* argfd(): p[0] and p[1] name the descriptors pipe() returned. *)
argfd(i, x) == IF x = p0 THEN proc[i].p[1] ELSE IF x = p1 THEN proc[i].p[2] ELSE x
freefds(i) == {fd \in Fds : fd < setting.nofile /\ proc[i].ofile[fd] = 0}
filealloc == {f \in FileSlots : f <= setting.nfile /\ ftable[f].ref = 0}

(* The open-file table without one reference to f, and what fileclose() does *)
(* after it has let go of ftable.lock, with its own copy of the file.        *)
unref(f) == IF ftable[f].ref > 1 THEN [ftable EXCEPT ![f].ref = @ - 1]
                                 ELSE [ftable EXCEPT ![f] = NoFile]
closing(f) == IF ftable[f].ref = 1 /\ ftable[f].type = "pipe"
              THEN <<Call("pipeclose", ftable[f])>> ELSE <<>>

getcmd(i) ==
  /\ call(i) = "getcmd"
  /\ typed < setting.times
  /\ typed' = typed + 1
  /\ \E cmd \in {parsecmd(setting.line)} : proc' = [proc EXCEPT ![i].code = turn(cmd)]
  /\ UNCHANGED <<ftable, pipe, setting, starved>>

sys_close(i) ==
  /\ call(i) = "close"
  /\ LET fd == argfd(i, Arg(i))  f == proc[i].ofile[fd] IN
     IF f = 0 THEN /\ proc' = [proc EXCEPT ![i].code = later(i)]
                   /\ UNCHANGED ftable
     ELSE /\ ftable' = unref(f)
          /\ proc' = [proc EXCEPT ![i].ofile[fd] = 0, ![i].code = closing(f) \o later(i)]
  /\ UNCHANGED <<pipe, Rest>>

(* fileclose() of a file that has no descriptor (yet). *)
fileclose(i) ==
  /\ call(i) = "fileclose"
  /\ ftable' = unref(Arg(i))
  /\ proc' = [proc EXCEPT ![i].code = closing(Arg(i)) \o later(i)]
  /\ UNCHANGED <<pipe, Rest>>

(* The end of fileclose(); the page is free once both ends are closed. *)
pipeclose(i) ==
  /\ call(i) = "pipeclose"
  /\ LET ff == Arg(i)
         q == IF ff.writable THEN [pipe[ff.pipe] EXCEPT !.writeopen = FALSE]
                             ELSE [pipe[ff.pipe] EXCEPT !.readopen = FALSE] IN
     pipe' = [pipe EXCEPT ![ff.pipe] = IF q.readopen \/ q.writeopen THEN q ELSE NoPipe]
  /\ proc' = [proc EXCEPT ![i].code = later(i)]
  /\ UNCHANGED <<ftable, Rest>>

sys_dup(i) ==
  /\ call(i) = "dup"
  /\ LET f == proc[i].ofile[argfd(i, Arg(i))] IN
     IF f = 0 \/ freefds(i) = {}
     THEN /\ proc' = [proc EXCEPT ![i].code = later(i)]
          /\ UNCHANGED ftable
     ELSE /\ proc' = [proc EXCEPT ![i].ofile[Least(freefds(i))] = f, ![i].code = later(i)]
          /\ ftable' = [ftable EXCEPT ![f].ref = @ + 1]
  /\ UNCHANGED <<pipe, Rest>>

(* open() of a redirection: runcmd() exits when it fails. *)
sys_open(i) ==
  /\ call(i) = "open"
  /\ IF filealloc = {} \/ freefds(i) = {}
     THEN /\ proc' = [proc EXCEPT ![i].code = exit]
          /\ UNCHANGED ftable
     ELSE /\ ftable' = [ftable EXCEPT ![Least(filealloc)] =
                          [ref |-> 1, type |-> "inode", pipe |-> 0,
                           readable |-> Arg(i) = 0, writable |-> Arg(i) = 1]]
          /\ proc' = [proc EXCEPT ![i].ofile[Least(freefds(i))] = Least(filealloc),
                                  ![i].code = later(i)]
  /\ UNCHANGED <<pipe, Rest>>

(* pipe(): pipealloc() takes one file, then another and a page, each under a *)
(* lock of its own; on failure it gives back what it has and sh panics.      *)
sys_pipe(i) ==
  /\ call(i) = "pipe"
  /\ IF filealloc = {}
     THEN /\ proc' = [proc EXCEPT ![i].code = exit]
          /\ UNCHANGED ftable
     ELSE /\ ftable' = [ftable EXCEPT ![Least(filealloc)].ref = 1]
          /\ proc' = [proc EXCEPT ![i].code = <<Call("pipealloc", Least(filealloc))>> \o later(i)]
  /\ UNCHANGED <<pipe, Rest>>

pages == {k \in Pipes : k <= setting.npipe /\ pipe[k] = NoPipe}
end(k, w) == [ref |-> 1, type |-> "pipe", pipe |-> k, readable |-> ~w, writable |-> w]

pipealloc(i) ==
  /\ call(i) = "pipealloc"
  /\ LET rf == Arg(i)  wf == Least(filealloc)  k == Least(pages)
         fds == freefds(i)  fd0 == Least(fds)  fd1 == Least(fds \ {fd0}) IN
     IF filealloc = {}
     THEN /\ proc' = [proc EXCEPT ![i].code = <<Call("fileclose", rf)>> \o exit]
          /\ UNCHANGED <<ftable, pipe>>
     ELSE IF pages = {}
     THEN /\ ftable' = [ftable EXCEPT ![wf].ref = 1]
          /\ proc' = [proc EXCEPT ![i].code = <<Call("fileclose", rf), Call("fileclose", wf)>> \o exit]
          /\ UNCHANGED pipe
     ELSE /\ ftable' = [ftable EXCEPT ![rf] = end(k, FALSE), ![wf] = end(k, TRUE)]
          /\ pipe' = [pipe EXCEPT ![k] = [n |-> 0, readopen |-> TRUE, writeopen |-> TRUE]]
          /\ IF Cardinality(fds) >= 2
             THEN proc' = [proc EXCEPT ![i].ofile = [@ EXCEPT ![fd0] = rf, ![fd1] = wf],
                                       ![i].p = <<fd0, fd1>>, ![i].code = later(i)]
             ELSE proc' = [proc EXCEPT ![i].code = <<Call("fileclose", rf), Call("fileclose", wf)>> \o exit]
  /\ UNCHANGED Rest

------------------------------------------------------------------------------
(* Processes, as far as descriptors and the shell see them. *)
slots == {j \in Procs : j <= setting.nproc /\ proc[j].st = "unused"}
users(i, f) == Cardinality({fd \in Fds : proc[i].ofile[fd] = f})
dupped_bug(i) == [f \in FileSlots |-> IF users(i, f) = 0 THEN ftable[f] ELSE [ftable[f] EXCEPT !.ref = @ + 1]]
dupped(i) == [f \in FileSlots |-> [ftable[f] EXCEPT !.ref = @ + users(i, f)]]

(* fork1(): the child shares the open files; without a slot sh panics. *)
fork1(i) ==
  /\ call(i) \in {"fork", "back"}
  /\ IF slots = {}
     THEN /\ proc' = [proc EXCEPT ![i].code = exit]
          /\ starved' = TRUE
          /\ UNCHANGED ftable
     ELSE /\ proc' = [proc EXCEPT ![i].code = later(i),
                                  ![Least(slots)] = [proc[i] EXCEPT !.parent = i, !.code = Arg(i),
                                                                    !.bg = @ \/ call(i) = "back"]]
          /\ ftable' = dupped(i)
          /\ UNCHANGED starved
  /\ UNCHANGED <<pipe, setting, typed>>

(* exit() closes every descriptor, gives the children to init and stops. *)
open_fds(i) == {fd \in Fds : proc[i].ofile[fd] # 0}
sys_exit(i) ==
  /\ call(i) = "exit"
  /\ proc' = IF open_fds(i) # {}
             THEN [proc EXCEPT ![i].code = <<Call("close", Least(open_fds(i)))>> \o @]
             ELSE [j \in Procs |-> IF j = i THEN [Unused EXCEPT !.st = "zombie", !.parent = proc[i].parent]
                                  ELSE IF proc[j].parent = i THEN [proc[j] EXCEPT !.parent = init]
                                  ELSE proc[j]]
  /\ UNCHANGED <<ftable, pipe, Rest>>

children(i) == {j \in Procs : proc[j].st # "unused" /\ proc[j].parent = i}
sys_wait(i) ==
  /\ call(i) = "wait"
  /\ IF children(i) = {} THEN proc' = [proc EXCEPT ![i].code = later(i)]
     ELSE \E j \in children(i) :
            /\ proc[j].st = "zombie"
            /\ proc' = [proc EXCEPT ![j] = Unused, ![i].code = later(i)]
  /\ UNCHANGED <<ftable, pipe, Rest>>

(* init's loop: it reaps what it is given. *)
init_wait ==
  \E j \in children(init) :
    /\ proc[j].st = "zombie"
    /\ proc' = [proc EXCEPT ![j] = Unused]
    /\ UNCHANGED <<ftable, pipe, Rest>>

(* exec() keeps the descriptors; when it fails runcmd() falls through to exit. *)
program(w) == CASE w = "gen" -> [k \in 1..ITEMS |-> Call("write", 0)] \o exit
                [] w = "cat" -> <<Call("read", 0)>> \o exit
                [] w = "nop" -> exit
sys_exec(i) ==
  /\ call(i) = "exec"
  /\ proc' = [proc EXCEPT ![i].code = IF Arg(i) \in {"gen", "cat", "nop"}
                                      THEN program(Arg(i)) ELSE later(i)]
  /\ UNCHANGED <<ftable, pipe, Rest>>

(* read(0): sleeps while a pipe is empty and may still be written; what was  *)
(* read is written to 1, the end of the input ends the program.              *)
sys_read(i) ==
  /\ call(i) = "read"
  /\ LET f == ftable[proc[i].ofile[0]]
         more == proc[i].ofile[0] # 0 /\ f.readable /\ f.type = "pipe" IN
     IF more /\ pipe[f.pipe].n > 0
     THEN /\ pipe' = [pipe EXCEPT ![f.pipe].n = @ - 1]
          /\ proc' = [proc EXCEPT ![i].code = <<Call("write", 0)>> \o @]
     ELSE /\ more => ~pipe[f.pipe].writeopen
          /\ proc' = [proc EXCEPT ![i].code = later(i)]
          /\ UNCHANGED pipe
  /\ UNCHANGED <<ftable, Rest>>

(* write(1): sleeps while a pipe is full and may still be read; a failure    *)
(* ends the program.                                                         *)
sys_write(i) ==
  /\ call(i) = "write"
  /\ LET f == ftable[proc[i].ofile[1]] IN
     IF proc[i].ofile[1] = 0 \/ ~f.writable \/ (f.type = "pipe" /\ ~pipe[f.pipe].readopen)
     THEN /\ proc' = [proc EXCEPT ![i].code = exit]
          /\ UNCHANGED pipe
     ELSE /\ f.type = "pipe" => pipe[f.pipe].n < PIPESIZE
          /\ pipe' = IF f.type = "pipe" THEN [pipe EXCEPT ![f.pipe].n = @ + 1] ELSE pipe
          /\ proc' = [proc EXCEPT ![i].code = later(i)]
  /\ UNCHANGED <<ftable, Rest>>

------------------------------------------------------------------------------
(* init has opened the console and dup'ed it twice; the shell inherited it. *)
console == [ref |-> 6, type |-> "device", pipe |-> 0, readable |-> TRUE, writable |-> TRUE]
ready(parent, code) == [Unused EXCEPT !.st = "run", !.parent = parent, !.code = code,
                                      !.ofile = [fd \in Fds |-> IF fd < 3 THEN 1 ELSE 0]]
Init ==
  /\ proc = [i \in Procs |-> CASE i = init -> ready(0, <<>>)
                               [] i = shell -> ready(init, <<Call("getcmd", 0)>>)
                               [] OTHER -> Unused]
  /\ ftable = [f \in FileSlots |-> IF f = 1 THEN console ELSE NoFile]
  /\ pipe = [k \in Pipes |-> NoPipe]
  /\ setting \in Cases
  /\ typed = 0
  /\ starved = FALSE

step(i) == \/ getcmd(i) \/ sys_close(i) \/ fileclose(i) \/ pipeclose(i) \/ sys_dup(i)
           \/ sys_open(i) \/ sys_pipe(i) \/ pipealloc(i) \/ fork1(i) \/ sys_exit(i)
           \/ sys_wait(i) \/ sys_exec(i) \/ sys_read(i) \/ sys_write(i)

Next == init_wait \/ \E i \in Procs : step(i)

Spec == Init /\ [][Next]_vars

------------------------------------------------------------------------------
(* parsecmd() (sh.c) accepts exactly the lines of the shell's grammar and    *)
(* gives each its meaning: ";" binds less than "&" and that less than "|",   *)
(* both to the right, parentheses group, the first redirection is innermost. *)
ParsesTheGrammar == typed = 0 => parsecmd(setting.line) = Line(TokensOf(setting.line))

(* The descriptors of f, and the references system calls have without one. *)
Descriptors(f) == {<<i, fd>> \in Procs \X Fds : proc[i].ofile[fd] = f}
Transit(f) == {i \in Procs : call(i) \in {"pipealloc", "fileclose"} /\ Arg(i) = f}
              \cup {i \in Procs : Len(proc[i].code) > 1 /\ proc[i].code[2].op = "fileclose"
                                       /\ proc[i].code[2].arg = f}

Closing(k, w) == \E i \in Procs : /\ call(i) = "pipeclose"
                                  /\ Arg(i).pipe = k /\ Arg(i).writable = w
EndOf(k, w) == \/ \E f \in FileSlots : ftable[f].type = "pipe" /\ ftable[f].pipe = k /\ ftable[f].writable = w
               \/ Closing(k, w)

(* f->ref (file.c) counts the descriptors and system calls that use f, over  *)
(* every interleaving of dup, fork, close, exit and failing pipe() calls: no *)
(* file is freed in use, none is left over.  And an end of a pipe is open as *)
(* long as an open file, or the fileclose() that has just freed its last one *)
(* (file.c), stands for it, and no longer.                                   *)
FileRefs ==
  /\ \A f \in FileSlots : ftable[f].ref = Cardinality(Descriptors(f)) + Cardinality(Transit(f))
  /\ \A k \in Pipes : pipe[k].writeopen = EndOf(k, TRUE) /\ pipe[k].readopen = EndOf(k, FALSE)

(* Whatever pipes and redirections runcmd() (sh.c) has set up, and whatever  *)
(* ran out on the way, a command is exec'ed with the descriptors 0, 1, 2 and *)
(* no other; a pipe is read only through 0 and written only through 1; and   *)
(* the standard error is the console.                                        *)
OnlyStandardFds ==
  \A i \in Procs : call(i) = "exec" =>
    LET file(fd) == ftable[proc[i].ofile[fd]] IN
    /\ open_fds(i) = 0..2
    /\ file(0).readable /\ file(1).writable
    /\ file(2).type = "device"

(* When the shell asks for a line, and when the last command of a list       *)
(* starts, what was started before it has finished, the jobs of "&" aside    *)
(* (wait(0) in runcmd() and main(), sh.c), unless a fork() failed.           *)
Live(j) == proc[j].st = "run" /\ ~proc[j].bg
ForegroundDone ==
  ~starved =>
    /\ call(shell) = "getcmd" => \A j \in Procs \ {init, shell} : ~Live(j)
    /\ \A i \in Procs : call(i) = "exec" => children(i) = {}

(* What process i waits for: data, room, a child, or the next line. *)
Sleeps(i) ==
  LET f(fd) == ftable[proc[i].ofile[fd]] IN
  CASE call(i) = "read" -> f(0).type = "pipe" /\ pipe[f(0).pipe].n = 0 /\ pipe[f(0).pipe].writeopen
    [] call(i) = "write" -> f(1).type = "pipe" /\ pipe[f(1).pipe].n = PIPESIZE /\ pipe[f(1).pipe].readopen
    [] call(i) = "wait" -> children(i) # {} /\ \A j \in children(i) : proc[j].st # "zombie"
    [] OTHER -> call(i) \in {"none", "getcmd"}

(* Nobody waits for ever: when every process sleeps, because the ends of     *)
(* pipes that could still be written or read are held by sleepers (the       *)
(* close() calls of runcmd(), sh.c), then the shell is at its prompt and     *)
(* every other process is gone, also after pipe(), open() or fork() failed   *)
(* half-way.                                                                 *)
LinesEnd ==
  (\A i \in Procs : Sleeps(i) /\ ~(proc[i].st = "zombie" /\ proc[i].parent = init)) =>
    /\ call(shell) = "getcmd"
    /\ \A j \in Procs \ {init, shell} : proc[j].st = "unused"
==============================================================================
