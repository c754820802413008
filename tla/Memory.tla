-------------------------------- MODULE Memory --------------------------------
(***************************************************************************)
(* Physical pages, page tables and the memory of processes: kernel/kalloc.c, *)
(* kernel/vm.c, kernel/exec.c and the parts of kernel/proc.c that own pages. *)
(*                                                                         *)
(* A page table has three levels as in Sv39, with two entries in the root  *)
(* and in a middle page and FAN in a leaf page.  An operation is one       *)
(* action: it changes only its own page tables, and what others do to the  *)
(* free list meanwhile is the number of pages that it gets before kalloc() *)
(* returns 0.  Every operator takes and returns a state S: the free pages, *)
(* the pages it may still get, a page table, the last result, and whether  *)
(* the kernel panicked.                                                    *)
(***************************************************************************)
EXTENDS Integers, Sequences, FiniteSets, FiniteSetsExt

CONSTANTS Procs, InitProc,
          NPAGES,     \* physical pages, numbered from 1
          FAN, PGSIZE,
          USERSTACK,  \* pages of the user stack
          Grows,      \* arguments of sbrk()
          WORD,       \* sizeof(uint64)
          Programs    \* sequences of segments: vaddr, memsz, filesz, w

(* A process cannot fill its address space: memory ends before TRAPFRAME. *)
MAXPAGE == 4 * FAN
TRAMPOLINE == MAXPAGE - 1
TRAPFRAME == MAXPAGE - 2
ASSUME MemoryEnds == NPAGES - 8 < TRAPFRAME /\ FAN >= 2

Pages == 1..NPAGES
Vas == 0..(MAXPAGE - 1)
Code == 0     \* the page of the trampoline, which is never freed

VARIABLES free,      \* kmem.freelist
          proc,      \* of each process: trapframe, pagetable, sz, used; and guard, the
                     \* page below its stack, which no program is to reach
          panicked

vars == <<free, proc, panicked>>

NoPte == [v |-> FALSE, pa |-> 0, u |-> FALSE, w |-> FALSE]
Pte(pa, u, w) == [v |-> TRUE, pa |-> pa, u |-> u, w |-> w]
NoTable == [root |-> 0, mid |-> <<0, 0>>, low |-> [i \in 1..4 |-> 0], leaf |-> [va \in Vas |-> NoPte]]
NoGuard == -1
Unused == [used |-> FALSE, tf |-> 0, pt |-> NoTable, sz |-> 0, guard |-> NoGuard]

State(fr, avail, pt) == [free |-> fr, left |-> avail, pt |-> pt, r |-> 0, panic |-> FALSE]
panic(S) == [S EXCEPT !.panic = TRUE, !.r = 0]

(* Op(S), with S evaluated once. *)
Then(S, Op(_)) == CHOOSE R \in {Op(T) : T \in {S}} : TRUE
Fails(S) == [S EXCEPT !.r = 0]

PGROUNDUP(sz) == ((sz + PGSIZE - 1) \div PGSIZE) * PGSIZE
Page(va) == va \div PGSIZE

------------------------------------------------------------------------------
(* r is the page, or 0.  Freeing a free page is what kfree() cannot notice. *)
kalloc(S) ==
  IF S.left = 0 \/ S.free = {} THEN Fails(S)
  ELSE [S EXCEPT !.free = @ \ {Min(@)}, !.left = @ - 1, !.r = Min(S.free)]

kfree(S, pa) ==
  IF pa \in Pages /\ pa \notin S.free THEN [S EXCEPT !.free = @ \cup {pa}] ELSE panic(S)

(* walk() with alloc: the missing page-table pages; r is 0 if one is not had. *)
Mid(va) == 1 + va \div (2 * FAN)
Low(va) == 1 + va \div FAN
exists(pt, va) == pt.low[Low(va)] # 0

walk_mid(S, va) ==
  IF S.pt.mid[Mid(va)] # 0 THEN [S EXCEPT !.r = 1]
  ELSE Then(kalloc(S), LAMBDA T : [T EXCEPT !.pt.mid[Mid(va)] = T.r])
walk(S, va) ==
  Then(walk_mid(S, va), LAMBDA T :
    IF T.r = 0 \/ T.pt.low[Low(va)] # 0 THEN T
    ELSE Then(kalloc(T), LAMBDA U : [U EXCEPT !.pt.low[Low(va)] = U.r]))

(* mappages() of one page; r is 1, or 0 for -1. *)
mappages(S, va, pte) ==
  Then(walk(S, va), LAMBDA T :
    IF T.r = 0 THEN T
    ELSE IF T.pt.leaf[va].v THEN panic(T) ELSE [T EXCEPT !.pt.leaf[va] = pte, !.r = 1])

RECURSIVE uvmunmap(_, _, _, _)
uvmunmap(S, va, npages, do_free) ==
  IF npages <= 0 \/ S.panic THEN S
  ELSE IF va \notin Vas \/ ~exists(S.pt, va) \/ ~S.pt.leaf[va].v THEN panic(S)
  ELSE Then(IF do_free THEN kfree(S, S.pt.leaf[va].pa) ELSE S, LAMBDA T :
         Then([T EXCEPT !.pt.leaf[va] = NoPte], LAMBDA U :
           uvmunmap(U, va + 1, npages - 1, do_free)))

uvmcreate(S) == Then(kalloc(S), LAMBDA T : [T EXCEPT !.pt = [NoTable EXCEPT !.root = T.r]])

uvmdealloc(S, oldsz, newsz) ==
  LET from == Page(PGROUNDUP(newsz))  to == Page(PGROUNDUP(oldsz)) IN
  IF newsz >= oldsz THEN [S EXCEPT !.r = oldsz]
  ELSE [uvmunmap(S, from, to - from, TRUE) EXCEPT !.r = newsz]

(* The error paths take back the pages from oldsz up to a. *)
RECURSIVE uvmalloc_from(_, _, _, _, _)
uvmalloc_from(S, a, oldsz, newsz, w) ==
  IF a >= newsz THEN [S EXCEPT !.r = newsz]
  ELSE Then(kalloc(S), LAMBDA T :
    IF T.r = 0 THEN Fails(uvmdealloc(T, a, oldsz))
    ELSE Then(mappages(T, Page(a), Pte(T.r, TRUE, w)), LAMBDA U :
      IF U.panic THEN U
      ELSE IF U.r = 0 THEN Then(kfree(U, T.r), LAMBDA V : Fails(uvmdealloc(V, a, oldsz)))
      ELSE uvmalloc_from(U, a + PGSIZE, oldsz, newsz, w)))

uvmalloc(S, oldsz, newsz, w) ==
  IF newsz < oldsz THEN [S EXCEPT !.r = oldsz]
  ELSE uvmalloc_from(S, PGROUNDUP(oldsz), PGROUNDUP(oldsz), newsz, w)

(* freewalk(): a mapping that is left makes it panic. *)
tables(pt) == ({pt.root} \cup {pt.mid[i] : i \in 1..2} \cup {pt.low[i] : i \in 1..4}) \ {0}
freewalk(S) ==
  IF S.panic \/ (\E va \in Vas : S.pt.leaf[va].v) \/ (tables(S.pt) \cap S.free # {}) THEN panic(S)
  ELSE [S EXCEPT !.free = @ \cup tables(S.pt), !.pt = NoTable]

uvmfree(S, sz) == Then(uvmunmap(S, 0, Page(PGROUNDUP(sz)), TRUE), LAMBDA T : freewalk(T))

(* uvmcopy() from the table old; on failure the i pages copied are freed. *)
uvmcopy_err_bug(S, i) == Fails(uvmunmap(S, 0, i - 1, TRUE))
uvmcopy_err(S, i) == Fails(uvmunmap(S, 0, i, TRUE))

RECURSIVE uvmcopy(_, _, _, _)
uvmcopy(S, old, sz, i) ==
  IF i * PGSIZE >= sz THEN [S EXCEPT !.r = 1]
  ELSE IF ~exists(old, i) \/ ~old.leaf[i].v THEN panic(S)
  ELSE Then(kalloc(S), LAMBDA T :
    IF T.r = 0 THEN uvmcopy_err(T, i)
    ELSE Then(mappages(T, i, [old.leaf[i] EXCEPT !.pa = T.r]), LAMBDA U :
      IF U.r = 0 THEN Then(kfree(U, T.r), LAMBDA V : uvmcopy_err(V, i))
      ELSE uvmcopy(U, old, sz, i + 1)))

------------------------------------------------------------------------------
(* Copies between the kernel and user memory: the physical bytes <<page,       *)
(* offset>> that are touched and whether all were.                            *)
walkaddr(pt, va) ==
  IF va \in Vas /\ exists(pt, va) /\ pt.leaf[va].v /\ pt.leaf[va].u THEN {pt.leaf[va].pa} ELSE {}

writable(pt, va) == IF va \in Vas /\ pt.leaf[va].w THEN walkaddr(pt, va) ELSE {}

(* n bytes of the page pa from the address va on. *)
span_bug(pa, va, n) == [i \in 1..n |-> <<pa, i - 1>>]     \* forgets dstva - va0
span(pa, va, n) == [i \in 1..n |-> <<pa, (va % PGSIZE) + i - 1>>]

Stops(ok) == [ok |-> ok, bytes |-> <<>>]
After(bytes, rest) == [rest EXCEPT !.bytes = bytes \o @]
InPage(va, len) == Min({PGSIZE - (va % PGSIZE), len})
NextPage(va) == (Page(va) + 1) * PGSIZE

RECURSIVE copyin(_, _, _)
copyin(pt, srcva, len) ==
  LET pa0 == walkaddr(pt, Page(srcva))  n == InPage(srcva, len) IN
  IF len = 0 THEN Stops(TRUE) ELSE IF pa0 = {} THEN Stops(FALSE)
  ELSE After(span(Max(pa0), srcva, n), copyin(pt, NextPage(srcva), len - n))

RECURSIVE copyout(_, _, _)
copyout(pt, dstva, len) ==
  LET pa0 == writable(pt, Page(dstva))  n == InPage(dstva, len) IN
  IF len = 0 THEN Stops(TRUE) ELSE IF pa0 = {} THEN Stops(FALSE)
  ELSE After(span(Max(pa0), dstva, n), copyout(pt, NextPage(dstva), len - n))

(* nul is the address of the first 0 byte from srcva on. *)
RECURSIVE copyinstr(_, _, _, _)
copyinstr(pt, srcva, max, nul) ==
  LET pa0 == walkaddr(pt, Page(srcva))  n == InPage(srcva, max) IN
  IF max = 0 \/ pa0 = {} THEN Stops(FALSE)
  ELSE IF nul < srcva + n THEN After(span(Max(pa0), srcva, nul - srcva + 1), Stops(TRUE))
  ELSE After(span(Max(pa0), srcva, n), copyinstr(pt, NextPage(srcva), max - n, nul))

UINT64 == 2^16
fetchaddr(pt, sz, addr) ==
  ~(addr >= sz \/ (addr + WORD) % UINT64 > sz) /\ copyin(pt, addr, WORD).ok

------------------------------------------------------------------------------
proc_pagetable(S, tf) ==
  Then(uvmcreate(S), LAMBDA T :
    IF T.r = 0 THEN T
    ELSE Then(mappages(T, TRAMPOLINE, Pte(Code, FALSE, FALSE)), LAMBDA A :
      IF A.r = 0 THEN Fails(uvmfree(A, 0))
      ELSE Then(mappages(A, TRAPFRAME, Pte(tf, FALSE, TRUE)), LAMBDA B :
        IF B.r # 0 THEN B
        ELSE Then(uvmunmap(B, TRAMPOLINE, 1, FALSE), LAMBDA C : Fails(uvmfree(C, 0))))))

proc_freepagetable(S, sz) ==
  Then(uvmunmap(S, TRAMPOLINE, 1, FALSE), LAMBDA T :
    Then(uvmunmap(T, TRAPFRAME, 1, FALSE), LAMBDA U : uvmfree(U, sz)))

(* allocproc(): r is the trapframe, or 0. *)
allocproc(S) ==
  Then(kalloc(S), LAMBDA T :
    IF T.r = 0 THEN T
    ELSE Then(proc_pagetable(T, T.r), LAMBDA U :
      IF U.r = 0 THEN Fails(kfree(U, T.r)) ELSE [U EXCEPT !.r = T.r]))

freeproc(S, tf, sz) == Then(kfree(S, tf), LAMBDA T : proc_freepagetable(T, sz))

(* userinit(): one page with initcode. *)
Init ==
  \E A \in {allocproc(State(Pages, NPAGES, NoTable))} : \E B \in {uvmalloc(A, 0, PGSIZE, TRUE)} :
    /\ free = B.free
    /\ proc = [p \in Procs |-> IF p # InitProc THEN Unused
                ELSE [used |-> TRUE, tf |-> A.r, pt |-> B.pt, sz |-> PGSIZE, guard |-> NoGuard]]
    /\ panicked = FALSE

------------------------------------------------------------------------------
Done(S, pr) == free' = S.free /\ panicked' = S.panic /\ proc' = pr

(* fork(), as far as memory goes; the error paths leave no trace. *)
fork(p, np, avail) ==
  /\ ~panicked /\ proc[p].used /\ ~proc[np].used
  /\ \E A \in {allocproc(State(free, avail, NoTable))} :
       \/ A.r = 0 /\ Done(A, proc)
       \/ /\ A.r # 0
          /\ \E C \in {uvmcopy(A, proc[p].pt, proc[p].sz, 0)} :
               \/ C.r = 0 /\ \E D \in {freeproc(C, A.r, 0)} : Done(D, proc)
               \/ C.r # 0 /\ Done(C, [proc EXCEPT ![np] = [used |-> TRUE, tf |-> A.r, pt |-> C.pt,
                                                           sz |-> proc[p].sz, guard |-> proc[p].guard]])

(* exit() and the parent's wait(). *)
wait(p) ==
  /\ ~panicked /\ p # InitProc /\ proc[p].used
  /\ \E S \in {freeproc(State(free, 0, proc[p].pt), proc[p].tf, proc[p].sz)} :
       Done(S, [proc EXCEPT ![p] = Unused])

(* growproc(): sz + n is unsigned, a shrink below 0 wraps and does nothing. *)
grown(S, sz, n) == IF n > 0 THEN uvmalloc(S, sz, sz + n, TRUE)
                            ELSE uvmdealloc(S, sz, (sz + n) % UINT64)
growproc(p, n, avail) ==
  /\ ~panicked /\ proc[p].used
  /\ \E T \in {grown(State(free, avail, proc[p].pt), proc[p].sz, n)} :
       LET sz == IF n > 0 /\ T.r = 0 THEN proc[p].sz ELSE T.r IN
       Done(T, [proc EXCEPT ![p].pt = T.pt, ![p].sz = sz,
                            ![p].guard = IF @ * PGSIZE < sz THEN @ ELSE NoGuard])

(* exec(): point is where it fails, a header or segment that cannot be read   *)
(* or, after the last segment, arguments that do not fit on the stack.  The   *)
(* result has the size so far, which tells the error path what to free.       *)
Result(S, sz, ok) == [S |-> S, sz |-> sz, ok |-> ok]
loaded(S, seg) == \A a \in seg.vaddr..(seg.vaddr + seg.filesz - 1) : walkaddr(S.pt, Page(a)) # {}

RECURSIVE exec_load(_, _, _, _, _)
exec_load(S, prog, i, sz, point) ==
  IF i > Len(prog) THEN Result(S, sz, TRUE) ELSE
  LET seg == prog[i]
      end == (seg.vaddr + seg.memsz) % UINT64
  IN  IF point = 2 * i - 1 \/ seg.memsz < seg.filesz \/ end < seg.vaddr \/ seg.vaddr % PGSIZE # 0
      THEN Result(S, sz, FALSE)
      ELSE Then(uvmalloc(S, sz, end, seg.w), LAMBDA T :
        IF T.r = 0 THEN Result(T, sz, FALSE)
        ELSE IF ~loaded(T, seg) THEN Result(panic(T), T.r, FALSE)
        ELSE IF point = 2 * i THEN Result(T, T.r, FALSE)
        ELSE exec_load(T, prog, i + 1, T.r, point))

GuardPage(sz) == Page(sz) - (USERSTACK + 1)

uvmclear_bug(S, va) == [S EXCEPT !.pt.leaf[Page(va)].w = FALSE]       \* PTE_W, not PTE_U
uvmclear(S, va) == [S EXCEPT !.pt.leaf[Page(va)].u = FALSE]

exec_stack(S, sz, fits) ==
  Then(uvmalloc(S, sz, sz + (USERSTACK + 1) * PGSIZE, TRUE), LAMBDA T :
    IF T.r = 0 THEN Result(T, sz, FALSE)
    ELSE Result(uvmclear(T, T.r - (USERSTACK + 1) * PGSIZE), T.r, fits))

exec_image(S, prog, point) ==
  Then(exec_load(S, prog, 1, 0, point), LAMBDA L :
    IF L.ok THEN exec_stack(L.S, PGROUNDUP(L.sz), point # 2 * Len(prog) + 1) ELSE L)

exec(p, prog, avail, point) ==
  /\ ~panicked /\ proc[p].used
  /\ \E P \in {proc_pagetable(State(free, avail, NoTable), proc[p].tf)} :
       \/ P.r = 0 /\ Done(P, proc)
       \/ /\ P.r # 0
          /\ \E L \in {exec_image(P, prog, point)} :
               \/ ~L.ok /\ \E B \in {proc_freepagetable(L.S, L.sz)} : Done(B, proc)
               \/ /\ L.ok
                  /\ \E O \in {proc_freepagetable([L.S EXCEPT !.pt = proc[p].pt], proc[p].sz)} :
                       Done(O, [proc EXCEPT ![p].pt = L.S.pt, ![p].sz = L.sz,
                                            ![p].guard = GuardPage(L.sz)])

Points == 1..(2 * Max({Len(prog) : prog \in Programs}) + 2)

Next ==
  \E p \in Procs :
    \/ wait(p)
    \/ \E avail \in 0..NPAGES :
         \/ \E np \in Procs : fork(p, np, avail)
         \/ \E n \in Grows : growproc(p, n, avail)
         \/ \E prog \in Programs : exec(p, prog, avail, Max(Points))
    \/ \E prog \in Programs, point \in Points : exec(p, prog, NPAGES, point)

Spec == Init /\ [][Next]_vars

------------------------------------------------------------------------------
(* Every physical page is on the free list or has one use, as a trapframe, in *)
(* a page table or as memory of one process: no page is shared, lost or freed *)
(* twice when fork(), exec() or sbrk() runs out of memory at any point.  No   *)
(* operation unmaps what is not mapped, maps a page twice, leaves a mapping   *)
(* behind in a table it frees, or frees a free page: nothing panics.          *)
UserVas(p) == {va \in Vas \ {TRAMPOLINE, TRAPFRAME} : proc[p].pt.leaf[va].v}
Uses(p) ==
  IF ~proc[p].used THEN {}
  ELSE {<<p, "tf", 0, proc[p].tf>>, <<p, "root", 0, proc[p].pt.root>>}
       \cup {<<p, "mid", i, proc[p].pt.mid[i]>> : i \in {i \in 1..2 : proc[p].pt.mid[i] # 0}}
       \cup {<<p, "low", i, proc[p].pt.low[i]>> : i \in {i \in 1..4 : proc[p].pt.low[i] # 0}}
       \cup {<<p, "user", va, proc[p].pt.leaf[va].pa>> : va \in UserVas(p)}
PagesConserved ==
  LET U == UNION {Uses(p) : p \in Procs} IN
  /\ ~panicked
  /\ {u[4] : u \in U} = Pages \ free /\ Cardinality(U) = Cardinality(Pages \ free)

(* p->sz tells what is mapped: exactly the pages below it, the trapframe and  *)
(* the trampoline.  User code reaches all of the former but the guard page    *)
(* that exec() put below the stack, until sbrk() has given that page back.    *)
MapsExactly ==
  \A p \in Procs : (~panicked /\ proc[p].used) => LET leaf == proc[p].pt.leaf IN
    /\ UserVas(p) = {va \in Vas : va * PGSIZE < proc[p].sz}
    /\ \A va \in UserVas(p) : leaf[va].u = (va # proc[p].guard)
    /\ leaf[TRAPFRAME] = Pte(proc[p].tf, FALSE, TRUE)
    /\ leaf[TRAMPOLINE] = Pte(Code, FALSE, FALSE)

(* A copy between the kernel and user memory touches the bytes that the user  *)
(* itself can reach, each in its place and in order, and stops at the first   *)
(* that it cannot: the guard page, text when writing, the trapframe, anything *)
(* past sz's page.                                                            *)
Reach(p, a, w) == LET l == proc[p].pt.leaf[Page(a)] IN a < PGROUNDUP(proc[p].sz) /\ l.u /\ (w => l.w)
UserCopies ==
  \A p \in Procs : (~panicked /\ proc[p].used) => LET pt == proc[p].pt IN
    \A a \in 0..(MAXPAGE * PGSIZE), len \in 0..(2 * PGSIZE + 1) :
      LET good(w, n) == \A b \in a..(a + n - 1) : Reach(p, b, w)
          reached(w, n) == Max({k \in 0..n : good(w, k)})
          copied(w, n) == [i \in 1..reached(w, n) |-> <<pt.leaf[Page(a + i - 1)].pa, (a + i - 1) % PGSIZE>>]
      IN  /\ copyin(pt, a, len) = [ok |-> good(FALSE, len), bytes |-> copied(FALSE, len)]
          /\ copyout(pt, a, len) = [ok |-> good(TRUE, len), bytes |-> copied(TRUE, len)]
          /\ \A nul \in a..(a + len) :
               copyinstr(pt, a, len, nul) = [ok |-> nul - a < len /\ good(FALSE, nul - a + 1),
                                             bytes |-> copied(FALSE, Min({len, nul - a + 1}))]
          /\ fetchaddr(pt, proc[p].sz, a) = (a + WORD <= proc[p].sz /\ good(FALSE, WORD))
==============================================================================
