# A verification development for xv6

TLA+ models of the kernel in `src/kernel/` (xv6 for RISC-V, lab *util*), of mkfs
and of the shell, checked with TLC on small instances. For spinlocks and traps,
the sleep-lock, processes, pipes, the console, the disk driver, the buffer cache
and the log the safety properties are also proved with TLAPS for every instance.
`PROJECT.json` lists components, runs, mutants, the source lines
of every definition, hazards and theorems.

## The system and its parts

xv6 is a small multiprocessor Unix kernel with one file system on one disk. The
parts stand on each other like this:

    user          sh.c, init.c                 -> ShellParser, Shell
    system calls  sysfile.c                    -> Inode, Shell
    files         file.c                       -> Shell (descriptors), FileData (contents)
                  pipe.c                       -> Pipe (implements BoundedFifo)
                  console.c, uart.c, clock     -> Devices (implements Terminal)
    file system   fs.c: names, inodes          -> Inode
                  fs.c: blocks; mkfs.c         -> FileData
    crash safety  log.c                        -> Log (implements AtomicDisk)
    block cache   bio.c                        -> Bcache
    disk          virtio_disk.c                -> Virtio
    memory        vm.c, kalloc.c, exec.c       -> Memory
    processes     proc.c                       -> Proc
    waiting       sleep/wakeup, sleeplock.c    -> Sleeplock
    exclusion     spinlock.c, trap.c, *.S      -> Spinlock, Traps

## Modules

Each component has a specification (`X.tla`), an instance module (`MCX.tla`: a
symmetry set or the inputs that are tried) and one `.cfg`. Definitions keep the
names of the C functions. An operator `f_bug` is a plausible mistake in the
operator `f` that follows it; no action uses it, it exists to show that a
property can fail.

A step is, unless said otherwise, one critical section of a spinlock, one pass of
a loop under a lock that is held on, or one block written to the disk. `Sleeplock`
opens up `sleep()` and `wakeup()` to single lock operations; the modules above it
take each of them as one step on the strength of that. Memory is sequentially
consistent everywhere.

| Module | State | Actions |
|---|---|---|
| `Spinlock` | `lk->cpu`, `noff`, `intena`, SIE per CPU; what each CPU executes; two levels per context (normal, interrupt handler) | `acquire`, `push_off`, `spin`, `release` (with `pop_off`), `interrupt`, `sret`, `sched`, `swtch`, `intr_on` |
| `Traps` | extends `Spinlock` with user mode, `tp`, `stvec`, `sepc` (with the mode in `sstatus`), the trapframe, what `kernelvec` saved | `uservec`, `usertrap`, `usertrapret`, `userret`, `kernelvec`, `kerneltrap` and their register moves |
| `Sleeplock` | the lock, `p->lock`, `p->state`, `p->chan`, what a running `wakeup()` has still to visit | the steps of `acquiresleep`, `sleep`, `scheduler`, `releasesleep`, `wakeup`, and `kill` |
| `Proc` | the process table, `wait_lock`, `nextpid`, what each CPU runs; histories of who was born, exited, was collected, and by which kill a process is marked | `fork` in three steps, `exit` in four, `wait`, `kill`, `yield`, `sched`, `scheduler`, init's loop |
| `Pipe` | the ring and its counters modulo `UINT`, both ends, reference counts, where each caller is | passes of `pipewrite` and `piperead`, `sleep` apart from the test before it, failing copies, `fileclose`, `pipeclose`, `kill` |
| `Virtio` | descriptors, both rings with counters modulo `IDX`, `info`, `b->disk`; the device | `virtio_disk_rw` in its parts, `virtio_disk_intr` and its loop; the device takes and serves requests in any order |
| `Bcache` | every buffer's fields, the doubly linked list, sleep-lock owners, the disk; histories of the last value and of the order of use | `bget` (both scans), `bread`, changes through the log with `bpin`/`bunpin`, `bwrite`, `brelse` |
| `Log` | disk (home, log, header), cache and pins, `log.lh`, `outstanding`, `committing`, recovery | `begin_op`, `log_write`, `end_op`, the steps of `commit`, recovery, recycling, `crash` |
| `Inode` | dinodes on disk and what a crash leaves of them, the inode table with references and locks, what every process has still to do, its cwd and open file | `namex`, `create`, `open`, `link`, `unlink`, `chdir`, `iput` with the freeing of an inode, the end of a transaction, `crash` |
| `FileData` | the bitmap, data blocks, block maps and sizes in the cache and as logged; what was written where | mkfs's `iappend`, `filewrite` and each pass of `writei`, `readi`, `itrunc`, loss of caches |
| `Memory` | free pages, and of each process the trapframe, the three levels of its page table, `p->sz` and the guard page | `fork`, `growproc`, `exec`, `exit` with `wait`, each with `kalloc()` failing at any point |
| `Devices` | `cons` with its three indices modulo `UINT`, the UART's buffers, `ticks`, where each process and the handler are | `consoleread`, `consolewrite`, `consoleintr`, `consputc` and `uartputc_sync` (the echo: a test of LSR, then a write of THR), `uartputc`, `uartstart`, `uartintr`, `clockintr`, `sys_sleep`, keys, the UART sending |
| `ShellParser`, `Shell` | the command line; of each process its descriptors and the calls it has still to make; `ftable`, pipes | `gettoken` and the parser as operators; `runcmd` as system calls: `fork`, `close`, `dup`, `open`, `pipe`, `exec`, `read`, `write`, `exit`, `wait` |

Abstract specifications: `AtomicDisk` (contents change by whole groups of finished
calls, a crash returns to the last group), `BoundedFifo` (bytes leave in the order
they entered) and `Terminal` (a line that is edited, and a queue of what was
entered).

How the modules rest on each other: `Traps` is `Spinlock` with traps around it.
`Inode` stands on what `AtomicDisk` promises and `Log` implements. `FileData`
counts the blocks of a transaction that `Log` takes as its bound `OPBLOCKS`, and
takes from `Log` that transactions are atomic. `Log` has a cache that forgets
clean unpinned blocks, which is what `Bcache` shows of the real one. `Shell` has
descriptors, files, pipes and processes together, each as simple as the
descriptors see it; `Pipe` and `Proc` have them in detail.

## What the runs show

| Run | Bounds | Shows |
|---|---|---|
| `traps` | 2 CPUs, 2 threads, a shared lock and two `p->lock`s, each thread taking its own or the other's | `OffWhileHeld`: no lock is held with interrupts on. `NeverAstray`: every trap and return uses the registers of its own context, and `tp` is right. `InterruptsAsEntered`: interrupts come back as the thread had them. No deadlock |
| `sleeplock` | 5 processes | `Mutex`, `NoMissedWakeup`, no deadlock |
| `proc` | 4 slots, 2 CPUs, pids to 4, `kill()` of 0 to 4 | `OneCpu`: no stack in use twice or after it is freed. `Accounted`: no process lost, mixed up, collected twice or killed for another. `Collected`: somebody is there to collect each one, and does not sleep beside it |
| `pipe` | 2 writers, 2 readers, 2 bytes of buffer, 2-bit counters, calls of up to 2 bytes | `IsFifo` (refinement), `NoUseAfterFree`, `SleepsForACause` |
| `virtio` | 3 processes, 7 descriptors, counters modulo 14 | `Transfers`: a request is complete, with the right block, when it returns, and descriptors are conserved. `SleepsForACause` |
| `bcache` | 2 processes, 3 buffers, 4 blocks, 2 pins | `Coherent`: one copy of a block, with its last value. `ScansSeeAll`: the list is complete and sorted by use, and `bget()` panics only when all buffers are in use |
| `log` | 2 processes, 3 blocks, 2 values, a log of 4 blocks | `CrashAtomic` (refinement), `PinnedWhileLogged`, `NoLostWakeup`, `NoPanic` with a crash anywhere and torn block writes; `WaitersWake` |
| `inode` | 2 processes, 3 inodes, 2 names, 5 calls | `Clean`: after a crash the disk is a tree with right link counts. `RefsAreUses`, `FreedWithLastRef`, `NoPanic`, `NoDeadlock` (also: a crash may come at any step) |
| `filedata` | 2 files, 5 blocks of 2 bytes, 2 direct and 2 indirect, 2 writes | `ReadBack`: every read returns what was last written. `BlocksOnce`: bitmap and block maps agree, no block is used twice. `OpFits`: a write logs fewer blocks than it has reserved |
| `memory` | 2 processes, 18 pages, 16 virtual pages, 4 programs | `PagesConserved`; `MapsExactly`: `p->sz` tells what is mapped, and of that the user reaches all but the guard page; `UserCopies`: the three copies move exactly the bytes that the user reaches, and fail where a byte is not one of them; with memory running out at every single allocation |
| `devices` | 2 processes, a console ring of 4, a UART buffer of 2, 3-bit indices, reads and writes of up to 3 characters, 2 ticks; 5 keys with 2 reads, fewer with writes, or 3 writes, or 3 sleeps | `IsTerminal` (refinement), `OutputInOrder`, `SleepsForACause`, `SleepsLongEnough` |
| `shell` | 7 processes, 5 files, 5 descriptors, 2 pipes of 1 item | `ParsesTheGrammar` for all lines of up to 4 characters (5 without `<`); and for lines that are run: `FileRefs`, `OnlyStandardFds`, `ForegroundDone`, `LinesEnd` |

Why these bounds: two actors are needed for every race above and a third wherever
one may overtake two others (descriptors, the sleep-lock). Counters wrap several
times within a run, with the ring sizes dividing their range as in the kernel.
Two requests and part of a third fill the descriptors, as with the kernel's eight.
In `log` two calls fill the log, in the kernel three. Four slots are the least
with which the shell has two children, or a child with a child, beside init.
In `filedata` the files fill the disk and reach their largest size, and a write
takes several transactions. In `devices` a line fills the ring, a write
overfills the UART's buffer while another waits, and two processes sleep with
different ends; `Bounds` lists how many keys and calls of each kind a behaviour
has, since all at once would be too many. In `memory` a process needs seven pages, so that a
fork can fail at each of its allocations. The shell's cases take away process
slots, files, descriptors and pipes one by one.

States of `memory` that differ only in the numbers of pages are taken as one
(`VIEW PageNumbersAside`): no operator looks at a page number, and a state that
breaks one of the invariants is never merged. States of `pipe` that differ only in
bytes that were read already are one as well (`VIEW WhatCounts`): no action reads
them before they are written again.

Deadlock is not checked where the system may stop: in `proc` at the bound on
pids, in `pipe` when both ends are closed, in `devices` when nothing is typed any
more, in `shell` when the lines are done (`LinesEnd` says that the shell has then
returned to its prompt, and that nothing else can stop). In `inode` a crash is
possible at any time, so TLC's check would find nothing; it has its own
`NoDeadlock` for the locks.

### Where the code and what is said of it disagree

The properties are stated for what the code does. These are the places where one
may have expected more:

- `param.h` calls LOGSIZE the data blocks of the log, but mkfs counts the header
  in it. Calls that wrote all that `begin_op()` reserves for them would make
  `log_write()` panic. `NoPanic` is stated for calls that write one block less;
  `OpFits` shows that those of `filewrite()` do.
- `kill(0)` matches a free slot, whose pid is 0, and the next process created
  there is born killed. `kill(1)` ends init, and the kernel panics. `Proc` has both;
  `Accounted` allows the former and nothing else, `Collected` that the `wait()` of a
  killed init fails.
- A killed writer returns from `pipewrite()` without the `wakeup()` for the bytes
  it has already written, and a reader sleeps on beside them.
  `SleepsForACause` of `Pipe` does not count a reader once a writer was killed.
- `piperead()` takes a byte off before its copy fails: it is lost to all readers.
  `IsFifo` allows that.
- `iput()` gives up its reference after it has freed the inode, without a second
  look at `nlink`. If others have meanwhile allocated the inode again, on the same
  table entry, and given it up, it stays allocated for good. So does an unlinked
  file that is open at a crash. `FreedWithLastRef` allows these and nothing else.
- In a removed directory that is some process's cwd one may still create and link:
  the entry goes with the directory, and the inode keeps its link. Its ".." may
  name an inode that is free by then, and `ilock()` panics. `Clean` and `NoPanic`
  of `Inode` are stated for behaviours without this (`stale`).
- `iget()` panics when all NINODE = 50 entries of the table are in use, although
  NFILE = 100 files may be open. The table of `Inode` has an entry for each inode,
  so that `NoPanic` says nothing of this one.
- mkfs rounds the size of the root directory up to a whole block, and to one that
  is not mapped when the entries already fill the last one. `FileData` assumes
  that they do not (`Layout`).
- A process that is killed between `killed()` and `sleep()` (console, pipe,
  `sys_sleep`) sleeps on until somebody else wakes it.
- The shell exits when its own `fork()` fails, and init starts another one.

## Fairness

Only `Log` states a liveness property, `WaitersWake`: whoever sleeps in
`begin_op()` is woken. It assumes weak fairness of recovery, of `end_op()`, of
each step of a commit and of a process that goes on in `begin_op()` once woken: the
round-robin scheduler runs whoever can run, calls end, the disk completes its
writes. Crashes are never required. That a woken process gets room is not claimed:
others may overtake it for ever.

For the same reason the other modules state no liveness. On several CPUs, that
`wait()` returns depends on a process getting `wait_lock` at last, and a loop of
`__sync_lock_test_and_set` does not guarantee it. What is checked of them instead
is that nobody sleeps whose condition holds (`SleepsForACause`, `NoMissedWakeup`,
`Collected`, `LinesEnd`), which needs no fairness.

## What is proved

Each proof has an inductive invariant with one lemma per conjunct, by cases on the
actions. The invariants were checked with TLC before.

`LogProofs`, for all sets of processes, blocks and values and all sizes allowed
by the assumptions of `Log` (finite `Procs`; `Zero` a value, `NoBuf` none; sizes
natural numbers, MAXOPBLOCKS and NLOG not 0): `TypeCorrect`, `PinCorrect`,
`WakeupCorrect`, `DurableCorrect` and `Refinement` (`Spec => CrashAtomic`). The
inductive invariant `IInv` adds to the types: who may be committing and what
`outstanding` counts (`ControlInv`); that the header on disk names distinct
blocks (`HeaderInv`); what recovery has done so far (`BootInv`); and, while the
system is up, how memory, log blocks, home blocks and pins agree at each stage
of a commit (`UpInv`). `CrashAtomic` alone is not inductive: that a crash is
harmless in the middle of installing depends on the log blocks still holding
what the header promises. Each action then maps to one abstract step or none;
`write_head` is the abstract commit. `RoomCorrect` (`NoPanic`) needs that a call
writes fewer blocks than it reserves and that the log has the LOGSIZE blocks that
mkfs gives it, header included (`RoomAssumption`; `OpFits` is the first part for
`filewrite()`, checked on the instance). `RoomInv` counts the entries of the header and the blocks that
running calls may still write (`Left`): together at most LOGSIZE - 2. Each call
admitted reserves MAXOPBLOCKS for them, and `log_write()` tests for room before it
looks whether the block is in the log already, which is where one entry goes.

`SleeplockProofs`, for every set of processes (`None` not one of them):
`TypeCorrect`, `MutexCorrect`, `WakeupCorrect`. `IInv` adds who holds `lk->lk`
and `p->lock` where (`LockInv`), which states go with which place (`StateInv`),
and that a process about to sleep holds its `p->lock` (`WillSleepInv`), which is
why `wakeup()` cannot pass it.

`PipeProofs`, for all finite nonempty disjoint sets of writers and readers, any
of which may be killed, and every PIPESIZE that divides UINT and is less:
`FreeCorrect`, `SleepCorrect`, `FifoCorrect`. For the first two `IInv` adds who
holds `pi->lock` (`LockInv`), that a reference count is the number of open
descriptors (`RefInv`, by the cardinality theorems), that only the last one to
close an end reaches `pipeclose()` (`CloseInv`), that what sent a process to sleep
still holds when it does, since it keeps the lock (`MarkInv`), and that a writer sleeps beside
room only while the reader that made it is inside (`RoomInv`). For the refinement
`QueueInv` says that the counters are in range and at most PIPESIZE apart modulo
UINT. Lemmas on remainders then give that two slots in use are different, also
across the wrap, so that a byte written is appended (`PutStep`) and a byte read
was the head (`GetStep`).

`ProcProofs`, for every NPROC, every set of CPUs, every bound on pids and every
argument of `kill()`, 0 and 1 included: `OneCpuCorrect`, `AccountCorrect`,
`CollectCorrect`. The core `IInv` says where a process in each state is
(`PlaceInv`), who holds `wait_lock` (`LockInv`), that a slot between `allocproc()`
and the end of `fork()` belongs to one forker (`ForkInv`), that a process is on a
CPU while it runs or is on its way out with its `p->lock` held (`CpuInv`: why
`wait()`, which takes `p->lock`, cannot free a stack in use), and that nobody's
parent is on its way out (`FamilyInv`: because `reparent()` and the linking in
`fork()` are both under `wait_lock`). On top of it: no parent goes to sleep
between its child's `wakeup()` and its last step (`WakeInv`), init's shell stays
its child and only `kill(1)` marks init (`ShellInv`), pids are unique and free slots clean (`PidInv`), and who
exited or was collected stays so (`ExitInv`, `ReapInv`).

`TrapsProofs`, for every set of CPUs and threads (with different names):
`LockCorrect`, `AstrayCorrect`, `InterruptsCorrect`. None of the three is inductive.
`IInv` says of each CPU which locks it may hold where, one `p->lock` at most
(`HeldInv`, `AskInv`), that
`noff` is their number, the one that is waited for included (`CountInv`), that
interrupts are off when it is not 0 (`OffInv`), and that otherwise they are as the
context wants them, or `intena` says so (`IntrInv`); what `stvec`, `sepc` and `tp`
hold in user mode, on the way there and in the kernel (`TrapInv`); of a context in
a handler, that it was interrupted without locks and what `kernelvec` saved
(`OuterInv`); and that a thread is on one CPU, or in `sched()` with its own
`intena` (`OneInv`, `OffCpuInv`). That a thread may go on on another CPU is what
makes `intena` delicate: `sched()` carries it over.

`BcacheProofs`, for every finite set of processes and every number of blocks,
buffers and pins: `CoherentCorrect`, `ScansCorrect`. `ListInv` says that `next` and
`prev` thread the buffers in the order of their last use, both ways, each once;
`to_front` preserves it, case by case for where in the list the buffer was. That
the scans of `bget()`, which walk along the pointers, therefore see all of them is
proved from the least place where a walk could leave that order (`Least`, from the
library's well-founded orders: the one form of induction that the provers do
take). `RefInv` says that `refcnt` counts the users and the log's pin: why a
buffer that is recycled is nobody's, and its contents on the disk (`HomeCurrent`).

`VirtioProofs`, for every set of processes, every NUM and every range of the
counters that is a larger multiple of NUM: `TransfersCorrect`, `SleepCorrect`.
`IInv` says that each ring holds exactly the heads between its reader's and its
writer's counter (`Ring`), that a request under way is on the available ring,
with the device, on the used ring or seen by the handler, and in one of these
only (`PlaceInv`), and that the descriptors in use form chains of three, each of
one request (`Chains`). A ring cannot overflow because its heads are different
descriptors (a pigeonhole argument, `FS_PigeonHole`).

`DevicesProofs`, for every set of processes, both buffer sizes, every range of
`uint` that is a larger multiple of INPUT_BUF_SIZE, and any calls of at least one
character or tick: `CausesCorrect`, `OutputCorrect`, `ClockCorrect` and
`TerminalCorrect` (`Spec => IsTerminal`). It is assumed that no process waits so
long that `ticks` comes round before it looks (`CallsAssumption`: 2^32 ticks are
years). `IInv` says who holds the three locks where (`LockInv`), that a process
between its test and the end of `sleep()` still has its cause, because it holds
the lock under which the cause goes (`CauseInv`), that output is moving also
while a writer is about to sleep (`MovesInv`), how `ticks` and the time slept
agree modulo UINT (`ClockInv`), that the UART's buffer is what was put and not sent
(`TxInv`), and that the console's indices are in order around the ring, at most
INPUT_BUF_SIZE apart, with no newline in the line that is edited (`Ringlike`: why
^U stops at the end of the line before, and not short of it). With the lemmas on
remainders each key and each read is then one step of `Terminal` or none.

Only model-checked: `Inode`, `FileData`, `Memory` and the shell, and `WaitersWake`.
Liveness and ENABLED are beyond the prover. `Memory` and the shell compute with
RECURSIVE operators (page tables, the parser), which it cannot load. `Inode` and
`FileData` speak of paths, trees and sums over block maps, whose proofs need
induction over data: the library's induction theorems take an operator as a
parameter, which the installed provers cannot instantiate. `Least` replaces them
where a single list is followed, but not for trees. The reference counts of
`Inode` (`RefsAreUses`) may not need it; their proof has not been attempted.

## Not modelled

- Boot code, the PLIC, `printf` and string functions: straight-line code, device
  registers and data movement without a state that the rest depends on.
- `push_off()` without a lock, as in `myproc()`, and more than two locks nested.
- The register handshake of `virtio_disk_init()`; the kernel's own page table,
  which is built once; the memory model of the hardware.
- In the shell: `nulterminate()` and `cd`; the end of the console's input. The
  argument strings of `exec()` are reduced to fitting on the stack or not.
- mkfs's byte order, superblock and directory entries; init's opening of the
  console.
- `umalloc.c`: the free list of a single-threaded process. It is a component of
  its own that nothing here depends on.
- The lab programs and the utilities: short users of the calls that are modelled.
  The test programs: read for what they expect of the kernel.
- Two files written by one process at the same time, several buffers held by one
  process in `Bcache`, several disks.

What would be worth adding next: the buffers of `Bcache` in place of `Log`'s cache,
and a proof for the reference counts of `Inode` (`RefsAreUses`).
