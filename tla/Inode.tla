-------------------------------- MODULE Inode --------------------------------
(***************************************************************************)
(* The inode layer, directories and the file system calls: kernel/fs.c     *)
(* from ialloc() to namex() and kernel/sysfile.c, run by several processes *)
(* with crashes in between.                                                *)
(*                                                                         *)
(* An action goes from one acquisition of a sleep-lock or of itable.lock   *)
(* to the next; what a process does to an inode it has locked is one step. *)
(* What a process has still to do is kept as a sequence of such steps.     *)
(* The log is what AtomicDisk promises: disk is what bread() returns,      *)
(* stable what a crash leaves.  A directory is a function from names, a    *)
(* path a sequence of names; device numbers, sizes and contents of files   *)
(* are left out (FileData has them).                                       *)
(***************************************************************************)
EXTENDS Integers, Sequences, FiniteSets, FiniteSetsExt, TLC

CONSTANTS Procs,
          Names,      \* of files and directories, without "." and ".."
          NINODES,    \* inodes on the disk, numbered from 1
          Image,      \* the dinodes at the start
          Calls,      \* the calls that each process makes, see start()
          MaxCalls,   \* bound on their number
          None

ROOTINO == 1
Inums == 1..NINODES
Slots == 1..NINODES                  \* itable.inode[], with room for every inode
Entries == Names \cup {".", ".."}

VARIABLES
  disk, stable,  \* dinodes: type, nlink and, of a directory, its entries
  slot,          \* itable: inum, ref, valid and the copy of type and nlink
  lock,          \* owner of ip->lock
  cwd, file,     \* p->cwd; the inode of the one file that p has open, or 0
  ops,           \* the processes between begin_op() and end_op()
  loc,           \* of each process: what it has still to do, its variables
  panicked,
  calls,         \* number of calls made
  orphans,       \* history: the inodes without links that a crash or a late ref-- left in use
  stale          \* history: a process has used a directory after its removal

fs == <<disk, stable>>
table == <<slot, lock>>
vars == <<fs, table, cwd, file, ops, loc, panicked, calls, orphans, stale>>

NoEntries == [n \in Entries |-> 0]
FreeInode == [type |-> "none", nlink |-> 0, ent |-> NoEntries]
FreeSlot == [inum |-> 0, ref |-> 0, valid |-> 0, type |-> "none", nlink |-> 0]
Idle == [todo |-> <<>>, op |-> None, path |-> <<>>, ip |-> 0, dp |-> 0,
         new |-> None, old |-> 0]

(* Memory after a boot. *)
Booted(sl, lk, cw, fi, op, lo) ==
  /\ sl = [x \in Slots |-> IF x = 1 THEN [FreeSlot EXCEPT !.inum = ROOTINO,
                                           !.ref = Cardinality(Procs)] ELSE FreeSlot]
  /\ lk = [x \in Slots |-> None]
  /\ cw = [p \in Procs |-> 1]
  /\ fi = [p \in Procs |-> 0]
  /\ op = {}
  /\ lo = [p \in Procs |-> Idle]

Init ==
  /\ disk = Image
  /\ stable = disk
  /\ Booted(slot, lock, cwd, file, ops, loc)
  /\ panicked = "no"
  /\ calls = 0
  /\ orphans = {}
  /\ stale = FALSE

------------------------------------------------------------------------------
(* Steps.  A step is a name and, for iput(), a slot. *)
At(p, step) == panicked = "no" /\ loc[p].todo # <<>> /\ Head(loc[p].todo)[1] = step
Arg(p) == Head(loc[p].todo)[2]
Rest(p) == Tail(loc[p].todo)
Do(p, todo, r) == loc' = [loc EXCEPT ![p] = r @@ [@ EXCEPT !.todo = todo]]
Return(p, todo) == Do(p, todo, <<>>)
Put(s) == << <<"iput", s>> >>
Unlock(s) == << <<"iunlock", s>> >>
Step(name) == << <<name, 0>> >>
EndOp == Step("end_op")

inum(s) == slot[s].inum
Inode(s) == disk[inum(s)]

dirlookup(d, n) == Inode(d).ent[n]
dirlink(dk, d, n, i) == [dk EXCEPT ![inum(d)].ent[n] = i]

(* iget(): the entry that has the inode, else an empty one.  There always is  *)
(* one here, so that panic("iget: no inodes") of a full table is left out.    *)
iget_slot(i) ==
  LET hit == {s \in Slots : slot[s].ref > 0 /\ slot[s].inum = i}
      empty == {s \in Slots : slot[s].ref = 0}
  IN  IF hit # {} THEN Min(hit) ELSE IF empty # {} THEN Min(empty) ELSE 0

iget(tbl, i) ==
  LET s == iget_slot(i) IN
  IF tbl[s].ref > 0 /\ tbl[s].inum = i THEN [tbl EXCEPT ![s].ref = @ + 1]
  ELSE [tbl EXCEPT ![s] = [FreeSlot EXCEPT !.inum = i, !.ref = 1]]

idup(tbl, s) == [tbl EXCEPT ![s].ref = @ + 1]

(* ilock(): waits for the lock, reads the inode if the copy is not valid. *)
ilocked(tbl, s) ==
  IF tbl[s].valid = 1 THEN tbl
  ELSE [tbl EXCEPT ![s].valid = 1, ![s].type = Inode(s).type, ![s].nlink = Inode(s).nlink]
can_lock(s) == lock[s] = None
ilock_panics(s) == slot[s].ref < 1 \/ ilocked(slot, s)[s].type = "none"

(* The inode that the next step of p locks, and the step that may run then. *)
target(p) == IF At(p, "bad") THEN loc[p].old ELSE loc[p].ip
Locks(p, step) == At(p, step) /\ can_lock(target(p)) /\ ~ilock_panics(target(p))
name(p) == Head(loc[p].path)

(* iupdate(): the dinode gets the nlink of the copy. *)
nlink_add(tbl, s, n) == [tbl EXCEPT ![s].nlink = @ + n]
iupdate_bug(d, tbl, s) == d
iupdate(d, tbl, s) == [d EXCEPT ![tbl[s].inum].nlink = tbl[s].nlink]

panic(why) == panicked' = why /\ UNCHANGED <<fs, table, cwd, file, ops, loc, calls, orphans, stale>>

ilock_panic(p) ==
  /\ \E step \in {"namex", "open", "create", "create_link", "unlink", "unlink_entry",
                   "link", "link_entry", "bad", "chdir"} : At(p, step)
  /\ can_lock(target(p)) /\ ilock_panics(target(p))
  /\ panic("ilock")

------------------------------------------------------------------------------
(* iput(): the last reference to an inode without links frees it; until the *)
(* inode is locked itable.lock is held, and a sleep-lock that is not free   *)
(* would make sched() panic.                                                *)
last_ref_off_bug(s) == slot[s].ref = 2 /\ slot[s].valid = 1 /\ slot[s].nlink = 0
last_ref_bug(s) == slot[s].valid = 1 /\ slot[s].nlink = 0
last_ref(s) == slot[s].ref = 1 /\ slot[s].valid = 1 /\ slot[s].nlink = 0
deref(s) == IF slot[s].ref = 1 THEN [slot EXCEPT ![s] = FreeSlot]
                               ELSE [slot EXCEPT ![s].ref = @ - 1]

iput(p) ==
  LET s == Arg(p) IN
  /\ At(p, "iput")
  /\ ~last_ref(s)
  /\ slot' = deref(s)
  /\ Return(p, Rest(p))
  /\ UNCHANGED <<fs, lock, cwd, file, ops, panicked, calls, orphans, stale>>

iput_last(p) ==
  LET s == Arg(p) IN
  /\ At(p, "iput")
  /\ last_ref(s)
  /\ IF ~can_lock(s) THEN panic("iput")
     ELSE /\ lock' = [lock EXCEPT ![s] = p]
          /\ Return(p, << <<"ifree", s>> >> \o Rest(p))
          /\ UNCHANGED <<fs, slot, cwd, file, ops, panicked, calls, orphans, stale>>

(* itrunc(), ip->type = 0, iupdate(), ip->valid = 0, releasesleep(). *)
ifree(p) ==
  LET s == Arg(p) IN
  /\ At(p, "ifree")
  /\ disk' = [disk EXCEPT ![inum(s)] = FreeInode]
  /\ slot' = [slot EXCEPT ![s].valid = 0, ![s].type = "none", ![s].nlink = 0]
  /\ lock' = [lock EXCEPT ![s] = None]
  /\ Return(p, << <<"deref", s>> >> \o Rest(p))
  /\ UNCHANGED <<stable, cwd, file, ops, panicked, calls, orphans, stale>>

(* ref-- after the freeing does not look at nlink again: an inode that was  *)
(* allocated and given up meanwhile is left behind.                         *)
iput_deref(p) ==
  LET s == Arg(p)  i == inum(s) IN
  /\ At(p, "deref")
  /\ slot' = deref(s)
  /\ orphans' = IF slot[s].ref = 1 /\ disk[i].type # "none" /\ disk[i].nlink = 0
                THEN orphans \cup {i} ELSE orphans
  /\ Return(p, Rest(p))
  /\ UNCHANGED <<fs, lock, cwd, file, ops, panicked, calls, stale>>

iunlock(p) ==
  /\ At(p, "iunlock")
  /\ lock' = [lock EXCEPT ![Arg(p)] = None]
  /\ Return(p, Rest(p))
  /\ UNCHANGED <<fs, slot, cwd, file, ops, panicked, calls, orphans, stale>>

------------------------------------------------------------------------------
(* namex(): from the root or p->cwd, then one directory after the other.   *)
nameiparent(p) == loc[p].op \in {"create", "mkdir", "mknod", "unlink"} \/ loc[p].old # 0
Fail(p) == IF loc[p].old # 0 THEN Step("bad") ELSE EndOp

Namex(p, parent, s, path, rest) ==
  IF path # <<>> THEN Step("namex") \o rest
  ELSE IF parent THEN Put(s) \o Fail(p) ELSE rest

namex_start(p, path, parent, rest, r) ==
  LET s == IF path.abs THEN iget_slot(ROOTINO) ELSE cwd[p] IN
  /\ slot' = IF path.abs THEN iget(slot, ROOTINO) ELSE idup(slot, s)
  /\ Do(p, Namex(p, parent, s, path.elems, rest), r @@ [ip |-> s, path |-> path.elems])

namex(p) ==
  LET s == loc[p].ip
      tbl == ilocked(slot, s)
      i == dirlookup(s, name(p))
  IN
  /\ Locks(p, "namex")
  /\ \/ /\ tbl[s].type # "dir" \/ (~(nameiparent(p) /\ Len(loc[p].path) = 1) /\ i = 0)
        /\ slot' = tbl
        /\ Return(p, Put(s) \o Fail(p))
     \/ /\ tbl[s].type = "dir" /\ nameiparent(p) /\ Len(loc[p].path) = 1
        /\ slot' = tbl
        /\ Return(p, Rest(p))
     \/ /\ tbl[s].type = "dir" /\ ~(nameiparent(p) /\ Len(loc[p].path) = 1) /\ i # 0
        /\ slot' = iget(tbl, i)
        /\ LET t == iget_slot(i)  path == Tail(loc[p].path) IN
           Do(p, Put(s) \o Namex(p, nameiparent(p), t, path, Rest(p)), [ip |-> t, path |-> path])
  /\ stale' = (stale \/ (name(p) = ".." /\ tbl[s].nlink = 0))
  /\ UNCHANGED <<fs, lock, cwd, file, ops, panicked, calls, orphans>>

begin_op(p) == ops \cup {p}

(* A system call: begin_op() and the start of its first path walk.  "create" *)
(* is open() with O_CREATE | O_RDWR, "open" is open() with O_RDONLY.         *)
start(p, c) ==
  LET op == c.op
      step == IF op \in {"mkdir", "mknod"} THEN "create" ELSE op
  IN
  /\ panicked = "no" /\ loc[p] = Idle /\ calls < MaxCalls
  /\ calls' = calls + 1
  /\ ops' = begin_op(p)
  /\ namex_start(p, c.path, op \notin {"open", "link", "chdir"}, Step(step),
                 [op |-> op, new |-> c.new])
  /\ UNCHANGED <<fs, lock, cwd, file, panicked, orphans, stale>>

end_op(p) ==
  /\ At(p, "end_op")
  /\ ops' = ops \ {p}
  /\ stable' = IF ops' = {} THEN disk ELSE stable
  /\ loc' = [loc EXCEPT ![p] = Idle]
  /\ UNCHANGED <<disk, table, cwd, file, panicked, calls, orphans, stale>>

(* The end of sys_open() with the inode locked: filealloc() and fdalloc()    *)
(* find room for one open file of each process.                              *)
opened_bug(p, s, ok) ==
  file' = (IF ok THEN [file EXCEPT ![p] = s] ELSE file) /\ Return(p, EndOp)
opened(p, s, ok) ==
  IF ok THEN file' = [file EXCEPT ![p] = s] /\ Return(p, EndOp)
        ELSE file' = file /\ Return(p, Put(s) \o EndOp)

(* The inode of an existing name; create() wants a file or a device for      *)
(* T_FILE and returns 0 to mkdir() and mknod().                              *)
open(p) ==
  LET s == loc[p].ip IN
  /\ Locks(p, "open")
  /\ slot' = ilocked(slot, s)
  /\ opened(p, s, file[p] = 0 /\ (loc[p].op = "open" \/ (loc[p].op = "create" /\ slot'[s].type # "dir")))
  /\ UNCHANGED <<fs, lock, cwd, ops, panicked, calls, orphans, stale>>

(* create() up to ialloc(): the name exists, or no inode is free, or one is  *)
(* allocated with the directory still locked.                                *)
ialloc == {i \in Inums : disk[i].type = "none"}
ialloc_type(p) ==
  CASE loc[p].op = "create" -> "file" [] loc[p].op = "mkdir" -> "dir" [] OTHER -> "dev"

create(p) ==
  LET d == loc[p].ip
      i == dirlookup(d, name(p))
      tbl == ilocked(slot, d)
  IN
  /\ Locks(p, "create")
  /\ \/ /\ i # 0
        /\ slot' = iget(tbl, i)
        /\ Do(p, Put(d) \o Step("open"), [ip |-> iget_slot(i)])
        /\ UNCHANGED <<disk, lock>>
     \/ /\ i = 0 /\ ialloc = {}
        /\ slot' = tbl
        /\ Return(p, Put(d) \o EndOp)
        /\ UNCHANGED <<disk, lock>>
     \/ /\ i = 0 /\ ialloc # {}
        /\ slot' = iget(tbl, Min(ialloc))
        /\ lock' = [lock EXCEPT ![d] = p]
        /\ disk' = [disk EXCEPT ![Min(ialloc)].type = ialloc_type(p)]
        /\ Do(p, Step("create_link"), [ip |-> iget_slot(Min(ialloc)), dp |-> d])
  /\ UNCHANGED <<stable, cwd, file, ops, panicked, calls, orphans, stale>>

(* dirlink() fails when the directory needs a block and the disk is full. *)
create_link(p) ==
  LET s == loc[p].ip
      d == loc[p].dp
      made == nlink_add(ilocked(slot, s), s, 1)
      dir == made[s].type = "dir"
  IN
  /\ Locks(p, "create_link")
  /\ \/ /\ slot' = IF dir THEN nlink_add(made, d, 1) ELSE made
        /\ LET dots == IF dir THEN dirlink(dirlink(disk, s, ".", inum(s)), s, "..", inum(d))
                             ELSE disk
           IN  disk' = dirlink(iupdate(iupdate(dots, slot', s), slot', d), d, name(p), inum(s))
        /\ lock' = [lock EXCEPT ![d] = None, ![s] = p]
        /\ stale' = (stale \/ slot[d].nlink = 0)
        /\ Return(p, Put(d) \o Step(IF loc[p].op = "create" THEN "created" ELSE "made"))
     \/ /\ slot' = ilocked(slot, s)
        /\ Return(p, Put(s) \o Unlock(d) \o Put(d) \o EndOp)
        /\ UNCHANGED <<disk, lock, stale>>
  /\ UNCHANGED <<stable, cwd, file, ops, panicked, calls, orphans>>

created(p) ==
  LET s == loc[p].ip IN
  /\ At(p, "created")
  /\ lock' = [lock EXCEPT ![s] = None]
  /\ opened(p, s, file[p] = 0)
  /\ UNCHANGED <<fs, slot, cwd, ops, panicked, calls, orphans, stale>>

(* sys_mkdir() and sys_mknod() after create(). *)
made(p) ==
  LET s == loc[p].ip IN
  /\ At(p, "made")
  /\ lock' = [lock EXCEPT ![s] = None]
  /\ Return(p, Put(s) \o EndOp)
  /\ UNCHANGED <<fs, slot, cwd, file, ops, panicked, calls, orphans, stale>>

------------------------------------------------------------------------------
(* sys_unlink(): the directory is locked, then the inode. *)
unlink(p) ==
  LET d == loc[p].ip
      i == dirlookup(d, name(p))
      tbl == ilocked(slot, d)
  IN
  /\ Locks(p, "unlink")
  /\ \/ /\ name(p) \in {".", ".."} \/ i = 0
        /\ slot' = tbl
        /\ Return(p, Put(d) \o EndOp)
        /\ UNCHANGED lock
     \/ /\ name(p) \notin {".", ".."} /\ i # 0
        /\ slot' = iget(tbl, i)
        /\ lock' = [lock EXCEPT ![d] = p]
        /\ Do(p, Step("unlink_entry"), [ip |-> iget_slot(i), dp |-> d])
  /\ UNCHANGED <<fs, cwd, file, ops, panicked, calls, orphans, stale>>

isdirempty(i) == \A n \in Names : disk[i].ent[n] = 0

unlink_entry(p) ==
  LET s == loc[p].ip
      d == loc[p].dp
      tbl == ilocked(slot, s)
      dir == tbl[s].type = "dir"
  IN
  /\ Locks(p, "unlink_entry")
  /\ IF tbl[s].nlink < 1 THEN panic("unlink") ELSE
     \/ /\ dir /\ ~isdirempty(inum(s))
        /\ slot' = tbl
        /\ Return(p, Put(s) \o Unlock(d) \o Put(d) \o EndOp)
        /\ UNCHANGED <<disk, lock, panicked, calls, orphans>>
     \/ /\ ~(dir /\ ~isdirempty(inum(s)))
        /\ slot' = IF dir THEN nlink_add(tbl, d, -1) ELSE tbl
        /\ disk' = dirlink(iupdate(disk, slot', d), d, name(p), 0)
        /\ lock' = [lock EXCEPT ![d] = None, ![s] = p]
        /\ Return(p, Put(d) \o Step("unlink_nlink"))
        /\ UNCHANGED panicked
  /\ UNCHANGED <<stable, cwd, file, ops, calls, orphans, stale>>

unlink_nlink(p) ==
  LET s == loc[p].ip IN
  /\ At(p, "unlink_nlink")
  /\ slot' = nlink_add(slot, s, -1)
  /\ disk' = iupdate(disk, slot', s)
  /\ lock' = [lock EXCEPT ![s] = None]
  /\ Return(p, Put(s) \o EndOp)
  /\ UNCHANGED <<stable, cwd, file, ops, panicked, calls, orphans, stale>>

------------------------------------------------------------------------------
(* sys_link(): the count goes up first, with the inode unlocked again before *)
(* the directory of the new name is looked for; "bad" takes it back.         *)
link_keeps_bug(p, s) == [lock EXCEPT ![s] = p]
link_keeps(p, s) == lock

link(p) ==
  LET s == loc[p].ip
      tbl == ilocked(slot, s)
  IN
  /\ Locks(p, "link")
  /\ IF tbl[s].type = "dir"
     THEN /\ slot' = tbl
          /\ Return(p, Put(s) \o EndOp)
          /\ UNCHANGED <<disk, lock>>
     ELSE /\ slot' = nlink_add(tbl, s, 1)
          /\ disk' = iupdate(disk, slot', s)
          /\ lock' = link_keeps(p, s)
          /\ Do(p, Step("link_new"), [old |-> s])
  /\ UNCHANGED <<stable, cwd, file, ops, panicked, calls, orphans, stale>>

link_new(p) ==
  /\ At(p, "link_new")
  /\ namex_start(p, loc[p].new, TRUE, Step("link_entry"), <<>>)
  /\ UNCHANGED <<fs, lock, cwd, file, ops, panicked, calls, orphans, stale>>

link_entry(p) ==
  LET d == loc[p].ip
      i == dirlookup(d, name(p))
      tbl == ilocked(slot, d)
  IN
  /\ Locks(p, "link_entry")
  /\ \/ /\ i # 0
        /\ slot' = iget(tbl, i)
        /\ lock' = [lock EXCEPT ![d] = p]
        /\ Return(p, Put(iget_slot(i)) \o Unlock(d) \o Put(d) \o Step("bad"))
        /\ UNCHANGED <<disk, stale>>
     \/ /\ i = 0
        /\ slot' = tbl
        /\ Return(p, Put(d) \o Step("bad"))
        /\ UNCHANGED <<disk, lock, stale>>
     \/ /\ i = 0
        /\ slot' = tbl
        /\ disk' = dirlink(disk, d, name(p), inum(loc[p].old))
        /\ stale' = (stale \/ tbl[d].nlink = 0)
        /\ Return(p, Put(d) \o Put(loc[p].old) \o EndOp)
        /\ UNCHANGED lock
  /\ UNCHANGED <<stable, cwd, file, ops, panicked, calls, orphans>>

bad(p) ==
  LET s == loc[p].old IN
  /\ Locks(p, "bad")
  /\ slot' = nlink_add(ilocked(slot, s), s, -1)
  /\ disk' = iupdate(disk, slot', s)
  /\ Return(p, Put(s) \o EndOp)
  /\ UNCHANGED <<stable, lock, cwd, file, ops, panicked, calls, orphans, stale>>

(* sys_chdir(): the old directory is put, the new one kept after end_op(). *)
chdir(p) ==
  LET s == loc[p].ip IN
  /\ Locks(p, "chdir")
  /\ slot' = ilocked(slot, s)
  /\ Return(p, IF slot'[s].type # "dir" THEN Put(s) \o EndOp
                                       ELSE Put(cwd[p]) \o Step("chdir_end"))
  /\ UNCHANGED <<fs, lock, cwd, file, ops, panicked, calls, orphans, stale>>

chdir_end(p) ==
  /\ At(p, "chdir_end")
  /\ ops' = ops \ {p}
  /\ stable' = IF ops' = {} THEN disk ELSE stable
  /\ cwd' = [cwd EXCEPT ![p] = loc[p].ip]
  /\ loc' = [loc EXCEPT ![p] = Idle]
  /\ UNCHANGED <<disk, table, file, panicked, calls, orphans, stale>>

(* fileclose() of the last reference; fileread() and filestat() lock the *)
(* inode, which must not have been freed.                                *)
fileclose(p) ==
  /\ panicked = "no" /\ loc[p] = Idle /\ file[p] # 0
  /\ file' = [file EXCEPT ![p] = 0]
  /\ ops' = begin_op(p)
  /\ Return(p, Put(file[p]) \o EndOp)
  /\ UNCHANGED <<fs, table, cwd, panicked, calls, orphans, stale>>

filestat(p) ==
  LET s == file[p] IN
  /\ panicked = "no" /\ loc[p] = Idle /\ s # 0 /\ can_lock(s)
  /\ IF ilock_panics(s) THEN panic("ilock")
     ELSE slot' = ilocked(slot, s) /\ UNCHANGED <<fs, lock, cwd, file, ops, loc, panicked, calls, orphans, stale>>

crash ==
  /\ panicked = "no"
  /\ disk' = stable
  /\ Booted(slot', lock', cwd', file', ops', loc')
  /\ orphans' = {i \in Inums : stable[i].type # "none" /\ stable[i].nlink = 0}
  /\ UNCHANGED <<stable, panicked, calls, stale>>

(* After a panic the machine stays where it is until it is switched off. *)
halted == panicked # "no" /\ UNCHANGED vars

Next ==
  \/ \E p \in Procs :
       \/ \E c \in Calls[p] : start(p, c)
       \/ end_op(p) \/ ilock_panic(p) \/ iput(p) \/ iput_last(p) \/ ifree(p)
       \/ iput_deref(p) \/ iunlock(p) \/ namex(p) \/ open(p) \/ create(p)
       \/ create_link(p) \/ created(p) \/ made(p) \/ unlink(p)
       \/ unlink_entry(p) \/ unlink_nlink(p) \/ link(p) \/ link_new(p)
       \/ link_entry(p) \/ bad(p) \/ chdir(p) \/ chdir_end(p)
       \/ fileclose(p) \/ filestat(p)
  \/ crash
  \/ halted

Spec == Init /\ [][Next]_vars

------------------------------------------------------------------------------
(* Unless a removed directory was used, the disk that a crash leaves is a     *)
(* tree: the entries of a linked directory name linked inodes, an inode's     *)
(* nlink is the number of entries of linked directories that name it ("." is  *)
(* not counted), and a directory is in the directory that its ".." names.     *)
Linked == {i \in Inums : stable[i].nlink > 0}
Links(i) == {<<d, n>> \in Linked \X (Entries \ {"."}) : stable[d].ent[n] = i}
Clean ==
  stale \/ \A i \in Inums :
    /\ stable[i].nlink = Cardinality(Links(i))
    /\ i \in Linked => /\ stable[i].type # "none"
                        /\ \A n \in Entries : stable[i].ent[n] \in Linked \cup {0}
    /\ (i \in Linked \ {ROOTINO} /\ stable[i].type = "dir") =>
         \E n \in Names : stable[stable[i].ent[".."]].ent[n] = i

(* When no call is running every reference of the inode table is a current    *)
(* directory or an open file, no inode is locked and none has two entries,    *)
(* whatever calls failed before.                                              *)
RefsAreUses ==
  (panicked = "no" /\ \A p \in Procs : loc[p] = Idle) =>
    \A s \in Slots :
      /\ slot[s].ref = Cardinality({p \in Procs : cwd[p] = s})
                        + Cardinality({p \in Procs : file[p] = s})
      /\ lock[s] = None
      /\ slot[s].ref > 0 => \A t \in Slots : inum(t) = inum(s) => t = s

(* "If that was the last reference and the inode has no links to it, free the *)
(* inode (and its content) on disk" (iput()): when no call is running, a used *)
(* inode without links has a reference left, unless a crash lost it, the      *)
(* inode was linked in a removed directory, or it was given up between the    *)
(* freeing and the ref-- of another iput() of its entry: there is no other    *)
(* way to leak an inode.                                                      *)
FreedWithLastRef ==
  (panicked = "no" /\ ~stale /\ \A p \in Procs : loc[p] = Idle) =>
    \A i \in Inums \ orphans :
      (disk[i].type # "none" /\ disk[i].nlink = 0) => \E s \in Slots : inum(s) = i

(* No process locks a freed inode, frees one that another has locked, or     *)
(* finds an entry to an inode without links, unless through a removed        *)
(* directory.                                                                *)
NoPanic == panicked = "no" \/ stale

(* Some process with a call in progress can go on: the directory is always   *)
(* locked before what is in it, and link() holds one lock at a time.         *)
Blocked(p) == \E step \in {"namex", "open", "create", "create_link", "unlink",
                            "unlink_entry", "link", "link_entry", "bad", "chdir"} :
                At(p, step) /\ ~can_lock(target(p))
NoDeadlock ==
  (\E p \in Procs : loc[p] # Idle) => \E p \in Procs : loc[p] # Idle /\ ~Blocked(p)

==============================================================================
