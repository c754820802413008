------------------------------- MODULE FileData -------------------------------
(***************************************************************************)
(* What files contain: the block bitmap, the block map of an inode and     *)
(* reading, writing and truncating (kernel/fs.c, kernel/file.c), on the    *)
(* image that mkfs/mkfs.c built.                                           *)
(*                                                                         *)
(* A process works on one file at a time with its inode locked, so that a  *)
(* process is named by its file; the bitmap is all that two of them share. *)
(* An action is one pass of writei()'s loop.  A block is BSIZE small       *)
(* numbers; mem is what bread() returns and home what has been logged: a   *)
(* buffer that was changed but not logged may be dropped from the cache.   *)
(* Unsigned integers are numbers modulo UINT.  Crashes are Log's concern:  *)
(* between two transactions the disk is what BlocksOnce describes.         *)
(***************************************************************************)
EXTENDS Integers, Sequences, FiniteSets, FiniteSetsExt

CONSTANTS Files, RootFile,  \* inodes; the one of the root directory
          FSSIZE,           \* blocks; block 0 stands for boot block to bitmap
          BSIZE, NDIRECT, NINDIRECT, MAXOPBLOCKS, UINT,
          RootBytes,        \* what mkfs appends to the root directory
          Sizes,            \* of the other files in the image
          Lens,             \* lengths of write() calls
          MaxWrites,        \* bound on the number of write() calls
          None

(* fs.h has NINDIRECT entries in a block.  mkfs rounds the size of the root   *)
(* directory up to the next block and leaves that block unmapped when the     *)
(* directory has filled the last one.                                         *)
ASSUME Layout == NINDIRECT = BSIZE /\ RootBytes % BSIZE # 0

MAXFILE == NDIRECT + NINDIRECT
DataBlocks == 1..(FSSIZE - 1)
Bytes == 0..(BSIZE - 1)
Zeroes == [i \in Bytes |-> 0]
Image0 == [b \in DataBlocks |-> Zeroes]
Empty == [size |-> 0, addrs |-> [i \in 0..NDIRECT |-> 0]]

VARIABLES
  mkfs,       \* the files that mkfs has still to append to
  freeblock,  \* of mkfs
  bitmap,     \* the blocks marked in use
  dinode,     \* inodes on disk
  inode,      \* their copies in the inode table
  mem, home,  \* data blocks in the cache, and as logged
  off,        \* f->off
  w,          \* write() in progress on a file: n, i, n1, tot, v; else None
  logged,     \* the blocks logged by its transaction
  writes,     \* history: number of write() calls, the byte that a call writes
  want,       \* history: the values that each byte of a file may have
  panicked

blocks == <<bitmap, mem, home>>
vars == <<mkfs, freeblock, blocks, dinode, inode, off, w, logged, writes, want, panicked>>

NoBytes == [x \in 0..(MAXFILE * BSIZE - 1) |-> {0}]

Init ==
  /\ mkfs = Files
  /\ freeblock = 1
  /\ bitmap = {}
  /\ dinode = [f \in Files |-> Empty]
  /\ inode = dinode
  /\ mem = Image0
  /\ home = Image0
  /\ off = [f \in Files |-> 0]
  /\ w = [f \in Files |-> None]
  /\ logged = [f \in Files |-> {}]
  /\ writes = 0
  /\ want = [f \in Files |-> NoBytes]
  /\ panicked = FALSE

------------------------------------------------------------------------------
(* mkfs: iappend() of n bytes to an empty inode.  nth(k) is where its k'th    *)
(* block goes: the indirect block is taken before the first block in it.      *)
BlocksFor(n) == (n + BSIZE - 1) \div BSIZE
nth(k) == freeblock + k + (IF k < NDIRECT THEN 0 ELSE 1)

iappend(n) ==
  LET nb == BlocksFor(n) IN
  [addrs |-> [k \in 0..NDIRECT |->
                IF k < NDIRECT THEN (IF k < nb THEN nth(k) ELSE 0)
                ELSE IF nb > NDIRECT THEN freeblock + NDIRECT ELSE 0],
   data |-> [b \in DataBlocks |->
               CASE nb > NDIRECT /\ b = freeblock + NDIRECT ->
                      [j \in Bytes |-> IF NDIRECT + j < nb THEN nth(NDIRECT + j) ELSE 0]
                 [] \E k \in 0..(nb - 1) : b = nth(k) ->
                      LET k == CHOOSE k \in 0..(nb - 1) : b = nth(k)
                      IN  [j \in Bytes |-> IF k * BSIZE + j < n THEN 1 ELSE 0]
                 [] OTHER -> mem[b]],
   next |-> freeblock + nb + (IF nb > NDIRECT THEN 1 ELSE 0)]

(* main()'s loop over the files, which fit on the disk; the size of the root  *)
(* is rounded up.  The bitmap is written last: balloc(freeblock).             *)
mkfs_file(f, n) ==
  LET r == iappend(n)
      size == IF f = RootFile THEN (n \div BSIZE + 1) * BSIZE ELSE n
  IN
  /\ f \in mkfs
  /\ mkfs' = mkfs \ {f}
  /\ r.next <= FSSIZE
  /\ freeblock' = r.next
  /\ mem' = r.data /\ home' = r.data
  /\ dinode' = [dinode EXCEPT ![f] = [size |-> size, addrs |-> r.addrs]]
  /\ inode' = dinode'
  /\ bitmap' = IF mkfs' = {} THEN 1..(r.next - 1) ELSE bitmap
  /\ want' = [want EXCEPT ![f] = [x \in DOMAIN @ |-> IF x < n THEN {1} ELSE @[x]]]
  /\ UNCHANGED <<off, w, logged, writes, panicked>>

------------------------------------------------------------------------------
(* The state that balloc() and bmap() work on: the bitmap, the inode, the     *)
(* blocks, the blocks logged, and the address that they return.               *)
Disk(f) == [bm |-> bitmap, ip |-> inode[f], mem |-> mem, home |-> home,
            lg |-> logged[f], addr |-> 0]

log_write_bug(S, b) == [S EXCEPT !.lg = @ \cup {b}]
log_write(S, b) == [S EXCEPT !.home[b] = S.mem[b], !.lg = @ \cup {b}]
bzero(S, b) == log_write([S EXCEPT !.mem[b] = Zeroes], b)

balloc(S) ==
  LET free == DataBlocks \ S.bm IN
  IF free = {} THEN [S EXCEPT !.addr = 0]
  ELSE bzero([S EXCEPT !.bm = @ \cup {Min(free)}, !.lg = @ \cup {0}, !.addr = Min(free)],
             Min(free))

bmap_inode(S, k) ==
  IF S.ip.addrs[k] # 0 THEN [S EXCEPT !.addr = S.ip.addrs[k]]
  ELSE LET T == balloc(S) IN [T EXCEPT !.ip.addrs[k] = T.addr]

bmap_indirect(S, k) ==
  LET ind == S.addr IN
  IF S.mem[ind][k] # 0 THEN [S EXCEPT !.addr = S.mem[ind][k]]
  ELSE LET T == balloc(S) IN
       IF T.addr = 0 THEN T ELSE log_write([T EXCEPT !.mem[ind][k] = T.addr], ind)

bmap(S, bn) ==
  IF bn < NDIRECT THEN bmap_inode(S, bn)
  ELSE LET T == bmap_inode(S, NDIRECT) IN
       IF T.addr = 0 THEN T ELSE bmap_indirect(T, bn - NDIRECT)

------------------------------------------------------------------------------
(* filewrite(): chunks of at most max bytes, a transaction for each.          *)
max_bug == (MAXOPBLOCKS - 2) * BSIZE
max == ((MAXOPBLOCKS - 1 - 1 - 2) \div 2) * BSIZE

(* writei()'s checks; a chunk that fails them makes write() return -1.        *)
writei_fails(size, o, n) ==
  o > size \/ (o + n) % UINT < o \/ (o + n) % UINT > MAXFILE * BSIZE

Chunk(size, o, n, i, v) ==
  LET n1 == IF n - i > max THEN max ELSE n - i IN
  IF i >= n \/ writei_fails(size, o, n1) THEN None
  ELSE [n |-> n, i |-> i, n1 |-> n1, tot |-> 0, v |-> v]

filewrite(f, n) ==
  /\ mkfs = {} /\ w[f] = None /\ writes < MaxWrites
  /\ writes' = writes + 1
  /\ w' = [w EXCEPT ![f] = Chunk(inode[f].size, off[f], n, 0, writes + 2)]
  /\ UNCHANGED <<mkfs, freeblock, blocks, dinode, inode, off, logged, want, panicked>>

(* One pass of writei()'s loop: copied bytes of the m reach the buffer, all   *)
(* of them unless the copy fails.                                             *)
pass(n, o) == Min({n, BSIZE - (o % BSIZE)})

writei_pass(f) ==
  LET c == w[f]
      o == off[f] + c.tot
      S == bmap(Disk(f), o \div BSIZE)
      m == pass(c.n1 - c.tot, o)
      put(k) == [S EXCEPT !.mem[S.addr] =
                   [j \in Bytes |-> IF j >= o % BSIZE /\ j < (o % BSIZE) + k THEN c.v ELSE @[j]]]
      written(k, V) == [want EXCEPT ![f] =
                          [x \in DOMAIN @ |-> IF x >= o /\ x < o + k THEN {c.v} \cup (@[x] \cap V)
                                                                    ELSE @[x]]]
      step(T) == /\ bitmap' = T.bm /\ mem' = T.mem /\ home' = T.home
                 /\ inode' = [inode EXCEPT ![f] = T.ip]
                 /\ logged' = [logged EXCEPT ![f] = T.lg]
      broke == [w EXCEPT ![f].n1 = -1]
  IN
  /\ w[f] # None /\ c.tot < c.n1
  /\ \/ /\ S.addr = 0
        /\ step(S) /\ w' = broke /\ UNCHANGED want
     \/ /\ S.addr # 0
        /\ \E k \in 0..(m - 1) : step(put(k)) /\ want' = written(k, 0..c.v)
        /\ w' = broke
     \/ /\ S.addr # 0
        /\ step(log_write(put(m), S.addr))
        /\ want' = written(m, {})
        /\ w' = [w EXCEPT ![f].tot = @ + m]
  /\ UNCHANGED <<mkfs, freeblock, dinode, off, writes, panicked>>

(* The end of writei(): size and iupdate(); filewrite() goes on with the next *)
(* chunk or returns.                                                          *)
iupdates_bug(f, size) == size # inode[f].size
iupdates(f, size) == TRUE

writei_end(f) ==
  LET c == w[f]
      o == off[f] + c.tot
      size == Max({inode[f].size, o})
  IN
  /\ w[f] # None /\ c.tot >= c.n1
  /\ inode' = [inode EXCEPT ![f].size = size]
  /\ dinode' = IF iupdates(f, size) THEN [dinode EXCEPT ![f] = inode'[f]] ELSE dinode
  /\ off' = [off EXCEPT ![f] = o]
  /\ w' = [w EXCEPT ![f] = IF c.n1 = -1 THEN None ELSE Chunk(size, o, c.n, c.i + c.tot, c.v)]
  /\ logged' = [logged EXCEPT ![f] = {}]
  /\ UNCHANGED <<mkfs, freeblock, blocks, writes, want, panicked>>

(* itrunc(), for open() with O_TRUNC: off is 0 then, as after every open().   *)
(* Freeing a free block is a panic.                                           *)
itrunc_blocks(f) ==
  LET a == inode[f].addrs
      ind == IF a[NDIRECT] = 0 THEN {} ELSE {mem[a[NDIRECT]][j] : j \in Bytes}
  IN  ({a[k] : k \in 0..NDIRECT} \cup ind) \ {0}

open_trunc(f) ==
  /\ mkfs = {} /\ w[f] = None
  /\ panicked' = ~(itrunc_blocks(f) \subseteq bitmap)
  /\ bitmap' = bitmap \ itrunc_blocks(f)
  /\ inode' = [inode EXCEPT ![f] = Empty]
  /\ dinode' = [dinode EXCEPT ![f] = Empty]
  /\ off' = [off EXCEPT ![f] = 0]
  /\ UNCHANGED <<mkfs, freeblock, mem, home, w, logged, writes, want>>

open(f) ==
  /\ mkfs = {} /\ w[f] = None /\ off[f] # 0
  /\ off' = [off EXCEPT ![f] = 0]
  /\ UNCHANGED <<mkfs, freeblock, blocks, dinode, inode, w, logged, writes, want, panicked>>

(* The cache drops a buffer, the inode table an inode. *)
evict(b) ==
  /\ mem[b] # home[b]
  /\ mem' = [mem EXCEPT ![b] = home[b]]
  /\ UNCHANGED <<mkfs, freeblock, bitmap, home, dinode, inode, off, w, logged, writes, want, panicked>>

forget(f) ==
  /\ w[f] = None
  /\ inode' = [inode EXCEPT ![f] = dinode[f]]
  /\ UNCHANGED <<mkfs, freeblock, blocks, dinode, off, w, logged, writes, want, panicked>>

------------------------------------------------------------------------------
(* readi() for n bytes at o: the bytes, pass by pass.  addr = 0 would make it *)
(* allocate the block.                                                        *)
addr(f, bn) ==
  LET a == inode[f].addrs IN
  IF bn < NDIRECT THEN a[bn] ELSE IF a[NDIRECT] = 0 THEN 0 ELSE mem[a[NDIRECT]][bn - NDIRECT]

readi(f, o, n) ==
  LET size == inode[f].size
      sum == (o + n) % UINT
      copy[x \in 0..(MAXFILE * BSIZE), k \in 0..(MAXFILE * BSIZE)] ==
        IF k = 0 \/ addr(f, x \div BSIZE) = 0 THEN <<>>
        ELSE LET m == pass(k, x)
             IN  [j \in 1..m |-> mem[addr(f, x \div BSIZE)][(x % BSIZE) + j - 1]] \o copy[x + m, k - m]
  IN  IF o > size \/ sum < o THEN <<>> ELSE copy[o, IF sum > size THEN size - o ELSE n]

(* fileread() moves the offset by what was read, unless copyout() fails. *)
fileread(f, n) ==
  /\ mkfs = {} /\ w[f] = None
  /\ off' = [off EXCEPT ![f] = @ + Len(readi(f, @, n))]
  /\ UNCHANGED <<mkfs, freeblock, blocks, dinode, inode, w, logged, writes, want, panicked>>

Reads == Lens \cup {UINT - 1}

Next ==
  \/ \E f \in Files :
       \/ \E n \in (IF f = RootFile THEN {RootBytes} ELSE Sizes) : mkfs_file(f, n)
       \/ \E n \in Lens : filewrite(f, n)
       \/ writei_pass(f) \/ writei_end(f) \/ open_trunc(f) \/ open(f) \/ forget(f)
       \/ \E n \in Reads : fileread(f, n)
  \/ \E b \in DataBlocks : evict(b)

Spec == Init /\ [][Next]_vars

------------------------------------------------------------------------------
(* What read() returns, for every offset and length, is the right number of   *)
(* bytes, and each one was the last to be written there (or one of a write()  *)
(* whose copy failed since); no block below the size is missing, so that      *)
(* readi(), which may run outside of a transaction, allocates nothing.        *)
ReadBack ==
  \A f \in Files : (mkfs = {} /\ w[f] = None) =>
    \A o \in 0..(MAXFILE * BSIZE), n \in Reads :
      LET r == readi(f, o, n)
          left == Max({0, inode[f].size - o})
      IN  /\ Len(r) = IF n + o >= UINT /\ o > 0 THEN 0 ELSE Min({n, left})
          /\ \A j \in 1..Len(r) : r[j] \in want[f][o + j - 1]

(* Between transactions the bitmap marks exactly the blocks that the inodes   *)
(* on disk use, and no block is used twice: nothing leaks when writei() fails *)
(* half way, and itrunc() never finds a free block.                           *)
Uses(f) ==
  LET a == dinode[f].addrs IN
  {<<f, "inode", k>> : k \in {k \in 0..NDIRECT : a[k] # 0}}
  \cup (IF a[NDIRECT] = 0 THEN {}
        ELSE {<<f, "indirect", j>> : j \in {j \in Bytes : home[a[NDIRECT]][j] # 0}})
BlockOf(u) ==
  LET a == dinode[u[1]].addrs IN IF u[2] = "inode" THEN a[u[3]] ELSE home[a[NDIRECT]][u[3]]
BlocksOnce ==
  /\ ~panicked
  /\ (mkfs = {} /\ \A f \in Files : w[f] = None) =>
       LET U == UNION {Uses(f) : f \in Files} IN
       /\ {BlockOf(u) : u \in U} = bitmap
       /\ Cardinality(U) = Cardinality(bitmap)

(* Every transaction of filewrite() logs fewer blocks than begin_op()         *)
(* reserved, the inode's block included ("to avoid exceeding the maximum log  *)
(* transaction size"): one less, because the log's header takes a block.      *)
OpFits == \A f \in Files : Cardinality(logged[f]) + 1 < MAXOPBLOCKS
==============================================================================
