------------------------------ MODULE Blocks ------------------------------
(***************************************************************************)
(* The blocks of the file system (kernel/fs.c below the inode table, and   *)
(* filewrite of kernel/file.c), on the disk image that mkfs/mkfs.c builds: *)
(* the bitmap, direct and indirect blocks, directory entries, and what an  *)
(* operation logs.                                                         *)
(*                                                                         *)
(* A block is W words instead of 1024 bytes.  A word is Zero, or a tuple   *)
(* that says what was written: file data <<"d", inum, offset>>, an entry   *)
(* <<"e", inum, name>>, a block number <<"b", block>>.  Writes to files    *)
(* take a step for each block, so that two of them compete for the free    *)
(* blocks; operations on directories are one step each, since they hold    *)
(* the locks of all inodes they change.  The file system is one record f,  *)
(* and an operator that changes it returns the new record.                 *)
(***************************************************************************)
EXTENDS Naturals, Sequences, FiniteSets, SequencesExt

CONSTANTS
    Procs,
    W,              \* words in a block (BSIZE), also NINDIRECT
    NDIRECT,
    FSSIZE,         \* blocks of the disk
    NINODES,        \* inodes of the disk, number 0 is not used
    IPB,            \* inodes in a block
    NLOG,           \* blocks of the log
    MAXOPBLOCKS,
    ImageFiles,     \* the names and sizes of the files given to mkfs
    Names,          \* names other than "." and ".."
    Lengths,        \* words that a call of write asks for
    MaxCalls        \* bound: number of system calls

ROOTINO == 1
Inums == 1 .. NINODES - 1
MAXFILE == NDIRECT + W

\* The layout that mkfs computes.
inodestart == 2 + NLOG
ninodeblocks == NINODES \div IPB + 1
bmapstart == inodestart + ninodeblocks
nmeta == bmapstart + 1
IBLOCK(i) == i \div IPB + inodestart

ASSUME SizesAssumption ==
    /\ W \in Nat \ {0, 1} /\ NDIRECT \in Nat \ {0} /\ IPB \in Nat \ {0} /\ NINODES > 1
    /\ FSSIZE \in Nat /\ nmeta < FSSIZE /\ MAXOPBLOCKS >= 6

\* The entries of the root directory do not fill its last block: mkfs then
\* rounds its size up to a block that exists.
ASSUME ImageAssumption == (2 + Len(ImageFiles)) % W # 0

Zero == <<>>
ZeroBlock == [k \in 0 .. W - 1 |-> Zero]
Junk == [k \in 0 .. W - 1 |-> <<"b", ROOTINO>>]
NoFile == [type |-> "free", size |-> 0, addrs |-> [b \in 0 .. NDIRECT |-> 0]]

Least(S) == CHOOSE x \in S : \A y \in S : x <= y
Smaller(a, b) == IF a < b THEN a ELSE b

VARIABLES
    fs,       \* bitmap, data blocks, inodes in memory and on disk, what is not logged
    logged,   \* blocks that the write in progress of a process has logged
    most,     \* the largest number of blocks that a transaction has logged
    reg,      \* write in progress of a process
    calls     \* number of system calls so far

vars == <<fs, logged, most, reg, calls>>

Data == nmeta .. FSSIZE - 1

(***************************************************************************)
(* mkfs: blocks and inodes are handed out in order.                        *)
(***************************************************************************)
EmptyImage ==
    [inode |-> [i \in Inums |-> NoFile], blk |-> [b \in Data |-> ZeroBlock],
     freeblock |-> nmeta, freeinode |-> ROOTINO]

MkIalloc(img, type) ==
    [img EXCEPT !.inode[img.freeinode].type = type, !.freeinode = @ + 1]

\* One more block for the image, at place bn of inode i.
MkBlock(img, i, bn) ==
    LET ind == img.inode[i].addrs[NDIRECT] IN
    CASE bn < NDIRECT /\ img.inode[i].addrs[bn] = 0 ->
           [img EXCEPT !.inode[i].addrs[bn] = img.freeblock, !.freeblock = @ + 1]
      [] bn >= NDIRECT /\ ind = 0 ->
           [img EXCEPT !.inode[i].addrs[NDIRECT] = img.freeblock,
                       !.blk[img.freeblock][bn - NDIRECT] = <<"b", img.freeblock + 1>>,
                       !.freeblock = @ + 2]
      [] bn >= NDIRECT /\ ind # 0 /\ img.blk[ind][bn - NDIRECT] = Zero ->
           [img EXCEPT !.blk[ind][bn - NDIRECT] = <<"b", img.freeblock>>,
                       !.freeblock = @ + 1]
      [] OTHER -> img

\* The block at place bn of inode i, 0 if there is none.
AddrIn(f, i, bn) ==
    LET ind == f.inode[i].addrs[NDIRECT] IN
    IF bn < NDIRECT THEN f.inode[i].addrs[bn]
    ELSE IF ind = 0 \/ f.blk[ind][bn - NDIRECT] = Zero THEN 0
    ELSE f.blk[ind][bn - NDIRECT][2]

MkAppend(img, i, word) ==
    LET off == img.inode[i].size
        grown == MkBlock(img, i, off \div W)
    IN  [grown EXCEPT !.blk[AddrIn(grown, i, off \div W)][off % W] = word,
                      !.inode[i].size = off + 1]

FileData(i, n) == [k \in 1 .. n |-> <<"d", i, k - 1>>]

MkFile(img, file) ==
    LET i == img.freeinode
        entered == MkAppend(MkIalloc(img, "file"), ROOTINO, <<"e", i, file.name>>)
    IN  FoldLeft(LAMBDA im, word : MkAppend(im, i, word), entered, FileData(i, file.size))

\* The root directory, the files, and the size of the root rounded up.
Image ==
    LET root == MkAppend(MkAppend(MkIalloc(EmptyImage, "dir"), ROOTINO, <<"e", ROOTINO, ".">>),
                         ROOTINO, <<"e", ROOTINO, "..">>)
        full == FoldLeft(MkFile, root, ImageFiles)
    IN  [full EXCEPT !.inode[ROOTINO].size = (@ \div W + 1) * W]

NoWrite == [i |-> 0, off |-> 0, n |-> 0, left |-> 0, in |-> FALSE]

\* balloc(freeblock): the bitmap of the image.
Init ==
    /\ fs = [used |-> 0 .. Image.freeblock - 1, blk |-> Image.blk,
             inode |-> Image.inode, dinode |-> Image.inode, unlogged |-> {}]
    /\ logged = [p \in Procs |-> {}] /\ most = 0
    /\ reg = [p \in Procs |-> NoWrite] /\ calls = 0

\* Process p makes a system call.
Call(p) == reg[p] = NoWrite /\ calls < MaxCalls /\ calls' = calls + 1

(***************************************************************************)
(* Blocks: a state f of the file system has, beside fs, the set log of     *)
(* blocks that the transaction has logged.                                 *)
(***************************************************************************)
LogWrite(f, b) == [f EXCEPT !.log = @ \cup {b}, !.unlogged = @ \ {b}]

Free(f) == {b \in 0 .. FSSIZE - 1 : b \notin f.used}

\* balloc: the first free block, zeroed.
Balloc(f) ==
    LET b == Least(Free(f)) IN
    LogWrite(LogWrite([f EXCEPT !.used = @ \cup {b}, !.blk[b] = ZeroBlock], bmapstart), b)

\* bfree, of several blocks.  What they hold is of no more interest.
Bfree(f, bs) ==
    IF bs = {} THEN f
    ELSE LogWrite([f EXCEPT !.used = @ \ bs, !.unlogged = @ \ bs,
                            !.blk = [b \in Data |-> IF b \in bs THEN Junk ELSE @[b]]], bmapstart)

\* bmap: the block at place bn is there afterwards, unless the disk is full.
\* The indirect block stays when there is no block for it to point to.
BmapIndirect(f, i) ==
    IF f.inode[i].addrs[NDIRECT] # 0 \/ Free(f) = {} THEN f
    ELSE [Balloc(f) EXCEPT !.inode[i].addrs[NDIRECT] = Least(Free(f))]

Bmap(f, i, bn) ==
    LET g == IF bn < NDIRECT THEN f ELSE BmapIndirect(f, i)
        ind == g.inode[i].addrs[NDIRECT]
    IN
    IF AddrIn(g, i, bn) # 0 \/ Free(g) = {} THEN g
    ELSE IF bn < NDIRECT THEN [Balloc(g) EXCEPT !.inode[i].addrs[bn] = Least(Free(g))]
    ELSE IF ind = 0 THEN g
    ELSE LogWrite([Balloc(g) EXCEPT !.blk[ind][bn - NDIRECT] = <<"b", Least(Free(g))>>], ind)

Iupdate(f, i) == LogWrite([f EXCEPT !.dinode[i] = f.inode[i]], IBLOCK(i))

\* The blocks of inode i: direct, indirect, and behind the indirect one.
BlocksOf(f, i) ==
    ({AddrIn(f, i, bn) : bn \in 0 .. MAXFILE - 1} \cup {f.inode[i].addrs[NDIRECT]}) \ {0}

\* Fault: the blocks behind the indirect block are not freed.
ItruncDirect(f, i) ==
    Iupdate([Bfree(f, {f.inode[i].addrs[b] : b \in 0 .. NDIRECT} \ {0})
                EXCEPT !.inode[i].addrs = NoFile.addrs, !.inode[i].size = 0], i)

Itrunc(f, i) ==
    Iupdate([Bfree(f, BlocksOf(f, i))
                EXCEPT !.inode[i].addrs = NoFile.addrs, !.inode[i].size = 0], i)

\* readi: n words at off, up to the end of the file.
Readi(f, i, off, n) ==
    [k \in 1 .. Smaller(n, f.inode[i].size - off) |->
        LET at == off + k - 1 IN f.blk[AddrIn(f, i, at \div W)][at % W]]

(***************************************************************************)
(* Directories.                                                            *)
(***************************************************************************)
\* Fault: the block is changed and not logged.
WriteWordUnlogged(f, i, off, word) ==
    LET g == Bmap(f, i, off \div W)
        b == AddrIn(g, i, off \div W)
    IN
    IF off + 1 > MAXFILE * W THEN f
    ELSE IF b = 0 THEN Iupdate(g, i)
    ELSE Iupdate([g EXCEPT !.blk[b][off % W] = word, !.unlogged = @ \cup {b},
                           !.inode[i].size = IF off < @ THEN @ ELSE off + 1], i)

\* writei of one word from the kernel: the size grows, and the inode is saved
\* even when no block was left.
WriteWord(f, i, off, word) ==
    LET g == Bmap(f, i, off \div W)
        b == AddrIn(g, i, off \div W)
    IN
    IF off + 1 > MAXFILE * W THEN f
    ELSE IF b = 0 THEN Iupdate(g, i)
    ELSE Iupdate(LogWrite([g EXCEPT !.blk[b][off % W] = word,
                                    !.inode[i].size = IF off < @ THEN @ ELSE off + 1], b), i)

\* The offsets of the entries of a directory, and of those with a name.
Slots(f, d) == 0 .. f.inode[d].size - 1
Entry(f, d, off) == Readi(f, d, off, 1)[1]
Dirlookup(f, d, name) ==
    {off \in Slots(f, d) : Entry(f, d, off) # Zero /\ Entry(f, d, off)[3] = name}

\* dirlink: the first empty entry, else one more.
Dirlink(f, d, name, i) ==
    LET empty == {off \in Slots(f, d) : Entry(f, d, off) = Zero}
        off == IF empty = {} THEN f.inode[d].size ELSE Least(empty)
    IN  WriteWord(f, d, off, <<"e", i, name>>)

\* iput of the last reference of a file without links.
Discard(f, i) == LET g == Itrunc(f, i) IN Iupdate([g EXCEPT !.inode[i] = NoFile], i)

\* A transaction starts, goes on as f, and ends.
Begin == fs @@ [log |-> {}]
Becomes(f) ==
    /\ fs' = [x \in DOMAIN fs |-> f[x]]
    /\ most' = IF Cardinality(f.log) > most THEN Cardinality(f.log) ELSE most
Whole(f) == Becomes(f) /\ UNCHANGED <<logged, reg>>
Part(p, f) == Becomes(f) /\ logged' = [logged EXCEPT ![p] = f.log]
Ended(p, f) == Becomes(f) /\ logged' = [logged EXCEPT ![p] = {}]

FreeInums(f) == {i \in Inums : f.dinode[i].type = "free"}

Ialloc(f, type) ==
    LET i == Least(FreeInums(f)) IN
    LogWrite([f EXCEPT !.dinode[i] = [NoFile EXCEPT !.type = type],
                       !.inode[i] = [NoFile EXCEPT !.type = type]], IBLOCK(i))

\* create, with both inodes locked.
Create(p, d, name, type) ==
    LET i == Least(FreeInums(fs))
        made == Iupdate(Ialloc(Begin, type), i)
        self == IF type = "dir" THEN Dirlink(made, i, ".", i) ELSE made
        dots == IF type = "dir" /\ self.inode[i].size = 1 THEN Dirlink(self, i, "..", d) ELSE self
        ok == type = "dir" => dots.inode[i].size = 2
        full == IF ok THEN Dirlink(dots, d, name, i) ELSE dots
    IN
    /\ Call(p)
    /\ fs.inode[d].type = "dir" /\ Dirlookup(fs, d, name) = {} /\ FreeInums(fs) # {}
    /\ Whole(IF ok /\ Dirlookup(full, d, name) # {} THEN full ELSE Discard(Iupdate(full, i), i))

\* Fault: only the first block is looked at.
IsDirEmptyShort(f, d) ==
    \A off \in Slots(f, d) \ {0, 1} : off < W => Entry(f, d, off) = Zero

IsDirEmpty(f, d) == \A off \in Slots(f, d) \ {0, 1} : Entry(f, d, off) = Zero

Open(i) == \E q \in Procs : reg[q].i = i

\* sys_unlink of a file that nobody has open: the entry, then the inode.
Unlink(p, d, name) ==
    LET off == Least(Dirlookup(fs, d, name))
        i == Entry(fs, d, off)[2]
    IN
    /\ Call(p)
    /\ fs.inode[d].type = "dir" /\ Dirlookup(fs, d, name) # {} /\ ~Open(i)
    /\ fs.inode[i].type = "dir" => IsDirEmpty(fs, i)
    /\ Whole(Discard(Iupdate(WriteWord(Begin, d, off, Zero), i), i))

(***************************************************************************)
(* filewrite: a transaction for each chunk, in it a step for each block.   *)
(***************************************************************************)
\* Fault: a chunk may have as many blocks as a transaction.
MaxChunkAll == MAXOPBLOCKS * W

MaxChunk == ((MAXOPBLOCKS - 1 - 1 - 2) \div 2) * W

\* The lock of inode i is held.
Locked(i) == \E q \in Procs : reg[q].i = i /\ reg[q].in

\* The file has just been opened, or read to its end.
Write(p, i, off, n) ==
    /\ Call(p) /\ fs.inode[i].type = "file"
    /\ reg' = [reg EXCEPT ![p] = [i |-> i, off |-> off, n |-> 0, left |-> n, in |-> FALSE]]
    /\ UNCHANGED <<fs, logged, most>>

\* begin_op, ilock and the checks of writei.
WriteNext(p) ==
    LET r == reg[p]
        n == Smaller(r.left, MaxChunk)
    IN
    /\ r.i # 0 /\ ~r.in /\ ~Locked(r.i)
    /\ reg' = [reg EXCEPT ![p] =
                 IF r.off > fs.inode[r.i].size \/ r.off + n > MAXFILE * W THEN NoWrite
                 ELSE [r EXCEPT !.in = TRUE, !.n = n]]
    /\ UNCHANGED <<fs, logged, most, calls>>

\* One turn of the loop.  The copy from user memory may fail after k words:
\* what it has changed by then is not logged.
WriteBlock(p) ==
    LET r == reg[p]
        bn == r.off \div W
        f == Bmap(fs @@ [log |-> logged[p]], r.i, bn)
        b == AddrIn(f, r.i, bn)
        at == r.off % W
        m == Smaller(r.n, W - at)
        Copied(k) == [f EXCEPT !.blk[b] = [x \in 0 .. W - 1 |->
                         IF x \in at .. at + k - 1
                         THEN <<"d", r.i, bn * W + x>> ELSE @[x]]]
        Stop == reg' = [reg EXCEPT ![p].n = 0, ![p].left = 0]
    IN
    /\ r.in /\ r.n > 0
    /\ \/ b = 0 /\ Part(p, f) /\ Stop
       \/ /\ b # 0
          /\ Part(p, LogWrite(Copied(m), b))
          /\ reg' = [reg EXCEPT ![p].off = @ + m, ![p].n = @ - m, ![p].left = @ - m]
       \/ /\ b # 0
          /\ \E k \in 0 .. m - 1 :
                Part(p, IF k = 0 THEN f ELSE [Copied(k) EXCEPT !.unlogged = @ \cup {b}])
          /\ Stop
    /\ UNCHANGED calls

\* The size grows, iupdate, end_op; the next chunk if there is one.
WriteEnd(p) ==
    LET r == reg[p]
        f == [fs EXCEPT !.inode[r.i].size = IF r.off > @ THEN r.off ELSE @]
    IN
    /\ r.in /\ r.n = 0
    /\ Ended(p, Iupdate(f @@ [log |-> logged[p]], r.i))
    /\ reg' = [reg EXCEPT ![p] = IF r.left = 0 THEN NoWrite ELSE [r EXCEPT !.in = FALSE]]
    /\ UNCHANGED calls

\* open with O_TRUNC.
Truncate(p, i) ==
    /\ Call(p) /\ fs.inode[i].type = "file" /\ ~Locked(i)
    /\ Whole(Itrunc(Begin, i))

Next == \E p \in Procs :
    \/ \E d \in Inums, name \in Names :
          \/ \E type \in {"file", "dir"} : Create(p, d, name, type)
          \/ Unlink(p, d, name)
    \/ \E i \in Inums :
          \/ \E off \in {0, fs.inode[i].size}, n \in Lengths : Write(p, i, off, n)
          \/ Truncate(p, i)
    \/ WriteNext(p) \/ WriteBlock(p) \/ WriteEnd(p)

Spec == Init /\ [][Next]_vars
---------------------------------------------------------------------------
Allocated == {i \in Inums : fs.inode[i].type # "free"}

\* How often block b is referred to.
References(b) ==
    Cardinality({<<i, bn>> \in Inums \X (0 .. MAXFILE - 1) : AddrIn(fs, i, bn) = b})
        + Cardinality({i \in Inums : fs.inode[i].addrs[NDIRECT] = b})

\* mkfs, balloc, bmap, itrunc and bfree: the bitmap has exactly the blocks of the
\* layout and those that an inode refers to, each referred to once, and between
\* transactions the inodes on disk are those in memory.
BlocksAccounted ==
    /\ \A b \in 1 .. FSSIZE - 1 :
          References(b) = IF b \in fs.used \cap Data THEN 1 ELSE 0
    /\ 0 .. nmeta - 1 \subseteq fs.used
    /\ \A i \in Inums : ~Locked(i) => fs.dinode[i] = fs.inode[i]

\* readi, writei, dirlink: there is a block for all of a file's size, so that a
\* read, which is no transaction, never allocates one; a file reads as what was
\* written to it; an inode in use has one name and a name has an inode in use.
ReadsBack ==
    /\ \A i \in Allocated : \A off \in 0 .. fs.inode[i].size - 1 : AddrIn(fs, i, off \div W) # 0
    /\ \A i \in Allocated :
          fs.inode[i].type = "file" => Readi(fs, i, 0, MAXFILE * W) = FileData(i, fs.inode[i].size)
    /\ LET entries == {<<d, off>> \in Allocated \X (0 .. MAXFILE * W - 1) :
                         /\ fs.inode[d].type = "dir" /\ off \in Slots(fs, d)
                         /\ Entry(fs, d, off) # Zero /\ Entry(fs, d, off)[3] \in Names}
       IN  /\ {Entry(fs, e[1], e[2])[2] : e \in entries} = Allocated \ {ROOTINO}
           /\ Cardinality(entries) = Cardinality(Allocated) - 1

\* writei's failing copy is the only change that is not logged.  It is to the
\* data of a file, never to a directory or an indirect block, and the block has
\* nothing but what was written to that file at that place, or zeroes.
UnloggedIsData ==
    \A b \in fs.unlogged \cap fs.used :
        \E i \in Allocated, bn \in 0 .. MAXFILE - 1 :
            /\ fs.inode[i].type = "file" /\ AddrIn(fs, i, bn) = b
            /\ \A x \in 0 .. W - 1 : fs.blk[b][x] \in {Zero, <<"d", i, bn * W + x>>}

\* filewrite's limit, create and unlink: a transaction logs no more blocks than
\* begin_op has kept for it.
FitsLog == most <= MAXOPBLOCKS
===========================================================================
