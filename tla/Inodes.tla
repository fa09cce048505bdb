------------------------------ MODULE Inodes ------------------------------
(***************************************************************************)
(* Inodes, directories, open files and the system calls on them            *)
(* (kernel/fs.c, kernel/file.c, kernel/sysfile.c) by several processes:    *)
(* the inode table with its reference counts and sleep locks, the lookup   *)
(* of path names, and what create, link, unlink, open, chdir, close, fork  *)
(* and exit do to them.  Blocks are in module Blocks: a directory is a     *)
(* function from names to inode numbers, and an entry may fail to fit.     *)
(*                                                                         *)
(* An action is a section of itable.lock or ftable.lock, or a section of   *)
(* an inode's sleep lock that has one step others can observe.  lock is    *)
(* held between two actions only where a call takes a second lock or       *)
(* waits.  What a call still has to unlock and to put is in later; it does *)
(* that first.                                                             *)
(***************************************************************************)
EXTENDS Naturals, Sequences, FiniteSets

CONSTANTS
    Procs,
    Inums,     \* the inodes on disk, ROOTINO the first of them
    Slots,     \* entries of itable (NINODE)
    Files,     \* entries of ftable (NFILE)
    Fds,       \* descriptors of a process (NOFILE)
    Names,     \* names other than "." and ".."
    Made,      \* the files that mkfs puts in the root directory: inode by name
    Calls,     \* the system calls that each process makes, as [op, path, new]
    First,     \* the processes that run at the start, in the root directory
    None

ROOTINO == 1

ASSUME SetsAssumption ==
    /\ Inums \subseteq Nat \ {0} /\ ROOTINO \in Inums /\ IsFiniteSet(Inums)
    /\ Slots \subseteq Nat /\ Files \subseteq Nat /\ Fds \subseteq Nat
    /\ First \subseteq Procs
ASSUME NamesAssumption == Names \cap {".", "..", "/"} = {}
ASSUME MadeAssumption ==
    /\ DOMAIN Made \subseteq Names
    /\ \A n \in DOMAIN Made : Made[n] \in Inums \ {ROOTINO}

Entries == Names \cup {".", ".."}

VARIABLES
    dinode,    \* type and nlink of each inode on disk
    ents,      \* contents of directories: inode number by name, 0 for none
    itab,      \* itable: inum, ref, valid and the cached type and nlink
    lock,      \* who holds the sleep lock of an itable entry
    ftab,      \* ftable: ref and ip
    ofile, cwd,          \* of each process
    pc, call, goal,      \* place, call, what namex is for
    path, name,          \* rest of the path, last element
    cur, ip,             \* entries of itable that a call works with
    later      \* what the call unlocks and puts before it goes on

disk == <<dinode, ents>>
files == <<ftab, ofile, cwd>>
regs == <<call, goal, path, name, cur, ip>>
vars == <<disk, itab, lock, files, pc, regs, later>>

Least(S) == CHOOSE x \in S : \A y \in S : x <= y

NoInode == [inum |-> 0, ref |-> 0, valid |-> FALSE, type |-> "free", nlink |-> 0]

\* The root directory and the files that mkfs made, and processes that userinit
\* and fork started in the root directory.
Init ==
    /\ dinode = [i \in Inums |->
          CASE i = ROOTINO -> [type |-> "dir", nlink |-> 1]
            [] \E n \in DOMAIN Made : Made[n] = i -> [type |-> "file", nlink |-> 1]
            [] OTHER -> [type |-> "free", nlink |-> 0]]
    /\ ents = [i \in Inums |-> [n \in Entries |->
          CASE i = ROOTINO /\ n \in {".", ".."} -> ROOTINO
            [] i = ROOTINO /\ n \in DOMAIN Made -> Made[n]
            [] OTHER -> 0]]
    /\ itab = [s \in Slots |-> IF s = Least(Slots)
                  THEN [NoInode EXCEPT !.inum = ROOTINO, !.ref = Cardinality(First)]
                  ELSE NoInode]
    /\ lock = [s \in Slots |-> None]
    /\ ftab = [f \in Files |-> [ref |-> 0, ip |-> None]]
    /\ ofile = [p \in Procs |-> [d \in Fds |-> None]]
    /\ cwd = [p \in Procs |-> IF p \in First THEN Least(Slots) ELSE None]
    /\ pc = [p \in Procs |-> IF p \in First THEN "user" ELSE "unborn"]
    /\ call = [p \in Procs |-> None] /\ goal = [p \in Procs |-> None]
    /\ path = [p \in Procs |-> <<>>] /\ name = [p \in Procs |-> None]
    /\ cur = [p \in Procs |-> None] /\ ip = [p \in Procs |-> None]
    /\ later = [p \in Procs |-> <<>>]

Goto(p, l) == pc' = [pc EXCEPT ![p] = l]

At(p, l) == pc[p] = l /\ later[p] = <<>>

(***************************************************************************)
(* The inode table.                                                        *)
(***************************************************************************)
Cached(tab, i) == {s \in Slots : tab[s].ref > 0 /\ tab[s].inum = i}
Empty(tab) == {s \in Slots : tab[s].ref = 0}

\* iget finds the inode or an empty entry; otherwise panic("iget: no inodes").
CanIget(tab, i) == Cached(tab, i) \cup Empty(tab) # {}

\* iget: the entry of inode i, else the first empty one.
IgetSlot(tab, i) ==
    IF Cached(tab, i) # {} THEN Least(Cached(tab, i)) ELSE Least(Empty(tab))

Iget(tab, i) ==
    LET s == IgetSlot(tab, i)
    IN  [tab EXCEPT ![s] = IF s \in Cached(tab, i) THEN [@ EXCEPT !.ref = @ + 1]
                           ELSE [@ EXCEPT !.inum = i, !.ref = 1, !.valid = FALSE]]

Idup(tab, s) == [tab EXCEPT ![s].ref = @ + 1]

\* ilock: the entry as it is once it has been read from disk.
Loaded(s) ==
    IF itab[s].valid THEN itab[s]
    ELSE [itab[s] EXCEPT !.valid = TRUE, !.type = dinode[itab[s].inum].type,
                         !.nlink = dinode[itab[s].inum].nlink]

\* panic("ilock: no type").
NoType(s) == ~itab[s].valid /\ dinode[itab[s].inum].type = "free"

\* The table when entry s has been read, and with a new link count in it.
Read(s) == [itab EXCEPT ![s] = Loaded(s)]
WithNlink(s, n) == [itab EXCEPT ![s] = [Loaded(s) EXCEPT !.nlink = n]]

\* ilock would return.
CanLock(s) == lock[s] = None /\ ~NoType(s)

\* iupdate: the cached fields of entry s in table tab go to the disk.
Iupdate(tab, s) ==
    [dinode EXCEPT ![tab[s].inum] = [type |-> tab[s].type, nlink |-> tab[s].nlink]]

Unlock(s) == <<[op |-> "unlock", s |-> s]>>
Put(s) == <<[op |-> "put", s |-> s]>>

Panic(p) ==
    /\ Goto(p, "panic")
    /\ UNCHANGED <<disk, itab, lock, files, regs, later>>

\* panic("iget: no inodes"), with itable.lock held.
NoEntry(p) ==
    /\ Goto(p, "no_entry")
    /\ UNCHANGED <<disk, itab, lock, files, regs, later>>

\* Fault: iput frees a file without links that others still have.
LastPutShared(s) == itab[s].valid /\ itab[s].nlink = 0

\* Inode i has no links and no other reference: iput frees it.
LastPut(s) == itab[s].ref = 1 /\ itab[s].valid /\ itab[s].nlink = 0

\* iunlock, when it was put off.
DoUnlock(p) ==
    LET s == Head(later[p]).s IN
    /\ later[p] # <<>> /\ Head(later[p]).op = "unlock"
    /\ lock' = [lock EXCEPT ![s] = None]
    /\ later' = [later EXCEPT ![p] = Tail(@)]
    /\ UNCHANGED <<disk, itab, files, pc, regs>>

\* iput drops a reference that is not the last of a file without links.
Iput(p) ==
    LET s == Head(later[p]).s IN
    /\ later[p] # <<>> /\ Head(later[p]).op = "put" /\ ~LastPut(s)
    /\ itab' = [itab EXCEPT ![s].ref = @ - 1]
    /\ later' = [later EXCEPT ![p] = Tail(@)]
    /\ UNCHANGED <<disk, lock, files, pc, regs>>

\* iput takes the sleep lock, with itable.lock held: it must not have to wait.
IputLast(p) ==
    LET s == Head(later[p]).s IN
    /\ later[p] # <<>> /\ Head(later[p]).op = "put" /\ LastPut(s)
    /\ IF lock[s] # None THEN Panic(p)
       ELSE /\ lock' = [lock EXCEPT ![s] = p]
            /\ later' = [later EXCEPT ![p] = <<[op |-> "free", s |-> s]>> \o Tail(@)]
            /\ UNCHANGED <<disk, itab, files, pc, regs>>

\* itrunc, ip->type = 0, iupdate: the inode is free on disk.
IputFree(p) ==
    LET s == Head(later[p]).s IN
    /\ later[p] # <<>> /\ Head(later[p]).op = "free"
    /\ itab' = [itab EXCEPT ![s].type = "free"]
    /\ dinode' = Iupdate(itab', s)
    /\ ents' = [ents EXCEPT ![itab[s].inum] = [n \in Entries |-> 0]]
    /\ later' = [later EXCEPT ![p] = <<[op |-> "invalidate", s |-> s]>> \o Tail(@)]
    /\ UNCHANGED <<lock, files, pc, regs>>

\* Fault: the entry stays valid.
IputInvalidateNot(p) ==
    LET s == Head(later[p]).s IN
    /\ later[p] # <<>> /\ Head(later[p]).op = "invalidate"
    /\ lock' = [lock EXCEPT ![s] = None]
    /\ later' = [later EXCEPT ![p] = <<[op |-> "drop", s |-> s]>> \o Tail(@)]
    /\ UNCHANGED <<disk, itab, files, pc, regs>>

\* ip->valid = 0, releasesleep.
IputInvalidate(p) ==
    LET s == Head(later[p]).s IN
    /\ later[p] # <<>> /\ Head(later[p]).op = "invalidate"
    /\ itab' = [itab EXCEPT ![s].valid = FALSE]
    /\ lock' = [lock EXCEPT ![s] = None]
    /\ later' = [later EXCEPT ![p] = <<[op |-> "drop", s |-> s]>> \o Tail(@)]
    /\ UNCHANGED <<disk, files, pc, regs>>

\* ip->ref--, in another section of itable.lock.
IputDrop(p) ==
    LET s == Head(later[p]).s IN
    /\ later[p] # <<>> /\ Head(later[p]).op = "drop"
    /\ itab' = [itab EXCEPT ![s].ref = @ - 1]
    /\ later' = [later EXCEPT ![p] = Tail(@)]
    /\ UNCHANGED <<disk, lock, files, pc, regs>>

\* The call is over but for what is left to unlock and to put.
Return(p, rest) ==
    /\ call' = [call EXCEPT ![p] = None] /\ goal' = [goal EXCEPT ![p] = None]
    /\ path' = [path EXCEPT ![p] = <<>>] /\ name' = [name EXCEPT ![p] = None]
    /\ cur' = [cur EXCEPT ![p] = None] /\ ip' = [ip EXCEPT ![p] = None]
    /\ later' = [later EXCEPT ![p] = rest]
    /\ Goto(p, "user")

Leave(p, tab, rest) == itab' = tab /\ Return(p, rest)

(***************************************************************************)
(* namex.                                                                  *)
(***************************************************************************)
\* The start of a lookup of t for goal g: iget of the root or idup of the
\* current directory.
StartNamex(p, t, g) ==
    IF Head(t) = "/"
    THEN /\ path' = [path EXCEPT ![p] = Tail(t)] /\ goal' = [goal EXCEPT ![p] = g]
         /\ IF CanIget(itab, ROOTINO)
            THEN /\ cur' = [cur EXCEPT ![p] = IgetSlot(itab, ROOTINO)]
                 /\ itab' = Iget(itab, ROOTINO)
                 /\ Goto(p, "namex")
            ELSE Goto(p, "no_entry") /\ UNCHANGED <<cur, itab>>
    ELSE /\ path' = [path EXCEPT ![p] = t] /\ goal' = [goal EXCEPT ![p] = g]
         /\ cur' = [cur EXCEPT ![p] = cwd[p]]
         /\ itab' = Idup(itab, cwd[p])
         /\ Goto(p, "namex")

\* nameiparent or namei.
WantsParent(g) == g \in {"create", "unlink", "link_new"}

\* A lookup fails: the call returns, but link first takes its count back.
Failed(p, tab, rest) ==
    IF goal[p] = "link_new"
    THEN /\ itab' = tab /\ later' = [later EXCEPT ![p] = rest]
         /\ Goto(p, "link_undo")
         /\ UNCHANGED regs
    ELSE Leave(p, tab, rest)

\* No element left: namei is done, nameiparent has nothing to return.
NamexDone(p) ==
    /\ At(p, "namex") /\ path[p] = <<>>
    /\ IF WantsParent(goal[p]) THEN Failed(p, itab, Put(cur[p]))
       ELSE Goto(p, goal[p]) /\ UNCHANGED <<itab, later, regs>>
    /\ UNCHANGED <<disk, lock, files>>

\* One turn of the loop, with the lock of the directory.
InDir(p) == At(p, "namex") /\ path[p] # <<>> /\ CanLock(cur[p])

AtParent(p) == Loaded(cur[p]).type = "dir" /\ WantsParent(goal[p]) /\ Len(path[p]) = 1

NamexParent(p) ==
    /\ InDir(p) /\ AtParent(p)
    /\ itab' = Read(cur[p])
    /\ name' = [name EXCEPT ![p] = Head(path[p])]
    /\ path' = [path EXCEPT ![p] = <<>>]
    /\ Goto(p, goal[p])
    /\ UNCHANGED <<disk, lock, files, call, goal, cur, ip, later>>

\* dirlookup finds the next inode; the directory is unlocked, then put.
NamexNext(p) ==
    LET s == cur[p]
        next == ents[itab[s].inum][Head(path[p])]
    IN
    /\ InDir(p) /\ ~AtParent(p)
    /\ Loaded(s).type = "dir" /\ next # 0
    /\ IF CanIget(Read(s), next)
       THEN /\ itab' = Iget(Read(s), next)
            /\ cur' = [cur EXCEPT ![p] = IgetSlot(Read(s), next)]
            /\ path' = [path EXCEPT ![p] = Tail(@)]
            /\ later' = [later EXCEPT ![p] = Put(s)]
            /\ UNCHANGED <<pc, disk, lock, files, call, goal, name, ip>>
       ELSE NoEntry(p)

\* Not a directory, or no such name.
NamexFail(p) ==
    LET s == cur[p] IN
    /\ InDir(p) /\ ~AtParent(p)
    /\ Loaded(s).type = "dir" => ents[itab[s].inum][Head(path[p])] = 0
    /\ Failed(p, Read(s), Put(s))
    /\ UNCHANGED <<disk, lock, files>>

(***************************************************************************)
(* create, after nameiparent: cur is the directory.                        *)
(***************************************************************************)
FreeInums == {i \in Inums : dinode[i].type = "free"}

\* The type that a call gives to a new inode.
TypeOf(op) == CASE op = "mkdir" -> "dir" [] op = "mknod" -> "dev" [] OTHER -> "file"

\* What dirlookup finds in the locked directory cur.
Found(p) == ents[itab[cur[p]].inum][name[p]]

\* The name is there: its inode is taken, the directory let go.
CreateFound(p) ==
    LET s == cur[p] IN
    /\ At(p, "create") /\ CanLock(s) /\ Found(p) # 0
    /\ IF CanIget(Read(s), Found(p))
       THEN /\ itab' = Iget(Read(s), Found(p))
            /\ ip' = [ip EXCEPT ![p] = IgetSlot(Read(s), Found(p))]
            /\ later' = [later EXCEPT ![p] = Put(s)]
            /\ Goto(p, "create_old")
            /\ UNCHANGED <<disk, lock, files, call, goal, path, name, cur>>
       ELSE NoEntry(p)

\* ialloc finds no free inode.
CreateNoInode(p) ==
    /\ At(p, "create") /\ CanLock(cur[p]) /\ Found(p) = 0 /\ FreeInums = {}
    /\ Leave(p, Read(cur[p]), Put(cur[p]))
    /\ UNCHANGED <<disk, lock, files>>

\* ialloc takes the first free inode; the directory stays locked.
CreateIalloc(p) ==
    LET s == cur[p]
        i == Least(FreeInums)
    IN
    /\ At(p, "create") /\ CanLock(s) /\ Found(p) = 0 /\ FreeInums # {}
    /\ IF CanIget(Read(s), i)
       THEN /\ dinode' = [dinode EXCEPT ![i] = [type |-> TypeOf(call[p].op), nlink |-> 0]]
            /\ itab' = Iget(Read(s), i)
            /\ ip' = [ip EXCEPT ![p] = IgetSlot(Read(s), i)]
            /\ lock' = [lock EXCEPT ![s] = p]
            /\ Goto(p, "create_new")
            /\ UNCHANGED <<ents, files, call, goal, path, name, cur, later>>
       ELSE NoEntry(p)

\* The name exists: only open may go on, with a file or a device.
CreateOld(p) ==
    LET s == ip[p]
        fits == call[p].op = "creat" /\ Loaded(s).type \in {"file", "dev"}
    IN
    /\ At(p, "create_old") /\ CanLock(s)
    /\ IF fits THEN /\ itab' = Read(s)
                    /\ lock' = [lock EXCEPT ![s] = p]
                    /\ Goto(p, "open_file") /\ UNCHANGED <<regs, later>>
               ELSE Leave(p, Read(s), Put(s)) /\ UNCHANGED lock
    /\ UNCHANGED <<disk, files>>

\* Fault: the error path forgets the reference to the new inode.
CreateFailKeeps(p) ==
    LET tab == WithNlink(ip[p], 0) IN
    /\ At(p, "create_new") /\ CanLock(ip[p])
    /\ dinode' = Iupdate(tab, ip[p])
    /\ Leave(p, tab, Unlock(cur[p]) \o Put(cur[p]))
    /\ UNCHANGED <<ents, lock, files>>

\* A dirlink fails, in the new directory or in the old one: ip->nlink = 0.
CreateFail(p) ==
    LET tab == WithNlink(ip[p], 0) IN
    /\ At(p, "create_new") /\ CanLock(ip[p])
    /\ dinode' = Iupdate(tab, ip[p])
    /\ Leave(p, tab, Put(ip[p]) \o Unlock(cur[p]) \o Put(cur[p]))
    /\ UNCHANGED <<ents, lock, files>>

\* ip->nlink = 1, the entries, dp->nlink++ for "..", and the directory is let
\* go.  open keeps the new inode locked.
CreateNew(p) ==
    LET s == ip[p]
        d == cur[p]
        i == itab[s].inum
        up == itab[d].inum
        dir == call[p].op = "mkdir"
        open == call[p].op = "creat"
        tab == IF dir THEN [WithNlink(s, 1) EXCEPT ![d].nlink = @ + 1] ELSE WithNlink(s, 1)
    IN
    /\ At(p, "create_new") /\ CanLock(s)
    /\ itab' = tab
    /\ dinode' = [Iupdate(tab, s) EXCEPT ![up].nlink = tab[d].nlink]
    /\ ents' = [ents EXCEPT ![i] = IF dir THEN [@ EXCEPT !["."] = i, ![".."] = up] ELSE @,
                            ![up][name[p]] = i]
    /\ lock' = [lock EXCEPT ![d] = None, ![s] = IF open THEN p ELSE None]
    /\ IF open THEN /\ later' = [later EXCEPT ![p] = Put(d)]
                    /\ Goto(p, "open_file") /\ UNCHANGED regs
               ELSE Return(p, Put(d) \o Put(s))
    /\ UNCHANGED files

(***************************************************************************)
(* sys_open.                                                               *)
(***************************************************************************)
\* An open that may not create: a directory is opened only to be read.
OpenLock(p) ==
    LET s == cur[p] IN
    /\ At(p, "open") /\ CanLock(s)
    /\ IF Loaded(s).type = "dir" /\ call[p].op = "openw"
       THEN Leave(p, Read(s), Put(s)) /\ UNCHANGED lock
       ELSE /\ itab' = Read(s)
            /\ ip' = [ip EXCEPT ![p] = s]
            /\ lock' = [lock EXCEPT ![s] = p]
            /\ Goto(p, "open_file")
            /\ UNCHANGED <<call, goal, path, name, cur, later>>
    /\ UNCHANGED <<disk, files>>

FreeFiles == {f \in Files : ftab[f].ref = 0}
FreeFds(p) == {d \in Fds : ofile[p][d] = None}

\* filealloc and fdalloc: the file takes over the reference to the inode.
OpenFile(p) ==
    /\ At(p, "open_file") /\ FreeFiles # {} /\ FreeFds(p) # {}
    /\ ftab' = [ftab EXCEPT ![Least(FreeFiles)] = [ref |-> 1, ip |-> ip[p]]]
    /\ ofile' = [ofile EXCEPT ![p][Least(FreeFds(p))] = Least(FreeFiles)]
    /\ lock' = [lock EXCEPT ![ip[p]] = None]
    /\ Return(p, <<>>)
    /\ UNCHANGED <<disk, itab, cwd>>

\* One of them fails and the other is undone, or the device does not exist.
OpenFileFail(p) ==
    /\ At(p, "open_file")
    /\ FreeFiles = {} \/ FreeFds(p) = {} \/ itab[ip[p]].type = "dev"
    /\ lock' = [lock EXCEPT ![ip[p]] = None]
    /\ Leave(p, itab, Put(ip[p]))
    /\ UNCHANGED <<disk, files>>

(***************************************************************************)
(* sys_unlink, after nameiparent.                                          *)
(***************************************************************************)
\* "." and ".." are refused, or there is no such name.
UnlinkNone(p) ==
    /\ At(p, "unlink") /\ CanLock(cur[p])
    /\ name[p] \in {".", ".."} \/ Found(p) = 0
    /\ Leave(p, Read(cur[p]), Put(cur[p]))
    /\ UNCHANGED <<disk, lock, files>>

\* The directory stays locked while the inode is.
UnlinkFound(p) ==
    LET s == cur[p] IN
    /\ At(p, "unlink") /\ CanLock(s)
    /\ name[p] \notin {".", ".."} /\ Found(p) # 0
    /\ IF CanIget(Read(s), Found(p))
       THEN /\ itab' = Iget(Read(s), Found(p))
            /\ ip' = [ip EXCEPT ![p] = IgetSlot(Read(s), Found(p))]
            /\ lock' = [lock EXCEPT ![s] = p]
            /\ Goto(p, "unlink_ip")
            /\ UNCHANGED <<disk, files, call, goal, path, name, cur, later>>
       ELSE NoEntry(p)

IsDirEmpty(i) == \A n \in Names : ents[i][n] = 0

UnlinkNotEmpty(p) ==
    LET s == ip[p] IN
    /\ At(p, "unlink_ip") /\ CanLock(s) /\ Loaded(s).nlink > 0
    /\ Loaded(s).type = "dir" /\ ~IsDirEmpty(itab[s].inum)
    /\ Leave(p, Read(s), Put(s) \o Unlock(cur[p]) \o Put(cur[p]))
    /\ UNCHANGED <<disk, lock, files>>

\* The entry goes and the directory is let go; the inode stays locked.
\* panic("unlink: nlink < 1").
UnlinkEntry(p) ==
    LET s == ip[p]
        d == cur[p]
        up == itab[d].inum
        dir == Loaded(s).type = "dir"
        tab == IF dir THEN [Read(s) EXCEPT ![d].nlink = @ - 1] ELSE Read(s)
    IN
    /\ At(p, "unlink_ip") /\ CanLock(s) /\ (dir => IsDirEmpty(itab[s].inum))
    /\ IF Loaded(s).nlink > 0
       THEN /\ itab' = tab
            /\ dinode' = [dinode EXCEPT ![up].nlink = tab[d].nlink]
            /\ ents' = [ents EXCEPT ![up][name[p]] = 0]
            /\ lock' = [lock EXCEPT ![d] = None, ![s] = p]
            /\ later' = [later EXCEPT ![p] = Put(d)]
            /\ Goto(p, "unlink_dec")
            /\ UNCHANGED <<files, regs>>
       ELSE Panic(p)

UnlinkDec(p) ==
    LET s == ip[p]
        tab == WithNlink(s, itab[s].nlink - 1)
    IN
    /\ At(p, "unlink_dec")
    /\ dinode' = Iupdate(tab, s)
    /\ lock' = [lock EXCEPT ![s] = None]
    /\ Leave(p, tab, Put(s))
    /\ UNCHANGED <<ents, files>>

(***************************************************************************)
(* sys_link.                                                               *)
(***************************************************************************)
LinkIsDir(p) ==
    /\ At(p, "link") /\ CanLock(cur[p]) /\ Loaded(cur[p]).type = "dir"
    /\ Leave(p, Read(cur[p]), Put(cur[p]))
    /\ UNCHANGED <<disk, lock, files>>

\* Fault: the link is not counted.
LinkOldUncounted(p) ==
    /\ At(p, "link") /\ CanLock(cur[p]) /\ Loaded(cur[p]).type # "dir"
    /\ itab' = Read(cur[p])
    /\ ip' = [ip EXCEPT ![p] = cur[p]]
    /\ Goto(p, "link_start")
    /\ UNCHANGED <<disk, lock, files, call, goal, path, name, cur, later>>

\* The link is counted before its name exists.
LinkOld(p) ==
    LET s == cur[p]
        tab == WithNlink(s, Loaded(s).nlink + 1)
    IN
    /\ At(p, "link") /\ CanLock(s) /\ Loaded(s).type # "dir"
    /\ itab' = tab /\ dinode' = Iupdate(tab, s)
    /\ ip' = [ip EXCEPT ![p] = s]
    /\ Goto(p, "link_start")
    /\ UNCHANGED <<ents, lock, files, call, goal, path, name, cur, later>>

\* nameiparent of the new name.
LinkStart(p) ==
    /\ At(p, "link_start")
    /\ StartNamex(p, call[p].new, "link_new")
    /\ UNCHANGED <<disk, lock, files, call, name, ip, later>>

LinkNew(p) ==
    LET s == cur[p] IN
    /\ At(p, "link_new") /\ CanLock(s) /\ Found(p) = 0
    /\ ents' = [ents EXCEPT ![itab[s].inum][name[p]] = itab[ip[p]].inum]
    /\ Leave(p, Read(s), Put(s) \o Put(ip[p]))
    /\ UNCHANGED <<dinode, lock, files>>

\* dirlink fails: the name exists.  Its inode is taken and put while the
\* directory is locked.
LinkExists(p) ==
    LET s == cur[p]
        found == IgetSlot(Read(s), Found(p))
    IN
    /\ At(p, "link_new") /\ CanLock(s) /\ Found(p) # 0
    /\ IF CanIget(Read(s), Found(p))
       THEN /\ itab' = Iget(Read(s), Found(p))
            /\ lock' = [lock EXCEPT ![s] = p]
            /\ later' = [later EXCEPT ![p] = Put(found) \o Unlock(s) \o Put(s)]
            /\ Goto(p, "link_undo")
            /\ UNCHANGED <<disk, files, regs>>
       ELSE NoEntry(p)

\* dirlink fails: the entry does not fit.
LinkFail(p) ==
    /\ At(p, "link_new") /\ CanLock(cur[p]) /\ Found(p) = 0
    /\ itab' = Read(cur[p])
    /\ later' = [later EXCEPT ![p] = Put(cur[p])]
    /\ Goto(p, "link_undo")
    /\ UNCHANGED <<disk, lock, files, regs>>

\* bad: the count goes back.
LinkUndo(p) ==
    LET s == ip[p]
        tab == WithNlink(s, Loaded(s).nlink - 1)
    IN
    /\ At(p, "link_undo") /\ CanLock(s)
    /\ dinode' = Iupdate(tab, s)
    /\ Leave(p, tab, Put(s))
    /\ UNCHANGED <<ents, lock, files>>

(***************************************************************************)
(* sys_chdir, sys_close, sys_dup; reads and writes of an open file; fork   *)
(* and exit.                                                               *)
(***************************************************************************)
ChdirNotDir(p) ==
    /\ At(p, "chdir") /\ CanLock(cur[p]) /\ Loaded(cur[p]).type # "dir"
    /\ Leave(p, Read(cur[p]), Put(cur[p]))
    /\ UNCHANGED <<disk, lock, files>>

ChdirDir(p) ==
    /\ At(p, "chdir") /\ CanLock(cur[p]) /\ Loaded(cur[p]).type = "dir"
    /\ itab' = Read(cur[p])
    /\ later' = [later EXCEPT ![p] = Put(cwd[p])]
    /\ Goto(p, "chdir_end")
    /\ UNCHANGED <<disk, lock, files, regs>>

\* The new directory is set after the transaction.
ChdirEnd(p) ==
    /\ At(p, "chdir_end")
    /\ cwd' = [cwd EXCEPT ![p] = cur[p]]
    /\ Return(p, <<>>)
    /\ UNCHANGED <<disk, itab, lock, ftab, ofile>>

\* argfd: descriptor d of p is open.
Argfd(p, d) == ofile[p][d] # None

\* filedup of f by the holders of a reference, n times.
Filedup(f, n) == [ftab EXCEPT ![f].ref = @ + n]

\* fileclose of the file of descriptor d, with its last reference the inode's.
CloseFd(p, d) ==
    LET f == ofile[p][d] IN
    /\ Argfd(p, d)
    /\ ofile' = [ofile EXCEPT ![p][d] = None]
    /\ ftab' = [ftab EXCEPT ![f] = IF @.ref = 1 THEN [ref |-> 0, ip |-> None]
                                   ELSE [@ EXCEPT !.ref = @ - 1]]
    /\ later' = [later EXCEPT ![p] = IF ftab[f].ref = 1 THEN Put(ftab[f].ip) ELSE <<>>]
    /\ UNCHANGED <<disk, itab, lock, cwd, pc, regs>>

Close(p, d) == At(p, "user") /\ [op |-> "close"] \in Calls[p] /\ CloseFd(p, d)

\* sys_dup: fdalloc, then filedup.
Dup(p, d) ==
    /\ At(p, "user") /\ [op |-> "dup"] \in Calls[p]
    /\ Argfd(p, d) /\ FreeFds(p) # {}
    /\ ofile' = [ofile EXCEPT ![p][Least(FreeFds(p))] = ofile[p][d]]
    /\ ftab' = Filedup(ofile[p][d], 1)
    /\ UNCHANGED <<disk, itab, lock, cwd, pc, regs, later>>

\* fileread, filewrite, filestat: the inode is locked, read if need be, let go.
FileIo(p, d) ==
    LET s == ftab[ofile[p][d]].ip IN
    /\ At(p, "user") /\ [op |-> "io"] \in Calls[p]
    /\ Argfd(p, d) /\ CanLock(s)
    /\ itab' = Read(s)
    /\ UNCHANGED <<disk, lock, files, pc, regs, later>>

\* fork: filedup of every file, idup of the current directory.
Fork(p, q) ==
    /\ At(p, "user") /\ At(q, "unborn")
    /\ ofile' = [ofile EXCEPT ![q] = ofile[p]]
    /\ ftab' = [f \in Files |-> Filedup(f, Cardinality({d \in Fds : ofile[p][d] = f}))[f]]
    /\ cwd' = [cwd EXCEPT ![q] = cwd[p]]
    /\ itab' = Idup(itab, cwd[p])
    /\ Goto(q, "user")
    /\ UNCHANGED <<disk, lock, regs, later>>

\* exit closes the descriptors one after the other, then puts the directory.
\* The first process never exits.
Exit(p) ==
    /\ At(p, "user") /\ [op |-> "exit"] \in Calls[p]
    /\ Goto(p, "exit")
    /\ UNCHANGED <<disk, itab, lock, files, regs, later>>

ExitClose(p) ==
    /\ At(p, "exit") /\ FreeFds(p) # Fds
    /\ CloseFd(p, Least(Fds \ FreeFds(p)))

ExitCwd(p) ==
    /\ At(p, "exit") /\ FreeFds(p) = Fds
    /\ later' = [later EXCEPT ![p] = Put(cwd[p])]
    /\ cwd' = [cwd EXCEPT ![p] = None]
    /\ Goto(p, "unborn")
    /\ UNCHANGED <<disk, itab, lock, ftab, ofile, regs>>

\* A call with a path begins: its walk is for goal g.
Begin(p, c, g) ==
    /\ At(p, "user")
    /\ call' = [call EXCEPT ![p] = c]
    /\ StartNamex(p, c.path, g)
    /\ UNCHANGED <<disk, lock, files, name, ip, later>>

SysOpen(p, c) ==
    \/ c.op = "creat" /\ Begin(p, c, "create")
    \/ c.op \in {"open", "openw"} /\ Begin(p, c, "open")
SysMknod(p, c) == c.op = "mknod" /\ Begin(p, c, "create")
SysMkdir(p, c) == c.op = "mkdir" /\ Begin(p, c, "create")
SysChdir(p, c) == c.op = "chdir" /\ Begin(p, c, "chdir")
SysUnlink(p, c) == c.op = "unlink" /\ Begin(p, c, "unlink")
SysLink(p, c) == c.op = "link" /\ Begin(p, c, "link")

Step(p) ==
    \/ DoUnlock(p) \/ Iput(p) \/ IputLast(p) \/ IputFree(p) \/ IputInvalidate(p) \/ IputDrop(p)
    \/ NamexDone(p) \/ NamexParent(p) \/ NamexNext(p) \/ NamexFail(p)
    \/ CreateFound(p) \/ CreateNoInode(p) \/ CreateIalloc(p)
    \/ CreateOld(p) \/ CreateFail(p) \/ CreateNew(p)
    \/ OpenLock(p) \/ OpenFile(p) \/ OpenFileFail(p)
    \/ UnlinkNone(p) \/ UnlinkFound(p) \/ UnlinkNotEmpty(p) \/ UnlinkEntry(p) \/ UnlinkDec(p)
    \/ LinkIsDir(p) \/ LinkOld(p) \/ LinkStart(p) \/ LinkNew(p) \/ LinkExists(p) \/ LinkFail(p)
    \/ LinkUndo(p)
    \/ ChdirNotDir(p) \/ ChdirDir(p) \/ ChdirEnd(p)
    \/ ExitClose(p) \/ ExitCwd(p)

Request(p) ==
    \/ At(p, "user") /\ \E c \in Calls[p] :
          \/ SysOpen(p, c) \/ SysMknod(p, c) \/ SysMkdir(p, c)
          \/ SysChdir(p, c) \/ SysUnlink(p, c) \/ SysLink(p, c)
    \/ \E d \in Fds : Close(p, d) \/ Dup(p, d) \/ FileIo(p, d)
    \/ \E q \in Procs : Fork(p, q)
    \/ Exit(p)

\* A CPU that panics in iget has itable.lock: no call gets past it again.
Stopped == \E p \in Procs : pc[p] = "no_entry"

Next ==
    \/ ~Stopped /\ \E p \in Procs : Step(p) \/ Request(p)
    \/ Stopped /\ UNCHANGED vars

Spec == Init /\ [][Next]_vars
---------------------------------------------------------------------------
\* No call is in progress.
Quiet == \A p \in Procs : At(p, "user") \/ At(p, "unborn")

\* The names of inode i in the directories on disk.
NamesOf(i) ==
    {<<d, n>> \in Inums \X Names : dinode[d].type = "dir" /\ ents[d][n] = i}

\* create, link, unlink: whatever the interleaving, a name leads to an inode
\* that is allocated and counts at least the names it has; a directory has one
\* name, its "." is itself and its ".." the directory that has the name.
NamesHaveInodes ==
    \A i \in Inums : NamesOf(i) # {} =>
        /\ dinode[i].type # "free" /\ dinode[i].nlink >= Cardinality(NamesOf(i))
        /\ dinode[i].type = "dir" => \A x \in NamesOf(i) :
              NamesOf(i) = {x} /\ ents[i]["."] = i /\ ents[i][".."] = x[1]

\* iget, idup, iput, filedup, fileclose and every error path: between calls an
\* entry of itable has as many references as there are open files and current
\* directories with it, and a file as many as there are descriptors.
RefsAccounted ==
    /\ \A f \in Files : ftab[f].ref =
          Cardinality({<<p, d>> \in Procs \X Fds : ofile[p][d] = f})
    /\ Quiet => \A s \in Slots : itab[s].ref =
          Cardinality({f \in Files : ftab[f].ip = s}) + Cardinality({p \in Procs : cwd[p] = s})

\* iget, ilock, iupdate: an inode has one entry in the table, and an entry that
\* is valid and not locked is what the disk has.
TableCoherent ==
    \A s \in Slots : itab[s].ref > 0 =>
        /\ \A t \in Slots : itab[t].ref > 0 /\ itab[t].inum = itab[s].inum => s = t
        /\ itab[s].valid /\ lock[s] = None =>
              dinode[itab[s].inum] = [type |-> itab[s].type, nlink |-> itab[s].nlink]

\* The entries that a process is about to lock.
Locks(p) ==
    CASE pc[p] \in {"create_old", "create_new", "unlink_ip", "link_undo"} -> {ip[p]}
      [] pc[p] \in {"create", "open", "unlink", "link", "link_new", "chdir"} -> {cur[p]}
      [] pc[p] = "namex" /\ path[p] # <<>> -> {cur[p]}
      [] pc[p] = "user" -> {ftab[ofile[p][d]].ip : d \in Fds \ FreeFds(p)}
      [] OTHER -> {}

\* The entries that the call of a process has a reference to, when iget panics.
Takes(p) ==
    {later[p][k].s : k \in DOMAIN later[p]} \cup
    CASE pc[p] \in {"no_entry", "namex", "create_new", "unlink_ip", "link_start", "link_new"} ->
            {cur[p], ip[p]}
      [] pc[p] \in {"create_old", "open_file", "unlink_dec", "link_undo"} -> {ip[p]}
      [] pc[p] \in {"create", "open", "unlink", "link", "chdir", "chdir_end"} -> {cur[p]}
      [] OTHER -> {}

\* Entry s is of an open file, of a current directory or of a call in progress.
InUse(s) ==
    \/ \E f \in Files : ftab[f].ip = s
    \/ \E p \in Procs : cwd[p] = s \/ s \in Takes(p)

\* No panic of ilock or unlink: what is about to be locked is allocated, and
\* iput never has to wait for the sleep lock it takes with itable.lock held.
\* iget panics only when each entry of itable is of an open file, a current
\* directory or a call in progress.
NoPanic ==
    \A p \in Procs :
        /\ pc[p] # "panic"
        /\ pc[p] = "no_entry" => \A s \in Slots : InUse(s)
        /\ later[p] = <<>> => \A s \in Locks(p) : lock[s] = None => ~NoType(s)
===========================================================================
