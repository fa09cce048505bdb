-------------------------------- MODULE Bio -------------------------------
(***************************************************************************)
(* The buffer cache of kernel/bio.c with the sleep lock of each buffer     *)
(* (kernel/sleeplock.c).  A process works on up to two buffers at a time,  *)
(* as bmap with balloc, itrunc with bfree, and write_log do: bread, any    *)
(* number of changes, writes and pins, brelse, for each.  One action is    *)
(* one critical section of bcache.lock or of a sleep lock's spinlock, or   *)
(* one transfer of virtio_disk_rw.  There is one device.                   *)
(*                                                                         *)
(* The callers keep to the rule of log.c: a changed buffer is written or   *)
(* pinned before it is released, and unpinned only when it is on disk.     *)
(***************************************************************************)
EXTENDS Naturals, FiniteSets

CONSTANTS
    Procs,
    Held,      \* how many buffers a process has at once: two, or fewer in an instance
    Bufs,
    Blocks,
    Data,
    MaxPins,   \* how many pins the log has at most (LOGSIZE - 1)
    None

\* A user is a process with one of the buffers it may have at a time.
Users == {u \in Procs \X {1, 2} : u[2] <= Held[u[1]]}

ASSUME NamesAssumption == None \notin Users \cup Bufs \cup Blocks
ASSUME SizeAssumption ==
    /\ IsFiniteSet(Procs) /\ IsFiniteSet(Bufs) /\ Held \in [Procs -> {1, 2}]
    /\ MaxPins \in Nat /\ Data # {}

VARIABLES
    list,      \* bcache.head's list, most recently used first
    blockno, valid, refcnt, data,   \* struct buf
    locked,    \* the user that holds the buffer's sleep lock
    disk,      \* the disk
    pc, want, buf,   \* each user: place, block asked for, buffer it uses
    pins,      \* calls of bpin not yet undone by bunpin, per buffer
    latest     \* history: what was last stored for each block

cache == <<list, blockno, valid, refcnt, data, locked>>
vars == <<cache, disk, pc, want, buf, pins, latest>>

Init ==
    /\ list \in {s \in [1 .. Cardinality(Bufs) -> Bufs] : \A b \in Bufs : \E k \in DOMAIN s : s[k] = b}
    /\ blockno = [b \in Bufs |-> None]
    /\ valid = [b \in Bufs |-> FALSE]
    /\ refcnt = [b \in Bufs |-> 0]
    /\ locked = [b \in Bufs |-> None]
    /\ disk \in [Blocks -> Data]
    /\ data \in [Bufs -> {CHOOSE d \in Data : TRUE}]
    /\ pc = [u \in Users |-> "idle"]
    /\ want = [u \in Users |-> None] /\ buf = [u \in Users |-> None]
    /\ pins = [b \in Bufs |-> 0]
    /\ latest = disk

Goto(u, l) == pc' = [pc EXCEPT ![u] = l]

(***************************************************************************)
(* bread.                                                                  *)
(***************************************************************************)
Bread(u, blk) ==
    /\ pc[u] = "idle"
    /\ want' = [want EXCEPT ![u] = blk]
    /\ Goto(u, "bget")
    /\ UNCHANGED <<cache, disk, buf, pins, latest>>

Cached(blk) == {b \in Bufs : blockno[b] = blk}

\* Fault: only buffers that were never filled are taken for unused.
UnusedInvalid == {b \in Bufs : refcnt[b] = 0 /\ ~valid[b]}

Unused == {b \in Bufs : refcnt[b] = 0}

\* Fault: bget forgets to count the new user.
BgetHitUncounted(u) ==
    /\ pc[u] = "bget"
    /\ \E b \in Cached(want[u]) : buf' = [buf EXCEPT ![u] = b]
    /\ Goto(u, "lock")
    /\ UNCHANGED <<cache, disk, want, pins, latest>>

\* bget finds the block.
BgetHit(u) ==
    /\ pc[u] = "bget"
    /\ \E b \in Cached(want[u]) :
          /\ refcnt' = [refcnt EXCEPT ![b] = @ + 1]
          /\ buf' = [buf EXCEPT ![u] = b]
    /\ Goto(u, "lock")
    /\ UNCHANGED <<list, blockno, valid, data, locked, disk, want, pins, latest>>

Position(b) == CHOOSE k \in DOMAIN list : list[k] = b

\* The unused buffer that is last in the list.
LRU == CHOOSE b \in Unused : \A a \in Unused : Position(a) <= Position(b)

\* Fault: the recycled buffer stays valid.
BgetRecycleValid(u) ==
    /\ pc[u] = "bget" /\ Cached(want[u]) = {} /\ Unused # {}
    /\ blockno' = [blockno EXCEPT ![LRU] = want[u]]
    /\ refcnt' = [refcnt EXCEPT ![LRU] = 1]
    /\ buf' = [buf EXCEPT ![u] = LRU]
    /\ Goto(u, "lock")
    /\ UNCHANGED <<list, data, locked, disk, want, pins, latest, valid>>

\* bget recycles the least recently used unused buffer.
BgetRecycle(u) ==
    /\ pc[u] = "bget" /\ Cached(want[u]) = {} /\ Unused # {}
    /\ blockno' = [blockno EXCEPT ![LRU] = want[u]]
    /\ valid' = [valid EXCEPT ![LRU] = FALSE]
    /\ refcnt' = [refcnt EXCEPT ![LRU] = 1]
    /\ buf' = [buf EXCEPT ![u] = LRU]
    /\ Goto(u, "lock")
    /\ UNCHANGED <<list, data, locked, disk, want, pins, latest>>

\* panic("no buffers"), with bcache.lock held: the machine stops.
BgetPanic(u) ==
    /\ pc[u] = "bget" /\ Cached(want[u]) = {} /\ Unused = {}
    /\ Goto(u, "panic")
    /\ UNCHANGED <<cache, disk, want, buf, pins, latest>>

\* acquiresleep: sleep while locked, then take the lock.
AcquireSleep(u) ==
    /\ pc[u] = "lock"
    /\ IF locked[buf[u]] # None
       THEN Goto(u, "asleep") /\ UNCHANGED locked
       ELSE locked' = [locked EXCEPT ![buf[u]] = u] /\ Goto(u, "bread")
    /\ UNCHANGED <<list, blockno, valid, refcnt, data, disk, want, buf, pins, latest>>

\* The rest of bread: a buffer that is not valid is read from the disk.
BreadCheck(u) ==
    /\ pc[u] = "bread"
    /\ Goto(u, IF valid[buf[u]] THEN "has" ELSE "reading")
    /\ UNCHANGED <<cache, disk, want, buf, pins, latest>>

BreadDone(u) ==
    /\ pc[u] = "reading"
    /\ data' = [data EXCEPT ![buf[u]] = disk[blockno[buf[u]]]]
    /\ valid' = [valid EXCEPT ![buf[u]] = TRUE]
    /\ Goto(u, "has")
    /\ UNCHANGED <<list, blockno, refcnt, locked, disk, want, buf, pins, latest>>

(***************************************************************************)
(* What a caller does with a locked buffer.                                *)
(***************************************************************************)
Change(u, d) ==
    /\ pc[u] = "has"
    /\ data' = [data EXCEPT ![buf[u]] = d]
    /\ latest' = [latest EXCEPT ![want[u]] = d]
    /\ UNCHANGED <<list, blockno, valid, refcnt, locked, disk, pc, want, buf, pins>>

Bwrite(u) ==
    /\ pc[u] = "has"
    /\ disk' = [disk EXCEPT ![blockno[buf[u]]] = data[buf[u]]]
    /\ UNCHANGED <<cache, pc, want, buf, pins, latest>>

\* bpin, which log_write calls once for a block in a transaction.
Bpin(u) ==
    LET b == buf[u] IN
    /\ pc[u] = "has" /\ pins[b] = 0
    /\ Cardinality({a \in Bufs : pins[a] > 0}) < MaxPins
    /\ refcnt' = [refcnt EXCEPT ![b] = @ + 1]
    /\ pins' = [pins EXCEPT ![b] = @ + 1]
    /\ UNCHANGED <<list, blockno, valid, data, locked, disk, pc, want, buf, latest>>

\* bunpin, which install_trans calls after bwrite.
Bunpin(u) ==
    LET b == buf[u] IN
    /\ pc[u] = "has" /\ pins[b] > 0 /\ data[b] = disk[want[u]]
    /\ refcnt' = [refcnt EXCEPT ![b] = @ - 1]
    /\ pins' = [pins EXCEPT ![b] = @ - 1]
    /\ UNCHANGED <<list, blockno, valid, data, locked, disk, pc, want, buf, latest>>

(***************************************************************************)
(* brelse.                                                                 *)
(***************************************************************************)
\* releasesleep: the lock is free, and who sleeps on it is woken.
ReleaseSleep(u) ==
    LET b == buf[u] IN
    /\ pc[u] = "has"
    /\ pins[b] > 0 \/ data[b] = disk[want[u]]
    /\ locked' = [locked EXCEPT ![b] = None]
    /\ pc' = [q \in Users |-> CASE q = u -> "release"
                                [] q # u /\ pc[q] = "asleep" /\ buf[q] = b -> "lock"
                                [] OTHER -> pc[q]]
    /\ UNCHANGED <<list, blockno, valid, refcnt, data, disk, want, buf, pins, latest>>

\* The list with b unlinked and put at the front.
MoveToFront(b) ==
    [k \in DOMAIN list |-> IF k = 1 THEN b ELSE IF k <= Position(b) THEN list[k - 1] ELSE list[k]]

\* The section of bcache.lock: the last user moves the buffer to the front.
Brelse(u) ==
    LET b == buf[u] IN
    /\ pc[u] = "release"
    /\ refcnt' = [refcnt EXCEPT ![b] = @ - 1]
    /\ list' = IF refcnt'[b] = 0 THEN MoveToFront(b) ELSE list
    /\ want' = [want EXCEPT ![u] = None]
    /\ buf' = [buf EXCEPT ![u] = None]
    /\ Goto(u, "idle")
    /\ UNCHANGED <<blockno, valid, data, locked, disk, pins, latest>>

Step(u) ==
    \/ BgetHit(u) \/ BgetRecycle(u) \/ BgetPanic(u)
    \/ AcquireSleep(u) \/ BreadCheck(u) \/ BreadDone(u)
    \/ (\E d \in Data : Change(u, d)) \/ Bwrite(u) \/ Bpin(u) \/ Bunpin(u)
    \/ ReleaseSleep(u) \/ Brelse(u)

\* The other users with the process of u.
Others(u) == {v \in Users : v[1] = u[1] /\ v # u}

\* A process does one thing after the other, and asks for no block it has.
Next ==
    /\ \A u \in Users : pc[u] # "panic"
    /\ \E u \in Users :
          /\ \A v \in Others(u) : pc[v] \in {"idle", "has"}
          /\ Step(u) \/ \E blk \in Blocks \ {want[v] : v \in Others(u)} : Bread(u, blk)

Spec == Init /\ [][Next]_vars
---------------------------------------------------------------------------
\* bget, brelse, bpin, bunpin: refcnt counts the users and the pins, no more
\* and no less, so a buffer is recycled only when nobody has it.
RefsCounted ==
    \A b \in Bufs : refcnt[b] = Cardinality({u \in Users : buf[u] = b}) + pins[b]

\* bread: the caller has the buffer of its block to itself, and in it what
\* was last stored for the block, by whomever.
HolderSeesLatest ==
    \A u \in Users : pc[u] = "has" =>
        LET b == buf[u] IN
        /\ locked[b] = u /\ blockno[b] = want[u] /\ valid[b]
        /\ data[b] = latest[want[u]]

\* bget and brelse: bget does not run out of buffers while there are as many
\* as the log pins and the processes have at a time.
EnoughBuffers ==
    (\E u \in Users : pc[u] = "panic") =>
        Cardinality({b \in Bufs : pins[b] > 0}) + Cardinality(Users) > Cardinality(Bufs)
===========================================================================
