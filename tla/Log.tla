------------------------------- MODULE Log --------------------------------
(***************************************************************************)
(* The redo log of kernel/log.c: begin_op, log_write, end_op, commit with  *)
(* its four phases, and recovery by initlog after a crash.                 *)
(*                                                                         *)
(* One action is one critical section of log.lock or one synchronous disk  *)
(* write (bwrite), so that a crash falls between any two disk writes.  A   *)
(* block write is atomic.  The buffer cache is reduced to what the log     *)
(* relies on: a buffer holds its contents while it is pinned or locked,    *)
(* and may be recycled otherwise.  The log's own blocks are always written *)
(* through, so for them the cache and the disk agree and only the disk is  *)
(* kept.                                                                   *)
(***************************************************************************)
EXTENDS Integers, Sequences, FiniteSets

CONSTANTS
    Procs,        \* processes making file system calls
    InitProc,     \* the first process, whose forkret runs fsinit and initlog
    Blocks,       \* blocks outside the log area
    Data,         \* contents of a block
    ZeroData,     \* the zeroed block
    LOGSIZE,      \* capacity of struct logheader (param.h)
    MAXOPBLOCKS,  \* log space begin_op reserves for a call (param.h)
    NLOG,         \* blocks of the log area, header included (superblock nlog)
    OpBlocks,     \* distinct blocks a call really logs (its callers in fs.c)
    NoData,       \* a block without a buffer
    NoBlock       \* no buffer held

ASSUME ProcsAssumption == IsFiniteSet(Procs) /\ InitProc \in Procs
ASSUME DataAssumption == ZeroData \in Data /\ NoData \notin Data /\ NoBlock \notin Blocks
ASSUME SizeAssumption ==
    /\ LOGSIZE \in Nat /\ MAXOPBLOCKS \in Nat \ {0} /\ NLOG \in Nat \ {0}
    /\ OpBlocks \in Nat

VARIABLES
    \* memory, lost in a crash
    pc,           \* where each process is in begin_op .. end_op and commit
    tail,         \* the loop variable of write_log and install_trans
    lh,           \* log.lh: block[0 .. n-1]
    outstanding,  \* log.outstanding
    committing,   \* log.committing
    cache,        \* b->data of each cached block, NoData when not cached
    pin,          \* references bpin holds on each block's buffer
    held,         \* the buffer a process has modified and not yet logged
    wrote,        \* blocks each process's current call has logged
    panicked,     \* a panic() of log.c has been reached
    \* the disk
    dlh,          \* the header block of the log
    dlog,         \* the data blocks of the log
    home          \* the home location of each block

memory == <<pc, tail, lh, outstanding, committing, cache, pin, held, wrote, panicked>>
disk == <<dlh, dlog, home>>
vars == <<pc, tail, lh, outstanding, committing, cache, pin, held, wrote, panicked,
          dlh, dlog, home>>

Slots == 1 .. (NLOG - 1)
PCs == {"off", "read_head", "recover", "idle", "begin", "sleep", "op",
        "write_log", "install", "end"}
CommitPCs == {"write_log", "install", "end"}

InLog(b) == \E i \in 1 .. Len(lh) : lh[i] = b
IsHeld(b) == \E p \in Procs : held[p] = b

\* What bread(b)->data is: the cached copy, or the block read from the disk.
Contents(b) == IF cache[b] = NoData THEN home[b] ELSE cache[b]

\* Memory right after power-on: main() starts the first process, whose
\* forkret calls fsinit and initlog; nobody else runs yet.
PowerOnPC == [p \in Procs |-> IF p = InitProc THEN "read_head" ELSE "off"]

Init ==
    /\ pc = PowerOnPC
    /\ tail = [p \in Procs |-> 1]
    /\ lh = <<>>
    /\ outstanding = 0
    /\ committing = FALSE
    /\ cache = [b \in Blocks |-> NoData]
    /\ pin = [b \in Blocks |-> 0]
    /\ held = [p \in Procs |-> NoBlock]
    /\ wrote = [p \in Procs |-> {}]
    /\ panicked = FALSE
    /\ dlh = <<>>
    /\ dlog = [i \in Slots |-> ZeroData]   \* mkfs zeroes the disk
    /\ home \in [Blocks -> Data]

(***************************************************************************)
(* Calls between begin_op and end_op.                                      *)
(***************************************************************************)
\* Fault: begin_op forgets the call that is about to start.
NoSpaceForOthers == Len(lh) + outstanding * MAXOPBLOCKS > LOGSIZE

NoSpace == Len(lh) + (outstanding + 1) * MAXOPBLOCKS > LOGSIZE

\* begin_op, one turn of its loop: sleep on &log ...
BeginOpSleep(p) ==
    /\ pc[p] \in {"idle", "begin"}
    /\ committing \/ NoSpace
    /\ pc' = [pc EXCEPT ![p] = "sleep"]
    /\ UNCHANGED <<tail, lh, outstanding, committing, cache, pin, held, wrote, panicked, disk>>

\* Fault: begin_op does not look at log.committing.
BeginOpDuringCommit(p) ==
    /\ pc[p] \in {"idle", "begin"}
    /\ ~NoSpace
    /\ outstanding' = outstanding + 1
    /\ pc' = [pc EXCEPT ![p] = "op"]
    /\ wrote' = [wrote EXCEPT ![p] = {}]
    /\ UNCHANGED <<tail, lh, committing, cache, pin, held, panicked, disk>>

\* ... or reserve log space and return.
BeginOpEnter(p) ==
    /\ pc[p] \in {"idle", "begin"}
    /\ ~committing /\ ~NoSpace
    /\ outstanding' = outstanding + 1
    /\ pc' = [pc EXCEPT ![p] = "op"]
    /\ wrote' = [wrote EXCEPT ![p] = {}]
    /\ UNCHANGED <<tail, lh, committing, cache, pin, held, panicked, disk>>

\* The caller's bread(b) and its change of b->data; the buffer stays locked.
Modify(p, b, d) ==
    /\ pc[p] = "op" /\ held[p] = NoBlock
    /\ ~IsHeld(b)
    /\ Cardinality(wrote[p] \cup {b}) <= OpBlocks
    /\ cache' = [cache EXCEPT ![b] = d]
    /\ held' = [held EXCEPT ![p] = b]
    /\ UNCHANGED <<pc, tail, lh, outstanding, committing, pin, wrote, panicked, disk>>

TooBig == Len(lh) >= LOGSIZE \/ Len(lh) >= NLOG - 1

\* Fault: log_write pins the buffer of an absorbed block again.
LogWritePinsTwice(p) ==
    LET b == held[p] IN
    /\ pc[p] = "op" /\ b # NoBlock
    /\ ~TooBig
    /\ lh' = IF InLog(b) THEN lh ELSE Append(lh, b)
    /\ pin' = [pin EXCEPT ![b] = @ + 1]
    /\ wrote' = [wrote EXCEPT ![p] = @ \cup {b}]
    /\ held' = [held EXCEPT ![p] = NoBlock]
    /\ UNCHANGED <<pc, tail, outstanding, committing, cache, panicked, disk>>

\* log_write(b) with its panics, then the caller's brelse(b).
LogWrite(p) ==
    LET b == held[p] IN
    /\ pc[p] = "op" /\ b # NoBlock
    /\ IF TooBig \/ outstanding < 1
       THEN /\ panicked' = TRUE
            /\ UNCHANGED <<lh, pin, held, wrote>>
       ELSE /\ IF InLog(b)
               THEN UNCHANGED <<lh, pin>>
               ELSE /\ lh' = Append(lh, b)
                    /\ pin' = [pin EXCEPT ![b] = @ + 1]
            /\ wrote' = [wrote EXCEPT ![p] = @ \cup {b}]
            /\ held' = [held EXCEPT ![p] = NoBlock]
            /\ UNCHANGED panicked
    /\ UNCHANGED <<pc, tail, outstanding, committing, cache, disk>>

\* writei when either_copyin fails part of the way: the changed buffer is
\* released without log_write.
ReleaseUnlogged(p) ==
    /\ pc[p] = "op" /\ held[p] # NoBlock
    /\ held' = [held EXCEPT ![p] = NoBlock]
    /\ UNCHANGED <<pc, tail, lh, outstanding, committing, cache, pin, wrote, panicked, disk>>

\* wakeup(&log): sleepers go back to the loop of begin_op.
Woken == [q \in Procs |-> IF pc[q] = "sleep" THEN "begin" ELSE pc[q]]

\* end_op up to the release of log.lock.  The last call to end starts commit,
\* which skips its four phases when nothing was logged.
EndOp(p) ==
    /\ pc[p] = "op" /\ held[p] = NoBlock
    /\ outstanding' = outstanding - 1
    /\ IF committing
       THEN panicked' = TRUE /\ UNCHANGED <<pc, tail, committing>>
       ELSE /\ IF outstanding' = 0
               THEN /\ committing' = TRUE
                    /\ pc' = [pc EXCEPT ![p] = IF lh = <<>> THEN "end" ELSE "write_log"]
                    /\ tail' = [tail EXCEPT ![p] = 1]
               ELSE /\ pc' = [Woken EXCEPT ![p] = "idle"]
                    /\ UNCHANGED <<tail, committing>>
            /\ UNCHANGED panicked
    /\ UNCHANGED <<lh, cache, pin, held, wrote, disk>>

(***************************************************************************)
(* commit: write_log, write_head, install_trans(0), write_head.            *)
(***************************************************************************)
\* One turn of write_log.
WriteLog(p) ==
    /\ pc[p] = "write_log" /\ tail[p] <= Len(lh)
    /\ dlog' = [dlog EXCEPT ![tail[p]] = Contents(lh[tail[p]])]
    /\ tail' = [tail EXCEPT ![p] = @ + 1]
    /\ UNCHANGED <<pc, lh, outstanding, committing, cache, pin, held, wrote, panicked, dlh, home>>

\* Fault: commit goes from write_log to install_trans without write_head.
WriteHeadSkipped(p) ==
    /\ pc[p] = "write_log" /\ tail[p] > Len(lh)
    /\ pc' = [pc EXCEPT ![p] = "install"]
    /\ tail' = [tail EXCEPT ![p] = 1]
    /\ UNCHANGED <<lh, outstanding, committing, cache, pin, held, wrote, panicked, disk>>

\* write_head after write_log: the point of commit.
WriteHead(p) ==
    /\ pc[p] = "write_log" /\ tail[p] > Len(lh)
    /\ dlh' = lh
    /\ pc' = [pc EXCEPT ![p] = "install"]
    /\ tail' = [tail EXCEPT ![p] = 1]
    /\ UNCHANGED <<lh, outstanding, committing, cache, pin, held, wrote, panicked, dlog, home>>

\* One turn of install_trans: the log block is copied into the buffer of its
\* home block, and the buffer written to the disk.
CopyHome(p) ==
    LET b == lh[tail[p]] IN
    /\ tail[p] <= Len(lh)
    /\ cache' = [cache EXCEPT ![b] = dlog[tail[p]]]
    /\ home' = [home EXCEPT ![b] = dlog[tail[p]]]
    /\ tail' = [tail EXCEPT ![p] = @ + 1]

\* install_trans(0): the buffer log_write pinned is unpinned.
Install(p) ==
    /\ pc[p] = "install"
    /\ CopyHome(p)
    /\ pin' = [pin EXCEPT ![lh[tail[p]]] = @ - 1]
    /\ UNCHANGED <<pc, lh, outstanding, committing, held, wrote, panicked, dlh, dlog>>

\* log.lh.n = 0 and the second write_head, which erases the transaction.
EraseLog(p) ==
    /\ tail[p] > Len(lh)
    /\ lh' = <<>>
    /\ dlh' = <<>>

CommitErase(p) ==
    /\ pc[p] = "install"
    /\ EraseLog(p)
    /\ pc' = [pc EXCEPT ![p] = "end"]
    /\ UNCHANGED <<tail, outstanding, committing, cache, pin, held, wrote, panicked, dlog, home>>

\* Fault: end_op does not wake the sleepers after commit.
EndCommitNoWakeup(p) ==
    /\ pc[p] = "end"
    /\ committing' = FALSE
    /\ pc' = [pc EXCEPT ![p] = "idle"]
    /\ UNCHANGED <<tail, lh, outstanding, cache, pin, held, wrote, panicked, disk>>

\* The rest of end_op after commit returns.
EndCommit(p) ==
    /\ pc[p] = "end"
    /\ committing' = FALSE
    /\ pc' = [Woken EXCEPT ![p] = "idle"]
    /\ UNCHANGED <<tail, lh, outstanding, cache, pin, held, wrote, panicked, disk>>

(***************************************************************************)
(* recover_from_log: read_head, install_trans(1), write_head.              *)
(***************************************************************************)
\* read_head at power-on.
ReadHead(p) ==
    /\ pc[p] = "read_head"
    /\ lh' = dlh
    /\ pc' = [pc EXCEPT ![p] = "recover"]
    /\ UNCHANGED <<tail, outstanding, committing, cache, pin, held, wrote, panicked, disk>>

\* install_trans(1): no process has pinned the buffer since power-on.
RecoverInstall(p) ==
    /\ pc[p] = "recover"
    /\ CopyHome(p)
    /\ UNCHANGED <<pc, lh, outstanding, committing, pin, held, wrote, panicked, dlh, dlog>>

\* Fault: recovery erases the log without install_trans(1).
RecoverEraseEarly(p) ==
    /\ pc[p] = "recover"
    /\ lh' = <<>>
    /\ dlh' = <<>>
    /\ pc' = [q \in Procs |-> "idle"]
    /\ UNCHANGED <<tail, outstanding, committing, cache, pin, held, wrote, panicked, dlog, home>>

\* After recovery the first process goes on to user space and others follow.
RecoverErase(p) ==
    /\ pc[p] = "recover"
    /\ EraseLog(p)
    /\ pc' = [q \in Procs |-> "idle"]
    /\ UNCHANGED <<tail, outstanding, committing, cache, pin, held, wrote, panicked, dlog, home>>

(***************************************************************************)
(* The environment: readers, the buffer cache's recycling, and crashes.    *)
(***************************************************************************)
\* bread and brelse by a reader (fileread takes no begin_op).
Read(b) ==
    /\ \E p \in Procs : pc[p] = "idle"
    /\ cache[b] = NoData
    /\ cache' = [cache EXCEPT ![b] = home[b]]
    /\ UNCHANGED <<pc, tail, lh, outstanding, committing, pin, held, wrote, panicked, disk>>

\* bget takes a buffer with refcnt 0 for another block.
Recycle(b) ==
    /\ cache[b] # NoData /\ pin[b] = 0 /\ ~IsHeld(b)
    /\ cache' = [cache EXCEPT ![b] = NoData]
    /\ UNCHANGED <<pc, tail, lh, outstanding, committing, pin, held, wrote, panicked, disk>>

Crash ==
    /\ pc' = PowerOnPC
    /\ tail' = [p \in Procs |-> 1]
    /\ lh' = <<>>
    /\ outstanding' = 0
    /\ committing' = FALSE
    /\ cache' = [b \in Blocks |-> NoData]
    /\ pin' = [b \in Blocks |-> 0]
    /\ held' = [p \in Procs |-> NoBlock]
    /\ wrote' = [p \in Procs |-> {}]
    /\ panicked' = FALSE
    /\ UNCHANGED disk

CommitStep(p) == WriteLog(p) \/ WriteHead(p) \/ Install(p) \/ CommitErase(p) \/ EndCommit(p)
RecoverStep(p) == ReadHead(p) \/ RecoverInstall(p) \/ RecoverErase(p)
BeginOp(p) == BeginOpSleep(p) \/ BeginOpEnter(p)

Step(p) ==
    \/ BeginOp(p)
    \/ \E b \in Blocks, d \in Data : Modify(p, b, d)
    \/ LogWrite(p) \/ ReleaseUnlogged(p) \/ EndOp(p)
    \/ CommitStep(p)
    \/ RecoverStep(p)

\* A panicking CPU spins with log.lock held: no call gets past it again.
Next ==
    \/ ~panicked /\ \E p \in Procs : Step(p)
    \/ \E b \in Blocks : Read(b) \/ Recycle(b)
    \/ Crash

Spec == Init /\ [][Next]_vars
---------------------------------------------------------------------------
TypeOK ==
    /\ pc \in [Procs -> PCs]
    /\ tail \in [Procs -> Nat \ {0}]
    /\ lh \in Seq(Blocks)
    /\ outstanding \in Nat
    /\ committing \in BOOLEAN
    /\ cache \in [Blocks -> Data \cup {NoData}]
    /\ pin \in [Blocks -> Nat]
    /\ held \in [Procs -> Blocks \cup {NoBlock}]
    /\ wrote \in [Procs -> SUBSET Blocks]
    /\ panicked \in BOOLEAN
    /\ dlh \in Seq(Blocks)
    /\ dlog \in [Slots -> Data]
    /\ home \in [Blocks -> Data]

\* log_write keeps the transaction within struct logheader and within the
\* log area of the disk: write_log never reaches the blocks after the area.
LogFits == Len(lh) <= LOGSIZE /\ Len(lh) <= NLOG - 1

\* Neither log_write nor end_op panics: the space begin_op reserves is enough
\* for the calls it lets in, and no call ends while a commit runs.
NoPanic == ~panicked

Committers == {p \in Procs : pc[p] \in CommitPCs}
InOp == {p \in Procs : pc[p] = "op"}

\* end_op and begin_op keep commit alone: one process commits, and no call is
\* between its begin_op and its end_op meanwhile.
CommitAlone ==
    /\ committing => \E p \in Procs : Committers = {p} /\ InOp = {}
    /\ ~committing => Committers = {}

Booting == pc[InitProc] \in {"read_head", "recover"}

\* b is in the transaction and not yet written to its home location.
OnlyCopy(b) ==
    \E i \in 1 .. Len(lh) :
        lh[i] = b /\ \A p \in Procs : pc[p] = "install" => tail[p] <= i

\* log_write pins a block once per transaction and install_trans unpins it
\* once: a block is pinned exactly while the log holds its only good copy.
PinnedUntilInstalled ==
    \A b \in Blocks : pin[b] = IF ~Booting /\ OnlyCopy(b) THEN 1 ELSE 0

\* begin_op, end_op: a process asleep in begin_op waits for a commit or a call
\* in progress, whose end will wake it up.
SleepersCalled ==
    \A p \in Procs : pc[p] = "sleep" => committing \/ outstanding > 0

\* Write-ahead: a home block is overwritten only with the copy that the
\* committed log on the disk holds for it.
WriteAhead ==
    [][\A b \in Blocks : home'[b] # home[b] =>
          \E i \in 1 .. Len(dlh) : dlh[i] = b /\ dlog[i] = home'[b]]_vars

(***************************************************************************)
(* Refinement.  A restart reads the committed log over the home blocks; up *)
(* to the end of recovery the calls' updates are that too.  Afterwards an  *)
(* update counts while its buffer is locked or in the transaction: what    *)
(* writei releases unlogged stays readable in the cache until the buffer   *)
(* is recycled, and is no part of what the calls have written.             *)
(***************************************************************************)
Committed(b) == \E i \in 1 .. Len(dlh) : dlh[i] = b
Recovered ==
    [b \in Blocks |->
        IF Committed(b) THEN dlog[CHOOSE i \in 1 .. Len(dlh) : dlh[i] = b] ELSE home[b]]

Current ==
    IF Booting THEN Recovered
    ELSE [b \in Blocks |-> IF InLog(b) \/ IsHeld(b) THEN Contents(b) ELSE home[b]]

Atomic == INSTANCE AtomicDisk WITH
    durable <- Recovered, volatile <- Current, active <- InOp

\* The log makes the file system calls of a transaction atomic with respect
\* to crashes at any disk write, including crashes during recovery.
CallsAtomic == Atomic!Spec

(***************************************************************************)
(* The inductive invariant behind the safety properties.                   *)
(***************************************************************************)
BootPCs == {"off", "read_head", "recover"}

\* Recovery runs alone, before any call.
BootAlone ==
    IF Booting
    THEN /\ \A p \in Procs : p # InitProc => pc[p] = "off"
         /\ ~committing /\ panicked = FALSE
         /\ \A b \in Blocks : Contents(b) = home[b]
    ELSE \A p \in Procs : pc[p] \notin BootPCs

\* log.outstanding counts the calls in progress.
CountsCalls == outstanding = Cardinality(InOp)

\* log.committing says that one process commits, with no call in progress.
OneCommitter ==
    /\ committing <=> Committers # {}
    /\ \A p, q \in Committers : p = q
    /\ committing => outstanding = 0

\* Log absorption: no block is twice in a transaction, and it fits.
LogInjective ==
    /\ \A i, j \in 1 .. Len(lh) : lh[i] = lh[j] => i = j
    /\ \A i, j \in 1 .. Len(dlh) : dlh[i] = dlh[j] => i = j
    /\ Len(lh) <= LOGSIZE /\ Len(lh) <= NLOG - 1
    /\ Len(dlh) <= LOGSIZE /\ Len(dlh) <= NLOG - 1

\* Only a call in progress holds a modified buffer.
HeldInOp == \A p \in Procs : held[p] # NoBlock => pc[p] = "op"

\* How far install_trans has come on behalf of p.
Installed(p) ==
    /\ lh = dlh
    /\ tail[p] <= Len(lh) + 1
    /\ \A i \in 1 .. Len(lh) : i < tail[p] => home[lh[i]] = dlog[i]

\* What the disk holds in each phase.
PhaseInv ==
    /\ ~committing /\ ~Booting => dlh = <<>>
    /\ \A p \in Procs :
        /\ pc[p] = "write_log" =>
              /\ dlh = <<>>
              /\ tail[p] <= Len(lh) + 1
              /\ \A i \in 1 .. Len(lh) : i < tail[p] => dlog[i] = Contents(lh[i])
        /\ pc[p] = "install" =>
              /\ Installed(p)
              /\ \A i \in 1 .. Len(lh) : dlog[i] = Contents(lh[i])
        /\ pc[p] = "end" => lh = <<>> /\ dlh = <<>>
        /\ pc[p] = "read_head" => lh = <<>> /\ tail[p] = 1
        /\ pc[p] = "recover" => Installed(p)

LogInv ==
    /\ TypeOK /\ BootAlone /\ CountsCalls /\ OneCommitter /\ LogInjective
    /\ HeldInOp /\ PhaseInv /\ PinnedUntilInstalled
===========================================================================
