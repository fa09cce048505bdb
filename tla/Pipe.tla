------------------------------- MODULE Pipe -------------------------------
(***************************************************************************)
(* One pipe of kernel/pipe.c and the processes that hold its two ends.     *)
(* Everything happens under pi->lock, one action per byte, because kill    *)
(* does not take that lock and may fall between any two tests of           *)
(* killed(pr).  nread and nwrite are unsigned and wrap at Wrap (2^32).     *)
(* A process has at most one descriptor of each end, so the reference      *)
(* count of an end's struct file is the number of its holders.             *)
(***************************************************************************)
EXTENDS Integers, Sequences, FiniteSets

CONSTANTS
    Procs,
    Bytes,
    PIPESIZE,
    Wrap,       \* the modulus of nread and nwrite
    MaxN,       \* bound: bytes in one call; 0 stands for n <= 0
    Readers, Writers,   \* who has the read end and the write end to begin with
    Killable,   \* the processes that others may kill
    None

ASSUME SizeAssumption ==
    /\ PIPESIZE \in Nat \ {0} /\ Wrap \in Nat
    /\ PIPESIZE < Wrap /\ Wrap % PIPESIZE = 0
ASSUME BoundAssumption == MaxN \in Nat
ASSUME ProcsAssumption ==
    /\ None \notin Procs /\ Killable \subseteq Procs
    /\ Readers \in (SUBSET Procs) \ {{}} /\ Writers \in (SUBSET Procs) \ {{}}

VARIABLES
    data, nread, nwrite, readopen, writeopen,   \* struct pipe
    lock,      \* the process in a section of pi->lock
    freed,     \* how often the page of the pipe was given to kfree
    holds,     \* the ends a process has open
    pc,        \* where each process is in its call
    left,      \* n - i: the bytes a call has still to move
    some,      \* i > 0
    killed,    \* p->killed
    last,      \* the byte piperead took out last
    mute       \* history: since the last wakeup of the readers, a writer was
               \* refused because it was killed, with bytes stored

ring == <<data, nread, nwrite>>
ends == <<readopen, writeopen, freed, holds>>
call == <<left, some>>
vars == <<ring, ends, lock, pc, call, killed, last, mute>>

Ends == {"r", "w"}

Init ==
    /\ data \in [0 .. PIPESIZE - 1 -> Bytes]   \* whatever the page from kalloc holds
    /\ nread = 0 /\ nwrite = 0
    /\ readopen = TRUE /\ writeopen = TRUE /\ freed = 0
    /\ holds = [p \in Procs |-> (IF p \in Readers THEN {"r"} ELSE {})
                                  \cup (IF p \in Writers THEN {"w"} ELSE {})]
    /\ lock = None
    /\ pc = [p \in Procs |-> "idle"]
    /\ left = [p \in Procs |-> 0] /\ some = [p \in Procs |-> FALSE]
    /\ killed = [p \in Procs |-> FALSE]
    /\ last = <<>> /\ mute = FALSE

Goto(p, l) == pc' = [pc EXCEPT ![p] = l]

\* wakeup(&pi->nread) or wakeup(&pi->nwrite), by process p, which then goes to l.
WakeAndGoto(asleep, woken, p, l) ==
    pc' = [q \in Procs |-> IF q = p THEN l
                           ELSE IF pc[q] = asleep THEN woken ELSE pc[q]]
WakeReaders(p, l) == WakeAndGoto("r_asleep", "r_lock", p, l) /\ mute' = FALSE
WakeWriters(p, l) == WakeAndGoto("w_asleep", "w_lock", p, l) /\ UNCHANGED mute

\* One more byte of the call of p is moved.
Moved(p) ==
    /\ left' = [left EXCEPT ![p] = @ - 1]
    /\ some' = [some EXCEPT ![p] = TRUE]

Empty == nread = nwrite
Full == nwrite = (nread + PIPESIZE) % Wrap

\* Fault: piperead tests for data with if, not while.
AcquireNoRecheck(p) ==
    /\ lock = None
    /\ \/ pc[p] = "w_lock" /\ Goto(p, "w_check")
       \/ pc[p] = "r_lock" /\ Goto(p, IF Empty /\ killed[p] THEN "r_check" ELSE "r_copy")
    /\ lock' = p
    /\ UNCHANGED <<ring, ends, call, killed, last, mute>>

\* acquire(&pi->lock), at the start of a call or at the end of sleep.
Acquire(p) ==
    /\ lock = None
    /\ \/ pc[p] = "w_lock" /\ Goto(p, "w_check")
       \/ pc[p] = "r_lock" /\ Goto(p, "r_check")
    /\ lock' = p
    /\ UNCHANGED <<ring, ends, call, killed, last, mute>>

(***************************************************************************)
(* pipewrite.                                                              *)
(***************************************************************************)
WriteCall(p) ==
    /\ pc[p] = "idle" /\ "w" \in holds[p] /\ ~killed[p]
    /\ \E k \in 0 .. MaxN : left' = [left EXCEPT ![p] = k]
    /\ some' = [some EXCEPT ![p] = FALSE]
    /\ Goto(p, "w_lock")
    /\ UNCHANGED <<ring, ends, lock, killed, last, mute>>

\* The head of the loop: done, refused, or on with the body.
WriteCheck(p) ==
    /\ pc[p] = "w_check"
    /\ IF left[p] > 0 /\ (~readopen \/ killed[p])
       THEN /\ lock' = None /\ Goto(p, "idle")
            /\ mute' = (mute \/ (killed[p] /\ some[p]))
       ELSE /\ UNCHANGED <<lock, mute>>
            /\ Goto(p, IF left[p] > 0 THEN "w_body" ELSE "w_done")
    /\ UNCHANGED <<ring, ends, call, killed, last>>

\* The pipe is full: wake the readers, sleep.
WriteFull(p) ==
    /\ pc[p] = "w_body" /\ Full
    /\ WakeReaders(p, "w_asleep")
    /\ lock' = None
    /\ UNCHANGED <<ring, ends, call, killed, last>>

\* Fault: the byte goes to the slot after the one that is next to be read.
WriteByteOff(p) ==
    /\ pc[p] = "w_body" /\ ~Full
    /\ \E b \in Bytes : data' = [data EXCEPT ![(nwrite + 1) % PIPESIZE] = b]
    /\ nwrite' = (nwrite + 1) % Wrap
    /\ Moved(p)
    /\ Goto(p, "w_check")
    /\ UNCHANGED <<nread, ends, lock, killed, last, mute>>

WriteByte(p) ==
    /\ pc[p] = "w_body" /\ ~Full
    /\ \E b \in Bytes : data' = [data EXCEPT ![nwrite % PIPESIZE] = b]
    /\ nwrite' = (nwrite + 1) % Wrap
    /\ Moved(p)
    /\ Goto(p, "w_check")
    /\ UNCHANGED <<nread, ends, lock, killed, last, mute>>

\* copyin fails.
WriteFault(p) ==
    /\ pc[p] = "w_body" /\ ~Full
    /\ Goto(p, "w_done")
    /\ UNCHANGED <<ring, ends, lock, call, killed, last, mute>>

\* Fault: pipewrite wakes the readers only when the pipe is full.
WriteDoneNoWakeup(p) ==
    /\ pc[p] = "w_done"
    /\ Goto(p, "idle")
    /\ lock' = None
    /\ UNCHANGED <<ring, ends, call, killed, last, mute>>

\* wakeup(&pi->nread), release, return i.
WriteDone(p) ==
    /\ pc[p] = "w_done"
    /\ WakeReaders(p, "idle")
    /\ lock' = None
    /\ UNCHANGED <<ring, ends, call, killed, last>>

(***************************************************************************)
(* piperead.                                                               *)
(***************************************************************************)
ReadCall(p) ==
    /\ pc[p] = "idle" /\ "r" \in holds[p] /\ ~killed[p]
    /\ \E k \in 0 .. MaxN : left' = [left EXCEPT ![p] = k]
    /\ some' = [some EXCEPT ![p] = FALSE]
    /\ Goto(p, "r_lock")
    /\ UNCHANGED <<ring, ends, lock, killed, last, mute>>

\* The head of the waiting loop.
ReadCheck(p) ==
    /\ pc[p] = "r_check"
    /\ IF Empty /\ writeopen /\ killed[p]
       THEN lock' = None /\ Goto(p, "idle")
       ELSE UNCHANGED lock /\ Goto(p, IF Empty /\ writeopen THEN "r_sleep" ELSE "r_copy")
    /\ UNCHANGED <<ring, ends, call, killed, last, mute>>

ReadSleep(p) ==
    /\ pc[p] = "r_sleep"
    /\ Goto(p, "r_asleep")
    /\ lock' = None
    /\ UNCHANGED <<ring, ends, call, killed, last, mute>>

\* One round of the copying loop; the byte is taken before copyout, which may
\* fail and end the loop.
ReadByte(p) ==
    /\ pc[p] = "r_copy" /\ left[p] > 0 /\ ~Empty
    /\ last' = <<data[nread % PIPESIZE]>>
    /\ nread' = (nread + 1) % Wrap
    /\ \/ Moved(p) /\ UNCHANGED pc
       \/ Goto(p, "r_done") /\ UNCHANGED call
    /\ UNCHANGED <<data, nwrite, ends, lock, killed, mute>>

ReadEnd(p) ==
    /\ pc[p] = "r_copy" /\ (left[p] = 0 \/ Empty)
    /\ Goto(p, "r_done")
    /\ UNCHANGED <<ring, ends, lock, call, killed, last, mute>>

\* wakeup(&pi->nwrite), release, return i.
ReadDone(p) ==
    /\ pc[p] = "r_done"
    /\ WakeWriters(p, "idle")
    /\ lock' = None
    /\ UNCHANGED <<ring, ends, call, killed, last>>

(***************************************************************************)
(* fileclose and pipeclose.                                                *)
(***************************************************************************)
\* fileclose drops a reference; the last one goes on to pipeclose.
FileClose(p, e) ==
    /\ pc[p] = "idle" /\ e \in holds[p]
    /\ holds' = [holds EXCEPT ![p] = @ \ {e}]
    /\ IF \E q \in Procs \ {p} : e \in holds[q]
       THEN UNCHANGED pc
       ELSE Goto(p, IF e = "r" THEN "close_r" ELSE "close_w")
    /\ UNCHANGED <<ring, readopen, writeopen, freed, lock, call, killed, last, mute>>

\* Fault: pipeclose looks at the other end only.
PipeCloseFreesTwice(p) ==
    /\ lock = None
    /\ \/ pc[p] = "close_w" /\ writeopen' = FALSE /\ UNCHANGED readopen /\ WakeReaders(p, "idle")
       \/ pc[p] = "close_r" /\ readopen' = FALSE /\ UNCHANGED writeopen /\ WakeWriters(p, "idle")
    /\ freed' = IF readopen' THEN freed ELSE freed + 1
    /\ UNCHANGED <<ring, holds, lock, call, killed, last>>

PipeClose(p) ==
    /\ lock = None
    /\ \/ pc[p] = "close_w" /\ writeopen' = FALSE /\ UNCHANGED readopen /\ WakeReaders(p, "idle")
       \/ pc[p] = "close_r" /\ readopen' = FALSE /\ UNCHANGED writeopen /\ WakeWriters(p, "idle")
    /\ freed' = IF readopen' \/ writeopen' THEN freed ELSE freed + 1
    /\ UNCHANGED <<ring, holds, lock, call, killed, last>>

\* kill, from outside: it wakes a sleeper.  A killed process makes no new
\* call, but exit closes what it holds.
Kill(p) ==
    /\ ~killed[p]
    /\ killed' = [killed EXCEPT ![p] = TRUE]
    /\ Goto(p, CASE pc[p] = "r_asleep" -> "r_lock" [] pc[p] = "w_asleep" -> "w_lock"
                 [] OTHER -> pc[p])
    /\ UNCHANGED <<ring, ends, lock, call, last, mute>>

Step(p) ==
    \/ Acquire(p)
    \/ WriteCheck(p) \/ WriteFull(p) \/ WriteByte(p) \/ WriteFault(p) \/ WriteDone(p)
    \/ ReadCheck(p) \/ ReadSleep(p) \/ ReadByte(p) \/ ReadEnd(p) \/ ReadDone(p)
    \/ PipeClose(p)

User(p) ==
    \/ WriteCall(p) \/ ReadCall(p)
    \/ \E e \in Ends : FileClose(p, e)

Next ==
    \/ \E p \in Procs : Step(p) \/ User(p)
    \/ \E p \in Killable : Kill(p)

Spec == Init /\ [][Next]_vars
---------------------------------------------------------------------------
\* The bytes in the ring, oldest first.
Contents == [k \in 1 .. (nwrite - nread) % Wrap |-> data[(nread + k - 1) % PIPESIZE]]

Stream == INSTANCE ByteStream WITH queue <- Contents, Capacity <- PIPESIZE

\* pipewrite and piperead: whatever the number of readers and writers, and
\* when the counters wrap, the bytes come out in the order they went in, none
\* lost, none twice.
InOrder == Stream!Spec

\* piperead sleeps only while there is nothing to read and somebody may still
\* write, pipewrite only while the pipe is full and somebody may still read;
\* whoever changes that wakes them before releasing pi->lock.  The one exception
\* is a writer that is refused half-way because it was killed: it returns without
\* the wakeup (pipe.c:90), and a reader may sleep on its bytes until the next.
NoSleepWhenReady ==
    lock = None => \A p \in Procs :
        /\ pc[p] = "r_asleep" => (Empty \/ mute) /\ writeopen
        /\ pc[p] = "w_asleep" => Full /\ readopen

\* pipeclose: the page is freed once, when both ends are closed, and nobody
\* uses the pipe any more.
FreedOnce ==
    /\ freed = IF readopen \/ writeopen THEN 0 ELSE 1
    /\ freed = 1 => \A p \in Procs : pc[p] = "idle" /\ holds[p] = {}

\* piperead: a read of at least one byte ends with none to return only when the
\* write end is closed, although other readers may take the bytes a sleeper was
\* woken for; or else it has just taken a byte that copyout refused, and the byte
\* is gone.
EofMeansClosed ==
    [][\A p \in Procs :
          /\ pc[p] # "r_done" /\ pc'[p] = "r_done"
          /\ ~some'[p] /\ left'[p] > 0
          => ~writeopen \/ nread' # nread]_vars
===========================================================================
