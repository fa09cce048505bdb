------------------------------ MODULE Console -----------------------------
(***************************************************************************)
(* The input side of kernel/console.c: consoleintr, called by uartintr for *)
(* each character typed, and processes in consoleread.  Both work under    *)
(* cons.lock; kill does not take it and may fall between killed() and      *)
(* sleep.  cons.r, cons.w and cons.e are unsigned and wrap at Wrap (2^32). *)
(***************************************************************************)
EXTENDS Integers, Sequences

CONSTANTS
    Readers,
    Chars,      \* the characters that are stored, EOT and NL among them
    EOT, NL,    \* C('D') and '\n' (also what '\r' becomes)
    INPUT_BUF_SIZE,
    Wrap,       \* the modulus of the indices
    MaxN,       \* bound: bytes asked for in one read
    None

ASSUME SizeAssumption ==
    /\ INPUT_BUF_SIZE \in Nat \ {0} /\ Wrap \in Nat /\ MaxN \in Nat \ {0}
    /\ INPUT_BUF_SIZE < Wrap /\ Wrap % INPUT_BUF_SIZE = 0
ASSUME NamesAssumption == EOT \in Chars /\ NL \in Chars /\ EOT # NL /\ None \notin Readers

VARIABLES
    buf, r, w, e,   \* cons
    lock,           \* the reader holding cons.lock
    pc, left, some, \* each reader: where it is, n, n < target
    killed,         \* p->killed
    last            \* the character consoleread consumed last

cons == <<buf, r, w, e>>
vars == <<cons, lock, pc, left, some, killed, last>>

Init ==
    /\ buf = [k \in 0 .. INPUT_BUF_SIZE - 1 |-> NL]   \* never read before it is written
    /\ r = 0 /\ w = 0 /\ e = 0
    /\ lock = None
    /\ pc = [p \in Readers |-> "idle"]
    /\ left = [p \in Readers |-> 0] /\ some = [p \in Readers |-> FALSE]
    /\ killed = [p \in Readers |-> FALSE]
    /\ last = <<>>

Goto(p, l) == pc' = [pc EXCEPT ![p] = l]

(***************************************************************************)
(* consoleintr.                                                            *)
(***************************************************************************)
\* wakeup(&cons.r).
WakeReaders == pc' = [p \in Readers |-> IF pc[p] = "asleep" THEN "lock" ELSE pc[p]]

\* Fault: the line end is left out of the finished line.
StoreLineShort(ch) ==
    /\ lock = None
    /\ (e - r) % Wrap < INPUT_BUF_SIZE
    /\ buf' = [buf EXCEPT ![e % INPUT_BUF_SIZE] = ch]
    /\ e' = (e + 1) % Wrap
    /\ IF ch \in {NL, EOT} \/ (e' - r) % Wrap = INPUT_BUF_SIZE
       THEN w' = e /\ WakeReaders
       ELSE UNCHANGED <<w, pc>>
    /\ UNCHANGED <<r, lock, left, some, killed, last>>

\* Fault: a line that ends because the buffer is full wakes nobody.
StoreNoWakeWhenFull(ch) ==
    /\ lock = None
    /\ (e - r) % Wrap < INPUT_BUF_SIZE
    /\ buf' = [buf EXCEPT ![e % INPUT_BUF_SIZE] = ch]
    /\ e' = (e + 1) % Wrap
    /\ IF ch \in {NL, EOT} \/ (e' - r) % Wrap = INPUT_BUF_SIZE
       THEN w' = e' /\ (IF ch \in {NL, EOT} THEN WakeReaders ELSE UNCHANGED pc)
       ELSE UNCHANGED <<w, pc>>
    /\ UNCHANGED <<r, lock, left, some, killed, last>>

\* The default case: store the character; a whole line is made available.
Store(ch) ==
    /\ lock = None
    /\ (e - r) % Wrap < INPUT_BUF_SIZE
    /\ buf' = [buf EXCEPT ![e % INPUT_BUF_SIZE] = ch]
    /\ e' = (e + 1) % Wrap
    /\ IF ch \in {NL, EOT} \/ (e' - r) % Wrap = INPUT_BUF_SIZE
       THEN w' = e' /\ WakeReaders
       ELSE UNCHANGED <<w, pc>>
    /\ UNCHANGED <<r, lock, left, some, killed, last>>

\* C('H') and '\x7f'.
Backspace ==
    /\ lock = None
    /\ e # w
    /\ e' = (e - 1) % Wrap
    /\ UNCHANGED <<buf, r, w, lock, pc, left, some, killed, last>>

\* C('U'): the loop takes characters back down to w or to a newline.
KillLine ==
    /\ lock = None
    /\ LET Stops(k) == \/ k = (e - w) % Wrap
                       \/ buf[((e - k - 1) % Wrap) % INPUT_BUF_SIZE] = NL
           n == CHOOSE k \in 0 .. (e - w) % Wrap :
                    Stops(k) /\ \A j \in 0 .. k - 1 : ~Stops(j)
       IN  e' = (e - n) % Wrap
    /\ UNCHANGED <<buf, r, w, lock, pc, left, some, killed, last>>

(***************************************************************************)
(* consoleread.                                                            *)
(***************************************************************************)
ReadCall(p) ==
    /\ pc[p] = "idle" /\ ~killed[p]
    /\ \E k \in 1 .. MaxN : left' = [left EXCEPT ![p] = k]
    /\ some' = [some EXCEPT ![p] = FALSE]
    /\ Goto(p, "lock")
    /\ UNCHANGED <<cons, lock, killed, last>>

\* acquire(&cons.lock), at the start or at the end of sleep.
Acquire(p) ==
    /\ pc[p] = "lock" /\ lock = None
    /\ lock' = p
    /\ Goto(p, "check")
    /\ UNCHANGED <<cons, left, some, killed, last>>

\* The test of the inner loop.
Check(p) ==
    /\ pc[p] = "check"
    /\ IF r = w /\ killed[p]
       THEN lock' = None /\ Goto(p, "idle")
       ELSE UNCHANGED lock /\ Goto(p, IF r = w THEN "sleep" ELSE "char")
    /\ UNCHANGED <<cons, left, some, killed, last>>

Sleep(p) ==
    /\ pc[p] = "sleep"
    /\ lock' = None
    /\ Goto(p, "asleep")
    /\ UNCHANGED <<cons, left, some, killed, last>>

Return(p) == lock' = None /\ Goto(p, "idle")

\* cons.buf[cons.r++] is end-of-file; after other characters it is put back.
TakeEOT(p) ==
    /\ pc[p] = "char" /\ buf[r % INPUT_BUF_SIZE] = EOT
    /\ IF some[p] THEN UNCHANGED <<r, last>>
                  ELSE r' = (r + 1) % Wrap /\ last' = <<EOT>>
    /\ Return(p)
    /\ UNCHANGED <<buf, w, e, left, some, killed>>

\* Any other character is copied out; a newline or the end of the buffer
\* ends the read.
TakeChar(p) ==
    LET ch == buf[r % INPUT_BUF_SIZE] IN
    /\ pc[p] = "char" /\ ch # EOT
    /\ r' = (r + 1) % Wrap /\ last' = <<ch>>
    /\ left' = [left EXCEPT ![p] = @ - 1]
    /\ some' = [some EXCEPT ![p] = TRUE]
    /\ IF ch = NL \/ left[p] = 1 THEN Return(p) ELSE Goto(p, "check") /\ UNCHANGED lock
    /\ UNCHANGED <<buf, w, e, killed>>

\* either_copyout fails: the character is gone.
TakeFault(p) ==
    LET ch == buf[r % INPUT_BUF_SIZE] IN
    /\ pc[p] = "char" /\ ch # EOT
    /\ r' = (r + 1) % Wrap /\ last' = <<ch>>
    /\ Return(p)
    /\ UNCHANGED <<buf, w, e, left, some, killed>>

Kill(p) ==
    /\ ~killed[p]
    /\ killed' = [killed EXCEPT ![p] = TRUE]
    /\ Goto(p, IF pc[p] = "asleep" THEN "lock" ELSE pc[p])
    /\ UNCHANGED <<cons, lock, left, some, last>>

Next ==
    \/ \E ch \in Chars : Store(ch)
    \/ Backspace \/ KillLine
    \/ \E p \in Readers :
          \/ ReadCall(p) \/ Acquire(p) \/ Check(p) \/ Sleep(p)
          \/ TakeEOT(p) \/ TakeChar(p) \/ TakeFault(p) \/ Kill(p)

Spec == Init /\ [][Next]_vars
---------------------------------------------------------------------------
\* The characters from index from up to index to.
Between(from, to) ==
    [k \in 1 .. (to - from) % Wrap |-> buf[((from + k - 1) % Wrap) % INPUT_BUF_SIZE]]

Lines == INSTANCE LineInput
             WITH ready <- Between(r, w), edit <- Between(w, e),
                  LineEnds <- {NL, EOT}, Capacity <- INPUT_BUF_SIZE

\* consoleintr and consoleread: typed lines reach the readers as edited, each
\* character once and in order, whatever readers share the console and when
\* the indices wrap.
LinesInOrder == Lines!Spec

\* consoleintr wakes the readers for a whole line: nobody sleeps while
\* there is a finished line.
NoSleepOnInput == lock = None => \A p \in Readers : pc[p] = "asleep" => r = w
===========================================================================
