---------------------------- MODULE AtomicDisk ----------------------------
(***************************************************************************)
(* What the logging layer of kernel/log.c promises to the file system      *)
(* calls above it.  The comment at the top of log.c states the promise:    *)
(* the updates of the calls between two commits reach the disk together,   *)
(* and a commit happens only when no file system call is active.           *)
(*                                                                         *)
(* durable is the disk a restart would find, volatile the blocks with the  *)
(* updates of the calls since, active the processes between begin_op and   *)
(* end_op.                                                                 *)
(***************************************************************************)
CONSTANTS Procs,    \* processes that make file system calls
          Blocks,   \* disk blocks outside the log area
          Data      \* contents of a block

VARIABLES durable, volatile, active

vars == <<durable, volatile, active>>

Init ==
    /\ durable \in [Blocks -> Data]
    /\ volatile = durable
    /\ active = {}

\* A file system call starts: begin_op returns.
Begin(p) ==
    /\ p \notin active
    /\ active' = active \cup {p}
    /\ UNCHANGED <<durable, volatile>>

\* A call that has begun changes a block.
Write(p, b, d) ==
    /\ p \in active
    /\ volatile' = [volatile EXCEPT ![b] = d]
    /\ UNCHANGED <<durable, active>>

\* A call that has begun is over.
End(p) ==
    /\ p \in active
    /\ active' = active \ {p}
    /\ UNCHANGED <<durable, volatile>>

\* Everything written so far becomes durable at once, between calls.
Commit ==
    /\ active = {}
    /\ durable' = volatile
    /\ UNCHANGED <<volatile, active>>

\* The machine stops and restarts: what was not committed is lost.
Crash ==
    /\ volatile' = durable
    /\ active' = {}
    /\ UNCHANGED durable

Next ==
    \/ \E p \in Procs : Begin(p) \/ End(p)
    \/ \E p \in Procs, b \in Blocks, d \in Data : Write(p, b, d)
    \/ Commit
    \/ Crash

Spec == Init /\ [][Next]_vars
===========================================================================
