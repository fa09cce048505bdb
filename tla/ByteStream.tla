---------------------------- MODULE ByteStream ----------------------------
(***************************************************************************)
(* What a pipe promises its readers and writers: a queue of at most        *)
(* Capacity bytes, each delivered once, in the order they were written.    *)
(***************************************************************************)
EXTENDS Naturals, Sequences

CONSTANTS Bytes, Capacity

VARIABLES
    queue,   \* the bytes written and not yet read
    last     \* the bytes delivered last: a sequence of length at most one

Init == queue = <<>> /\ last = <<>>

Put(b) ==
    /\ Len(queue) < Capacity
    /\ queue' = Append(queue, b)
    /\ UNCHANGED last

Take ==
    /\ queue # <<>>
    /\ last' = <<Head(queue)>>
    /\ queue' = Tail(queue)

Next == (\E b \in Bytes : Put(b)) \/ Take

Spec == Init /\ [][Next]_<<queue, last>>
===========================================================================
