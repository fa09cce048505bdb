---------------------------- MODULE LineInput -----------------------------
(***************************************************************************)
(* What the console promises its readers: the characters of the line being *)
(* typed can be taken back until the line ends; characters of finished     *)
(* lines are delivered once each, in order.  At most Capacity characters   *)
(* are kept; a line that fills the space up counts as finished.            *)
(***************************************************************************)
EXTENDS Naturals, Sequences

CONSTANTS Chars, LineEnds, Capacity

VARIABLES
    ready,   \* characters of finished lines
    edit,    \* the line being typed
    last     \* the character taken last: a sequence of length at most one

Init == ready = <<>> /\ edit = <<>> /\ last = <<>>

Type(ch) ==
    /\ Len(ready) + Len(edit) < Capacity
    /\ IF ch \in LineEnds \/ Len(ready) + Len(edit) + 1 = Capacity
       THEN ready' = ready \o Append(edit, ch) /\ edit' = <<>>
       ELSE edit' = Append(edit, ch) /\ UNCHANGED ready
    /\ UNCHANGED last

Erase == edit # <<>> /\ edit' = SubSeq(edit, 1, Len(edit) - 1) /\ UNCHANGED <<ready, last>>

KillLine == edit' = <<>> /\ UNCHANGED <<ready, last>>

Take == ready # <<>> /\ last' = <<Head(ready)>> /\ ready' = Tail(ready) /\ UNCHANGED edit

Next == (\E ch \in Chars : Type(ch)) \/ Erase \/ KillLine \/ Take

Spec == Init /\ [][Next]_<<ready, edit, last>>
===========================================================================
