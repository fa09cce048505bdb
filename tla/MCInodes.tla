----------------------------- MODULE MCInodes -----------------------------
(* Instances of Inodes for TLC. *)
EXTENDS Inodes, TLC

A == <<"/", "a">>
AB == <<"/", "a", "b">>
B == <<"/", "b">>

Call(op, where) == [op |-> op, path |-> where]

CONSTANTS p1, p2

Programs == "c" :> 2

TreeCalls ==
    (p1 :> {Call("mkdir", A), Call("creat", AB), [op |-> "link", path |-> AB, new |-> B],
            [op |-> "close"], [op |-> "dup"]}) @@
    (p2 :> {Call("unlink", A), Call("unlink", <<"b">>), Call("chdir", A), Call("chdir", <<"c">>),
            Call("open", <<"..", "c">>), Call("openw", <<"..">>), Call("mknod", B),
            [op |-> "link", path |-> <<".">>, new |-> B],
            [op |-> "close"], [op |-> "io"], [op |-> "exit"]})

\* What a later step can still read: of an entry of itable that is not in use
\* nothing, of one that is not valid its number and count, of a call the registers
\* that its place needs.
Entry(s) ==
    IF itab[s].ref = 0 THEN 0 ELSE IF itab[s].valid THEN itab[s] ELSE <<itab[s].inum, itab[s].ref>>
Regs(p) ==
    CASE pc[p] \in {"namex", "no_entry"} -> <<call[p], goal[p], path[p], cur[p], ip[p]>>
      [] pc[p] \in {"create", "create_new"} -> <<call[p].op, name[p], cur[p], ip[p]>>
      [] pc[p] = "create_old" -> <<call[p].op, ip[p]>>
      [] pc[p] = "open" -> <<call[p].op, cur[p]>>
      [] pc[p] \in {"unlink", "unlink_ip", "link_new"} -> <<name[p], cur[p], ip[p]>>
      [] pc[p] \in {"open_file", "unlink_dec", "link_undo"} -> <<ip[p]>>
      [] pc[p] \in {"chdir", "chdir_end"} -> <<cur[p]>>
      [] pc[p] \in {"link", "link_start"} -> <<call[p], cur[p], ip[p]>>
      [] OTHER -> <<>>
Live == <<disk, [s \in Slots |-> Entry(s)], lock, files, pc, later, [p \in Procs |-> Regs(p)]>>
===========================================================================
