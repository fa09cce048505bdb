------------------------------ MODULE Virtio ------------------------------
(***************************************************************************)
(* The disk driver of kernel/virtio_disk.c with the device it drives: the  *)
(* pool of descriptors, the available and the used ring, the interrupt     *)
(* and its handler.  The caller of virtio_disk_rw holds the sleep lock of  *)
(* its buffer and the buffer cache has one buffer per block, so a process, *)
(* the buffer it transfers and the buffer's block are one name here.       *)
(*                                                                         *)
(* The device runs all the time; disk.vdisk_lock only keeps the processes  *)
(* and the interrupt handler apart.  The section of the lock is split      *)
(* where the device can see a difference.  An entry of a ring is forgotten *)
(* when it has been read, as is the status of a request that is over.      *)
(***************************************************************************)
EXTENDS Naturals, FiniteSets

CONSTANTS
    Procs,     \* processes, and the buffer and block of each
    NUM,       \* descriptors
    IdxMod,    \* the ring indices count modulo this (2^16 in the code)
    None

Descs == 0 .. NUM - 1

ASSUME NumAssumption ==
    /\ NUM \in Nat /\ NUM >= 3
    /\ IdxMod \in Nat /\ IdxMod >= NUM /\ IdxMod % NUM = 0
ASSUME NamesAssumption ==
    None \notin Procs /\ None \notin Descs /\ None # "intr" /\ "intr" \notin Procs

VARIABLES
    free,      \* disk.free: the descriptors that are free
    desc,      \* disk.desc and disk.ops: what each descriptor says
    avail, availIdx,     \* the ring of requests, and its index
    used, usedIdx,       \* the ring of completions, and its index
    seen,      \* disk.used_idx
    info,      \* disk.info: buffer and status of a request, by its first descriptor
    busy,      \* b->disk
    agree,     \* the buffers whose b->data is what the disk has for the block
    vlock,     \* who holds disk.vdisk_lock
    pc,        \* processes and the interrupt handler
    write, head,         \* each process: argument of virtio_disk_rw, idx[0]
    kick, taken, inflight, irq   \* the device

driver == <<free, desc, avail, availIdx, seen>>
device == <<kick, taken, inflight, irq, used, usedIdx>>
vars == <<driver, device, info, busy, agree, vlock, pc, write, head>>

\* virtio_disk_init, after a negotiation that did not panic.
Init ==
    /\ free = Descs
    /\ desc = [i \in Descs |-> None]
    /\ avail = [i \in Descs |-> None] /\ availIdx = 0
    /\ used = [i \in Descs |-> None] /\ usedIdx = 0 /\ seen = 0
    /\ info = [i \in Descs |-> [b |-> None, status |-> 0]]
    /\ busy = [p \in Procs |-> FALSE]
    /\ vlock = None
    /\ pc = [x \in Procs \cup {"intr"} |-> "idle"]
    /\ write = [p \in Procs |-> FALSE] /\ head = [p \in Procs |-> None]
    /\ agree = Procs
    /\ kick = FALSE /\ taken = 0 /\ inflight = {} /\ irq = FALSE

Goto(x, l) == pc' = [pc EXCEPT ![x] = l]

\* wakeup(&disk.free[0]): who slept for descriptors tries again.
WakeDesc(p, l) ==
    pc' = [x \in DOMAIN pc |-> CASE x = p -> l
                                 [] x # p /\ pc[x] = "wait_desc" -> "alloc"
                                 [] OTHER -> pc[x]]

(***************************************************************************)
(* virtio_disk_rw.                                                         *)
(***************************************************************************)
\* The call: a write has new bytes, a read a buffer with other contents.
Rw(p, w) ==
    /\ pc[p] = "idle"
    /\ write' = [write EXCEPT ![p] = w]
    /\ agree' = agree \ {p}
    /\ Goto(p, "alloc")
    /\ UNCHANGED <<driver, device, info, busy, vlock, head>>

\* alloc_desc: the lowest free descriptor.
Lowest(S) == CHOOSE i \in S : \A j \in S : i <= j

\* alloc3_desc fails: the descriptors it took go back through free_desc,
\* which wakes the other sleepers; the caller sleeps.
RwShort(p) ==
    /\ pc[p] = "alloc" /\ vlock = None /\ Cardinality(free) < 3
    /\ IF free # {} THEN WakeDesc(p, "wait_desc") ELSE Goto(p, "wait_desc")
    /\ UNCHANGED <<driver, device, info, busy, agree, vlock, write, head>>

\* alloc3_desc succeeds: the chain is formatted and its head put in the ring.
RwFormat(p) ==
    /\ pc[p] = "alloc" /\ vlock = None
    /\ vlock' = p
    /\ Cardinality(free) >= 3
    /\ LET i == Lowest(free)
           j == Lowest(free \ {i})
           k == Lowest(free \ {i, j})
       IN  /\ free' = free \ {i, j, k}
           /\ desc' = [desc EXCEPT
                 ![i] = [what |-> "op", write |-> write[p], sector |-> p, next |-> j],
                 ![j] = [what |-> "data", b |-> p, next |-> k],
                 ![k] = [what |-> "status", slot |-> i, next |-> None]]
           /\ info' = [info EXCEPT ![i] = [b |-> p, status |-> 255]]
           /\ avail' = [avail EXCEPT ![availIdx % NUM] = i]
           /\ head' = [head EXCEPT ![p] = i]
    /\ busy' = [busy EXCEPT ![p] = TRUE]
    /\ Goto(p, "publish")
    /\ UNCHANGED <<availIdx, seen, device, agree, write>>

\* After the barrier: avail->idx is counted up, not modulo NUM.
RwPublish(p) ==
    /\ pc[p] = "publish"
    /\ availIdx' = (availIdx + 1) % IdxMod
    /\ Goto(p, "notify")
    /\ UNCHANGED <<free, desc, avail, seen, device, info, busy, agree, vlock, write, head>>

\* Fault: an inverted test, the device is notified only when it is at work.
RwNotifyBusy(p) ==
    /\ pc[p] = "notify"
    /\ kick' = (kick \/ \E q \in Procs \ {p} : head[q] # None)
    /\ Goto(p, "check")
    /\ UNCHANGED <<taken, inflight, irq, used, usedIdx, driver, info, busy, agree, vlock, write, head>>

RwNotify(p) ==
    /\ pc[p] = "notify"
    /\ kick' = TRUE
    /\ Goto(p, "check")
    /\ UNCHANGED <<taken, inflight, irq, used, usedIdx, driver, info, busy, agree, vlock, write, head>>

\* The loop at the end: while the transfer is not done, sleep on the buffer.
RwSleep(p) ==
    /\ \/ pc[p] = "check"
       \/ pc[p] = "woken" /\ vlock = None
    /\ busy[p]
    /\ vlock' = None
    /\ Goto(p, "wait_buf")
    /\ UNCHANGED <<driver, device, info, busy, agree, write, head>>

\* The descriptors reached from i through F_NEXT.
Chain(i) ==
    LET j == desc[i].next
    IN  {i, j} \cup (IF desc[j].next = None THEN {} ELSE {desc[j].next})

\* Fault: free_chain leaves the loop one descriptor early.
FreeChainShort(i) ==
    /\ free' = free \cup {i, desc[i].next}
    /\ desc' = [j \in Descs |-> IF j \in {i, desc[i].next} THEN None ELSE desc[j]]

FreeChain(i) ==
    /\ free' = free \cup Chain(i)
    /\ desc' = [j \in Descs |-> IF j \in Chain(i) THEN None ELSE desc[j]]

\* Fault: the process does not wait for the handler.
RwDoneEarly(p) ==
    /\ \/ pc[p] = "check"
       \/ pc[p] = "woken" /\ vlock = None
    /\ info' = [info EXCEPT ![head[p]] = [b |-> None, status |-> 0]]
    /\ FreeChain(head[p])
    /\ head' = [head EXCEPT ![p] = None] /\ write' = [write EXCEPT ![p] = FALSE]
    /\ vlock' = None
    /\ WakeDesc(p, "idle")
    /\ UNCHANGED <<avail, availIdx, seen, device, busy, agree>>

\* The handler said that the transfer is done.
RwDone(p) ==
    /\ \/ pc[p] = "check"
       \/ pc[p] = "woken" /\ vlock = None
    /\ ~busy[p]
    /\ info' = [info EXCEPT ![head[p]] = [b |-> None, status |-> 0]]
    /\ FreeChain(head[p])
    /\ head' = [head EXCEPT ![p] = None] /\ write' = [write EXCEPT ![p] = FALSE]
    /\ vlock' = None
    /\ WakeDesc(p, "idle")
    /\ UNCHANGED <<avail, availIdx, seen, device, busy, agree>>

(***************************************************************************)
(* virtio_disk_intr.                                                       *)
(***************************************************************************)
IntrAck ==
    /\ pc["intr"] = "idle" /\ irq /\ vlock = None
    /\ vlock' = "intr"
    /\ irq' = FALSE
    /\ Goto("intr", "loop")
    /\ UNCHANGED <<kick, taken, inflight, used, usedIdx, driver, info, busy, agree, write, head>>

\* One turn of the loop; a status other than 0 is a panic, a null buffer a fault.
IntrOne ==
    LET id == used[seen % NUM]
        b == info[id].b
    IN
    /\ pc["intr"] = "loop" /\ seen # usedIdx
    /\ IF info[id].status # 0 \/ b = None
       THEN Goto("intr", "panic") /\ UNCHANGED <<busy, seen, used>>
       ELSE /\ busy' = [busy EXCEPT ![b] = FALSE]
            /\ pc' = IF pc[b] = "wait_buf" THEN [pc EXCEPT ![b] = "woken"] ELSE pc
            /\ seen' = (seen + 1) % IdxMod
            /\ used' = [used EXCEPT ![seen % NUM] = None]
    /\ UNCHANGED <<free, desc, avail, availIdx, kick, taken, inflight, irq, usedIdx, info, agree, vlock, write, head>>

\* Fault: the handler leaves completions for the next interrupt.
IntrEndEarly ==
    /\ pc["intr"] = "loop"
    /\ vlock' = None
    /\ Goto("intr", "idle")
    /\ UNCHANGED <<driver, device, info, busy, agree, write, head>>

IntrEnd ==
    /\ pc["intr"] = "loop" /\ seen = usedIdx
    /\ vlock' = None
    /\ Goto("intr", "idle")
    /\ UNCHANGED <<driver, device, info, busy, agree, write, head>>

(***************************************************************************)
(* The device: it takes requests in ring order once it was notified and    *)
(* completes them in any order.  A completion is seen in the used ring     *)
(* before the interrupt.                                                   *)
(***************************************************************************)
DevTake ==
    /\ kick
    /\ IF taken = availIdx
       THEN kick' = FALSE /\ UNCHANGED <<taken, inflight, avail>>
       ELSE /\ inflight' = inflight \cup {avail[taken % NUM]}
            /\ taken' = (taken + 1) % IdxMod
            /\ avail' = [avail EXCEPT ![taken % NUM] = None]
            /\ UNCHANGED kick
    /\ UNCHANGED <<irq, used, usedIdx, free, desc, availIdx, seen, info, busy, agree, vlock, pc, write, head>>

\* What the device does with a chain that is no request is undefined.
WellFormed(h) ==
    /\ desc[h] # None /\ desc[h].what = "op"
    /\ LET d == desc[h].next IN d # None /\ desc[d] # None /\ desc[d].what = "data"

DevComplete(h) ==
    /\ h \in inflight /\ WellFormed(h)
    /\ LET op == desc[h]
           b == desc[op.next].b
           slot == desc[desc[op.next].next].slot
       IN  /\ agree' = IF op.sector = b THEN agree \cup {b}
                       ELSE agree \ {IF op.write THEN op.sector ELSE b}
           /\ info' = [info EXCEPT ![slot].status = 0]
    /\ used' = [used EXCEPT ![usedIdx % NUM] = h]
    /\ usedIdx' = (usedIdx + 1) % IdxMod
    /\ irq' = TRUE
    /\ inflight' = inflight \ {h}
    /\ UNCHANGED <<kick, taken, driver, busy, vlock, pc, write, head>>

Step(p) ==
    \/ RwShort(p) \/ RwFormat(p) \/ RwPublish(p) \/ RwNotify(p)
    \/ RwSleep(p) \/ RwDone(p)

Intr == IntrAck \/ IntrOne \/ IntrEnd

Device == DevTake \/ \E h \in Descs : DevComplete(h)

Next ==
    \/ \E p \in Procs : Step(p) \/ \E w \in BOOLEAN : Rw(p, w)
    \/ Intr
    \/ Device

\* Processes are scheduled and spinlocks are given to each that waits; the
\* device works on what it was notified of.
Fairness ==
    /\ \A p \in Procs : SF_vars(Step(p))
    /\ SF_vars(Intr)
    /\ WF_vars(DevTake) /\ \A h \in Descs : WF_vars(DevComplete(h))

FairSpec == Init /\ [][Next]_vars /\ Fairness
---------------------------------------------------------------------------
InProgress == {p \in Procs : head[p] # None}

\* alloc3_desc and free_chain: the free descriptors and the chains of the
\* requests are all the descriptors, without overlap, whatever failed or slept
\* in between, and the device works on chains of requests only.
DescsAccounted ==
    /\ Cardinality(free) + 3 * Cardinality(InProgress) = NUM
    /\ \A p \in InProgress : Chain(head[p]) \cap free = {}
    /\ \A p, q \in InProgress : p # q => Chain(head[p]) \cap Chain(head[q]) = {}
    /\ \A h \in inflight : \E p \in InProgress : head[p] = h /\ busy[p]

\* virtio_disk_rw returns when the transfer is done: buffer and disk agree.
Transferred == \A p \in Procs : pc[p] = "idle" => p \in agree

\* Nobody sleeps on descriptors that are there, or on a buffer that is done:
\* a wakeup of free_desc or of the handler is not lost, and a completion that
\* the handler has not seen has its interrupt.
NoSleepOnDone ==
    /\ \A p \in Procs : pc[p] = "wait_desc" => Cardinality(free) < 3
    /\ \A p \in Procs : pc[p] = "wait_buf" => busy[p]
    /\ seen # usedIdx => irq \/ pc["intr"] = "loop"

\* A request that has its descriptors comes to its end, under the fairness
\* above, whoever else competes for the descriptors and the lock.
RequestEnds == \A p \in Procs : pc[p] = "publish" ~> pc[p] = "idle"
===========================================================================
