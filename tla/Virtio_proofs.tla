--------------------------- MODULE Virtio_proofs ---------------------------
(***************************************************************************)
(* Proofs about Virtio, for any number of processes and descriptors and    *)
(* any width of the ring indices that NUM divides: VirtioInv is inductive. *)
(***************************************************************************)
EXTENDS Virtio, RingArith, FiniteSetTheorems, WellFoundedInduction, TLAPS

\* Leaves go to the SMT solver unless they name another prover.
USE SMTT(60)

\* Where a process has its descriptors, and where it holds disk.vdisk_lock.
ActivePCs == {"publish", "notify", "check", "wait_buf", "woken"}
LockPCs == {"publish", "notify", "check"}

\* The requests in the available ring that the device has not taken, with the one
\* that is not published yet, and the completions that the handler has not seen.
Publishing == \E p \in Procs : pc[p] = "publish"
QueueLen == Ahead(taken, availIdx, IdxMod) + (IF Publishing THEN 1 ELSE 0)
Queue == [n \in 1 .. QueueLen |-> avail[(taken + n - 1) % NUM]]
DoneLen == Ahead(seen, usedIdx, IdxMod)
Done == [n \in 1 .. DoneLen |-> used[(seen + n - 1) % NUM]]

TypeOK ==
    /\ free \in SUBSET Descs
    /\ DOMAIN desc = Descs
    /\ avail \in [Descs -> Descs \cup {None}] /\ used \in [Descs -> Descs \cup {None}]
    /\ availIdx \in 0 .. IdxMod - 1 /\ usedIdx \in 0 .. IdxMod - 1
    /\ seen \in 0 .. IdxMod - 1 /\ taken \in 0 .. IdxMod - 1
    /\ info \in [Descs -> [b : Procs \cup {None}, status : {0, 255}]]
    /\ busy \in [Procs -> BOOLEAN] /\ agree \in SUBSET Procs
    /\ vlock \in Procs \cup {None, "intr"}
    /\ pc \in [Procs \cup {"intr"} -> {"idle", "alloc", "wait_desc", "loop"} \cup ActivePCs]
    /\ write \in [Procs -> BOOLEAN] /\ head \in [Procs -> Descs \cup {None}]
    /\ kick \in BOOLEAN /\ inflight \in SUBSET Descs /\ irq \in BOOLEAN

\* disk.vdisk_lock is held by the process or the handler in its section; the
\* handler does not panic.
LockHeld ==
    /\ \A p \in Procs : vlock = p <=> pc[p] \in LockPCs
    /\ vlock = "intr" <=> pc["intr"] = "loop"
    /\ pc["intr"] \in {"idle", "loop"}

\* A process has descriptors from alloc3_desc to free_chain, and its buffer is
\* with the disk only in between.
Active ==
    \A p \in Procs : /\ head[p] # None <=> pc[p] \in ActivePCs
                     /\ busy[p] => pc[p] \in ActivePCs
                     /\ pc[p] # "loop"

\* The three descriptors of a request name its buffer; they are not free and no
\* other request has them.
Second(p) == desc[head[p]].next
Third(p) == desc[Second(p)].next
Chains ==
    /\ \A p \in InProgress :
          /\ Second(p) \in Descs /\ Third(p) \in Descs
          /\ head[p] # Second(p) /\ head[p] # Third(p) /\ Second(p) # Third(p)
          /\ {head[p], Second(p), Third(p)} \cap free = {}
          /\ desc[head[p]].sector = p /\ desc[Second(p)].b = p /\ desc[Third(p)].slot = head[p]
          /\ info[head[p]].b = p
    /\ \A p, q \in InProgress :
          p # q => {head[p], Second(p), Third(p)} \cap {head[q], Second(q), Third(q)} = {}

\* Every descriptor is free or one of the three of a request.
Counted ==
    /\ IsFiniteSet(InProgress)
    /\ Cardinality(free) + 3 * Cardinality(InProgress) = NUM

\* A request is waiting for the device, or with it, or done and not seen by the
\* handler, in one place, and its process waits for it; what is done is transferred.
Waited(h) == \E p \in Procs : head[p] = h /\ busy[p]
Stages ==
    /\ QueueLen <= NUM - 2 /\ DoneLen <= NUM - 2
    /\ \A n \in 1 .. QueueLen : Queue[n] \in Descs /\ Waited(Queue[n]) /\ Queue[n] \notin inflight
    /\ \A n \in 1 .. DoneLen : Done[n] \in Descs /\ Waited(Done[n]) /\ Done[n] \notin inflight
    /\ \A h \in inflight : Waited(h)
    /\ \A m, n \in 1 .. QueueLen : Queue[m] = Queue[n] => m = n
    /\ \A m, n \in 1 .. DoneLen : Done[m] = Done[n] => m = n
    /\ \A m \in 1 .. QueueLen, n \in 1 .. DoneLen : Queue[m] # Done[n]
    /\ \A n \in 1 .. DoneLen : info[Done[n]].status = 0 /\ info[Done[n]].b \in agree

\* A transfer that the process was told of, and one that is over, has happened.
Finished ==
    \A p \in Procs : pc[p] = "idle" \/ (pc[p] \in ActivePCs /\ ~busy[p]) => p \in agree

VirtioInv ==
    TypeOK /\ LockHeld /\ Active /\ Chains /\ Counted /\ Stages /\ Finished /\ NoSleepOnDone

----------------------------------------------------------------------------
\* The constants, as the lemmas about rings need them.
LEMMA Sizes == /\ NUM \in Nat \ {0} /\ IdxMod \in Nat \ {0} /\ NUM >= 3
               /\ NUM <= IdxMod /\ IdxMod % NUM = 0
BY NumAssumption

\* The lengths of the two queues.
LEMMA Lengths ==
  ASSUME TypeOK
  PROVE  /\ QueueLen \in Nat /\ DoneLen \in Nat
         /\ Ahead(taken, availIdx, IdxMod) \in 0 .. IdxMod - 1
         /\ (taken = availIdx <=> Ahead(taken, availIdx, IdxMod) = 0)
         /\ (seen = usedIdx <=> DoneLen = 0)
<1>1. /\ availIdx \in 0 .. IdxMod - 1 /\ usedIdx \in 0 .. IdxMod - 1
      /\ seen \in 0 .. IdxMod - 1 /\ taken \in 0 .. IdxMod - 1
  BY Zenon DEF TypeOK
<1>2. Ahead(taken, availIdx, IdxMod) \in 0 .. IdxMod - 1
  BY <1>1, Sizes, AheadReaches, Zenon
<1>3. DoneLen \in 0 .. IdxMod - 1
  BY <1>1, Sizes, AheadReaches, Zenon DEF DoneLen
<1>4. Ahead(taken, availIdx, IdxMod) = 0 <=> taken = availIdx
  BY <1>1, Sizes, AheadReaches
<1>5. DoneLen = 0 <=> seen = usedIdx
  BY <1>1, Sizes, AheadReaches DEF DoneLen
<1>6. QueueLen \in Nat
  BY <1>2, Sizes DEF QueueLen
<1> QED
  BY <1>2, <1>3, <1>4, <1>5, <1>6, Sizes

\* virtio_disk_rw puts a request in the ring: it comes last, and is written over
\* no other request while there are fewer than NUM.
LEMMA QueuePut ==
  ASSUME TypeOK, QueueLen < NUM, ~Publishing, Publishing', UNCHANGED <<taken, availIdx>>,
         NEW i, avail' = [avail EXCEPT ![availIdx % NUM] = i]
  PROVE  /\ QueueLen' = QueueLen + 1 /\ Queue'[QueueLen + 1] = i
         /\ \A n \in 1 .. QueueLen : Queue'[n] = Queue[n]
<1>1. taken \in 0 .. IdxMod - 1 /\ availIdx \in 0 .. IdxMod - 1 /\ QueueLen \in Nat
      /\ QueueLen = Ahead(taken, availIdx, IdxMod)
  BY Lengths, Sizes DEF TypeOK, QueueLen
<1>2. QueueLen' = QueueLen + 1
  BY <1>1, Zenon DEF QueueLen
<1>3. availIdx % NUM = (taken + QueueLen) % NUM
  BY <1>1, Sizes, SlotOf
<1>4. \A x \in Int : x % NUM \in 0 .. NUM - 1
  BY Sizes, DivMod, Zenon
<1>5. ASSUME NEW n \in 1 .. QueueLen PROVE Queue'[n] = Queue[n]
  <2>1. n - 1 \in Int /\ QueueLen \in Int /\ taken \in Int /\ taken + n - 1 = taken + (n - 1)
        /\ n - 1 # QueueLen /\ (n - 1) - QueueLen < NUM /\ QueueLen - (n - 1) < NUM
        /\ taken + (n - 1) \in Int /\ n \in 1 .. QueueLen + 1
    BY <1>1, Sizes
  <2>2. (taken + (n - 1)) % NUM # (taken + QueueLen) % NUM
    BY <2>1, Sizes, SlotsApart, Zenon
  <2>3. (taken + (n - 1)) % NUM \in Descs
    BY <1>4, <2>1, Zenon DEF Descs
  <2>4. avail'[(taken + (n - 1)) % NUM] = avail[(taken + (n - 1)) % NUM]
    BY <1>3, <2>2, <2>3, Zenon DEF TypeOK
  <2>5. Queue[n] = avail[(taken + n - 1) % NUM]
    BY DEF Queue
  <2>6. Queue'[n] = avail'[(taken + n - 1) % NUM]
    BY <1>2, <2>1, Zenon DEF Queue
  <2> QED
    BY <2>1, <2>4, <2>5, <2>6, Zenon
<1>6. Queue'[QueueLen + 1] = i
  <2>1. taken + (QueueLen + 1) - 1 = taken + QueueLen /\ QueueLen + 1 \in 1 .. QueueLen + 1
        /\ taken + QueueLen \in Int
    BY <1>1
  <2>2. Queue'[QueueLen + 1] = avail'[(taken + (QueueLen + 1) - 1) % NUM]
    BY <1>2, <2>1, Zenon DEF Queue
  <2>3. (taken + QueueLen) % NUM \in Descs
    BY <1>4, <2>1, Zenon DEF Descs
  <2> QED
    BY <1>3, <2>1, <2>2, <2>3, Zenon DEF TypeOK
<1> QED
  BY <1>2, <1>5, <1>6, Zenon

\* The request is published: the ring holds the same requests.
LEMMA QueuePublish ==
  ASSUME TypeOK, QueueLen <= NUM - 2, Publishing, ~Publishing', UNCHANGED <<taken, avail>>,
         availIdx' = (availIdx + 1) % IdxMod
  PROVE  QueueLen' = QueueLen /\ Queue' = Queue /\ availIdx' \in 0 .. IdxMod - 1
<1>1. taken \in 0 .. IdxMod - 1 /\ availIdx \in 0 .. IdxMod - 1
      /\ Ahead(taken, availIdx, IdxMod) \in 0 .. IdxMod - 1
      /\ QueueLen = Ahead(taken, availIdx, IdxMod) + 1
  BY Lengths, Sizes, Zenon DEF TypeOK, QueueLen
<1>2. Ahead(taken, availIdx, IdxMod) < IdxMod - 1
  BY <1>1, Sizes
<1>3. Ahead(taken, availIdx', IdxMod) = Ahead(taken, availIdx, IdxMod) + 1
  BY <1>1, <1>2, Sizes, AheadMoves, Zenon
<1>4. QueueLen' = QueueLen
  BY <1>1, <1>3 DEF QueueLen
<1>5. availIdx' \in 0 .. IdxMod - 1
  <2>1. \A x \in Int : x % IdxMod \in 0 .. IdxMod - 1
    BY Sizes, DivMod, Zenon
  <2> QED
    BY <1>1, <2>1
<1> QED
  BY <1>4, <1>5, Zenon DEF Queue

\* The device takes the first request.
LEMMA QueueTake ==
  ASSUME TypeOK, QueueLen <= NUM - 2, Publishing <=> Publishing', availIdx' = availIdx,
         taken # availIdx, taken' = (taken + 1) % IdxMod,
         avail' = [avail EXCEPT ![taken % NUM] = None]
  PROVE  /\ QueueLen > 0 /\ QueueLen' = QueueLen - 1 /\ taken' \in 0 .. IdxMod - 1
         /\ \A n \in 1 .. QueueLen - 1 : Queue'[n] = Queue[n + 1]
         /\ Queue[1] = avail[taken % NUM] /\ taken % NUM \in Descs
<1>1. taken \in 0 .. IdxMod - 1 /\ availIdx \in 0 .. IdxMod - 1 /\ QueueLen \in Nat
      /\ Ahead(taken, availIdx, IdxMod) > 0
      /\ Ahead(taken, availIdx, IdxMod) \in 0 .. IdxMod - 1
  BY Lengths, Sizes DEF TypeOK
<1>2. Ahead(taken', availIdx, IdxMod) = Ahead(taken, availIdx, IdxMod) - 1
  BY <1>1, Sizes, AheadMoves, Zenon
<1>3. QueueLen > 0 /\ QueueLen' = QueueLen - 1
  BY <1>1, <1>2, Sizes DEF QueueLen
<1>4. taken' \in 0 .. IdxMod - 1
  <2>1. \A x \in Int : x % IdxMod \in 0 .. IdxMod - 1
    BY Sizes, DivMod, Zenon
  <2> QED
    BY <1>1, <2>1
<1>5. \A x \in Int : x % NUM \in Descs
  BY Sizes, DivMod, Zenon DEF Descs
<1>6. \A x \in Int, k \in Int : ((x % IdxMod) + k) % NUM = (x + k) % NUM
  BY Sizes, SlotFrom, Zenon
<1>7. ASSUME NEW n \in 1 .. QueueLen - 1 PROVE Queue'[n] = Queue[n + 1]
  <2>1. PICK m \in Int, z \in Int : m = n - 1 /\ z = 0
    BY <1>1
  <2>2. /\ taken + 1 \in Int /\ taken' + n - 1 = taken' + m /\ taken + (n + 1) - 1 = taken + n
        /\ taken + 1 + m = taken + n /\ n + 1 \in 1 .. QueueLen /\ taken + n \in Int
        /\ taken \in Int /\ n \in Int /\ n # z /\ n - z < NUM /\ z - n < NUM /\ taken + z = taken
    BY <1>1, <1>3, <1>4, <2>1, Sizes
  <2>3. (((taken + 1) % IdxMod) + m) % NUM = (taken + 1 + m) % NUM
    BY <1>6, <2>2, Zenon
  <2>4. (taken' + n - 1) % NUM = (taken + n) % NUM
    BY <2>2, <2>3, Zenon
  <2>5. (taken + n) % NUM # (taken + z) % NUM
    BY <2>2, Sizes, SlotsApart, ZenonT(60)
  <2>6. (taken + n) % NUM \in Descs
    BY <1>5, <2>2, Zenon
  <2>7. avail'[(taken + n) % NUM] = avail[(taken + n) % NUM]
    BY <2>2, <2>5, <2>6 DEF TypeOK
  <2>8. Queue'[n] = avail'[(taken' + n - 1) % NUM]
    BY <1>3, Zenon DEF Queue
  <2>9. Queue[n + 1] = avail[(taken + (n + 1) - 1) % NUM]
    BY <2>2, Zenon DEF Queue
  <2> QED
    BY <2>2, <2>4, <2>7, <2>8, <2>9, Zenon
<1>8. Queue[1] = avail[taken % NUM]
  <2>1. taken + 1 - 1 = taken /\ 1 \in 1 .. QueueLen
    BY <1>1, <1>3
  <2> QED
    BY <2>1, Zenon DEF Queue
<1>9. taken % NUM \in Descs
  BY <1>1, <1>5, Sizes
<1> QED
  BY <1>3, <1>4, <1>7, <1>8, <1>9, Zenon

\* The device completes a request: it comes last in the used ring, and is written
\* over no other completion while there are fewer than NUM.
LEMMA DonePut ==
  ASSUME TypeOK, DoneLen <= NUM - 3, seen' = seen, usedIdx' = (usedIdx + 1) % IdxMod,
         NEW i, used' = [used EXCEPT ![usedIdx % NUM] = i]
  PROVE  /\ DoneLen' = DoneLen + 1 /\ usedIdx' \in 0 .. IdxMod - 1 /\ Done'[DoneLen + 1] = i
         /\ \A n \in 1 .. DoneLen : Done'[n] = Done[n]
<1>1. seen \in 0 .. IdxMod - 1 /\ usedIdx \in 0 .. IdxMod - 1 /\ DoneLen \in Nat
      /\ DoneLen = Ahead(seen, usedIdx, IdxMod)
  BY Lengths, Sizes, Zenon DEF TypeOK, DoneLen
<1>2. DoneLen' = DoneLen + 1
  <2>1. Ahead(seen, usedIdx, IdxMod) < IdxMod - 1
    BY <1>1, Sizes
  <2>2. Ahead(seen, usedIdx', IdxMod) = Ahead(seen, usedIdx, IdxMod) + 1
    BY <1>1, <2>1, Sizes, AheadMoves, Zenon
  <2> QED
    BY <1>1, <2>2, Zenon DEF DoneLen
<1>a. usedIdx' \in 0 .. IdxMod - 1
  <2>1. \A x \in Int : x % IdxMod \in 0 .. IdxMod - 1
    BY Sizes, DivMod, Zenon
  <2> QED
    BY <1>1, <2>1
<1>3. usedIdx % NUM = (seen + DoneLen) % NUM
  BY <1>1, Sizes, SlotOf
<1>4. \A x \in Int : x % NUM \in 0 .. NUM - 1
  BY Sizes, DivMod, Zenon
<1>5. ASSUME NEW n \in 1 .. DoneLen PROVE Done'[n] = Done[n]
  <2>1. n - 1 \in Int /\ DoneLen \in Int /\ seen \in Int /\ seen + n - 1 = seen + (n - 1)
        /\ n - 1 # DoneLen /\ (n - 1) - DoneLen < NUM /\ DoneLen - (n - 1) < NUM
        /\ seen + (n - 1) \in Int /\ n \in 1 .. DoneLen + 1
    BY <1>1, Sizes
  <2>2. (seen + (n - 1)) % NUM # (seen + DoneLen) % NUM
    BY <2>1, Sizes, SlotsApart, Zenon
  <2>3. (seen + (n - 1)) % NUM \in Descs
    BY <1>4, <2>1, Zenon DEF Descs
  <2>4. used'[(seen + (n - 1)) % NUM] = used[(seen + (n - 1)) % NUM]
    BY <1>3, <2>2, <2>3, Zenon DEF TypeOK
  <2>5. Done[n] = used[(seen + n - 1) % NUM]
    BY DEF Done
  <2>6. Done'[n] = used'[(seen + n - 1) % NUM]
    BY <1>2, <2>1, Zenon DEF Done
  <2> QED
    BY <2>1, <2>4, <2>5, <2>6, Zenon
<1>6. Done'[DoneLen + 1] = i
  <2>1. seen + (DoneLen + 1) - 1 = seen + DoneLen /\ DoneLen + 1 \in 1 .. DoneLen + 1
        /\ seen + DoneLen \in Int
    BY <1>1
  <2>2. Done'[DoneLen + 1] = used'[(seen + (DoneLen + 1) - 1) % NUM]
    BY <1>2, <2>1, Zenon DEF Done
  <2>3. (seen + DoneLen) % NUM \in Descs
    BY <1>4, <2>1, Zenon DEF Descs
  <2> QED
    BY <1>3, <2>1, <2>2, <2>3, Zenon DEF TypeOK
<1> QED
  BY <1>2, <1>a, <1>5, <1>6, Zenon

\* The handler has seen the first completion.
LEMMA DoneTake ==
  ASSUME TypeOK, DoneLen <= NUM - 2, usedIdx' = usedIdx,
         seen # usedIdx, seen' = (seen + 1) % IdxMod, used' = [used EXCEPT ![seen % NUM] = None]
  PROVE  /\ DoneLen > 0 /\ DoneLen' = DoneLen - 1 /\ seen' \in 0 .. IdxMod - 1
         /\ \A n \in 1 .. DoneLen - 1 : Done'[n] = Done[n + 1]
         /\ Done[1] = used[seen % NUM] /\ seen % NUM \in Descs
<1>1. seen \in 0 .. IdxMod - 1 /\ usedIdx \in 0 .. IdxMod - 1 /\ DoneLen \in Nat
      /\ Ahead(seen, usedIdx, IdxMod) > 0 /\ DoneLen = Ahead(seen, usedIdx, IdxMod)
  BY Lengths, Sizes DEF TypeOK, DoneLen
<1>2. Ahead(seen', usedIdx, IdxMod) = Ahead(seen, usedIdx, IdxMod) - 1
  BY <1>1, Sizes, AheadMoves, Zenon
<1>3. DoneLen > 0 /\ DoneLen' = DoneLen - 1
  BY <1>1, <1>2, Sizes, Zenon DEF DoneLen
<1>4. seen' \in 0 .. IdxMod - 1
  <2>1. \A x \in Int : x % IdxMod \in 0 .. IdxMod - 1
    BY Sizes, DivMod, Zenon
  <2> QED
    BY <1>1, <2>1
<1>5. \A x \in Int : x % NUM \in Descs
  BY Sizes, DivMod, Zenon DEF Descs
<1>6. \A x \in Int, k \in Int : ((x % IdxMod) + k) % NUM = (x + k) % NUM
  BY Sizes, SlotFrom, Zenon
<1>7. ASSUME NEW n \in 1 .. DoneLen - 1 PROVE Done'[n] = Done[n + 1]
  <2>1. PICK m \in Int, z \in Int : m = n - 1 /\ z = 0
    BY <1>1
  <2>2. /\ seen + 1 \in Int /\ seen' + n - 1 = seen' + m /\ seen + (n + 1) - 1 = seen + n
        /\ seen + 1 + m = seen + n /\ n + 1 \in 1 .. DoneLen /\ seen + n \in Int
        /\ seen \in Int /\ n \in Int /\ n # z /\ n - z < NUM /\ z - n < NUM /\ seen + z = seen
    BY <1>1, <1>3, <1>4, <2>1, Sizes
  <2>3. (((seen + 1) % IdxMod) + m) % NUM = (seen + 1 + m) % NUM
    BY <1>6, <2>2, Zenon
  <2>4. (seen' + n - 1) % NUM = (seen + n) % NUM
    BY <2>2, <2>3, Zenon
  <2>5. (seen + n) % NUM # (seen + z) % NUM
    BY <2>2, Sizes, SlotsApart, ZenonT(60)
  <2>6. (seen + n) % NUM \in Descs
    BY <1>5, <2>2, Zenon
  <2>7. used'[(seen + n) % NUM] = used[(seen + n) % NUM]
    BY <2>2, <2>5, <2>6 DEF TypeOK
  <2>8. Done'[n] = used'[(seen' + n - 1) % NUM]
    BY <1>3, Zenon DEF Done
  <2>9. Done[n + 1] = used[(seen + (n + 1) - 1) % NUM]
    BY <2>2, Zenon DEF Done
  <2> QED
    BY <2>2, <2>4, <2>7, <2>8, <2>9, Zenon
<1>8. Done[1] = used[seen % NUM]
  <2>1. seen + 1 - 1 = seen /\ 1 \in 1 .. DoneLen
    BY <1>1, <1>3
  <2> QED
    BY <2>1, Zenon DEF Done
<1>9. seen % NUM \in Descs
  BY <1>1, <1>5, Sizes
<1> QED
  BY <1>3, <1>4, <1>7, <1>8, <1>9, Zenon

----------------------------------------------------------------------------
\* alloc_desc finds the lowest descriptor of a set.
LEMMA LowestIs ==
  ASSUME NEW S \in SUBSET Descs, S # {}
  PROVE  Lowest(S) \in S
<1>1. S \subseteq Nat
  BY DEF Descs
<1>2. PICK m \in S : \A x \in S : ~ <<x, m>> \in OpToRel(<, Nat)
  BY <1>1, NatLessThanWellFounded, WFMin, Zenon
<1>3. ASSUME NEW x \in S PROVE ~(x < m)
  <2>1. x \in Nat /\ m \in Nat
    BY <1>1
  <2>2. ~ <<x, m>> \in OpToRel(<, Nat)
    BY <1>2, Zenon
  <2> QED
    BY <2>1, <2>2, Zenon DEF OpToRel
<1>4. \A x \in S : m <= x
  BY <1>1, <1>3
<1> QED
  BY <1>4, Zenon DEF Lowest

\* The descriptors are NUM, and any set of them has a size.
LEMMA DescsFinite ==
  /\ IsFiniteSet(Descs) /\ Cardinality(Descs) = NUM
  /\ \A S \in SUBSET Descs : IsFiniteSet(S) /\ Cardinality(S) \in Nat
<1>1. IsFiniteSet(Descs) /\ Cardinality(Descs) = NUM
  <2>1. 0 \in Int /\ NUM - 1 \in Int /\ ~(0 > NUM - 1)
    BY Sizes
  <2>2. IsFiniteSet(0 .. NUM - 1) /\ Cardinality(0 .. NUM - 1) = (NUM - 1) - 0 + 1
    BY <2>1, FS_Interval, Zenon
  <2> QED
    BY <2>2, Sizes DEF Descs
<1>2. \A S \in SUBSET Descs : IsFiniteSet(S) /\ Cardinality(S) \in Nat
  BY <1>1, FS_Subset, FS_CardinalityType, Zenon
<1> QED
  BY <1>1, <1>2, Zenon

\* Three elements less.
LEMMA ThreeLess ==
  ASSUME NEW S, IsFiniteSet(S), NEW i \in S, NEW j \in S, NEW k \in S, i # j, i # k, j # k
  PROVE  Cardinality(S \ {i, j, k}) = Cardinality(S) - 3
<1>1. IsFiniteSet(S \ {i}) /\ Cardinality(S \ {i}) = Cardinality(S) - 1
  BY FS_RemoveElement, Zenon
<1>2. j \in S \ {i}
  OBVIOUS
<1>3. IsFiniteSet((S \ {i}) \ {j}) /\ Cardinality((S \ {i}) \ {j}) = Cardinality(S \ {i}) - 1
  BY <1>1, <1>2, FS_RemoveElement, Zenon
<1>4. k \in (S \ {i}) \ {j}
  OBVIOUS
<1>5. Cardinality(((S \ {i}) \ {j}) \ {k}) = Cardinality((S \ {i}) \ {j}) - 1
  BY <1>3, <1>4, FS_RemoveElement, Zenon
<1>6. S \ {i, j, k} = ((S \ {i}) \ {j}) \ {k}
  OBVIOUS
<1>7. Cardinality(S) \in Nat
  BY FS_CardinalityType, Zenon
<1> QED
  BY <1>1, <1>3, <1>5, <1>6, <1>7

\* A list of different descriptors outside of a set is no longer than what the
\* set leaves.
LEMMA ListShort ==
  ASSUME NEW n \in Nat, NEW S \in SUBSET Descs, NEW f \in [1 .. n -> Descs \ S],
         \A i, j \in 1 .. n : f[i] = f[j] => i = j
  PROVE  n + Cardinality(S) <= NUM
<1>1. IsFiniteSet(Descs \ S) /\ IsFiniteSet(S) /\ IsFiniteSet(Descs) /\ Cardinality(Descs) = NUM
      /\ Cardinality(S) \in Nat /\ Cardinality(Descs \ S) \in Nat
  BY DescsFinite, Zenon
<1>2. IsFiniteSet(1 .. n) /\ Cardinality(1 .. n) = n
  BY FS_Interval
<1>3. f \in Injection(1 .. n, Descs \ S)
  BY DEF Injection, IsInjective
<1>4. Cardinality(1 .. n) <= Cardinality(Descs \ S)
  BY <1>1, <1>2, <1>3, FS_Injection, Zenon
<1>5. Cardinality(Descs \ S) = Cardinality(Descs) - Cardinality(Descs \cap S)
  BY <1>1, FS_Difference, Zenon
<1>6. Descs \cap S = S
  OBVIOUS
<1>7. n <= Cardinality(Descs \ S)
  BY <1>2, <1>4, Zenon
<1>8. Cardinality(Descs \ S) = NUM - Cardinality(S)
  BY <1>1, <1>5, <1>6, Zenon
<1> QED
  BY <1>1, <1>7, <1>8, Sizes

\* The chains depend on the descriptors, the heads and the buffers of disk.info only.
LEMMA ChainsKept ==
  ASSUME Chains, UNCHANGED <<desc, head, free>>,
         \A p \in InProgress : info'[head[p]].b = info[head[p]].b
  PROVE  Chains'
<1>1. InProgress' = InProgress
  BY DEF InProgress
<1>2. \A p \in InProgress : Second(p)' = Second(p)
  BY DEF Second
<1>3. \A p \in InProgress : Third(p)' = Third(p)
  BY <1>2, Zenon DEF Third
<1>4. \A p \in InProgress : info'[head'[p]].b = p
  BY Zenon DEF Chains
<1>5. \A p \in InProgress : /\ Second(p)' \in Descs /\ Third(p)' \in Descs
                            /\ head'[p] # Second(p)' /\ head'[p] # Third(p)'
                            /\ Second(p)' # Third(p)'
                            /\ {head'[p], Second(p)', Third(p)'} \cap free' = {}
                            /\ desc'[head'[p]].sector = p /\ desc'[Second(p)'].b = p
                            /\ desc'[Third(p)'].slot = head'[p]
  BY <1>2, <1>3 DEF Chains
<1>6. \A p, q \in InProgress : p # q =>
         {head'[p], Second(p)', Third(p)'} \cap {head'[q], Second(q)', Third(q)'} = {}
  BY <1>2, <1>3 DEF Chains
<1> QED
  BY <1>1, <1>4, <1>5, <1>6, Zenon DEF Chains

\* The queues and what is known of them, in a step that changes neither.
LEMMA StagesKept ==
  ASSUME Stages, Publishing <=> Publishing', inflight' = inflight, head' = head,
         UNCHANGED <<avail, availIdx, taken, used, usedIdx, seen, info>>, busy' = busy,
         \A n \in 1 .. DoneLen : info[Done[n]].b \in agree'
  PROVE  Stages'
<1>1. QueueLen' = QueueLen
  BY DEF QueueLen
<1>2. Queue' = Queue
  BY <1>1, Zenon DEF Queue
<1>3. DoneLen' = DoneLen /\ Done' = Done
  BY Zenon DEF DoneLen, Done
<1>4. \A h : Waited(h)' <=> Waited(h)
  BY DEF Waited
<1> QED
  BY <1>1, <1>2, <1>3, <1>4, Zenon DEF Stages

----------------------------------------------------------------------------
\* virtio_disk_rw is called.
LEMMA RwInv ==
  ASSUME VirtioInv, NEW p \in Procs, NEW x \in BOOLEAN, Rw(p, x)
  PROVE  VirtioInv'
<1> USE NamesAssumption DEF Rw, Goto, driver, device, ActivePCs, LockPCs
<1>a. Publishing <=> Publishing'
  BY Zenon DEF VirtioInv, TypeOK, LockHeld, Publishing
<1>1. TypeOK'
  BY Zenon DEF VirtioInv, TypeOK
<1>2. LockHeld'
  BY Zenon DEF VirtioInv, TypeOK, LockHeld
<1>3. Active'
  BY Zenon DEF VirtioInv, TypeOK, Active
<1>4. Chains'
  BY ChainsKept, Zenon DEF VirtioInv
<1>5. Counted'
  BY Zenon DEF VirtioInv, InProgress, Counted
<1>6. Stages'
  <2>1. ASSUME NEW n \in 1 .. DoneLen PROVE info[Done[n]].b \in agree \ {p}
    <3>1. info[Done[n]].b \in agree /\ Waited(Done[n])
      BY Zenon DEF VirtioInv, Stages
    <3>2. PICK q \in Procs : head[q] = Done[n] /\ busy[q]
      BY <3>1, Zenon DEF Waited
    <3>3. q # p /\ q \in InProgress
      BY <3>2, NamesAssumption, Zenon DEF VirtioInv, Active, InProgress
    <3>4. info[Done[n]].b = q
      BY <3>2, <3>3, Zenon DEF VirtioInv, Chains
    <3> QED
      BY <3>1, <3>3, <3>4, Zenon
  <2> QED
    BY <1>a, <2>1, StagesKept, Zenon DEF VirtioInv
<1>7. Finished'
  BY Zenon DEF VirtioInv, TypeOK, Finished
<1>8. NoSleepOnDone'
  BY Zenon DEF VirtioInv, TypeOK, NoSleepOnDone
<1> QED
  BY <1>1, <1>2, <1>3, <1>4, <1>5, <1>6, <1>7, <1>8, Zenon DEF VirtioInv

\* alloc3_desc finds fewer than three descriptors.
LEMMA RwShortInv ==
  ASSUME VirtioInv, NEW p \in Procs, RwShort(p)
  PROVE  VirtioInv'
<1> USE NamesAssumption DEF RwShort, Goto, WakeDesc, driver, device, ActivePCs, LockPCs
<1>a. Publishing <=> Publishing'
  BY DEF VirtioInv, TypeOK, LockHeld, Publishing
<1>1. TypeOK'
  BY DEF VirtioInv, TypeOK
<1>2. LockHeld'
  BY DEF VirtioInv, TypeOK, LockHeld
<1>3. Active'
  BY DEF VirtioInv, TypeOK, Active
<1>4. Chains'
  BY ChainsKept, Zenon DEF VirtioInv
<1>5. Counted'
  BY Zenon DEF VirtioInv, InProgress, Counted
<1>6. Stages'
  <2>1. \A n \in 1 .. DoneLen : info[Done[n]].b \in agree
    BY Zenon DEF VirtioInv, Stages
  <2> QED
    BY <1>a, <2>1, StagesKept, Zenon DEF VirtioInv
<1>7. Finished'
  BY DEF VirtioInv, TypeOK, Finished
<1>8. NoSleepOnDone'
  BY DEF VirtioInv, TypeOK, NoSleepOnDone
<1> QED
  BY <1>1, <1>2, <1>3, <1>4, <1>5, <1>6, <1>7, <1>8, Zenon DEF VirtioInv

\* virtio_disk_rw counts avail->idx up.
LEMMA RwPublishInv ==
  ASSUME VirtioInv, NEW p \in Procs, RwPublish(p)
  PROVE  VirtioInv'
<1> USE NamesAssumption DEF RwPublish, Goto, device, ActivePCs, LockPCs
<1>a. Publishing /\ ~Publishing'
  BY DEF VirtioInv, TypeOK, LockHeld, Publishing
<1>b. QueueLen' = QueueLen /\ Queue' = Queue /\ availIdx' \in 0 .. IdxMod - 1
  BY <1>a, QueuePublish, Zenon DEF VirtioInv, Stages
<1>1. TypeOK'
  BY <1>b, Zenon DEF VirtioInv, TypeOK
<1>2. LockHeld'
  BY Zenon DEF VirtioInv, TypeOK, LockHeld
<1>3. Active'
  BY DEF VirtioInv, TypeOK, Active
<1>4. Chains'
  BY ChainsKept, Zenon DEF VirtioInv
<1>5. Counted'
  BY Zenon DEF VirtioInv, InProgress, Counted
<1>6. Stages'
  <2>1. DoneLen' = DoneLen /\ Done' = Done
    BY Zenon DEF DoneLen, Done
  <2>2. \A h : Waited(h)' <=> Waited(h)
    BY Zenon DEF Waited
  <2> QED
    BY <1>b, <2>1, <2>2, Zenon DEF VirtioInv, Stages
<1>7. Finished'
  BY Zenon DEF VirtioInv, TypeOK, Finished
<1>8. NoSleepOnDone'
  BY Zenon DEF VirtioInv, TypeOK, NoSleepOnDone
<1> QED
  BY <1>1, <1>2, <1>3, <1>4, <1>5, <1>6, <1>7, <1>8, Zenon DEF VirtioInv

\* virtio_disk_rw notifies the device.
LEMMA RwNotifyInv ==
  ASSUME VirtioInv, NEW p \in Procs, RwNotify(p)
  PROVE  VirtioInv'
<1> USE NamesAssumption DEF RwNotify, Goto, driver, ActivePCs, LockPCs
<1>a. Publishing <=> Publishing'
  BY Zenon DEF VirtioInv, TypeOK, LockHeld, Publishing
<1>1. TypeOK'
  BY Zenon DEF VirtioInv, TypeOK
<1>2. LockHeld'
  BY Zenon DEF VirtioInv, TypeOK, LockHeld
<1>3. Active'
  BY DEF VirtioInv, TypeOK, Active
<1>4. Chains'
  BY ChainsKept, Zenon DEF VirtioInv
<1>5. Counted'
  BY Zenon DEF VirtioInv, InProgress, Counted
<1>6. Stages'
  <2>1. \A n \in 1 .. DoneLen : info[Done[n]].b \in agree
    BY Zenon DEF VirtioInv, Stages
  <2> QED
    BY <1>a, <2>1, StagesKept, Zenon DEF VirtioInv
<1>7. Finished'
  BY Zenon DEF VirtioInv, TypeOK, Finished
<1>8. NoSleepOnDone'
  BY Zenon DEF VirtioInv, TypeOK, NoSleepOnDone
<1> QED
  BY <1>1, <1>2, <1>3, <1>4, <1>5, <1>6, <1>7, <1>8, Zenon DEF VirtioInv

\* virtio_disk_rw sleeps on the buffer.
LEMMA RwSleepInv ==
  ASSUME VirtioInv, NEW p \in Procs, RwSleep(p)
  PROVE  VirtioInv'
<1> USE NamesAssumption DEF RwSleep, Goto, driver, device, ActivePCs, LockPCs
<1>a. Publishing <=> Publishing'
  BY Zenon DEF VirtioInv, TypeOK, LockHeld, Publishing
<1>1. TypeOK'
  BY Zenon DEF VirtioInv, TypeOK
<1>2. LockHeld'
  BY DEF VirtioInv, TypeOK, LockHeld
<1>3. Active'
  BY DEF VirtioInv, TypeOK, Active
<1>4. Chains'
  BY ChainsKept, Zenon DEF VirtioInv
<1>5. Counted'
  BY Zenon DEF VirtioInv, InProgress, Counted
<1>6. Stages'
  <2>1. \A n \in 1 .. DoneLen : info[Done[n]].b \in agree
    BY Zenon DEF VirtioInv, Stages
  <2> QED
    BY <1>a, <2>1, StagesKept, Zenon DEF VirtioInv
<1>7. Finished'
  BY Zenon DEF VirtioInv, TypeOK, Finished
<1>8. NoSleepOnDone'
  BY Zenon DEF VirtioInv, TypeOK, NoSleepOnDone
<1> QED
  BY <1>1, <1>2, <1>3, <1>4, <1>5, <1>6, <1>7, <1>8, Zenon DEF VirtioInv

\* virtio_disk_intr begins.
LEMMA IntrAckInv ==
  ASSUME VirtioInv, IntrAck
  PROVE  VirtioInv'
<1> USE NamesAssumption DEF IntrAck, Goto, driver, ActivePCs, LockPCs
<1>a. Publishing <=> Publishing'
  BY Zenon DEF VirtioInv, TypeOK, LockHeld, Publishing
<1>1. TypeOK'
  BY Zenon DEF VirtioInv, TypeOK
<1>2. LockHeld'
  BY DEF VirtioInv, TypeOK, LockHeld
<1>3. Active'
  BY DEF VirtioInv, TypeOK, Active
<1>4. Chains'
  BY ChainsKept, Zenon DEF VirtioInv
<1>5. Counted'
  BY Zenon DEF VirtioInv, InProgress, Counted
<1>6. Stages'
  <2>1. \A n \in 1 .. DoneLen : info[Done[n]].b \in agree
    BY Zenon DEF VirtioInv, Stages
  <2> QED
    BY <1>a, <2>1, StagesKept, Zenon DEF VirtioInv
<1>7. Finished'
  BY Zenon DEF VirtioInv, TypeOK, Finished
<1>8. NoSleepOnDone'
  BY Zenon DEF VirtioInv, TypeOK, NoSleepOnDone
<1> QED
  BY <1>1, <1>2, <1>3, <1>4, <1>5, <1>6, <1>7, <1>8, Zenon DEF VirtioInv

\* virtio_disk_intr ends.
LEMMA IntrEndInv ==
  ASSUME VirtioInv, IntrEnd
  PROVE  VirtioInv'
<1> USE NamesAssumption DEF IntrEnd, Goto, driver, device, ActivePCs, LockPCs
<1>a. Publishing <=> Publishing'
  BY Zenon DEF VirtioInv, TypeOK, LockHeld, Publishing
<1>1. TypeOK'
  BY Zenon DEF VirtioInv, TypeOK
<1>2. LockHeld'
  BY DEF VirtioInv, TypeOK, LockHeld
<1>3. Active'
  BY Zenon DEF VirtioInv, TypeOK, Active
<1>4. Chains'
  BY ChainsKept, Zenon DEF VirtioInv
<1>5. Counted'
  BY Zenon DEF VirtioInv, InProgress, Counted
<1>6. Stages'
  <2>1. \A n \in 1 .. DoneLen : info[Done[n]].b \in agree
    BY Zenon DEF VirtioInv, Stages
  <2> QED
    BY <1>a, <2>1, StagesKept, Zenon DEF VirtioInv
<1>7. Finished'
  BY DEF VirtioInv, TypeOK, Finished
<1>8. NoSleepOnDone'
  BY Zenon DEF VirtioInv, TypeOK, NoSleepOnDone
<1> QED
  BY <1>1, <1>2, <1>3, <1>4, <1>5, <1>6, <1>7, <1>8, Zenon DEF VirtioInv

\* alloc3_desc: three different descriptors, if there are three.
LEMMA AllocIs ==
  ASSUME NEW S \in SUBSET Descs, Cardinality(S) >= 3
  PROVE  /\ Lowest(S) \in S
         /\ Lowest(S \ {Lowest(S)}) \in S \ {Lowest(S)}
         /\ Lowest(S \ {Lowest(S), Lowest(S \ {Lowest(S)})})
               \in S \ {Lowest(S), Lowest(S \ {Lowest(S)})}
<1> DEFINE i == Lowest(S)
           T == S \ {i}
           j == Lowest(T)
           U == S \ {i, j}
           k == Lowest(U)
<1>1. IsFiniteSet(S) /\ Cardinality(S) \in Nat /\ Cardinality({}) = 0
  BY DescsFinite, FS_EmptySet, Zenon
<1>2. S # {}
  BY <1>1
<1>3. i \in S
  BY <1>2, LowestIs, Zenon
<1> HIDE DEF i
<1>4. IsFiniteSet(T) /\ Cardinality(T) = Cardinality(S) - 1
  BY <1>1, <1>3, FS_RemoveElement, Zenon
<1>5. T # {} /\ T \in SUBSET Descs
  BY <1>1, <1>4
<1>6. j \in T
  BY <1>5, LowestIs, Zenon
<1> HIDE DEF j
<1>7. IsFiniteSet(T \ {j}) /\ Cardinality(T \ {j}) = Cardinality(T) - 1 /\ U = T \ {j}
  BY <1>4, <1>6, FS_RemoveElement, Zenon
<1>8. U # {} /\ U \in SUBSET Descs
  BY <1>1, <1>4, <1>7
<1>9. k \in U
  BY <1>8, LowestIs, Zenon
<1> QED
  BY <1>3, <1>6, <1>9, Zenon DEF i, j

\* Whose request a descriptor is the first of.
LEMMA OwnerIs ==
  ASSUME VirtioInv, NEW h, Waited(h)
  PROVE  \E q \in InProgress :
            head[q] = h /\ busy[q] /\ info[h].b = q /\ h \in Descs /\ h \notin free
<1>1. PICK q \in Procs : head[q] = h /\ busy[q]
  BY DEF Waited
<1>2. q \in InProgress
  BY <1>1, Zenon DEF VirtioInv, Active, InProgress
<1>3. h \in Descs /\ h # None
  BY <1>1, <1>2, NamesAssumption, Zenon DEF VirtioInv, TypeOK, InProgress
<1>4. info[h].b = q /\ h \notin free
  BY <1>1, <1>2, Zenon DEF VirtioInv, Chains
<1> QED
  BY <1>1, <1>2, <1>3, <1>4, Zenon

\* alloc3_desc succeeds and the chain is formatted.
LEMMA RwFormatInv ==
  ASSUME VirtioInv, NEW p \in Procs, RwFormat(p)
  PROVE  VirtioInv'
<1>1. PICK i \in free, j \in free, k \in free :
         /\ i # j /\ i # k /\ j # k
         /\ free' = free \ {i, j, k}
         /\ desc' = [desc EXCEPT
               ![i] = [what |-> "op", write |-> write[p], sector |-> p, next |-> j],
               ![j] = [what |-> "data", b |-> p, next |-> k],
               ![k] = [what |-> "status", slot |-> i, next |-> None]]
         /\ info' = [info EXCEPT ![i] = [b |-> p, status |-> 255]]
         /\ avail' = [avail EXCEPT ![availIdx % NUM] = i]
         /\ head' = [head EXCEPT ![p] = i]
  <2> DEFINE i == Lowest(free)
             j == Lowest(free \ {i})
             k == Lowest(free \ {i, j})
  <2>1. i \in free /\ j \in free \ {i} /\ k \in free \ {i, j}
    BY AllocIs, Zenon DEF VirtioInv, TypeOK, RwFormat
  <2>2. /\ free' = free \ {i, j, k}
        /\ desc' = [desc EXCEPT
               ![i] = [what |-> "op", write |-> write[p], sector |-> p, next |-> j],
               ![j] = [what |-> "data", b |-> p, next |-> k],
               ![k] = [what |-> "status", slot |-> i, next |-> None]]
        /\ info' = [info EXCEPT ![i] = [b |-> p, status |-> 255]]
        /\ avail' = [avail EXCEPT ![availIdx % NUM] = i]
        /\ head' = [head EXCEPT ![p] = i]
    BY Zenon DEF RwFormat
  <2> HIDE DEF i, j, k
  <2>3. i \in free /\ j \in free /\ k \in free /\ i # j /\ i # k /\ j # k
    BY <2>1, Zenon
  <2> QED
    BY <2>2, <2>3, Zenon
<1>2. /\ pc[p] = "alloc" /\ vlock = None /\ vlock' = p /\ Cardinality(free) >= 3
      /\ busy' = [busy EXCEPT ![p] = TRUE] /\ pc' = [pc EXCEPT ![p] = "publish"]
      /\ UNCHANGED <<availIdx, seen, kick, taken, inflight, irq, used, usedIdx, agree, write>>
  BY Zenon DEF RwFormat, Goto, device
<1>3. i \in Descs /\ j \in Descs /\ k \in Descs /\ None \notin Descs
  BY NamesAssumption, Zenon DEF VirtioInv, TypeOK
<1> USE NamesAssumption DEF ActivePCs, LockPCs
<1>4. ~Publishing /\ Publishing'
  <2>1. ~Publishing
    BY <1>2, Zenon DEF VirtioInv, LockHeld, Publishing
  <2>2. pc'[p] = "publish"
    BY <1>2, Zenon DEF VirtioInv, TypeOK
  <2> QED
    BY <2>1, <2>2, Zenon DEF Publishing
<1>5. p \notin InProgress /\ InProgress' = InProgress \cup {p} /\ head'[p] = i
      /\ \A q \in InProgress : q # p /\ head'[q] = head[q] /\ q \in Procs
  BY <1>1, <1>2, <1>3 DEF VirtioInv, TypeOK, Active, InProgress
<1>6. desc'[i].next = j /\ desc'[i].sector = p /\ desc'[j].next = k /\ desc'[j].b = p
      /\ desc'[k].slot = i /\ \A x \in Descs : x \notin {i, j, k} => desc'[x] = desc[x]
  BY <1>1, <1>3, Zenon DEF VirtioInv, TypeOK
<1>7. info'[i].b = p /\ \A x \in Descs : x # i => info'[x] = info[x]
  BY <1>1, <1>3, Zenon DEF VirtioInv, TypeOK
<1>8. TypeOK'
  <2>1. availIdx % NUM \in Descs
    BY Sizes, DivMod DEF VirtioInv, TypeOK, Descs
  <2>2. avail' \in [Descs -> Descs \cup {None}] /\ head' \in [Procs -> Descs \cup {None}]
        /\ free' \in SUBSET Descs /\ DOMAIN desc' = Descs
    BY <1>1, <1>3, <2>1, Zenon DEF VirtioInv, TypeOK
  <2>3. info' \in [Descs -> [b : Procs \cup {None}, status : {0, 255}]]
    BY <1>1, <1>3, Zenon DEF VirtioInv, TypeOK
  <2> QED
    BY <1>2, <2>2, <2>3, Zenon DEF VirtioInv, TypeOK
<1>9. LockHeld'
  BY <1>2 DEF VirtioInv, TypeOK, LockHeld
<1>10. Active'
  BY <1>1, <1>2, <1>3 DEF VirtioInv, TypeOK, Active
<1>11. Chains'
  <2>1. ASSUME NEW q \in InProgress
        PROVE  /\ {head[q], Second(q), Third(q)} \cap {i, j, k} = {}
               /\ head'[q] = head[q] /\ Second(q)' = Second(q) /\ Third(q)' = Third(q)
               /\ desc'[head[q]] = desc[head[q]] /\ desc'[Second(q)] = desc[Second(q)]
               /\ desc'[Third(q)] = desc[Third(q)] /\ info'[head[q]] = info[head[q]]
    <3>1. head[q] \in Descs /\ Second(q) \in Descs /\ Third(q) \in Descs
          /\ {head[q], Second(q), Third(q)} \cap free = {}
      BY DEF VirtioInv, TypeOK, Chains, InProgress
    <3>2. {head[q], Second(q), Third(q)} \cap {i, j, k} = {}
      BY <3>1, Zenon
    <3>3. desc'[head[q]] = desc[head[q]] /\ desc'[Second(q)] = desc[Second(q)]
          /\ desc'[Third(q)] = desc[Third(q)] /\ info'[head[q]] = info[head[q]]
      BY <1>6, <1>7, <3>1, <3>2, Zenon
    <3>4. Second(q)' = Second(q)
      BY <1>5, <3>3, Zenon DEF Second
    <3>5. Third(q)' = Third(q)
      BY <3>3, <3>4, Zenon DEF Third
    <3> QED
      BY <1>5, <3>2, <3>3, <3>4, <3>5, Zenon
  <2>2. Second(p)' = j /\ Third(p)' = k
    BY <1>5, <1>6, Zenon DEF Second, Third
  <2>3. ASSUME NEW q \in InProgress'
        PROVE  /\ Second(q)' \in Descs /\ Third(q)' \in Descs
               /\ head'[q] # Second(q)' /\ head'[q] # Third(q)' /\ Second(q)' # Third(q)'
               /\ {head'[q], Second(q)', Third(q)'} \cap free' = {}
               /\ desc'[head'[q]].sector = q /\ desc'[Second(q)'].b = q
               /\ desc'[Third(q)'].slot = head'[q] /\ info'[head'[q]].b = q
    <3>1. CASE q = p
      BY <1>1, <1>3, <1>5, <1>6, <1>7, <2>2, <3>1, Zenon
    <3>2. CASE q \in InProgress
      <4>1. /\ Second(q) \in Descs /\ Third(q) \in Descs
            /\ head[q] # Second(q) /\ head[q] # Third(q) /\ Second(q) # Third(q)
            /\ {head[q], Second(q), Third(q)} \cap free = {}
            /\ desc[head[q]].sector = q /\ desc[Second(q)].b = q
            /\ desc[Third(q)].slot = head[q] /\ info[head[q]].b = q
        BY <3>2, Zenon DEF VirtioInv, Chains
      <4>2. free' \subseteq free
        BY <1>1, Zenon
      <4>3. {head[q], Second(q), Third(q)} \cap free' = {}
        BY <4>1, <4>2, Zenon
      <4> QED
        BY <2>1, <3>2, <4>1, <4>3
    <3> QED
      BY <1>5, <3>1, <3>2, Zenon
  <2>4. ASSUME NEW q \in InProgress', NEW s \in InProgress', q # s
        PROVE  {head'[q], Second(q)', Third(q)'} \cap {head'[s], Second(s)', Third(s)'} = {}
    <3>1. CASE q = p
      BY <1>5, <2>1, <2>2, <2>4, <3>1, Zenon
    <3>2. CASE s = p
      BY <1>5, <2>1, <2>2, <2>4, <3>2, Zenon
    <3>3. CASE q # p /\ s # p
      BY <1>5, <2>1, <2>4, <3>3 DEF VirtioInv, Chains
    <3> QED
      BY <3>1, <3>2, <3>3, Zenon
  <2> QED
    BY <2>3, <2>4, Zenon DEF Chains
<1>12. Counted'
  <2>1. IsFiniteSet(InProgress') /\ Cardinality(InProgress') = Cardinality(InProgress) + 1
    BY <1>5, FS_AddElement, Zenon DEF VirtioInv, Counted
  <2>2. IsFiniteSet(free) /\ Cardinality(free) \in Nat /\ Cardinality(InProgress) \in Nat
    BY DescsFinite, FS_CardinalityType, Zenon DEF VirtioInv, TypeOK, Counted
  <2>3. Cardinality(free') = Cardinality(free) - 3
    BY <1>1, <2>2, ThreeLess, Zenon
  <2> QED
    BY <2>1, <2>2, <2>3 DEF VirtioInv, Counted
<1>13. Stages'
  <2>1. QueueLen \in Nat /\ DoneLen \in Nat /\ DoneLen' = DoneLen /\ Done' = Done
    BY <1>2, Lengths, Zenon DEF VirtioInv, DoneLen, Done
  <2>2. \A h : Waited(h) => Waited(h)'
    BY <1>1, <1>2 DEF Waited, VirtioInv, TypeOK, Active
  <2>3. \A h : Waited(h) => h \in Descs /\ h \notin free /\ h # i
    BY OwnerIs, Zenon
  <2>4. QueueLen <= NUM - 3
    <3>1. Queue \in [1 .. QueueLen -> Descs \ free]
      <4>1. \A n \in 1 .. QueueLen : Queue[n] \in Descs \ free
        BY <2>3, Zenon DEF VirtioInv, Stages
      <4> QED
        BY <4>1, Zenon DEF Queue
    <3>2. \A m, n \in 1 .. QueueLen : Queue[m] = Queue[n] => m = n
      BY Zenon DEF VirtioInv, Stages
    <3>3. QueueLen + Cardinality(free) <= NUM
      BY <2>1, <3>1, <3>2, ListShort, Zenon DEF VirtioInv, TypeOK
    <3>4. Cardinality(free) \in Nat
      BY DescsFinite, Zenon DEF VirtioInv, TypeOK
    <3> QED
      BY <1>2, <2>1, <3>3, <3>4, Sizes
  <2>5. /\ QueueLen' = QueueLen + 1 /\ Queue'[QueueLen + 1] = i
        /\ \A n \in 1 .. QueueLen : Queue'[n] = Queue[n]
    <3>1. QueueLen < NUM
      BY <2>1, <2>4, Sizes
    <3> QED
      BY <1>1, <1>2, <1>4, <3>1, QueuePut, Zenon DEF VirtioInv
  <2>6. Waited(i)'
    BY <1>1, <1>2 DEF Waited, VirtioInv, TypeOK
  <2>7. i \notin inflight /\ (\A n \in 1 .. QueueLen : Queue[n] # i)
        /\ (\A n \in 1 .. DoneLen : Done[n] # i)
    BY <2>3, Zenon DEF VirtioInv, Stages
  <2>8. ASSUME NEW n \in 1 .. QueueLen'
        PROVE  \/ n \in 1 .. QueueLen /\ Queue'[n] = Queue[n]
               \/ n = QueueLen + 1 /\ Queue'[n] = i
    BY <2>1, <2>5
  <2>9. \A n \in 1 .. QueueLen' :
           Queue'[n] \in Descs /\ Waited(Queue[n])' /\ Queue'[n] \notin inflight'
    BY <1>2, <1>3, <2>2, <2>6, <2>7, <2>8, Zenon DEF VirtioInv, Stages
  <2>10. \A m, n \in 1 .. QueueLen' : Queue'[m] = Queue'[n] => m = n
    BY <2>7, <2>8, Zenon DEF VirtioInv, Stages
  <2>11. \A m \in 1 .. QueueLen', n \in 1 .. DoneLen : Queue'[m] # Done[n]
    BY <2>7, <2>8, Zenon DEF VirtioInv, Stages
  <2>12. \A n \in 1 .. DoneLen : Done[n] \in Descs /\ info'[Done[n]] = info[Done[n]]
    BY <1>7, <2>7, Zenon DEF VirtioInv, Stages
  <2>13. QueueLen' <= NUM - 2 /\ DoneLen' <= NUM - 2
    BY <2>1, <2>4, <2>5, Sizes DEF VirtioInv, Stages
  <2>14. \A n \in 1 .. DoneLen' :
            /\ Done'[n] \in Descs /\ Waited(Done[n])' /\ Done'[n] \notin inflight'
            /\ info'[Done'[n]].status = 0 /\ info'[Done'[n]].b \in agree'
    BY <1>2, <2>1, <2>2, <2>12, Zenon DEF VirtioInv, Stages
  <2>15. \A h \in inflight' : Waited(h)'
    BY <1>2, <2>2, Zenon DEF VirtioInv, Stages
  <2>16. \A m, n \in 1 .. DoneLen' : Done'[m] = Done'[n] => m = n
    BY <2>1, Zenon DEF VirtioInv, Stages
  <2> QED
    BY <2>1, <2>9, <2>10, <2>11, <2>13, <2>14, <2>15, <2>16, Zenon DEF Stages
<1>14. Finished'
  BY <1>2 DEF VirtioInv, TypeOK, Finished
<1>15. NoSleepOnDone'
  <2>1. Cardinality(free) \in Nat /\ Cardinality(free') \in Nat
        /\ ~(\E q \in Procs : pc[q] = "wait_desc")
    BY <1>2, <1>8, DescsFinite DEF VirtioInv, TypeOK, NoSleepOnDone
  <2> QED
    BY <1>2, <2>1 DEF VirtioInv, TypeOK, NoSleepOnDone
<1> QED
  BY <1>8, <1>9, <1>10, <1>11, <1>12, <1>13, <1>14, <1>15, Zenon DEF VirtioInv

\* free_chain frees the three descriptors of a request.
LEMMA ChainIs ==
  ASSUME VirtioInv, NEW p \in InProgress
  PROVE  Chain(head[p]) = {head[p], Second(p), Third(p)}
<1>1. Third(p) \in Descs /\ None \notin Descs
  BY NamesAssumption, Zenon DEF VirtioInv, Chains
<1>2. Third(p) # None
  BY <1>1, Zenon
<1> QED
  BY <1>2, Zenon DEF Chain, Second, Third

\* The transfer is done: free_chain, and virtio_disk_rw returns.
LEMMA RwDoneInv ==
  ASSUME VirtioInv, NEW p \in Procs, RwDone(p)
  PROVE  VirtioInv'
<1> USE NamesAssumption DEF ActivePCs, LockPCs
<1>1. p \in InProgress /\ pc[p] \in {"check", "woken"} /\ ~busy[p]
  BY Zenon DEF RwDone, VirtioInv, Active, InProgress
<1>2. PICK i \in Descs, j \in Descs, k \in Descs :
         /\ i = head[p] /\ j = Second(p) /\ k = Third(p) /\ i # j /\ i # k /\ j # k
         /\ {i, j, k} \cap free = {}
  BY <1>1 DEF VirtioInv, TypeOK, Chains, InProgress
<1>3. /\ free' = free \cup {i, j, k}
      /\ desc' = [x \in Descs |-> IF x \in {i, j, k} THEN None ELSE desc[x]]
      /\ info' = [info EXCEPT ![i] = [b |-> None, status |-> 0]]
      /\ head' = [head EXCEPT ![p] = None]
  <2>1. Chain(i) = {i, j, k}
    BY <1>1, <1>2, ChainIs, Zenon
  <2>2. FreeChain(i)
    BY <1>2, Zenon DEF RwDone
  <2>3. /\ free' = free \cup {i, j, k}
        /\ desc' = [x \in Descs |-> IF x \in {i, j, k} THEN None ELSE desc[x]]
    BY <2>1, <2>2, Zenon DEF FreeChain
  <2> QED
    BY <1>2, <2>3, Zenon DEF RwDone
<1>4. /\ vlock' = None /\ write' = [write EXCEPT ![p] = FALSE]
      /\ pc' = [x \in DOMAIN pc |-> CASE x = p -> "idle"
                                      [] x # p /\ pc[x] = "wait_desc" -> "alloc"
                                      [] OTHER -> pc[x]]
      /\ UNCHANGED <<avail, availIdx, seen, kick, taken, inflight, irq, used, usedIdx, busy, agree>>
  BY Zenon DEF RwDone, WakeDesc, device
<1>5. vlock \in {None, p} /\ (vlock = None => \A q \in Procs : pc[q] \notin LockPCs)
      /\ \A q \in Procs : q # p => pc[q] \notin LockPCs
  BY Zenon DEF RwDone, VirtioInv, LockHeld
<1>6. ~Publishing /\ ~Publishing'
  <2>1. ~Publishing
    BY <1>1, <1>5, Zenon DEF Publishing
  <2>2. \A q \in Procs : pc'[q] # "publish"
    BY <1>1, <1>4, <1>5, Zenon DEF VirtioInv, TypeOK
  <2> QED
    BY <2>1, <2>2, Zenon DEF Publishing
<1>7. InProgress' = InProgress \ {p} /\ \A q \in InProgress' : head'[q] = head[q]
  BY <1>3 DEF VirtioInv, TypeOK, InProgress
<1>8. TypeOK'
  BY <1>3, <1>4 DEF VirtioInv, TypeOK
<1>9. LockHeld'
  BY <1>1, <1>4, <1>5 DEF VirtioInv, TypeOK, LockHeld
<1>10. Active'
  BY <1>1, <1>3, <1>4 DEF VirtioInv, TypeOK, Active
<1>11. Chains'
  <2>1. ASSUME NEW q \in InProgress'
        PROVE  /\ q \in InProgress
               /\ {head[q], Second(q), Third(q)} \cap {i, j, k} = {}
               /\ head'[q] = head[q] /\ Second(q)' = Second(q) /\ Third(q)' = Third(q)
               /\ desc'[head[q]] = desc[head[q]] /\ desc'[Second(q)] = desc[Second(q)]
               /\ desc'[Third(q)] = desc[Third(q)] /\ info'[head[q]] = info[head[q]]
    <3>1. q \in InProgress /\ q # p /\ head'[q] = head[q]
      BY <1>7, Zenon
    <3>2. head[q] \in Descs /\ Second(q) \in Descs /\ Third(q) \in Descs
      BY <3>1 DEF VirtioInv, TypeOK, Chains, InProgress
    <3>3. {head[q], Second(q), Third(q)} \cap {i, j, k} = {}
      BY <1>1, <1>2, <3>1, Zenon DEF VirtioInv, Chains
    <3>4. desc'[head[q]] = desc[head[q]] /\ desc'[Second(q)] = desc[Second(q)]
          /\ desc'[Third(q)] = desc[Third(q)] /\ info'[head[q]] = info[head[q]]
      BY <1>3, <3>2, <3>3, Zenon DEF VirtioInv, TypeOK
    <3>5. Second(q)' = Second(q)
      BY <3>1, <3>4, Zenon DEF Second
    <3>6. Third(q)' = Third(q)
      BY <3>4, <3>5, Zenon DEF Third
    <3> QED
      BY <3>1, <3>3, <3>4, <3>5, <3>6, Zenon
  <2>2. ASSUME NEW q \in InProgress'
        PROVE  /\ Second(q)' \in Descs /\ Third(q)' \in Descs
               /\ head'[q] # Second(q)' /\ head'[q] # Third(q)' /\ Second(q)' # Third(q)'
               /\ {head'[q], Second(q)', Third(q)'} \cap free' = {}
               /\ desc'[head'[q]].sector = q /\ desc'[Second(q)'].b = q
               /\ desc'[Third(q)'].slot = head'[q] /\ info'[head'[q]].b = q
    <3>1. /\ Second(q) \in Descs /\ Third(q) \in Descs
          /\ head[q] # Second(q) /\ head[q] # Third(q) /\ Second(q) # Third(q)
          /\ {head[q], Second(q), Third(q)} \cap free = {}
          /\ desc[head[q]].sector = q /\ desc[Second(q)].b = q
          /\ desc[Third(q)].slot = head[q] /\ info[head[q]].b = q
      BY <2>1, Zenon DEF VirtioInv, Chains
    <3>2. {head[q], Second(q), Third(q)} \cap free' = {}
      BY <1>3, <2>1, <3>1, Zenon
    <3> QED
      BY <2>1, <3>1, <3>2
  <2>3. ASSUME NEW q \in InProgress', NEW s \in InProgress', q # s
        PROVE  {head'[q], Second(q)', Third(q)'} \cap {head'[s], Second(s)', Third(s)'} = {}
    <3>1. {head[q], Second(q), Third(q)} \cap {head[s], Second(s), Third(s)} = {}
      BY <2>1, <2>3, Zenon DEF VirtioInv, Chains
    <3> QED
      BY <2>1, <3>1, Zenon
  <2> QED
    BY <2>2, <2>3, Zenon DEF Chains
<1>12. Counted'
  <2>1. IsFiniteSet(InProgress') /\ Cardinality(InProgress') = Cardinality(InProgress) - 1
    BY <1>1, <1>7, FS_RemoveElement, Zenon DEF VirtioInv, Counted
  <2>2. IsFiniteSet(free') /\ Cardinality(free') \in Nat /\ Cardinality(InProgress) \in Nat
        /\ Cardinality(free) \in Nat
    BY <1>8, DescsFinite, FS_CardinalityType, Zenon DEF VirtioInv, TypeOK, Counted
  <2>3. i \in free' /\ j \in free' /\ k \in free' /\ free' \ {i, j, k} = free
    BY <1>2, <1>3, Zenon
  <2>4. Cardinality(free' \ {i, j, k}) = Cardinality(free') - 3
    BY <1>2, <2>2, <2>3, ThreeLess, Zenon
  <2>5. Cardinality(free) = Cardinality(free') - 3
    BY <2>3, <2>4, Zenon
  <2>6. Cardinality(free) + 3 * Cardinality(InProgress) = NUM
    BY Zenon DEF VirtioInv, Counted
  <2>7. Cardinality(free') + 3 * Cardinality(InProgress') = NUM
    BY <2>1, <2>2, <2>5, <2>6
  <2> QED
    BY <2>1, <2>7, Zenon DEF Counted
<1>13. Stages'
  <2>1. QueueLen' = QueueLen /\ DoneLen' = DoneLen
    BY <1>4, <1>6, Zenon DEF QueueLen, DoneLen
  <2>2. Queue' = Queue /\ Done' = Done
    BY <1>4, <2>1, Zenon DEF Queue, Done
  <2>3. \A h : Waited(h) => Waited(h)'
    BY <1>1, <1>3, <1>4 DEF Waited, VirtioInv, TypeOK
  <2>4. \A h : Waited(h) => h # i
    <3>1. SUFFICES ASSUME NEW h, Waited(h) PROVE h # i
      OBVIOUS
    <3>2. PICK q \in InProgress : head[q] = h /\ busy[q]
      BY <3>1, OwnerIs, Zenon
    <3>3. q # p
      BY <1>1, <3>2, Zenon
    <3> QED
      BY <1>1, <1>2, <3>2, <3>3 DEF VirtioInv, Chains
  <2>5. \A n \in 1 .. DoneLen : Done[n] \in Descs /\ info'[Done[n]] = info[Done[n]]
    BY <1>3, <2>4, Zenon DEF VirtioInv, TypeOK, Stages
  <2> QED
    BY <1>4, <2>1, <2>2, <2>3, <2>5 DEF VirtioInv, Stages
<1>14. Finished'
  BY <1>1, <1>4 DEF VirtioInv, TypeOK, Finished
<1>15. NoSleepOnDone'
  <2>1. \A q \in Procs : pc'[q] # "wait_desc"
    BY <1>4, Zenon DEF VirtioInv, TypeOK
  <2>2. \A q \in Procs : pc'[q] = "wait_buf" => pc[q] = "wait_buf"
    BY <1>4, Zenon DEF VirtioInv, TypeOK
  <2>3. pc'["intr"] = pc["intr"]
    BY <1>4, Zenon DEF VirtioInv, TypeOK, LockHeld
  <2> QED
    BY <1>4, <2>1, <2>2, <2>3, Zenon DEF VirtioInv, NoSleepOnDone
<1> QED
  BY <1>8, <1>9, <1>10, <1>11, <1>12, <1>13, <1>14, <1>15, Zenon DEF VirtioInv

\* The handler is told of a transfer: the status is 0, and the buffer's process
\* is waiting for it.
LEMMA IntrOneInv ==
  ASSUME VirtioInv, IntrOne
  PROVE  VirtioInv'
<1> USE NamesAssumption DEF ActivePCs, LockPCs
<1>1. DoneLen \in Nat /\ DoneLen > 0 /\ Done[1] = used[seen % NUM] /\ seen % NUM \in Descs
  <2>1. DoneLen \in Nat /\ DoneLen > 0 /\ seen \in 0 .. IdxMod - 1
    BY Lengths DEF VirtioInv, TypeOK, IntrOne
  <2>2. seen % NUM \in Descs
    BY <2>1, Sizes, DivMod DEF Descs
  <2>3. Done[1] = used[(seen + 1 - 1) % NUM]
    BY <2>1 DEF Done
  <2>4. seen + 1 - 1 = seen
    BY <2>1, Sizes
  <2> QED
    BY <2>1, <2>2, <2>3, <2>4, Zenon
<1>2. PICK d : d = Done[1]
  OBVIOUS
<1>3. Waited(d) /\ info[d].status = 0 /\ info[d].b \in agree /\ d \notin inflight
  BY <1>1, <1>2 DEF VirtioInv, Stages
<1>4. PICK b \in InProgress : head[b] = d /\ busy[b] /\ info[d].b = b
  BY <1>3, OwnerIs, Zenon
<1>5. b \in Procs /\ b # None /\ b \in agree
  BY <1>3, <1>4, Zenon DEF InProgress
<1>6. /\ pc["intr"] = "loop" /\ seen # usedIdx
      /\ busy' = [busy EXCEPT ![b] = FALSE]
      /\ pc' = IF pc[b] = "wait_buf" THEN [pc EXCEPT ![b] = "woken"] ELSE pc
      /\ seen' = (seen + 1) % IdxMod
      /\ used' = [used EXCEPT ![seen % NUM] = None]
      /\ UNCHANGED <<free, desc, avail, availIdx, kick, taken, inflight, irq, usedIdx,
                     info, agree, vlock, write, head>>
  BY <1>1, <1>2, <1>3, <1>4, <1>5, Zenon DEF IntrOne
<1>7. /\ DoneLen' = DoneLen - 1 /\ seen' \in 0 .. IdxMod - 1
      /\ \A n \in 1 .. DoneLen - 1 : Done'[n] = Done[n + 1]
  BY <1>6, DoneTake, Zenon DEF VirtioInv, Stages
<1>8. /\ \A q \in Procs : pc'[q] = pc[q] \/ (q = b /\ pc[q] = "wait_buf" /\ pc'[q] = "woken")
      /\ pc' \in [Procs \cup {"intr"} -> {"idle", "alloc", "wait_desc", "loop"} \cup ActivePCs]
      /\ pc'["intr"] = pc["intr"] /\ pc'[b] # "wait_buf"
  BY <1>5, <1>6, Zenon DEF VirtioInv, TypeOK
<1>9. Publishing <=> Publishing'
  BY <1>8, Zenon DEF Publishing
<1>10. TypeOK'
  BY <1>1, <1>5, <1>6, <1>7, <1>8, Zenon DEF VirtioInv, TypeOK
<1>11. LockHeld'
  BY <1>6, <1>8, Zenon DEF VirtioInv, LockHeld
<1>12. Active'
  BY <1>5, <1>6, <1>8 DEF VirtioInv, TypeOK, Active
<1>13. Chains'
  BY <1>6, ChainsKept, Zenon DEF VirtioInv
<1>14. Counted'
  BY <1>6, Zenon DEF VirtioInv, Counted, InProgress
<1>15. Stages'
  <2>1. QueueLen' = QueueLen
    BY <1>6, <1>9, Zenon DEF QueueLen
  <2>2. Queue' = Queue
    BY <1>6, <2>1, Zenon DEF Queue
  <2>3. \A h : Waited(h) /\ h # d => Waited(h)'
    BY <1>4, <1>5, <1>6 DEF Waited, VirtioInv, TypeOK
  <2>4. \A n \in 1 .. DoneLen' : n \in 1 .. DoneLen - 1 /\ n + 1 \in 1 .. DoneLen
                                  /\ Done'[n] = Done[n + 1] /\ Done[n + 1] # d
    <3>1. \A n \in 1 .. DoneLen' : n \in 1 .. DoneLen - 1 /\ n + 1 \in 1 .. DoneLen /\ n + 1 # 1
      BY <1>1, <1>7
    <3>2. \A n \in 1 .. DoneLen : Done[n] = Done[1] => n = 1
      BY <1>1 DEF VirtioInv, Stages
    <3> QED
      BY <1>2, <1>7, <3>1, <3>2, Zenon
  <2>5. \A n \in 1 .. QueueLen : Queue[n] # d
    BY <1>1, <1>2 DEF VirtioInv, Stages
  <2>6. \A n \in 1 .. QueueLen' :
           Queue'[n] \in Descs /\ Waited(Queue[n])' /\ Queue'[n] \notin inflight'
    BY <1>6, <2>1, <2>2, <2>3, <2>5, Zenon DEF VirtioInv, Stages
  <2>7. \A n \in 1 .. DoneLen' :
           /\ Done'[n] \in Descs /\ Waited(Done[n])' /\ Done'[n] \notin inflight'
           /\ info'[Done'[n]].status = 0 /\ info'[Done'[n]].b \in agree'
    BY <1>6, <2>3, <2>4 DEF VirtioInv, Stages
  <2>8. \A h \in inflight' : Waited(h)'
    BY <1>3, <1>6, <2>3, Zenon DEF VirtioInv, Stages
  <2>9. \A m, n \in 1 .. DoneLen' : Done'[m] = Done'[n] => m = n
    <3>1. SUFFICES ASSUME NEW m \in 1 .. DoneLen', NEW n \in 1 .. DoneLen', Done'[m] = Done'[n]
                   PROVE  m = n
      OBVIOUS
    <3>2. Done[m + 1] = Done[n + 1] /\ m + 1 \in 1 .. DoneLen /\ n + 1 \in 1 .. DoneLen
      BY <2>4, <3>1, Zenon
    <3>3. m + 1 = n + 1
      BY <3>2, Zenon DEF VirtioInv, Stages
    <3> QED
      BY <1>1, <1>7, <3>3
  <2>10. \A m \in 1 .. QueueLen', n \in 1 .. DoneLen' : Queue'[m] # Done'[n]
    BY <2>1, <2>2, <2>4 DEF VirtioInv, Stages
  <2>11. \A m, n \in 1 .. QueueLen' : Queue'[m] = Queue'[n] => m = n
    BY <2>1, <2>2, Zenon DEF VirtioInv, Stages
  <2>12. QueueLen' <= NUM - 2 /\ DoneLen' <= NUM - 2
    BY <1>1, <1>7, <2>1, Sizes DEF VirtioInv, Stages
  <2> QED
    BY <2>6, <2>7, <2>8, <2>9, <2>10, <2>11, <2>12, Zenon DEF Stages
<1>16. Finished'
  BY <1>5, <1>6, <1>8 DEF VirtioInv, TypeOK, Finished
<1>17. NoSleepOnDone'
  BY <1>5, <1>6, <1>8 DEF VirtioInv, TypeOK, NoSleepOnDone
<1> QED
  BY <1>10, <1>11, <1>12, <1>13, <1>14, <1>15, <1>16, <1>17, Zenon DEF VirtioInv

\* The device takes the next request of the available ring.
LEMMA DevTakeInv ==
  ASSUME VirtioInv, DevTake
  PROVE  VirtioInv'
<1>1. /\ kick' \in BOOLEAN
      /\ UNCHANGED <<irq, used, usedIdx, free, desc, availIdx, seen, info, busy, agree, vlock,
                     pc, write, head>>
  BY Zenon DEF DevTake, VirtioInv, TypeOK
<1>2. (Publishing <=> Publishing') /\ DoneLen' = DoneLen /\ Done' = Done
  BY <1>1, Zenon DEF Publishing, DoneLen, Done
<1>3. \A h : Waited(h) => Waited(h)'
  BY <1>1, Zenon DEF Waited
<1>4. taken' \in 0 .. IdxMod - 1 /\ avail' \in [Descs -> Descs \cup {None}]
      /\ inflight' \in SUBSET Descs /\ Stages'
  <2>1. CASE taken = availIdx
    <3>1. UNCHANGED <<taken, inflight, avail>>
      BY <2>1, Zenon DEF DevTake
    <3>2. Stages'
      BY <1>1, <1>2, <3>1, StagesKept, Zenon DEF VirtioInv, Stages
    <3> QED
      BY <3>1, <3>2, Zenon DEF VirtioInv, TypeOK
  <2>2. CASE taken # availIdx
    <3>1. /\ inflight' = inflight \cup {avail[taken % NUM]}
          /\ taken' = (taken + 1) % IdxMod
          /\ avail' = [avail EXCEPT ![taken % NUM] = None]
      BY <2>2, Zenon DEF DevTake
    <3>2. QueueLen > 0 /\ QueueLen' = QueueLen - 1 /\ taken' \in 0 .. IdxMod - 1
      BY <1>1, <1>2, <2>2, <3>1, QueueTake, Zenon DEF VirtioInv, Stages
    <3>3. \A n \in 1 .. QueueLen - 1 : Queue'[n] = Queue[n + 1]
      BY <1>1, <1>2, <2>2, <3>1, QueueTake, Zenon DEF VirtioInv, Stages
    <3>4. Queue[1] = avail[taken % NUM] /\ taken % NUM \in Descs /\ QueueLen \in Nat
      BY <1>1, <1>2, <2>2, <3>1, QueueTake, Lengths, Zenon DEF VirtioInv, Stages
    <3>5. PICK d : d = Queue[1] /\ inflight' = inflight \cup {d}
      BY <3>1, <3>4, Zenon
    <3>6. d \in Descs /\ Waited(d) /\ d \notin inflight /\ \A n \in 1 .. DoneLen : d # Done[n]
      BY <3>2, <3>4, <3>5 DEF VirtioInv, Stages
    <3>7. \A n \in 1 .. QueueLen' : /\ n \in 1 .. QueueLen - 1 /\ n + 1 \in 1 .. QueueLen
                                    /\ Queue'[n] = Queue[n + 1] /\ Queue[n + 1] # d
      <4>1. \A n \in 1 .. QueueLen' :
               n \in 1 .. QueueLen - 1 /\ n + 1 \in 1 .. QueueLen /\ n + 1 # 1
        BY <3>2, <3>4
      <4>2. \A n \in 1 .. QueueLen : Queue[n] = Queue[1] => n = 1
        BY <3>2, <3>4 DEF VirtioInv, Stages
      <4> QED
        BY <3>3, <3>5, <4>1, <4>2, Zenon
    <3>8. \A n \in 1 .. QueueLen' :
             Queue'[n] \in Descs /\ Waited(Queue[n])' /\ Queue'[n] \notin inflight'
      BY <1>3, <3>5, <3>7, Zenon DEF VirtioInv, Stages
    <3>9. \A n \in 1 .. DoneLen' :
             /\ Done'[n] \in Descs /\ Waited(Done[n])' /\ Done'[n] \notin inflight'
             /\ info'[Done'[n]].status = 0 /\ info'[Done'[n]].b \in agree'
      BY <1>1, <1>2, <1>3, <3>5, <3>6, Zenon DEF VirtioInv, Stages
    <3>10. \A h \in inflight' : Waited(h)'
      BY <1>3, <3>5, <3>6, Zenon DEF VirtioInv, Stages
    <3>11. \A m, n \in 1 .. QueueLen' : Queue'[m] = Queue'[n] => m = n
      <4>1. SUFFICES ASSUME NEW m \in 1 .. QueueLen', NEW n \in 1 .. QueueLen',
      Queue'[m] = Queue'[n]
                     PROVE  m = n
        OBVIOUS
      <4>2. Queue[m + 1] = Queue[n + 1] /\ m + 1 \in 1 .. QueueLen /\ n + 1 \in 1 .. QueueLen
        BY <3>7, <4>1, Zenon
      <4>3. m + 1 = n + 1
        BY <4>2, Zenon DEF VirtioInv, Stages
      <4> QED
        BY <3>2, <3>4, <4>3
    <3>12. \A m \in 1 .. QueueLen', n \in 1 .. DoneLen' : Queue'[m] # Done'[n]
      BY <1>2, <3>7 DEF VirtioInv, Stages
    <3>13. \A m, n \in 1 .. DoneLen' : Done'[m] = Done'[n] => m = n
      BY <1>2, Zenon DEF VirtioInv, Stages
    <3>14. QueueLen' <= NUM - 2 /\ DoneLen' <= NUM - 2
      BY <1>2, <3>2, <3>4, Sizes DEF VirtioInv, Stages
    <3>15. Stages'
      BY <3>8, <3>9, <3>10, <3>11, <3>12, <3>13, <3>14, Zenon DEF Stages
    <3> QED
      BY <3>1, <3>2, <3>4, <3>5, <3>6, <3>15 DEF VirtioInv, TypeOK
  <2> QED
    BY <2>1, <2>2, Zenon
<1>5. TypeOK'
  BY <1>1, <1>4, Zenon DEF VirtioInv, TypeOK
<1>6. LockHeld' /\ Active' /\ Finished' /\ NoSleepOnDone'
  BY <1>1, Zenon DEF VirtioInv, LockHeld, Active, Finished, NoSleepOnDone
<1>7. Chains' /\ Counted'
  BY <1>1, ChainsKept, Zenon DEF VirtioInv, Counted, InProgress
<1> QED
  BY <1>4, <1>5, <1>6, <1>7, Zenon DEF VirtioInv

\* The device completes a request: of the requests whose completion waits for the
\* handler this one is none, so the used ring has room.
LEMMA DevCompleteInv ==
  ASSUME VirtioInv, NEW h \in Descs, DevComplete(h)
  PROVE  VirtioInv'
<1>1. h \in inflight /\ Waited(h)
  BY Zenon DEF DevComplete, VirtioInv, Stages
<1>2. PICK p \in InProgress : head[p] = h /\ busy[p] /\ info[h].b = p
  BY <1>1, OwnerIs, Zenon
<1>3. p \in Procs
  BY DEF InProgress
<1>4. desc[h].sector = p /\ desc[desc[h].next].b = p /\ desc[desc[desc[h].next].next].slot = h
  BY <1>2, Zenon DEF VirtioInv, Chains, Second, Third
<1>5. /\ agree' = agree \cup {p}
      /\ info' = [info EXCEPT ![h].status = 0]
      /\ used' = [used EXCEPT ![usedIdx % NUM] = h]
      /\ usedIdx' = (usedIdx + 1) % IdxMod
      /\ irq' = TRUE /\ inflight' = inflight \ {h}
  BY <1>4, Zenon DEF DevComplete
<1>6. UNCHANGED <<kick, taken, free, desc, avail, availIdx, seen, busy, vlock, pc, write, head>>
  BY Zenon DEF DevComplete, driver
<1>7. \A x : Waited(x) => Waited(x)'
  BY <1>6, Zenon DEF Waited
<1>8. DoneLen \in Nat /\ DoneLen <= NUM - 3
  <2>1. DoneLen \in Nat
    BY Lengths, Zenon DEF VirtioInv
  <2> DEFINE C == {h, Second(p), Third(p)}
  <2>2. C \in SUBSET Descs /\ h # Second(p) /\ h # Third(p) /\ Second(p) # Third(p)
    BY <1>2 DEF VirtioInv, Chains
  <2>3. Cardinality(C) = 3
    <3>1. h \in C /\ Second(p) \in C /\ Third(p) \in C /\ C \ {h, Second(p), Third(p)} = {}
      OBVIOUS
    <3>2. IsFiniteSet(C) /\ Cardinality(C) \in Nat
      BY <2>2, DescsFinite, Zenon
    <3> HIDE DEF C
    <3>3. Cardinality(C \ {h, Second(p), Third(p)}) = Cardinality(C) - 3
      BY <2>2, <3>1, <3>2, ThreeLess, Zenon
    <3>4. Cardinality(C) - 3 = 0
      BY <3>1, <3>3, FS_EmptySet, Zenon
    <3> QED
      BY <3>2, <3>4
  <2>4. \A n \in 1 .. DoneLen : Done[n] \in Descs \ C
    <3>1. SUFFICES ASSUME NEW n \in 1 .. DoneLen PROVE Done[n] \in Descs \ C
      OBVIOUS
    <3>2. Waited(Done[n]) /\ Done[n] # h /\ Done[n] \in Descs
      BY <1>1 DEF VirtioInv, Stages
    <3>3. PICK q \in InProgress : head[q] = Done[n]
      BY <3>2, OwnerIs, Zenon
    <3>4. q # p
      BY <1>2, <3>2, <3>3, Zenon
    <3>5. {head[p], Second(p), Third(p)} \cap {head[q], Second(q), Third(q)} = {}
      BY <3>4, Zenon DEF VirtioInv, Chains
    <3> QED
      BY <1>2, <3>2, <3>3, <3>5, Zenon
  <2>5. Done \in [1 .. DoneLen -> Descs \ C]
    BY <2>4, Zenon DEF Done
  <2>6. \A m, n \in 1 .. DoneLen : Done[m] = Done[n] => m = n
    BY Zenon DEF VirtioInv, Stages
  <2> HIDE DEF C
  <2>7. DoneLen + Cardinality(C) <= NUM
    BY <2>1, <2>2, <2>5, <2>6, ListShort, Zenon
  <2> QED
    BY <2>1, <2>3, <2>7, Sizes
<1>9. /\ DoneLen' = DoneLen + 1 /\ usedIdx' \in 0 .. IdxMod - 1 /\ Done'[DoneLen + 1] = h
      /\ \A n \in 1 .. DoneLen : Done'[n] = Done[n]
  BY <1>5, <1>6, <1>8, DonePut, Zenon DEF VirtioInv
<1>10. TypeOK'
  <2>1. usedIdx % NUM \in Descs
    BY Sizes, DivMod DEF VirtioInv, TypeOK, Descs
  <2>2. used' \in [Descs -> Descs \cup {None}]
    BY <1>5, <2>1, Zenon DEF VirtioInv, TypeOK
  <2>3. info' \in [Descs -> [b : Procs \cup {None}, status : {0, 255}]]
    BY <1>5 DEF VirtioInv, TypeOK
  <2> QED
    BY <1>3, <1>5, <1>6, <1>9, <2>2, <2>3 DEF VirtioInv, TypeOK
<1>11. /\ info'[h].b = p /\ info'[h].status = 0
       /\ \A x \in Descs : info'[x].b = info[x].b /\ (info[x].status = 0 => info'[x].status = 0)
  BY <1>2, <1>5 DEF VirtioInv, TypeOK
<1>12. LockHeld' /\ Active'
  BY <1>6, Zenon DEF VirtioInv, LockHeld, Active
<1>13. Chains'
  <2>1. \A q \in InProgress : head[q] \in Descs
    BY Zenon DEF VirtioInv, TypeOK, InProgress
  <2>2. InProgress' = InProgress
        /\ \A q \in InProgress : /\ Second(q)' = Second(q) /\ Third(q)' = Third(q)
                                 /\ info'[head[q]].b = info[head[q]].b
    BY <1>6, <1>11, <2>1, Zenon DEF InProgress, Second, Third
  <2> QED
    BY <1>6, <2>2, ChainsKept, Zenon DEF VirtioInv
<1>14. Counted'
  BY <1>6, Zenon DEF VirtioInv, Counted, InProgress
<1>15. Stages'
  <2>1. (Publishing <=> Publishing') /\ QueueLen' = QueueLen
    BY <1>6, Zenon DEF Publishing, QueueLen
  <2>2. Queue' = Queue
    BY <1>6, <2>1, Zenon DEF Queue
  <2>3. ASSUME NEW n \in 1 .. DoneLen'
        PROVE  \/ n \in 1 .. DoneLen /\ Done'[n] = Done[n] /\ Done[n] # h
               \/ n = DoneLen + 1 /\ Done'[n] = h
    <3>1. n \in 1 .. DoneLen \/ n = DoneLen + 1
      BY <1>8, <1>9
    <3>2. \A x \in 1 .. DoneLen : Done[x] # h
      BY <1>1 DEF VirtioInv, Stages
    <3> QED
      BY <1>9, <3>1, <3>2, Zenon
  <2>4. \A n \in 1 .. QueueLen : Queue[n] # h
    BY <1>1 DEF VirtioInv, Stages
  <2>5. \A n \in 1 .. QueueLen' :
           Queue'[n] \in Descs /\ Waited(Queue[n])' /\ Queue'[n] \notin inflight'
    BY <1>5, <1>7, <2>1, <2>2, Zenon DEF VirtioInv, Stages
  <2>6. ASSUME NEW n \in 1 .. DoneLen'
        PROVE  /\ Done'[n] \in Descs /\ Waited(Done[n])' /\ Done'[n] \notin inflight'
               /\ info'[Done'[n]].status = 0 /\ info'[Done'[n]].b \in agree'
    <3>1. CASE n \in 1 .. DoneLen /\ Done'[n] = Done[n]
      BY <1>5, <1>7, <1>11, <3>1 DEF VirtioInv, Stages
    <3>2. CASE Done'[n] = h
      BY <1>1, <1>5, <1>7, <1>11, <3>2
    <3> QED
      BY <2>3, <3>1, <3>2, Zenon
  <2>7. \A x \in inflight' : Waited(x)'
    BY <1>5, <1>7, Zenon DEF VirtioInv, Stages
  <2>8. \A m, n \in 1 .. DoneLen' : Done'[m] = Done'[n] => m = n
    BY <2>3, Zenon DEF VirtioInv, Stages
  <2>9. \A m \in 1 .. QueueLen', n \in 1 .. DoneLen' : Queue'[m] # Done'[n]
    BY <2>1, <2>2, <2>3, <2>4, Zenon DEF VirtioInv, Stages
  <2>10. \A m, n \in 1 .. QueueLen' : Queue'[m] = Queue'[n] => m = n
    BY <2>1, <2>2, Zenon DEF VirtioInv, Stages
  <2>11. QueueLen' <= NUM - 2 /\ DoneLen' <= NUM - 2
    BY <1>8, <1>9, <2>1, Sizes DEF VirtioInv, Stages
  <2> QED
    BY <2>5, <2>6, <2>7, <2>8, <2>9, <2>10, <2>11, Zenon DEF Stages
<1>16. Finished'
  BY <1>5, <1>6, Zenon DEF VirtioInv, Finished
<1>17. NoSleepOnDone'
  BY <1>5, <1>6, Zenon DEF VirtioInv, NoSleepOnDone
<1> QED
  BY <1>10, <1>12, <1>13, <1>14, <1>15, <1>16, <1>17, Zenon DEF VirtioInv

\* virtio_disk_init leaves every descriptor free and both rings empty.
LEMMA InitInv == Init => VirtioInv
<1> SUFFICES ASSUME Init PROVE VirtioInv
  OBVIOUS
<1> USE NamesAssumption DEF ActivePCs, LockPCs
<1>1. TypeOK
  <2>1. 0 \in 0 .. IdxMod - 1
    BY Sizes
  <2>2. info \in [Descs -> [b : Procs \cup {None}, status : {0, 255}]]
    BY Zenon DEF Init
  <2> QED
    BY <2>1, <2>2, Zenon DEF Init, TypeOK
<1>2. LockHeld /\ Active /\ Finished
  BY Zenon DEF Init, LockHeld, Active, Finished
<1>3. InProgress = {}
  BY Zenon DEF Init, InProgress
<1>4. Chains
  BY <1>3, Zenon DEF Chains
<1>5. Counted
  <2>1. free = Descs
    BY Zenon DEF Init
  <2> QED
    BY <1>3, <2>1, DescsFinite, FS_EmptySet, Sizes DEF Counted
<1>6. ~Publishing /\ inflight = {}
  BY Zenon DEF Init, Publishing
<1>7. QueueLen = 0 /\ DoneLen = 0
  <2>1. taken = availIdx /\ seen = usedIdx
    BY Zenon DEF Init
  <2> QED
    BY <1>1, <1>6, <2>1, Lengths DEF QueueLen
<1>8. Stages
  BY <1>6, <1>7, Sizes DEF Stages
<1>9. NoSleepOnDone
  BY Zenon DEF Init, NoSleepOnDone
<1> QED
  BY <1>1, <1>2, <1>4, <1>5, <1>8, <1>9, Zenon DEF VirtioInv

\* The invariant of the driver and the device, for every number of descriptors
\* and every set of processes: the rings hold each request once, in at most one
\* of the stages submitted, taken and completed, with its owner waiting for it.
\* In particular virtio_disk_intr never panics.
THEOREM VirtioInvariant == FairSpec => []VirtioInv
<1>1. VirtioInv /\ [Next]_vars => VirtioInv'
  <2> SUFFICES ASSUME VirtioInv, [Next]_vars PROVE VirtioInv'
    OBVIOUS
  <2>1. ASSUME NEW p \in Procs, Step(p) PROVE VirtioInv'
    BY <2>1, RwShortInv, RwFormatInv, RwPublishInv, RwNotifyInv, RwSleepInv, RwDoneInv, Zenon
    DEF Step
  <2>2. ASSUME NEW p \in Procs, NEW w \in BOOLEAN, Rw(p, w) PROVE VirtioInv'
    BY <2>2, RwInv, Zenon
  <2>3. CASE Intr
    BY <2>3, IntrAckInv, IntrOneInv, IntrEndInv, Zenon DEF Intr
  <2>4. CASE Device
    BY <2>4, DevTakeInv, DevCompleteInv, Zenon DEF Device
  <2>5. CASE UNCHANGED vars
    <3>1. UNCHANGED <<free, desc, avail, availIdx, seen, kick, taken, inflight, irq, used, usedIdx,
                      info, busy, agree, vlock, pc, write, head>>
      BY <2>5, Zenon DEF vars, driver, device
    <3>2. Publishing <=> Publishing'
      BY <3>1, Zenon DEF Publishing
    <3>3. Stages'
      BY <3>1, <3>2, StagesKept, Zenon DEF VirtioInv, Stages
    <3>4. TypeOK'
      BY <3>1, Zenon DEF VirtioInv, TypeOK
    <3>5. LockHeld' /\ Active' /\ Finished' /\ NoSleepOnDone'
      BY <3>1, Zenon DEF VirtioInv, LockHeld, Active, Finished, NoSleepOnDone
    <3>6. Chains' /\ Counted'
      BY <3>1, ChainsKept, Zenon DEF VirtioInv, Counted, InProgress
    <3> QED
      BY <3>3, <3>4, <3>5, <3>6, Zenon DEF VirtioInv
  <2> QED
    BY <2>1, <2>2, <2>3, <2>4, <2>5, Zenon DEF Next
<1> QED
  BY <1>1, InitInv, PTL DEF FairSpec

\* alloc3_desc and free_chain neither lose nor share a descriptor, and the device
\* works only on chains of requests whose process still waits.
THEOREM DescsAlwaysAccounted == FairSpec => []DescsAccounted
<1>1. VirtioInv => DescsAccounted
  <2> SUFFICES ASSUME VirtioInv PROVE DescsAccounted
    OBVIOUS
  <2>1. \A p \in InProgress : Chain(head[p]) = {head[p], Second(p), Third(p)}
    BY ChainIs, Zenon
  <2>2. \A h \in inflight : \E p \in InProgress : head[p] = h /\ busy[p]
    <3>1. SUFFICES ASSUME NEW h \in inflight PROVE \E p \in InProgress : head[p] = h /\ busy[p]
      OBVIOUS
    <3>2. Waited(h)
      BY Zenon DEF VirtioInv, Stages
    <3> QED
      BY <3>2, OwnerIs, Zenon
  <2>3. \A p \in InProgress : Chain(head[p]) \cap free = {}
    BY <2>1, Zenon DEF VirtioInv, Chains
  <2>4. \A p, q \in InProgress : p # q => Chain(head[p]) \cap Chain(head[q]) = {}
    BY <2>1, Zenon DEF VirtioInv, Chains
  <2>5. Cardinality(free) + 3 * Cardinality(InProgress) = NUM
    BY DEF VirtioInv, Counted
  <2> QED
    BY <2>2, <2>3, <2>4, <2>5, Zenon DEF DescsAccounted
<1> QED
  BY <1>1, VirtioInvariant, PTL

\* When virtio_disk_rw has returned, the transfer has happened: the buffer and
\* the disk agree.
THEOREM AlwaysTransferred == FairSpec => []Transferred
<1>1. VirtioInv => Transferred
  BY DEF VirtioInv, Finished, Transferred
<1> QED
  BY <1>1, VirtioInvariant, PTL

\* Nobody sleeps on descriptors that are free or on a buffer that is done, and a
\* completion that virtio_disk_intr has not seen has its interrupt.
THEOREM NeverSleepOnDone == FairSpec => []NoSleepOnDone
<1>1. VirtioInv => NoSleepOnDone
  BY DEF VirtioInv
<1> QED
  BY <1>1, VirtioInvariant, PTL
============================================================================
