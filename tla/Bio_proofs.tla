----------------------------- MODULE Bio_proofs ----------------------------
(***************************************************************************)
(* Proofs about Bio, for any finite number of processes and buffers and    *)
(* any number of blocks: BioInv is inductive and implies what the buffer   *)
(* cache promises.                                                         *)
(***************************************************************************)
EXTENDS Bio, FiniteSetTheorems, WellFoundedInduction, TLAPS

\* Leaves go to the SMT solver unless they name another prover.
USE SMTT(60)

PCs == {"idle", "bget", "lock", "asleep", "bread", "reading", "has", "release", "panic"}

\* The places at which a process has a buffer, and at which it has it locked.
UsePCs == {"lock", "asleep", "bread", "reading", "has", "release"}
LockPCs == {"bread", "reading", "has"}

TypeOK ==
    /\ blockno \in [Bufs -> Blocks \cup {None}]
    /\ valid \in [Bufs -> BOOLEAN]
    /\ refcnt \in [Bufs -> Nat]
    /\ data \in [Bufs -> Data]
    /\ locked \in [Bufs -> Users \cup {None}]
    /\ disk \in [Blocks -> Data] /\ latest \in [Blocks -> Data]
    /\ pc \in [Users -> PCs]
    /\ want \in [Users -> Blocks \cup {None}]
    /\ buf \in [Users -> Bufs \cup {None}]
    /\ pins \in [Bufs -> {0, 1}]

\* A process has a buffer from bget to brelse, and it is that of its block.
UsersPlaced ==
    \A p \in Users :
        /\ pc[p] = "bget" => want[p] \in Blocks
        /\ pc[p] \in UsePCs => /\ want[p] \in Blocks /\ buf[p] \in Bufs
                               /\ blockno[buf[p]] = want[p]
        /\ pc[p] \notin UsePCs => buf[p] = None

\* No block has two buffers.
OneBuffer ==
    \A a, b \in Bufs : blockno[a] = blockno[b] /\ blockno[a] # None => a = b

\* The sleep lock of a buffer is held by the process that works on it.
LockHeld ==
    \A p \in Users, b \in Bufs : locked[b] = p <=> pc[p] \in LockPCs /\ buf[p] = b

\* A process reads only what is not valid and has only what is; a pinned buffer
\* is valid.
ValidWhere ==
    /\ \A p \in Users : /\ pc[p] = "reading" => ~valid[buf[p]]
                        /\ pc[p] = "has" => valid[buf[p]]
    /\ \A b \in Bufs : pins[b] = 1 => valid[b]

\* A valid buffer has what was last stored for its block; and the disk has it,
\* unless a valid buffer that is pinned or in use does.
DataLatest ==
    /\ \A b \in Bufs : valid[b] => blockno[b] \in Blocks /\ data[b] = latest[blockno[b]]
    /\ \A k \in Blocks : disk[k] # latest[k] =>
          \E b \in Bufs : /\ blockno[b] = k /\ valid[b]
                          /\ pins[b] = 1 \/ \E p \in Users : pc[p] = "has" /\ buf[p] = b

\* Every buffer is in the list.
ListComplete ==
    /\ list \in [1 .. Cardinality(Bufs) -> Bufs]
    /\ \A b \in Bufs : \E k \in DOMAIN list : list[k] = b

\* The users of buffer b.
UsersOf(b) == {p \in Users : buf[p] = b}

BioInv ==
    /\ TypeOK /\ ListComplete /\ UsersPlaced /\ OneBuffer /\ LockHeld /\ ValidWhere /\ DataLatest
    /\ RefsCounted /\ EnoughBuffers
----------------------------------------------------------------------------
\* There are finitely many users, at most two for each process.
LEMMA AllUsersFinite ==
  /\ IsFiniteSet(Users) /\ Cardinality(Users) \in Nat
  /\ Cardinality(Procs) \in Nat /\ Cardinality(Users) <= 2 * Cardinality(Procs)
<1>1. IsFiniteSet({1, 2}) /\ Cardinality({1, 2}) = 2
  <2>1. IsFiniteSet({1}) /\ Cardinality({1}) = 1
    BY FS_Singleton
  <2>2. {1, 2} = {1} \cup {2} /\ 2 \notin {1}
    OBVIOUS
  <2> QED
    BY <2>1, <2>2, FS_AddElement
<1>2. /\ IsFiniteSet(Procs \X {1, 2})
      /\ Cardinality(Procs \X {1, 2}) = Cardinality(Procs) * 2
  BY <1>1, SizeAssumption, FS_Product
<1>3. Users \subseteq Procs \X {1, 2}
  BY DEF Users
<1>4. IsFiniteSet(Users) /\ Cardinality(Users) <= Cardinality(Procs \X {1, 2})
  BY <1>2, <1>3, FS_Subset
<1>5. Cardinality(Users) \in Nat /\ Cardinality(Procs) \in Nat
  BY <1>4, SizeAssumption, FS_CardinalityType
<1> QED
  BY <1>2, <1>4, <1>5

\* The users of a buffer are finitely many, as are the buffers.
LEMMA UsersFinite ==
  /\ \A b : IsFiniteSet(UsersOf(b)) /\ Cardinality(UsersOf(b)) \in Nat
  /\ Cardinality(Bufs) \in Nat
BY SizeAssumption, AllUsersFinite, FS_Subset, FS_CardinalityType DEF UsersOf

\* bget: a process that takes buffer b is one more user of it and changes the
\* users of no other buffer.
LEMMA UserJoins ==
  ASSUME TypeOK, NEW p \in Users, NEW b \in Bufs, buf[p] = None,
         buf' = [buf EXCEPT ![p] = b], NEW a \in Bufs
  PROVE  Cardinality(UsersOf(a)') = Cardinality(UsersOf(a)) + (IF a = b THEN 1 ELSE 0)
<1>1. p \notin UsersOf(a)
  BY NamesAssumption DEF UsersOf
<1>2. CASE a = b
  <2>1. UsersOf(a)' = UsersOf(a) \cup {p}
    BY <1>2 DEF UsersOf, TypeOK
  <2> QED
    BY <1>1, <1>2, <2>1, UsersFinite, FS_AddElement, Zenon
<1>3. CASE a # b
  <2>1. UsersOf(a)' = UsersOf(a)
    BY <1>1, <1>3 DEF UsersOf, TypeOK
  <2> QED
    BY <1>3, <2>1, UsersFinite
<1> QED
  BY <1>2, <1>3

\* brelse: a process that gives its buffer back is one user less of it.
LEMMA UserLeaves ==
  ASSUME TypeOK, NEW p \in Users, buf[p] \in Bufs,
         buf' = [buf EXCEPT ![p] = None], NEW a \in Bufs
  PROVE  Cardinality(UsersOf(a)') = Cardinality(UsersOf(a)) - (IF a = buf[p] THEN 1 ELSE 0)
<1>1. CASE a = buf[p]
  <2>1. UsersOf(a)' = UsersOf(a) \ {p} /\ p \in UsersOf(a)
    BY <1>1, NamesAssumption DEF UsersOf, TypeOK
  <2> QED
    BY <1>1, <2>1, UsersFinite, FS_RemoveElement
<1>2. CASE a # buf[p]
  <2>1. UsersOf(a)' = UsersOf(a)
    BY <1>2, NamesAssumption DEF UsersOf, TypeOK
  <2> QED
    BY <1>2, <2>1, UsersFinite
<1> QED
  BY <1>1, <1>2

\* A buffer is unused exactly if it has no user and no pin.
LEMMA UnusedIsFree ==
  ASSUME BioInv, NEW b \in Bufs
  PROVE  /\ refcnt[b] = Cardinality(UsersOf(b)) + pins[b]
         /\ refcnt[b] = 0 <=> pins[b] = 0 /\ \A p \in Users : buf[p] # b
<1>1. IsFiniteSet(UsersOf(b)) /\ Cardinality(UsersOf(b)) \in Nat
  BY UsersFinite
<1>2. Cardinality(UsersOf(b)) = 0 <=> UsersOf(b) = {}
  BY <1>1, FS_EmptySet
<1>3. refcnt[b] = Cardinality(UsersOf(b)) + pins[b] /\ pins[b] \in {0, 1}
  BY DEF BioInv, RefsCounted, TypeOK, UsersOf
<1>4. UsersOf(b) = {} <=> \A p \in Users : buf[p] # b
  BY DEF UsersOf
<1> QED
  BY <1>1, <1>2, <1>3, <1>4

\* A set of natural numbers below a bound has a largest one.
LEMMA LargestNatural ==
  ASSUME NEW n \in Nat, NEW T, T \subseteq 1 .. n, T # {}
  PROVE  \E x \in T : \A y \in T : y <= x
<1> DEFINE D == {n - x : x \in T}
<1>1. D \subseteq Nat /\ D # {}
  <2>1. \A x \in T : n - x \in Nat
    OBVIOUS
  <2> QED
    BY <2>1, Zenon
<1>2. \E x \in D : \A y \in D : ~(<<y, x>> \in OpToRel(<, Nat))
  BY <1>1, NatLessThanWellFounded, WFMin, Zenon
<1>3. \E x \in D : \A y \in D : ~(y < x)
  BY <1>1, <1>2, Zenon DEF OpToRel
<1> QED
  BY <1>3

\* bget: LRU is an unused buffer when there is one.
LEMMA LRUUnused == ASSUME BioInv, Unused # {} PROVE LRU \in Unused
<1> DEFINE T == {Position(b) : b \in Unused}
           n == Cardinality(Bufs)
<1>1. \A b \in Bufs : Position(b) \in 1 .. n
  BY DEF BioInv, ListComplete, Position
<1>2. T \subseteq 1 .. n /\ T # {} /\ n \in Nat
  BY <1>1, UsersFinite DEF Unused
<1>3. \E x \in T : \A y \in T : y <= x
  BY <1>2, LargestNatural, Zenon
<1>4. \E b \in Unused : \A a \in Unused : Position(a) <= Position(b)
  BY <1>3
<1> QED
  BY <1>4 DEF LRU

\* brelse: moving a buffer to the front keeps every buffer in the list.
LEMMA MoveKeepsAll ==
  ASSUME ListComplete, NEW b \in Bufs
  PROVE  /\ MoveToFront(b) \in [1 .. Cardinality(Bufs) -> Bufs]
         /\ \A a \in Bufs : \E k \in DOMAIN MoveToFront(b) : MoveToFront(b)[k] = a
<1> DEFINE n == Cardinality(Bufs)
           i == Position(b)
           m == MoveToFront(b)
<1>1. n \in Nat /\ i \in 1 .. n /\ list[i] = b /\ list \in [1 .. n -> Bufs]
  BY UsersFinite DEF ListComplete, Position
<1>2. /\ m \in [1 .. n -> Bufs]
      /\ \A k \in 1 .. n : m[k] = IF k = 1 THEN b ELSE IF k <= i THEN list[k - 1] ELSE list[k]
  BY <1>1 DEF MoveToFront
<1>3. ASSUME NEW a \in Bufs PROVE \E k \in 1 .. n : m[k] = a
  <2>1. PICK k \in 1 .. n : list[k] = a
    BY <1>1 DEF ListComplete
  <2>2. CASE k < i
    <3>1. k + 1 \in 1 .. n /\ m[k + 1] = a
      BY <1>1, <1>2, <2>1, <2>2
    <3> QED
      BY <3>1
  <2>3. CASE k = i
    <3>1. 1 \in 1 .. n /\ m[1] = a
      BY <1>1, <1>2, <2>1, <2>3
    <3> QED
      BY <3>1
  <2>4. CASE k > i
    BY <1>1, <1>2, <2>1, <2>4
  <2> QED
    BY <1>1, <2>2, <2>3, <2>4
<1> QED
  BY <1>2, <1>3

\* bread: the block is given to bget.
LEMMA BreadInv ==
  ASSUME BioInv, NEW p \in Users, NEW k \in Blocks, Bread(p, k),
         \A q \in Users : pc[q] # "panic"
  PROVE  BioInv'
<1> USE NamesAssumption DEF Bread, Goto, cache, PCs, UsePCs, LockPCs
<1>1. TypeOK'
  BY Zenon DEF BioInv, TypeOK, UsersPlaced
<1>2. ListComplete'
  BY DEF BioInv, ListComplete
<1>3. UsersPlaced'
  BY Zenon DEF BioInv, TypeOK, UsersPlaced
<1>4. OneBuffer'
  BY DEF BioInv, TypeOK, UsersPlaced, OneBuffer
<1>5. LockHeld'
  BY DEF BioInv, TypeOK, UsersPlaced, LockHeld
<1>6. ValidWhere'
  BY Zenon DEF BioInv, TypeOK, UsersPlaced, ValidWhere
<1>7. DataLatest'
  BY DEF BioInv, TypeOK, UsersPlaced, DataLatest
<1>8. RefsCounted'
  BY Zenon DEF BioInv, TypeOK, UsersPlaced, RefsCounted
<1>9. EnoughBuffers'
  BY Zenon DEF BioInv, TypeOK, UsersPlaced, EnoughBuffers
<1> QED
  BY <1>1, <1>2, <1>3, <1>4, <1>5, <1>6, <1>7, <1>8, <1>9, Zenon DEF BioInv

\* bget finds the block: the buffer has one more user.
LEMMA BgetHitInv ==
  ASSUME BioInv, NEW p \in Users, BgetHit(p),
         \A q \in Users : pc[q] # "panic"
  PROVE  BioInv'
<1> USE NamesAssumption DEF BgetHit, Goto, cache, PCs, UsePCs, LockPCs
<1>b. PICK b \in Cached(want[p]) : /\ refcnt' = [refcnt EXCEPT ![b] = @ + 1]
                                   /\ buf' = [buf EXCEPT ![p] = b]
  BY Zenon
<1>c. b \in Bufs /\ blockno[b] = want[p] /\ want[p] \in Blocks /\ buf[p] = None
  BY DEF BioInv, UsersPlaced, Cached
<1>1. TypeOK'
  BY <1>b, <1>c DEF BioInv, TypeOK
<1>2. ListComplete'
  BY DEF BioInv, ListComplete
<1>3. UsersPlaced'
  BY <1>b, <1>c, Zenon DEF BioInv, TypeOK, UsersPlaced
<1>4. OneBuffer'
  BY Zenon DEF BioInv, TypeOK, UsersPlaced, OneBuffer
<1>5. LockHeld'
  BY DEF BioInv, TypeOK, UsersPlaced, LockHeld
<1>6. ValidWhere'
  BY DEF BioInv, TypeOK, UsersPlaced, ValidWhere
<1>7. DataLatest'
  BY DEF BioInv, TypeOK, UsersPlaced, DataLatest
<1>8. RefsCounted'
  <2>1. ASSUME NEW a \in Bufs
        PROVE  refcnt'[a] = Cardinality(UsersOf(a)') + pins'[a]
    <3>1. Cardinality(UsersOf(a)') = Cardinality(UsersOf(a)) + (IF a = b THEN 1 ELSE 0)
      BY <1>b, <1>c, UserJoins, Zenon DEF BioInv
    <3>2. refcnt[a] = Cardinality(UsersOf(a)) + pins[a]
      BY UnusedIsFree
    <3> QED
      BY <1>b, <1>c, <3>1, <3>2, UnusedIsFree, UsersFinite DEF BioInv, TypeOK
  <2> QED
    BY <2>1 DEF RefsCounted, UsersOf
<1>9. EnoughBuffers'
  BY Zenon DEF BioInv, TypeOK, UsersPlaced, EnoughBuffers
<1> QED
  BY <1>1, <1>2, <1>3, <1>4, <1>5, <1>6, <1>7, <1>8, <1>9, Zenon DEF BioInv

\* bget recycles an unused buffer: nobody has it and its contents are on disk.
LEMMA BgetRecycleInv ==
  ASSUME BioInv, NEW p \in Users, BgetRecycle(p),
         \A q \in Users : pc[q] # "panic"
  PROVE  BioInv'
<1> USE NamesAssumption DEF BgetRecycle, Goto, cache, PCs, UsePCs, LockPCs
<1> DEFINE b == LRU
<1>b. /\ b \in Bufs /\ refcnt[b] = 0 /\ pins[b] = 0
      /\ \A q \in Users : buf[q] # b
  BY LRUUnused, UnusedIsFree DEF Unused
<1>c. /\ want[p] \in Blocks /\ buf[p] = None
      /\ \A a \in Bufs : blockno[a] # want[p]
  BY DEF BioInv, UsersPlaced, Cached
<1>d. /\ blockno' = [blockno EXCEPT ![b] = want[p]]
      /\ valid' = [valid EXCEPT ![b] = FALSE]
      /\ refcnt' = [refcnt EXCEPT ![b] = 1]
      /\ buf' = [buf EXCEPT ![p] = b]
      /\ pc' = [pc EXCEPT ![p] = "lock"]
      /\ UNCHANGED <<list, data, locked, disk, want, pins, latest>>
  OBVIOUS
<1> HIDE DEF b, BgetRecycle
<1>1. TypeOK'
  BY <1>b, <1>c, <1>d, Zenon DEF BioInv, TypeOK
<1>2. ListComplete'
  BY <1>d DEF BioInv, ListComplete
<1>3. UsersPlaced'
  BY <1>b, <1>c, <1>d DEF BioInv, TypeOK, UsersPlaced
<1>4. OneBuffer'
  BY <1>b, <1>c, <1>d, Zenon DEF BioInv, TypeOK, OneBuffer
<1>5. LockHeld'
  BY <1>b, <1>c, <1>d DEF BioInv, TypeOK, LockHeld
<1>6. ValidWhere'
  BY <1>b, <1>c, <1>d DEF BioInv, TypeOK, UsersPlaced, ValidWhere
<1>7. DataLatest'
  BY <1>b, <1>c, <1>d DEF BioInv, TypeOK, UsersPlaced, DataLatest
<1>8. RefsCounted'
  <2>1. ASSUME NEW a \in Bufs
        PROVE  refcnt'[a] = Cardinality(UsersOf(a)') + pins'[a]
    <3>1. Cardinality(UsersOf(a)') = Cardinality(UsersOf(a)) + (IF a = b THEN 1 ELSE 0)
      BY <1>b, <1>c, <1>d, UserJoins, Zenon DEF BioInv
    <3>2. refcnt[a] = Cardinality(UsersOf(a)) + pins[a]
      BY UnusedIsFree
    <3> QED
      BY <1>b, <1>c, <1>d, <3>1, <3>2, UnusedIsFree, UsersFinite DEF BioInv, TypeOK
  <2> QED
    BY <2>1 DEF RefsCounted, UsersOf
<1>9. EnoughBuffers'
  BY <1>d, Zenon DEF BioInv, TypeOK, EnoughBuffers
<1> QED
  BY <1>1, <1>2, <1>3, <1>4, <1>5, <1>6, <1>7, <1>8, <1>9, Zenon DEF BioInv

\* panic("no buffers"): every buffer has a pin or a user, and p has none.
LEMMA BgetPanicInv ==
  ASSUME BioInv, NEW p \in Users, BgetPanic(p),
         \A q \in Users : pc[q] # "panic"
  PROVE  BioInv'
<1> USE NamesAssumption DEF BgetPanic, Goto, cache, PCs, UsePCs, LockPCs
<1>1. TypeOK'
  BY Zenon DEF BioInv, TypeOK, UsersPlaced
<1>2. ListComplete'
  BY DEF BioInv, ListComplete
<1>3. UsersPlaced'
  BY DEF BioInv, TypeOK, UsersPlaced
<1>4. OneBuffer'
  BY Zenon DEF BioInv, TypeOK, UsersPlaced, OneBuffer
<1>5. LockHeld'
  BY DEF BioInv, TypeOK, UsersPlaced, LockHeld
<1>6. ValidWhere'
  BY Zenon DEF BioInv, TypeOK, UsersPlaced, ValidWhere
<1>7. DataLatest'
  BY DEF BioInv, TypeOK, UsersPlaced, DataLatest
<1>8. RefsCounted'
  BY Zenon DEF BioInv, TypeOK, UsersPlaced, RefsCounted
<1>9. EnoughBuffers'
  <2> DEFINE Pinned == {b \in Bufs : pins[b] > 0}
             Has == {q \in Users : buf[q] \in Bufs}
             InUse == {b \in Bufs : \E q \in Users : buf[q] = b}
             f == [q \in Has |-> buf[q]]
  <2>1. Bufs = Pinned \cup InUse
    <3>1. \A b \in Bufs : refcnt[b] # 0
      BY DEF Unused
    <3> QED
      BY <3>1, UnusedIsFree DEF BioInv, TypeOK
  <2>2. /\ IsFiniteSet(Pinned) /\ IsFiniteSet(InUse)
        /\ Cardinality(Pinned) \in Nat /\ Cardinality(InUse) \in Nat
    BY SizeAssumption, FS_Subset, FS_CardinalityType
  <2>3. Cardinality(Bufs) <= Cardinality(Pinned) + Cardinality(InUse)
    <3>1. /\ IsFiniteSet(Pinned \cap InUse)
          /\ Cardinality(Pinned \cap InUse) \in Nat
      BY <2>2, FS_Intersection, FS_CardinalityType, Zenon
    <3> HIDE DEF Pinned, InUse
    <3>2. Cardinality(Pinned \cup InUse)
            = Cardinality(Pinned) + Cardinality(InUse) - Cardinality(Pinned \cap InUse)
      BY <2>2, FS_Union
    <3> QED
      BY <2>1, <2>2, <3>1, <3>2
  <2>4. Has \subseteq Users \ {p}
    BY DEF BioInv, UsersPlaced
  <2>5. IsFiniteSet(Users \ {p}) /\ Cardinality(Users \ {p}) = Cardinality(Users) - 1
    BY AllUsersFinite, FS_RemoveElement, Zenon
  <2>6. IsFiniteSet(Has) /\ Cardinality(Has) <= Cardinality(Users) - 1
    BY <2>4, <2>5, FS_Subset
  <2>7. f \in Surjection(Has, InUse)
    BY DEF Surjection
  <2>8. Cardinality(InUse) <= Cardinality(Has)
    BY <2>6, <2>7, FS_Surjection, Zenon
  <2>9. Cardinality(Pinned) + Cardinality(Users) > Cardinality(Bufs)
    <3>1. Cardinality(Has) \in Nat /\ Cardinality(Users) \in Nat /\ Cardinality(Bufs) \in Nat
      BY <2>6, SizeAssumption, AllUsersFinite, FS_CardinalityType
    <3> QED
      BY <2>2, <2>3, <2>6, <2>8, <3>1
  <2> QED
    BY <2>9 DEF EnoughBuffers
<1> QED
  BY <1>1, <1>2, <1>3, <1>4, <1>5, <1>6, <1>7, <1>8, <1>9, Zenon DEF BioInv

\* acquiresleep: the lock is taken when nobody has it.
LEMMA AcquireSleepInv ==
  ASSUME BioInv, NEW p \in Users, AcquireSleep(p),
         \A q \in Users : pc[q] # "panic"
  PROVE  BioInv'
<1> USE NamesAssumption DEF AcquireSleep, Goto, cache, PCs, UsePCs, LockPCs
<1>1. TypeOK'
  BY DEF BioInv, TypeOK, UsersPlaced
<1>2. ListComplete'
  BY DEF BioInv, ListComplete
<1>3. UsersPlaced'
  BY DEF BioInv, TypeOK, UsersPlaced
<1>4. OneBuffer'
  BY Zenon DEF BioInv, TypeOK, UsersPlaced, OneBuffer
<1>5. LockHeld'
  BY DEF BioInv, TypeOK, UsersPlaced, LockHeld
<1>6. ValidWhere'
  BY DEF BioInv, TypeOK, UsersPlaced, ValidWhere
<1>7. DataLatest'
  BY DEF BioInv, TypeOK, UsersPlaced, DataLatest
<1>8. RefsCounted'
  BY DEF BioInv, TypeOK, UsersPlaced, RefsCounted
<1>9. EnoughBuffers'
  BY DEF BioInv, TypeOK, UsersPlaced, EnoughBuffers
<1> QED
  BY <1>1, <1>2, <1>3, <1>4, <1>5, <1>6, <1>7, <1>8, <1>9, Zenon DEF BioInv

\* bread looks at b->valid.
LEMMA BreadCheckInv ==
  ASSUME BioInv, NEW p \in Users, BreadCheck(p),
         \A q \in Users : pc[q] # "panic"
  PROVE  BioInv'
<1> USE NamesAssumption DEF BreadCheck, Goto, cache, PCs, UsePCs, LockPCs
<1>1. TypeOK'
  BY Zenon DEF BioInv, TypeOK, UsersPlaced
<1>2. ListComplete'
  BY DEF BioInv, ListComplete
<1>3. UsersPlaced'
  BY Zenon DEF BioInv, TypeOK, UsersPlaced
<1>4. OneBuffer'
  BY Zenon DEF BioInv, TypeOK, UsersPlaced, OneBuffer
<1>5. LockHeld'
  BY DEF BioInv, TypeOK, UsersPlaced, LockHeld
<1>6. ValidWhere'
  BY Zenon DEF BioInv, TypeOK, UsersPlaced, ValidWhere
<1>7. DataLatest'
  BY DEF BioInv, TypeOK, UsersPlaced, DataLatest
<1>8. RefsCounted'
  BY Zenon DEF BioInv, TypeOK, UsersPlaced, RefsCounted
<1>9. EnoughBuffers'
  BY Zenon DEF BioInv, TypeOK, UsersPlaced, EnoughBuffers
<1> QED
  BY <1>1, <1>2, <1>3, <1>4, <1>5, <1>6, <1>7, <1>8, <1>9, Zenon DEF BioInv

\* bread has read the disk: no other buffer has the block, so the disk was right.
LEMMA BreadDoneInv ==
  ASSUME BioInv, NEW p \in Users, BreadDone(p),
         \A q \in Users : pc[q] # "panic"
  PROVE  BioInv'
<1> USE NamesAssumption DEF BreadDone, Goto, cache, PCs, UsePCs, LockPCs
<1>1. TypeOK'
  BY Zenon DEF BioInv, TypeOK, UsersPlaced
<1>2. ListComplete'
  BY DEF BioInv, ListComplete
<1>3. UsersPlaced'
  BY Zenon DEF BioInv, TypeOK, UsersPlaced
<1>4. OneBuffer'
  BY Zenon DEF BioInv, TypeOK, UsersPlaced, OneBuffer
<1>5. LockHeld'
  BY DEF BioInv, TypeOK, UsersPlaced, LockHeld
<1>6. ValidWhere'
  BY DEF BioInv, TypeOK, UsersPlaced, LockHeld, ValidWhere
<1>7. DataLatest'
  <2> DEFINE b == buf[p]
             k == want[p]
  <2>1. b \in Bufs /\ k \in Blocks /\ blockno[b] = k /\ ~valid[b]
    BY DEF BioInv, UsersPlaced, ValidWhere
  <2>2. disk[k] = latest[k]
    BY <2>1 DEF BioInv, OneBuffer, DataLatest
  <2>3. /\ data' = [data EXCEPT ![b] = disk[k]]
        /\ valid' = [valid EXCEPT ![b] = TRUE]
        /\ pc' = [pc EXCEPT ![p] = "has"]
        /\ UNCHANGED <<blockno, disk, buf, pins, latest>>
    BY <2>1
  <2>4. \A a \in Bufs : valid'[a] => blockno'[a] \in Blocks /\ data'[a] = latest'[blockno'[a]]
    BY <2>1, <2>2, <2>3 DEF BioInv, TypeOK, DataLatest
  <2>5. ASSUME NEW j \in Blocks, disk'[j] # latest'[j]
        PROVE  \E a \in Bufs : /\ blockno'[a] = j /\ valid'[a]
                               /\ pins'[a] = 1 \/ \E q \in Users : pc'[q] = "has" /\ buf'[q] = a
    BY <2>1, <2>3, <2>5 DEF BioInv, TypeOK, DataLatest
  <2> QED
    BY <2>4, <2>5, Zenon DEF DataLatest
<1>8. RefsCounted'
  BY Zenon DEF BioInv, TypeOK, UsersPlaced, RefsCounted
<1>9. EnoughBuffers'
  BY Zenon DEF BioInv, TypeOK, UsersPlaced, EnoughBuffers
<1> QED
  BY <1>1, <1>2, <1>3, <1>4, <1>5, <1>6, <1>7, <1>8, <1>9, Zenon DEF BioInv

\* A caller stores into its buffer.
LEMMA ChangeInv ==
  ASSUME BioInv, NEW p \in Users, NEW d \in Data, Change(p, d),
         \A q \in Users : pc[q] # "panic"
  PROVE  BioInv'
<1> USE NamesAssumption DEF Change, Goto, cache, PCs, UsePCs, LockPCs
<1>1. TypeOK'
  BY Zenon DEF BioInv, TypeOK, UsersPlaced
<1>2. ListComplete'
  BY DEF BioInv, ListComplete
<1>3. UsersPlaced'
  BY Zenon DEF BioInv, TypeOK, UsersPlaced
<1>4. OneBuffer'
  BY Zenon DEF BioInv, TypeOK, UsersPlaced, OneBuffer
<1>5. LockHeld'
  BY DEF BioInv, TypeOK, UsersPlaced, LockHeld
<1>6. ValidWhere'
  BY Zenon DEF BioInv, TypeOK, UsersPlaced, ValidWhere
<1>7. DataLatest'
  <2> DEFINE b == buf[p]
             k == want[p]
  <2>1. b \in Bufs /\ k \in Blocks /\ blockno[b] = k /\ valid[b]
    BY DEF BioInv, UsersPlaced, ValidWhere
  <2>2. \A a \in Bufs : valid'[a] => blockno'[a] \in Blocks /\ data'[a] = latest'[blockno'[a]]
    BY <2>1 DEF BioInv, TypeOK, OneBuffer, DataLatest
  <2>3. ASSUME NEW j \in Blocks, disk'[j] # latest'[j]
        PROVE  \E a \in Bufs : /\ blockno'[a] = j /\ valid'[a]
                               /\ pins'[a] = 1 \/ \E q \in Users : pc'[q] = "has" /\ buf'[q] = a
    <3>1. CASE j = k
      BY <2>1, <3>1
    <3>2. CASE j # k
      BY <2>1, <2>3, <3>2 DEF BioInv, TypeOK, DataLatest
    <3> QED
      BY <3>1, <3>2
  <2> QED
    BY <2>2, <2>3, Zenon DEF DataLatest
<1>8. RefsCounted'
  BY Zenon DEF BioInv, TypeOK, UsersPlaced, RefsCounted
<1>9. EnoughBuffers'
  BY Zenon DEF BioInv, TypeOK, UsersPlaced, EnoughBuffers
<1> QED
  BY <1>1, <1>2, <1>3, <1>4, <1>5, <1>6, <1>7, <1>8, <1>9, Zenon DEF BioInv

\* bwrite: the disk has what the buffer has.
LEMMA BwriteInv ==
  ASSUME BioInv, NEW p \in Users, Bwrite(p),
         \A q \in Users : pc[q] # "panic"
  PROVE  BioInv'
<1> USE NamesAssumption DEF Bwrite, Goto, cache, PCs, UsePCs, LockPCs
<1>1. TypeOK'
  BY Zenon DEF BioInv, TypeOK, UsersPlaced
<1>2. ListComplete'
  BY DEF BioInv, ListComplete
<1>3. UsersPlaced'
  BY Zenon DEF BioInv, TypeOK, UsersPlaced
<1>4. OneBuffer'
  BY Zenon DEF BioInv, TypeOK, UsersPlaced, OneBuffer
<1>5. LockHeld'
  BY DEF BioInv, TypeOK, UsersPlaced, LockHeld
<1>6. ValidWhere'
  BY Zenon DEF BioInv, TypeOK, UsersPlaced, ValidWhere
<1>7. DataLatest'
  BY DEF BioInv, TypeOK, UsersPlaced, ValidWhere, DataLatest
<1>8. RefsCounted'
  BY Zenon DEF BioInv, TypeOK, UsersPlaced, RefsCounted
<1>9. EnoughBuffers'
  BY Zenon DEF BioInv, TypeOK, UsersPlaced, EnoughBuffers
<1> QED
  BY <1>1, <1>2, <1>3, <1>4, <1>5, <1>6, <1>7, <1>8, <1>9, Zenon DEF BioInv

\* bpin counts a pin.
LEMMA BpinInv ==
  ASSUME BioInv, NEW p \in Users, Bpin(p),
         \A q \in Users : pc[q] # "panic"
  PROVE  BioInv'
<1> USE NamesAssumption DEF Bpin, Goto, cache, PCs, UsePCs, LockPCs
<1>1. TypeOK'
  BY DEF BioInv, TypeOK, UsersPlaced
<1>2. ListComplete'
  BY DEF BioInv, ListComplete
<1>3. UsersPlaced'
  BY Zenon DEF BioInv, TypeOK, UsersPlaced
<1>4. OneBuffer'
  BY Zenon DEF BioInv, TypeOK, UsersPlaced, OneBuffer
<1>5. LockHeld'
  BY DEF BioInv, TypeOK, UsersPlaced, LockHeld
<1>6. ValidWhere'
  BY DEF BioInv, TypeOK, UsersPlaced, ValidWhere
<1>7. DataLatest'
  BY DEF BioInv, TypeOK, UsersPlaced, DataLatest
<1>8. RefsCounted'
  <2>1. ASSUME NEW a \in Bufs
        PROVE  refcnt'[a] = Cardinality(UsersOf(a)') + pins'[a]
    <3>1. UsersOf(a)' = UsersOf(a)
      BY DEF UsersOf
    <3>2. refcnt[a] = Cardinality(UsersOf(a)) + pins[a]
      BY UnusedIsFree
    <3> QED
      BY <3>1, <3>2, UsersFinite DEF BioInv, TypeOK, UsersPlaced
  <2> QED
    BY <2>1 DEF RefsCounted, UsersOf
<1>9. EnoughBuffers'
  BY Zenon DEF BioInv, TypeOK, UsersPlaced, EnoughBuffers
<1> QED
  BY <1>1, <1>2, <1>3, <1>4, <1>5, <1>6, <1>7, <1>8, <1>9, Zenon DEF BioInv

\* bunpin: the buffer is on disk, and its user still counts.
LEMMA BunpinInv ==
  ASSUME BioInv, NEW p \in Users, Bunpin(p),
         \A q \in Users : pc[q] # "panic"
  PROVE  BioInv'
<1> USE NamesAssumption DEF Bunpin, Goto, cache, PCs, UsePCs, LockPCs
<1>1. TypeOK'
  <2>1. buf[p] \in Bufs /\ refcnt[buf[p]] \in Nat \ {0}
    BY UnusedIsFree, Zenon DEF BioInv, TypeOK, UsersPlaced
  <2> QED
    BY <2>1 DEF BioInv, TypeOK
<1>2. ListComplete'
  BY DEF BioInv, ListComplete
<1>3. UsersPlaced'
  BY Zenon DEF BioInv, TypeOK, UsersPlaced
<1>4. OneBuffer'
  BY Zenon DEF BioInv, TypeOK, UsersPlaced, OneBuffer
<1>5. LockHeld'
  BY DEF BioInv, TypeOK, UsersPlaced, LockHeld
<1>6. ValidWhere'
  BY DEF BioInv, TypeOK, UsersPlaced, ValidWhere
<1>7. DataLatest'
  BY DEF BioInv, TypeOK, UsersPlaced, DataLatest
<1>8. RefsCounted'
  <2>1. ASSUME NEW a \in Bufs
        PROVE  refcnt'[a] = Cardinality(UsersOf(a)') + pins'[a]
    <3>1. UsersOf(a)' = UsersOf(a)
      BY DEF UsersOf
    <3>2. refcnt[a] = Cardinality(UsersOf(a)) + pins[a]
      BY UnusedIsFree
    <3> QED
      BY <3>1, <3>2, UsersFinite DEF BioInv, TypeOK, UsersPlaced
  <2> QED
    BY <2>1 DEF RefsCounted, UsersOf
<1>9. EnoughBuffers'
  BY Zenon DEF BioInv, TypeOK, UsersPlaced, EnoughBuffers
<1> QED
  BY <1>1, <1>2, <1>3, <1>4, <1>5, <1>6, <1>7, <1>8, <1>9, Zenon DEF BioInv

\* releasesleep: who releases leaves a buffer that is on disk or pinned.
LEMMA ReleaseSleepInv ==
  ASSUME BioInv, NEW p \in Users, ReleaseSleep(p),
         \A q \in Users : pc[q] # "panic"
  PROVE  BioInv'
<1> USE NamesAssumption DEF ReleaseSleep, Goto, cache, PCs, UsePCs, LockPCs
<1>1. TypeOK'
  BY Zenon DEF BioInv, TypeOK, UsersPlaced
<1>2. ListComplete'
  BY DEF BioInv, ListComplete
<1>3. UsersPlaced'
  BY Zenon DEF BioInv, TypeOK, UsersPlaced
<1>4. OneBuffer'
  BY Zenon DEF BioInv, TypeOK, UsersPlaced, OneBuffer
<1>5. LockHeld'
  BY DEF BioInv, TypeOK, UsersPlaced, LockHeld
<1>6. ValidWhere'
  BY Zenon DEF BioInv, TypeOK, UsersPlaced, ValidWhere
<1>7. DataLatest'
  BY DEF BioInv, TypeOK, UsersPlaced, DataLatest
<1>8. RefsCounted'
  BY DEF BioInv, TypeOK, UsersPlaced, RefsCounted
<1>9. EnoughBuffers'
  BY Zenon DEF BioInv, TypeOK, UsersPlaced, EnoughBuffers
<1> QED
  BY <1>1, <1>2, <1>3, <1>4, <1>5, <1>6, <1>7, <1>8, <1>9, Zenon DEF BioInv

\* brelse: the buffer has one user less.
LEMMA BrelseInv ==
  ASSUME BioInv, NEW p \in Users, Brelse(p),
         \A q \in Users : pc[q] # "panic"
  PROVE  BioInv'
<1> USE NamesAssumption DEF Brelse, Goto, cache, PCs, UsePCs, LockPCs
<1>b. buf[p] \in Bufs /\ refcnt[buf[p]] \in Nat \ {0}
  BY UnusedIsFree, Zenon DEF BioInv, TypeOK, UsersPlaced
<1>1. TypeOK'
  BY <1>b DEF BioInv, TypeOK
<1>2. ListComplete'
  <2>1. CASE list' = list
    BY <2>1, Zenon DEF BioInv, ListComplete
  <2>2. CASE list' = MoveToFront(buf[p])
    <3>1. ListComplete
      BY DEF BioInv
    <3>2. /\ MoveToFront(buf[p]) \in [1 .. Cardinality(Bufs) -> Bufs]
          /\ \A a \in Bufs : \E k \in DOMAIN MoveToFront(buf[p]) : MoveToFront(buf[p])[k] = a
      BY <1>b, <3>1, MoveKeepsAll, Zenon
    <3> QED
      BY <2>2, <3>2, Zenon DEF ListComplete
  <2> QED
    BY <2>1, <2>2
<1>3. UsersPlaced'
  BY Zenon DEF BioInv, TypeOK, UsersPlaced
<1>4. OneBuffer'
  BY Zenon DEF BioInv, TypeOK, UsersPlaced, OneBuffer
<1>5. LockHeld'
  BY DEF BioInv, TypeOK, UsersPlaced, LockHeld
<1>6. ValidWhere'
  BY Zenon DEF BioInv, TypeOK, UsersPlaced, ValidWhere
<1>7. DataLatest'
  BY DEF BioInv, TypeOK, UsersPlaced, DataLatest
<1>8. RefsCounted'
  <2>1. ASSUME NEW a \in Bufs
        PROVE  refcnt'[a] = Cardinality(UsersOf(a)') + pins'[a]
    <3>1. Cardinality(UsersOf(a)') = Cardinality(UsersOf(a)) - (IF a = buf[p] THEN 1 ELSE 0)
      BY <1>b, UserLeaves, Zenon DEF BioInv
    <3>2. refcnt[a] = Cardinality(UsersOf(a)) + pins[a]
      BY UnusedIsFree
    <3> QED
      BY <1>b, <3>1, <3>2, UnusedIsFree, UsersFinite DEF BioInv, TypeOK
  <2> QED
    BY <2>1 DEF RefsCounted, UsersOf
<1>9. EnoughBuffers'
  BY Zenon DEF BioInv, TypeOK, UsersPlaced, EnoughBuffers
<1> QED
  BY <1>1, <1>2, <1>3, <1>4, <1>5, <1>6, <1>7, <1>8, <1>9, Zenon DEF BioInv

----------------------------------------------------------------------------
\* BioInv is inductive.
THEOREM BioInvariant == Spec => []BioInv
<1>1. Init => BioInv
  <2> SUFFICES ASSUME Init PROVE BioInv
    OBVIOUS
  <2>1. TypeOK
    BY SizeAssumption DEF Init, TypeOK, PCs
  <2>2. ListComplete
    BY DEF Init, ListComplete
  <2>3. UsersPlaced /\ OneBuffer /\ LockHeld /\ ValidWhere /\ EnoughBuffers
    BY NamesAssumption DEF Init, UsersPlaced, OneBuffer, LockHeld, ValidWhere, EnoughBuffers,
           UsePCs, LockPCs
  <2>4. DataLatest
    BY DEF Init, DataLatest
  <2>5. ASSUME NEW b \in Bufs PROVE Cardinality({p \in Users : buf[p] = b}) = 0
    <3>1. {p \in Users : buf[p] = b} = {}
      BY NamesAssumption DEF Init
    <3> QED
      BY <3>1, FS_EmptySet
  <2>6. RefsCounted
    <3>1. \A b \in Bufs : refcnt[b] = 0 /\ pins[b] = 0
      BY Zenon DEF Init
    <3> QED
      BY <2>5, <3>1 DEF RefsCounted
  <2> QED
    BY <2>1, <2>2, <2>3, <2>4, <2>6 DEF BioInv
<1>2. BioInv /\ [Next]_vars => BioInv'
  <2>1. ASSUME BioInv, UNCHANGED vars PROVE BioInv'
    BY <2>1 DEF BioInv, TypeOK, ListComplete, UsersPlaced, OneBuffer, LockHeld, ValidWhere,
           DataLatest, RefsCounted, EnoughBuffers, vars, cache
  <2>2. ASSUME BioInv, Next PROVE BioInv'
    BY <2>2, Zenon, BreadInv, BgetHitInv, BgetRecycleInv, BgetPanicInv, AcquireSleepInv,
       BreadCheckInv, BreadDoneInv, ChangeInv, BwriteInv, BpinInv, BunpinInv, ReleaseSleepInv,
       BrelseInv
    DEF Next, Step
  <2> QED
    BY <2>1, <2>2
<1> QED
  BY <1>1, <1>2, PTL DEF Spec

\* bget, brelse, bpin and bunpin: refcnt is exact, so a buffer is recycled only
\* when nobody has it.
THEOREM RefsAlwaysCounted == Spec => []RefsCounted
<1>1. BioInv => RefsCounted
  BY DEF BioInv
<1> QED
  BY <1>1, BioInvariant, PTL

\* bread: who has a block's buffer has it alone, with what was last stored.
THEOREM HolderAlwaysSeesLatest == Spec => []HolderSeesLatest
<1>1. ASSUME BioInv PROVE HolderSeesLatest
  <2>1. ASSUME NEW p \in Users, pc[p] = "has"
        PROVE  want[p] \in Blocks /\ buf[p] \in Bufs /\ blockno[buf[p]] = want[p]
    BY <1>1, <2>1, Zenon DEF BioInv, UsersPlaced, UsePCs
  <2>2. ASSUME NEW p \in Users, pc[p] = "has" PROVE locked[buf[p]] = p
    BY <1>1, <2>1, <2>2, Zenon DEF BioInv, LockHeld, LockPCs
  <2>3. ASSUME NEW p \in Users, pc[p] = "has"
        PROVE  valid[buf[p]] /\ data[buf[p]] = latest[blockno[buf[p]]]
    BY <1>1, <2>1, <2>3, Zenon DEF BioInv, ValidWhere, DataLatest
  <2> QED
    BY <2>1, <2>2, <2>3, Zenon DEF HolderSeesLatest
<1> QED
  BY <1>1, BioInvariant, PTL

\* bget panics only when the pins and the users outnumber the buffers.
THEOREM BuffersSuffice == Spec => []EnoughBuffers
<1>1. BioInv => EnoughBuffers
  BY DEF BioInv
<1> QED
  BY <1>1, BioInvariant, PTL

\* A panic of bget, with what the log pins and two buffers for each process.
PanicBeyondTwoEach ==
    (\E u \in Users : pc[u] = "panic") =>
        Cardinality({b \in Bufs : pins[b] > 0}) + 2 * Cardinality(Procs) > Cardinality(Bufs)

\* bget: two buffers for each process and one for each pin are enough, since no
\* caller has more than two at a time (bmap with balloc, itrunc with bfree,
\* write_log).
THEOREM TwoEachSuffice == Spec => []PanicBeyondTwoEach
<1>1. ASSUME EnoughBuffers PROVE PanicBeyondTwoEach
  <2> DEFINE Pinned == {b \in Bufs : pins[b] > 0}
  <2>1. Cardinality(Pinned) \in Nat /\ Cardinality(Bufs) \in Nat
    BY SizeAssumption, FS_Subset, FS_CardinalityType
  <2>2. (\E u \in Users : pc[u] = "panic") =>
            Cardinality(Pinned) + Cardinality(Users) > Cardinality(Bufs)
    BY <1>1, Zenon DEF EnoughBuffers
  <2> HIDE DEF Pinned
  <2>3. (\E u \in Users : pc[u] = "panic") =>
            Cardinality(Pinned) + 2 * Cardinality(Procs) > Cardinality(Bufs)
    BY <2>1, <2>2, AllUsersFinite
  <2> USE DEF Pinned
  <2> QED
    BY <2>3, Zenon DEF PanicBeyondTwoEach
<1> QED
  BY <1>1, BuffersSuffice, PTL
============================================================================
