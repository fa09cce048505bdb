----------------------------- MODULE RingArith -----------------------------
(***************************************************************************)
(* Facts about the indices of the rings of kernel/pipe.c, kernel/console.c *)
(* and kernel/virtio_disk.c.  An index counts modulo W, the width of the   *)
(* C type, and is used modulo the size N of the ring, which divides W.     *)
(***************************************************************************)
EXTENDS Integers, TLAPS

\* Leaves go to the SMT solver unless they name another prover.
USE SMTT(60)

\* How many steps index b is ahead of index a.
Ahead(a, b, W) == (b - a) % W

\* Division with remainder, as % and \div are used on the indices.
LEMMA DivMod ==
  ASSUME NEW m \in Nat \ {0}, NEW a \in Int
  PROVE  a \div m \in Int /\ a % m \in 0 .. m - 1 /\ a = m * (a \div m) + (a % m)
<1>1. m \in Int /\ m > 0
  OBVIOUS
<1>2. a \div m \in Int
  OBVIOUS
<1>3. a % m \in 0 .. m - 1
  OBVIOUS
<1>4. a = m * (a \div m) + (a % m)
  BY <1>1
<1> QED
  BY <1>2, <1>3, <1>4

\* A multiple of m that is closer to 0 than m is 0.
LEMMA SmallMultiple ==
  ASSUME NEW m \in Nat \ {0}, NEW d \in Int, m * d < m, -m < m * d
  PROVE  d = 0
OBVIOUS

\* The remainder is unique.
LEMMA ModUnique ==
  ASSUME NEW m \in Nat \ {0}, NEW a \in Int, NEW q \in Int, NEW r \in 0 .. m - 1, a = m * q + r
  PROVE  a % m = r
<1> DEFINE e == a \div m
           s == a % m
<1>1. e \in Int /\ s \in 0 .. m - 1 /\ a = m * e + s
  BY DivMod
<1>2. m * (q - e) = s - r
  BY <1>1
<1>3. q - e = 0
  BY <1>1, <1>2, SmallMultiple
<1> QED
  BY <1>1, <1>3

\* An index below the modulus is left alone.
LEMMA ModSmall ==
  ASSUME NEW m \in Nat \ {0}, NEW r \in 0 .. m - 1
  PROVE  r % m = r
BY ModUnique

\* Adding a multiple of the modulus changes nothing.
LEMMA ModShift ==
  ASSUME NEW m \in Nat \ {0}, NEW a \in Int, NEW k \in Int
  PROVE  (a + m * k) % m = a % m
<1> DEFINE b == a + m * k
           q == a \div m + k
           r == a % m
<1>1. a \div m \in Int /\ r \in 0 .. m - 1 /\ a = m * (a \div m) + r
  BY DivMod
<1>2. b \in Int /\ q \in Int /\ b = m * q + r
  BY <1>1
<1> HIDE DEF b, q, r
<1>3. b % m = r
  BY <1>1, <1>2, ModUnique
<1> QED
  BY <1>3 DEF b, r

\* Reducing a summand first changes nothing.
LEMMA ModAdd ==
  ASSUME NEW m \in Nat \ {0}, NEW a \in Int, NEW b \in Int
  PROVE  /\ ((a % m) + b) % m = (a + b) % m
         /\ (b - (a % m)) % m = (b - a) % m
<1> DEFINE q == a \div m
           r == a % m
<1>1. q \in Int /\ r \in Int /\ a = m * q + r
  BY DivMod
<1>2. r + b = (a + b) + m * (-q)
  BY <1>1
<1>3. b - r = (b - a) + m * q
  BY <1>1
<1> HIDE DEF q, r
<1>4. ((a + b) + m * (-q)) % m = (a + b) % m
  <2>1. a + b \in Int /\ -q \in Int
    BY <1>1
  <2> QED
    BY <2>1, ModShift, Zenon
<1>5. ((b - a) + m * q) % m = (b - a) % m
  <2>1. b - a \in Int
    OBVIOUS
  <2> QED
    BY <1>1, <2>1, ModShift, Zenon
<1> QED
  BY <1>2, <1>3, <1>4, <1>5 DEF r

\* Two numbers less than m apart that have the same remainder are equal.
LEMMA ModDistinct ==
  ASSUME NEW m \in Nat \ {0}, NEW a \in Int, NEW b \in Int, a % m = b % m, a - b < m, b - a < m
  PROVE  a = b
<1> DEFINE q == a \div m
           p == b \div m
<1>1. q \in Int /\ p \in Int /\ a = m * q + (a % m) /\ b = m * p + (b % m)
      /\ a % m \in Int /\ b % m \in Int
  BY DivMod
<1>2. m * (q - p) = a - b
  BY <1>1
<1>3. q - p = 0
  BY <1>1, <1>2, SmallMultiple
<1> QED
  BY <1>1, <1>3

\* The size of the ring divides the width of the indices: counting modulo the
\* width does not disturb the place in the ring.
LEMMA ModOfMod ==
  ASSUME NEW N \in Nat \ {0}, NEW W \in Nat \ {0}, W % N = 0, NEW a \in Int
  PROVE  (a % W) % N = a % N
<1> DEFINE j == W \div N
           q == a \div W
           r == a % W
<1>1. j \in Int /\ W = N * j
  BY DivMod
<1>2. q \in Int /\ r \in Int /\ a = W * q + r
  BY DivMod
<1> HIDE DEF j, q, r
<1>3. j * q \in Int
  BY <1>1, <1>2
<1>4. W * q = N * (j * q)
  BY <1>1, <1>2
<1>5. a = r + N * (j * q)
  BY <1>2, <1>3, <1>4
<1>6. (r + N * (j * q)) % N = r % N
  BY <1>2, <1>3, ModShift, Zenon
<1> QED
  BY <1>5, <1>6 DEF r

\* An index is reached from another one in Ahead steps and in no other number
\* of steps below the width.
LEMMA AheadReaches ==
  ASSUME NEW W \in Nat \ {0}, NEW a \in 0 .. W - 1, NEW b \in 0 .. W - 1
  PROVE  /\ Ahead(a, b, W) \in 0 .. W - 1
         /\ (a + Ahead(a, b, W)) % W = b
         /\ \A n \in 0 .. W - 1 : (a + n) % W = b => Ahead(a, b, W) = n
         /\ Ahead(a, b, W) = 0 <=> a = b
<1> DEFINE d == Ahead(a, b, W)
<1>1. d \in 0 .. W - 1
  BY DivMod DEF Ahead
<1>2. (a + d) % W = b
  <2>0. b - a \in Int /\ a \in Int
    OBVIOUS
  <2>1. (((b - a) % W) + a) % W = ((b - a) + a) % W
    BY <2>0, ModAdd, Zenon
  <2>2. (b - a) + a = b /\ ((b - a) % W) + a = a + d
    BY <1>1 DEF Ahead
  <2> QED
    BY <2>1, <2>2, ModSmall
<1>3. ASSUME NEW n \in 0 .. W - 1, (a + n) % W = b PROVE d = n
  <2>1. a + n \in Int /\ a + d \in Int /\ (a + n) % W = (a + d) % W
    BY <1>1, <1>2, <1>3
  <2>2. (a + n) - (a + d) < W /\ (a + d) - (a + n) < W
    BY <1>1
  <2>3. a + n = a + d
    BY <2>1, <2>2, ModDistinct, Zenon
  <2> QED
    BY <1>1, <2>3
<1>4. a % W = a
  BY ModSmall
<1>5. d = 0 => a = b
  BY <1>2, <1>4
<1>6. a = b => d = 0
  BY <1>3, <1>4
<1> QED
  BY <1>1, <1>2, <1>3, <1>5, <1>6

\* Putting one in moves the front index on, taking one out the rear index, and
\* taking one back the front index back.
LEMMA AheadMoves ==
  ASSUME NEW W \in Nat \ {0}, NEW a \in 0 .. W - 1, NEW b \in 0 .. W - 1
  PROVE  /\ Ahead(a, b, W) < W - 1 => Ahead(a, (b + 1) % W, W) = Ahead(a, b, W) + 1
         /\ Ahead(a, b, W) > 0 => Ahead((a + 1) % W, b, W) = Ahead(a, b, W) - 1
         /\ \A n \in 0 .. Ahead(a, b, W) :
               Ahead(a, (b - n) % W, W) = Ahead(a, b, W) - n
<1> DEFINE d == Ahead(a, b, W)
<1>1. d \in 0 .. W - 1
  BY AheadReaches
<1>2. ASSUME NEW k \in Int, d + k \in 0 .. W - 1 PROVE Ahead(a, (b + k) % W, W) = d + k
  <2>0. b + k \in Int /\ -a \in Int /\ b - a \in Int
    OBVIOUS
  <2>1. (((b + k) % W) + (-a)) % W = ((b + k) + (-a)) % W
    BY <2>0, ModAdd, Zenon
  <2>2. (((b - a) % W) + k) % W = ((b - a) + k) % W
    BY <2>0, ModAdd, Zenon
  <2>3. (b + k) % W \in Int
    BY DivMod
  <2>4. ((b + k) % W) + (-a) = ((b + k) % W) - a /\ (b + k) + (-a) = (b - a) + k
    BY <2>3
  <2>5. (((b + k) % W) - a) % W = (d + k) % W
    BY <2>1, <2>2, <2>4 DEF Ahead
  <2> QED
    BY <1>2, <2>5, ModSmall, Zenon DEF Ahead
<1>3. d < W - 1 => Ahead(a, (b + 1) % W, W) = d + 1
  BY <1>1, <1>2
<1>4. ASSUME d > 0 PROVE Ahead((a + 1) % W, b, W) = d - 1
  <2>0. a + 1 \in Int /\ b \in Int /\ b - a \in Int /\ -1 \in Int
    OBVIOUS
  <2>1. (b - ((a + 1) % W)) % W = (b - (a + 1)) % W
    BY <2>0, ModAdd, Zenon
  <2>2. (((b - a) % W) + (-1)) % W = ((b - a) + (-1)) % W
    BY <2>0, ModAdd, Zenon
  <2>3. b - (a + 1) = (b - a) + (-1) /\ d + (-1) = d - 1 /\ d - 1 \in 0 .. W - 1
    BY <1>1, <1>4
  <2>4. (b - ((a + 1) % W)) % W = (d - 1) % W
    BY <2>1, <2>2, <2>3 DEF Ahead
  <2> QED
    BY <2>3, <2>4, ModSmall DEF Ahead
<1>5. ASSUME NEW n \in 0 .. d PROVE Ahead(a, (b - n) % W, W) = d - n
  <2>1. -n \in Int /\ d + (-n) \in 0 .. W - 1 /\ b + (-n) = b - n /\ d + (-n) = d - n
    BY <1>1
  <2>2. Ahead(a, (b + (-n)) % W, W) = d + (-n)
    BY <1>2, <2>1
  <2> QED
    BY <2>1, <2>2
<1> QED
  BY <1>3, <1>4, <1>5

\* The slot of the ring that an index names, which is the same before and after
\* the index wraps.
LEMMA SlotOf ==
  ASSUME NEW N \in Nat \ {0}, NEW W \in Nat \ {0}, W % N = 0,
         NEW a \in 0 .. W - 1, NEW b \in 0 .. W - 1
  PROVE  b % N = (a + Ahead(a, b, W)) % N
<1> DEFINE d == Ahead(a, b, W)
<1>1. d \in 0 .. W - 1
  BY AheadReaches, Zenon
<1>2. (a + d) % W = b
  BY AheadReaches
<1>3. a + d \in Int
  BY <1>1
<1> HIDE DEF d
<1>4. ((a + d) % W) % N = (a + d) % N
  BY <1>3, ModOfMod, Zenon
<1> QED
  BY <1>2, <1>4 DEF d

\* The slots that follow an index, whether or not the index has wrapped.
LEMMA SlotFrom ==
  ASSUME NEW N \in Nat \ {0}, NEW W \in Nat \ {0}, W % N = 0
  PROVE  \A x \in Int, k \in Int : ((x % W) + k) % N = (x + k) % N
<1> SUFFICES ASSUME NEW x \in Int, NEW k \in Int
             PROVE  ((x % W) + k) % N = (x + k) % N
  BY Zenon
<1> DEFINE y == x % W
<1>1. y \in Int
  BY DivMod
<1>2. (x % W) % N = x % N
  BY ModOfMod, Zenon
<1>3. ((y % N) + k) % N = (y + k) % N
  BY <1>1, ModAdd, Zenon
<1>4. ((x % N) + k) % N = (x + k) % N
  BY ModAdd, Zenon
<1> QED
  BY <1>2, <1>3, <1>4

\* Two indices less than the size of the ring apart have different slots.
LEMMA SlotsApart ==
  ASSUME NEW N \in Nat \ {0}, NEW a \in Int, NEW i \in Int, NEW j \in Int,
         i # j, i - j < N, j - i < N
  PROVE  (a + i) % N # (a + j) % N
<1>1. a + i \in Int /\ a + j \in Int /\ (a + i) - (a + j) < N /\ (a + j) - (a + i) < N
      /\ a + i # a + j
  OBVIOUS
<1> QED
  BY <1>1, ModDistinct, Zenon
============================================================================
