--------------------------- MODULE Console_proofs --------------------------
(***************************************************************************)
(* Proofs about Console, for any number of readers, any size of the input  *)
(* buffer and any width of the indices that it divides: ConsoleInv is      *)
(* inductive, and with it the console implements LineInput.                *)
(***************************************************************************)
EXTENDS Console, RingArith, SequenceTheorems, TLAPS

\* Leaves go to the SMT solver unless they name another prover.
USE SMTT(60)

\* Where a reader has cons.lock, and where it is in consoleread.
LockPCs == {"check", "sleep", "char"}
ReadPCs == {"lock", "asleep"} \cup LockPCs

\* The characters of finished lines, of the line being typed, and of both.
Ready == Ahead(r, w, Wrap)
Edit == Ahead(w, e, Wrap)
Count == Ahead(r, e, Wrap)

\* The characters in the buffer, oldest first.
Text == [k \in 1 .. Count |-> buf[(r + k - 1) % INPUT_BUF_SIZE]]

TypeOK ==
    /\ buf \in [0 .. INPUT_BUF_SIZE - 1 -> Chars]
    /\ r \in 0 .. Wrap - 1 /\ w \in 0 .. Wrap - 1 /\ e \in 0 .. Wrap - 1
    /\ lock \in Readers \cup {None}
    /\ pc \in [Readers -> {"idle"} \cup ReadPCs]
    /\ left \in [Readers -> Nat] /\ some \in [Readers -> BOOLEAN]
    /\ killed \in [Readers -> BOOLEAN]

\* cons.lock is held by the reader in its section.
LockHeld == \A p \in Readers : lock = p <=> pc[p] \in LockPCs

\* The buffer does not overflow, and w is between r and e.
Fits == Ready + Edit = Count /\ Count <= INPUT_BUF_SIZE

\* consoleintr: the line being typed has no end yet.
NoLineEnd == \A k \in 1 .. Edit : Text[Ready + k] # NL

\* consoleread waits while there is no finished line, takes a character of one,
\* and has room for it.
Waiting ==
    \A p \in Readers :
        /\ pc[p] \in {"sleep", "asleep"} => r = w
        /\ pc[p] = "char" => r # w
        /\ pc[p] \in ReadPCs => left[p] > 0

ConsoleInv == TypeOK /\ LockHeld /\ Fits /\ NoLineEnd /\ Waiting

----------------------------------------------------------------------------
\* The constants, as the lemmas about rings need them.
LEMMA Sizes == /\ INPUT_BUF_SIZE \in Nat \ {0} /\ Wrap \in Nat \ {0}
               /\ INPUT_BUF_SIZE <= Wrap - 1 /\ Wrap % INPUT_BUF_SIZE = 0
BY SizeAssumption

\* How far apart the three indices are, and what the tests on them say.
LEMMA Indices ==
  ASSUME TypeOK, Fits
  PROVE  /\ Ready \in 0 .. INPUT_BUF_SIZE /\ Edit \in 0 .. INPUT_BUF_SIZE
         /\ Count \in 0 .. INPUT_BUF_SIZE /\ Ready + Edit = Count
         /\ (r = w <=> Ready = 0) /\ (e = w <=> Edit = 0)
<1>1. r \in 0 .. Wrap - 1 /\ w \in 0 .. Wrap - 1 /\ e \in 0 .. Wrap - 1 /\ Wrap \in Nat \ {0}
  BY Sizes DEF TypeOK
<1>2. Ready \in 0 .. Wrap - 1
  BY <1>1, AheadReaches DEF Ready
<1>3. Edit \in 0 .. Wrap - 1
  BY <1>1, AheadReaches DEF Edit
<1>4. Count \in 0 .. Wrap - 1
  BY <1>1, AheadReaches DEF Count
<1>5. Ready = 0 <=> r = w
  BY <1>1, AheadReaches DEF Ready
<1>6. Edit = 0 <=> w = e
  BY <1>1, AheadReaches DEF Edit
<1> QED
  BY <1>2, <1>3, <1>4, <1>5, <1>6, Sizes DEF Fits

\* The slots of the buffer that the characters are in, counted from r, from w and
\* back from e.
LEMMA Slots ==
  ASSUME TypeOK, Fits
  PROVE  /\ \A k \in Int : (r + k) % INPUT_BUF_SIZE \in 0 .. INPUT_BUF_SIZE - 1
         /\ \A k \in Int : ((r + k) % Wrap) % INPUT_BUF_SIZE = (r + k) % INPUT_BUF_SIZE
         /\ \A k \in Int : ((w + k) % Wrap) % INPUT_BUF_SIZE = (r + Ready + k) % INPUT_BUF_SIZE
         /\ \A k \in Int : ((e + k) % Wrap) % INPUT_BUF_SIZE = (r + Count + k) % INPUT_BUF_SIZE
         /\ e % INPUT_BUF_SIZE = (r + Count) % INPUT_BUF_SIZE
<1>1. r \in 0 .. Wrap - 1 /\ w \in 0 .. Wrap - 1 /\ e \in 0 .. Wrap - 1 /\ Wrap \in Nat \ {0}
      /\ INPUT_BUF_SIZE \in Nat \ {0} /\ Wrap % INPUT_BUF_SIZE = 0
  BY Sizes DEF TypeOK
<1>2. Ready \in Int /\ Count \in Int
  BY Indices
<1>3. \A x \in Int : (x % Wrap) % INPUT_BUF_SIZE = x % INPUT_BUF_SIZE
  BY <1>1, ModOfMod, Zenon
<1>4. \A x \in Int, k \in Int : ((x % Wrap) + k) % INPUT_BUF_SIZE = (x + k) % INPUT_BUF_SIZE
  BY <1>1, SlotFrom, Zenon
<1>5. (r + Ready) % Wrap = w
  BY <1>1, AheadReaches DEF Ready
<1>6. (r + Count) % Wrap = e
  BY <1>1, AheadReaches DEF Count
<1>7. ASSUME NEW k \in Int
      PROVE  /\ ((r + k) % Wrap) % INPUT_BUF_SIZE = (r + k) % INPUT_BUF_SIZE
             /\ (r + k) % INPUT_BUF_SIZE \in 0 .. INPUT_BUF_SIZE - 1
  <2>1. r + k \in Int
    BY <1>1
  <2> QED
    BY <1>1, <1>3, <2>1, DivMod, Zenon
<1>8. ASSUME NEW k \in Int
      PROVE  ((w + k) % Wrap) % INPUT_BUF_SIZE = (r + Ready + k) % INPUT_BUF_SIZE
  <2>1. r + Ready \in Int /\ w + k \in Int
    BY <1>1, <1>2
  <2>2. ((w + k) % Wrap) % INPUT_BUF_SIZE = (w + k) % INPUT_BUF_SIZE
    BY <1>3, <2>1
  <2>3. (((r + Ready) % Wrap) + k) % INPUT_BUF_SIZE = (r + Ready + k) % INPUT_BUF_SIZE
    BY <1>4, <2>1, Zenon
  <2> QED
    BY <1>5, <2>2, <2>3
<1>9. ASSUME NEW k \in Int
      PROVE  ((e + k) % Wrap) % INPUT_BUF_SIZE = (r + Count + k) % INPUT_BUF_SIZE
  <2>1. r + Count \in Int /\ e + k \in Int
    BY <1>1, <1>2
  <2>2. ((e + k) % Wrap) % INPUT_BUF_SIZE = (e + k) % INPUT_BUF_SIZE
    BY <1>3, <2>1
  <2>3. (((r + Count) % Wrap) + k) % INPUT_BUF_SIZE = (r + Count + k) % INPUT_BUF_SIZE
    BY <1>4, <2>1, Zenon
  <2> QED
    BY <1>6, <2>2, <2>3
<1>10. e % INPUT_BUF_SIZE = (r + Count) % INPUT_BUF_SIZE
  <2>1. r + Count \in Int
    BY <1>1, <1>2
  <2> QED
    BY <1>3, <1>6, <2>1
<1> QED
  BY <1>7, <1>8, <1>9, <1>10, Zenon

\* The text is the characters of finished lines, then the line being typed.
View ==
    /\ Text \in [1 .. Count -> Chars]
    /\ Between(r, w) \in [1 .. Ready -> Chars] /\ Between(w, e) \in [1 .. Edit -> Chars]
    /\ \A k \in 1 .. Ready : Between(r, w)[k] = Text[k]
    /\ \A k \in 1 .. Edit : Between(w, e)[k] = Text[Ready + k]

\* The two queues of LineInput lie one after the other in the buffer.
LEMMA ViewHolds ==
  ASSUME TypeOK, Fits
  PROVE  View
<1>1. Ready \in Nat /\ Edit \in Nat /\ Count \in Nat /\ Ready + Edit = Count
  BY Indices
<1>2. \A k \in 1 .. Count : Text[k] = buf[(r + k - 1) % INPUT_BUF_SIZE]
  BY DEF Text
<1>3. Text \in [1 .. Count -> Chars]
  <2> SUFFICES ASSUME NEW k \in 1 .. Count PROVE buf[(r + k - 1) % INPUT_BUF_SIZE] \in Chars
    BY DEF Text
  <2>1. k - 1 \in Int /\ r + k - 1 = r + (k - 1)
    BY <1>1 DEF TypeOK
  <2> QED
    BY <2>1, Slots, Zenon DEF TypeOK
<1>4. Between(r, w) = [k \in 1 .. Ready |-> buf[((r + k - 1) % Wrap) % INPUT_BUF_SIZE]]
  BY DEF Between, Ready, Ahead
<1>5. Between(w, e) = [k \in 1 .. Edit |-> buf[((w + k - 1) % Wrap) % INPUT_BUF_SIZE]]
  BY DEF Between, Edit, Ahead
<1>6. ASSUME NEW k \in 1 .. Ready
      PROVE  buf[((r + k - 1) % Wrap) % INPUT_BUF_SIZE] = Text[k]
  <2>1. k - 1 \in Int /\ r + k - 1 = r + (k - 1) /\ k \in 1 .. Count
    BY <1>1 DEF TypeOK
  <2>2. ((r + (k - 1)) % Wrap) % INPUT_BUF_SIZE = (r + (k - 1)) % INPUT_BUF_SIZE
    BY <2>1, Slots
  <2> QED
    BY <1>2, <2>1, <2>2
<1>7. ASSUME NEW k \in 1 .. Edit
      PROVE  buf[((w + k - 1) % Wrap) % INPUT_BUF_SIZE] = Text[Ready + k]
  <2>1. k - 1 \in Int /\ w + k - 1 = w + (k - 1) /\ Ready + k \in 1 .. Count
        /\ r + (Ready + k) - 1 = r + Ready + (k - 1)
    BY <1>1 DEF TypeOK
  <2>2. ((w + (k - 1)) % Wrap) % INPUT_BUF_SIZE = (r + Ready + (k - 1)) % INPUT_BUF_SIZE
    BY <2>1, Slots
  <2> QED
    BY <1>2, <2>1, <2>2, Zenon
<1>8. \A k \in 1 .. Ready : Text[k] \in Chars
  BY <1>1, <1>3
<1>9. \A k \in 1 .. Edit : Text[Ready + k] \in Chars
  BY <1>1, <1>3
<1>10. Between(r, w) \in [1 .. Ready -> Chars] /\ \A k \in 1 .. Ready : Between(r, w)[k] = Text[k]
  BY <1>1, <1>4, <1>6, <1>8, Zenon
<1>11. Between(w, e) \in [1 .. Edit -> Chars]
       /\ \A k \in 1 .. Edit : Between(w, e)[k] = Text[Ready + k]
  BY <1>1, <1>5, <1>7, <1>9, Zenon
<1> QED
  BY <1>3, <1>10, <1>11 DEF View

----------------------------------------------------------------------------
\* consoleintr stores a character: it comes last, the others stay where they are,
\* and a line that ends or fills the buffer is finished.
LEMMA StoreMoves ==
  ASSUME ConsoleInv, NEW ch \in Chars, Store(ch)
  PROVE  /\ Count < INPUT_BUF_SIZE /\ Count' = Count + 1 /\ e' \in 0 .. Wrap - 1
         /\ (\A k \in 1 .. Count : Text'[k] = Text[k]) /\ Text'[Count + 1] = ch
         /\ IF ch \in {NL, EOT} \/ Count + 1 = INPUT_BUF_SIZE
            THEN w' = e' /\ Ready' = Count + 1 /\ Edit' = 0
            ELSE w' = w /\ Ready' = Ready /\ Edit' = Edit + 1
<1>1. r \in 0 .. Wrap - 1 /\ w \in 0 .. Wrap - 1 /\ e \in 0 .. Wrap - 1 /\ Wrap \in Nat \ {0}
  BY Sizes DEF ConsoleInv, TypeOK
<1>2. /\ r' = r /\ e' = (e + 1) % Wrap /\ buf' = [buf EXCEPT ![e % INPUT_BUF_SIZE] = ch]
      /\ Count < INPUT_BUF_SIZE
      /\ IF ch \in {NL, EOT} \/ Count' = INPUT_BUF_SIZE THEN w' = e' ELSE w' = w
  BY DEF Store, Count, Ahead
<1>3. Ready \in Nat /\ Edit \in Nat /\ Count \in Nat /\ Ready + Edit = Count
      /\ Count < Wrap - 1 /\ Edit < Wrap - 1
  BY <1>2, Indices, Sizes DEF ConsoleInv
<1>4. Count' = Count + 1
  BY <1>1, <1>2, <1>3, AheadMoves, Zenon DEF Count
<1>5. e' \in 0 .. Wrap - 1
  BY <1>1, <1>2, DivMod
<1>6. ASSUME w' = w PROVE Ready' = Ready /\ Edit' = Edit + 1
  <2>1. Ready' = Ready
    BY <1>2, <1>6 DEF Ready
  <2>2. Edit' = Edit + 1
    BY <1>1, <1>2, <1>3, <1>6, AheadMoves, Zenon DEF Edit
  <2> QED
    BY <2>1, <2>2
<1>7. ASSUME w' = e' PROVE Ready' = Count' /\ Edit' = 0
  <2>1. Ready' = Count'
    BY <1>7 DEF Ready, Count
  <2>2. Edit' = 0
    BY <1>1, <1>5, <1>7, AheadReaches, Zenon DEF Edit
  <2> QED
    BY <2>1, <2>2
<1>8. /\ e % INPUT_BUF_SIZE = (r + Count) % INPUT_BUF_SIZE
      /\ (r + Count) % INPUT_BUF_SIZE \in 0 .. INPUT_BUF_SIZE - 1
  BY <1>3, Slots DEF ConsoleInv
<1>9. \A k \in 1 .. Count + 1 : Text'[k] = buf'[(r + k - 1) % INPUT_BUF_SIZE]
  BY <1>2, <1>4 DEF Text
<1>10. ASSUME NEW k \in 1 .. Count PROVE Text'[k] = Text[k]
  <2>1. k - 1 \in Int /\ Count \in Int /\ r \in Int /\ r + k - 1 = r + (k - 1) /\ k - 1 # Count
        /\ (k - 1) - Count < INPUT_BUF_SIZE /\ Count - (k - 1) < INPUT_BUF_SIZE
    BY <1>1, <1>2, <1>3, Sizes
  <2>2. (r + (k - 1)) % INPUT_BUF_SIZE # (r + Count) % INPUT_BUF_SIZE
    BY <2>1, Sizes, SlotsApart, Zenon
  <2>3. (r + (k - 1)) % INPUT_BUF_SIZE \in 0 .. INPUT_BUF_SIZE - 1
    BY <2>1, Slots, Zenon DEF ConsoleInv
  <2>4. buf'[(r + (k - 1)) % INPUT_BUF_SIZE] = buf[(r + (k - 1)) % INPUT_BUF_SIZE]
    BY <1>2, <1>8, <2>2, <2>3, Zenon DEF ConsoleInv, TypeOK
  <2>5. Text[k] = buf[(r + k - 1) % INPUT_BUF_SIZE]
    BY DEF Text
  <2>6. Text'[k] = buf'[(r + k - 1) % INPUT_BUF_SIZE]
    BY <1>3, <1>9
  <2> QED
    BY <2>1, <2>4, <2>5, <2>6, Zenon
<1>11. Text'[Count + 1] = ch
  <2>1. r + (Count + 1) - 1 = r + Count /\ Count + 1 \in 1 .. Count + 1
    BY <1>1, <1>3
  <2>2. buf'[(r + Count) % INPUT_BUF_SIZE] = ch
    BY <1>2, <1>8, Zenon DEF ConsoleInv, TypeOK
  <2> QED
    BY <1>9, <2>1, <2>2
<1> QED
  BY <1>2, <1>4, <1>5, <1>6, <1>7, <1>10, <1>11, Zenon

\* consoleintr takes characters back: from the end, and none of a finished line.
LEMMA EraseMoves ==
  ASSUME ConsoleInv, NEW n \in 0 .. Edit, UNCHANGED <<buf, r, w>>, e' = (e - n) % Wrap
  PROVE  /\ Count' = Count - n /\ Edit' = Edit - n /\ Ready' = Ready /\ e' \in 0 .. Wrap - 1
         /\ \A k \in 1 .. Count - n : Text'[k] = Text[k]
<1>1. r \in 0 .. Wrap - 1 /\ w \in 0 .. Wrap - 1 /\ e \in 0 .. Wrap - 1 /\ Wrap \in Nat \ {0}
  BY Sizes DEF ConsoleInv, TypeOK
<1>2. /\ Ready \in Nat /\ Edit \in Nat /\ Count \in Nat /\ Ready + Edit = Count
      /\ n \in Nat /\ n <= Edit
  BY Indices DEF ConsoleInv
<1>3. Edit' = Edit - n
  <2>1. \A m \in 0 .. Edit : Ahead(w, (e - m) % Wrap, Wrap) = Edit - m
    BY <1>1, AheadMoves, Zenon DEF Edit
  <2>2. Edit' = Ahead(w, (e - n) % Wrap, Wrap)
    BY DEF Edit
  <2> QED
    BY <2>1, <2>2
<1>4. Count' = Count - n
  <2>1. \A m \in 0 .. Count : Ahead(r, (e - m) % Wrap, Wrap) = Count - m
    BY <1>1, AheadMoves, Zenon DEF Count
  <2>2. Count' = Ahead(r, (e - n) % Wrap, Wrap)
    BY DEF Count
  <2> QED
    BY <1>2, <2>1, <2>2
<1>5. Ready' = Ready
  BY DEF Ready
<1>6. e' \in 0 .. Wrap - 1
  BY <1>1, <1>2, DivMod
<1>7. \A k \in 1 .. Count - n : Text'[k] = Text[k]
  BY <1>2, <1>4 DEF Text
<1> QED
  BY <1>3, <1>4, <1>5, <1>6, <1>7, Zenon

\* C('U') takes the whole line back, because there is no line end in it.
LEMMA KillLineAll ==
  ASSUME ConsoleInv, KillLine
  PROVE  e' = (e - Edit) % Wrap
<1> DEFINE Stops(k) == \/ k = Edit
                       \/ buf[((e - k - 1) % Wrap) % INPUT_BUF_SIZE] = NL
           n == CHOOSE k \in 0 .. Edit : Stops(k) /\ \A j \in 0 .. k - 1 : ~Stops(j)
<1>1. e' = (e - n) % Wrap
  BY DEF KillLine, Edit, Ahead
<1>2. Ready \in Nat /\ Edit \in Nat /\ Count \in Nat /\ Ready + Edit = Count
  BY Indices DEF ConsoleInv
<1>3. ASSUME NEW k \in 0 .. Edit - 1 PROVE ~Stops(k)
  <2>1. PICK m \in Int : m = -k - 1
    BY <1>2
  <2>2. ((e + m) % Wrap) % INPUT_BUF_SIZE = (r + Count + m) % INPUT_BUF_SIZE
    BY Slots DEF ConsoleInv
  <2>3. e + m = e - k - 1 /\ r + Count + m = r + (Count - k) - 1 /\ Count - k \in 1 .. Count
    BY <1>2, <2>1 DEF ConsoleInv, TypeOK
  <2>4. Text[Count - k] = buf[(r + (Count - k) - 1) % INPUT_BUF_SIZE]
    BY <2>3 DEF Text
  <2>5. Edit - k \in 1 .. Edit /\ Count - k = Ready + (Edit - k)
    BY <1>2
  <2>6. Text[Count - k] # NL
    BY <2>5 DEF ConsoleInv, NoLineEnd
  <2> QED
    BY <1>2, <2>2, <2>3, <2>4, <2>6
<1>4. Stops(Edit)
  OBVIOUS
<1> HIDE DEF Stops
<1>5. Edit \in 0 .. Edit /\ \A j \in 0 .. Edit - 1 : ~Stops(j)
  BY <1>2, <1>3
<1>6. n \in 0 .. Edit /\ Stops(n)
  BY <1>4, <1>5
<1>7. n = Edit
  BY <1>2, <1>5, <1>6
<1> QED
  BY <1>1, <1>7, Zenon

\* consoleread takes a character of a finished line: the first one.
LEMMA TakeMoves ==
  ASSUME ConsoleInv, r # w, UNCHANGED <<buf, w, e>>, r' = (r + 1) % Wrap
  PROVE  /\ Ready > 0 /\ Ready' = Ready - 1 /\ Count' = Count - 1 /\ Edit' = Edit
         /\ r' \in 0 .. Wrap - 1
         /\ \A k \in 1 .. Count - 1 : Text'[k] = Text[k + 1]
         /\ Text[1] = buf[r % INPUT_BUF_SIZE]
<1>1. r \in 0 .. Wrap - 1 /\ w \in 0 .. Wrap - 1 /\ e \in 0 .. Wrap - 1 /\ Wrap \in Nat \ {0}
      /\ INPUT_BUF_SIZE \in Nat \ {0} /\ Wrap % INPUT_BUF_SIZE = 0
  BY Sizes DEF ConsoleInv, TypeOK
<1>2. /\ Ready \in Nat /\ Edit \in Nat /\ Count \in Nat /\ Ready + Edit = Count
      /\ Ready > 0 /\ Count > 0
  BY Indices DEF ConsoleInv
<1>3. Ready' = Ready - 1
  BY <1>1, <1>2, AheadMoves DEF Ready
<1>4. Count' = Count - 1
  BY <1>1, <1>2, AheadMoves DEF Count
<1>5. Edit' = Edit
  BY DEF Edit
<1>6. r' \in 0 .. Wrap - 1
  BY <1>1, DivMod
<1>7. \A x \in Int, k \in Int : ((x % Wrap) + k) % INPUT_BUF_SIZE = (x + k) % INPUT_BUF_SIZE
  BY <1>1, SlotFrom, Zenon
<1>8. ASSUME NEW k \in 1 .. Count - 1 PROVE Text'[k] = Text[k + 1]
  <2>1. PICK m \in Int : m = k - 1
    BY <1>2
  <2>2. r + 1 \in Int /\ r' + k - 1 = r' + m /\ r + (k + 1) - 1 = r + 1 + m /\ k + 1 \in 1 .. Count
    BY <1>1, <1>2, <1>6, <2>1
  <2>3. (((r + 1) % Wrap) + m) % INPUT_BUF_SIZE = (r + 1 + m) % INPUT_BUF_SIZE
    BY <1>7, <2>2, Zenon
  <2>4. Text'[k] = buf[(r' + k - 1) % INPUT_BUF_SIZE]
    BY <1>4 DEF Text
  <2>5. Text[k + 1] = buf[(r + (k + 1) - 1) % INPUT_BUF_SIZE]
    BY <2>2 DEF Text
  <2> QED
    BY <2>2, <2>3, <2>4, <2>5, Zenon
<1>9. Text[1] = buf[r % INPUT_BUF_SIZE]
  <2>1. r + 1 - 1 = r /\ 1 \in 1 .. Count
    BY <1>1, <1>2
  <2> QED
    BY <2>1 DEF Text
<1> QED
  BY <1>2, <1>3, <1>4, <1>5, <1>6, <1>8, <1>9, Zenon

----------------------------------------------------------------------------
\* consoleintr stores a character.
LEMMA StoreInv ==
  ASSUME ConsoleInv, NEW ch \in Chars, Store(ch)
  PROVE  ConsoleInv'
<1> USE NamesAssumption DEF Store, WakeReaders, ReadPCs, LockPCs
<1>a. Ready \in Nat /\ Edit \in Nat /\ Count \in Nat /\ Ready + Edit = Count
      /\ Count <= INPUT_BUF_SIZE
  BY Indices DEF ConsoleInv
<1>b. /\ Count' = Count + 1 /\ e' \in 0 .. Wrap - 1 /\ Count < INPUT_BUF_SIZE
      /\ (\A k \in 1 .. Count : Text'[k] = Text[k]) /\ Text'[Count + 1] = ch
      /\ IF ch \in {NL, EOT} \/ Count + 1 = INPUT_BUF_SIZE
         THEN w' = e' /\ Ready' = Count + 1 /\ Edit' = 0
         ELSE w' = w /\ Ready' = Ready /\ Edit' = Edit + 1
  BY StoreMoves, Zenon
<1>c. lock = None /\ UNCHANGED <<r, lock, left, some, killed>>
      /\ ((pc' = pc /\ w' = w) \/ WakeReaders)
  OBVIOUS
<1>d. buf' \in [0 .. INPUT_BUF_SIZE - 1 -> Chars]
  BY Zenon DEF ConsoleInv, TypeOK
<1> HIDE DEF Store
<1>1. TypeOK'
  BY <1>b, <1>c, <1>d, Zenon DEF ConsoleInv, TypeOK
<1>2. LockHeld'
  BY <1>c DEF ConsoleInv, TypeOK, LockHeld
<1>3. Fits'
  BY <1>a, <1>b, Sizes DEF Fits
<1>4. NoLineEnd'
  <2> SUFFICES ASSUME NEW k \in 1 .. Edit' PROVE Text'[Ready' + k] # NL
    BY DEF NoLineEnd
  <2>1. Edit' = Edit + 1 /\ Ready' = Ready /\ ch # NL
    BY <1>b
  <2>2. CASE k \in 1 .. Edit
    <3>1. Ready + k \in 1 .. Count
      BY <1>a, <2>2
    <3> QED
      BY <1>b, <2>1, <2>2, <3>1, Zenon DEF ConsoleInv, NoLineEnd
  <2>3. CASE k = Edit + 1
    <3>1. Ready + k = Count + 1
      BY <1>a, <2>3
    <3> QED
      BY <1>b, <2>1, <3>1
  <2> QED
    BY <1>a, <2>1, <2>2, <2>3
<1>5. Waiting'
  BY <1>c, Zenon DEF ConsoleInv, TypeOK, LockHeld, Waiting
<1> QED
  BY <1>1, <1>2, <1>3, <1>4, <1>5, Zenon DEF ConsoleInv

\* consoleintr takes a character back.
LEMMA BackspaceInv ==
  ASSUME ConsoleInv, Backspace
  PROVE  ConsoleInv'
<1> USE NamesAssumption DEF Backspace, ReadPCs, LockPCs
<1>a. Ready \in Nat /\ Edit \in Nat /\ Count \in Nat /\ Ready + Edit = Count
      /\ Count <= INPUT_BUF_SIZE
  BY Indices DEF ConsoleInv
<1>b. 1 \in 0 .. Edit /\ e' = (e - 1) % Wrap /\ UNCHANGED <<buf, r, w>>
  BY <1>a, Indices DEF ConsoleInv
<1>c. /\ Count' = Count - 1 /\ Edit' = Edit - 1 /\ Ready' = Ready /\ e' \in 0 .. Wrap - 1
      /\ \A k \in 1 .. Count - 1 : Text'[k] = Text[k]
  BY <1>b, EraseMoves, Zenon
<1>1. TypeOK'
  BY <1>b, <1>c, Zenon DEF ConsoleInv, TypeOK
<1>2. LockHeld'
  BY DEF ConsoleInv, TypeOK, LockHeld
<1>3. Fits'
  BY <1>a, <1>b, <1>c, Sizes DEF Fits
<1>4. NoLineEnd'
  <2> SUFFICES ASSUME NEW k \in 1 .. Edit - 1 PROVE Text'[Ready + k] # NL
    BY <1>c DEF NoLineEnd
  <2>1. Ready + k \in 1 .. Count - 1 /\ k \in 1 .. Edit
    BY <1>a, <1>b
  <2> QED
    BY <1>c, <2>1 DEF ConsoleInv, NoLineEnd
<1>5. Waiting'
  BY DEF ConsoleInv, TypeOK, Waiting
<1> QED
  BY <1>1, <1>2, <1>3, <1>4, <1>5, Zenon DEF ConsoleInv

\* consoleintr takes a line back.
LEMMA KillLineInv ==
  ASSUME ConsoleInv, KillLine
  PROVE  ConsoleInv'
<1> USE NamesAssumption DEF KillLine, ReadPCs, LockPCs
<1>a. Ready \in Nat /\ Edit \in Nat /\ Count \in Nat /\ Ready + Edit = Count
      /\ Count <= INPUT_BUF_SIZE
  BY Indices DEF ConsoleInv
<1>b. Edit \in 0 .. Edit /\ e' = (e - Edit) % Wrap /\ UNCHANGED <<buf, r, w>>
  BY <1>a, KillLineAll DEF ConsoleInv
<1>c. /\ Count' = Count - Edit /\ Edit' = Edit - Edit /\ Ready' = Ready /\ e' \in 0 .. Wrap - 1
      /\ \A k \in 1 .. Count - Edit : Text'[k] = Text[k]
  BY <1>b, EraseMoves, Zenon
<1>1. TypeOK'
  BY <1>b, <1>c, Zenon DEF ConsoleInv, TypeOK
<1>2. LockHeld'
  BY Zenon DEF ConsoleInv, TypeOK, LockHeld
<1>3. Fits'
  BY <1>a, <1>b, <1>c, Sizes DEF Fits
<1>4. NoLineEnd'
  <2> SUFFICES ASSUME NEW k \in 1 .. Edit - Edit PROVE Text'[Ready + k] # NL
    BY <1>c, Zenon DEF NoLineEnd
  <2>1. Ready + k \in 1 .. Count - Edit /\ k \in 1 .. Edit
    BY <1>a, <1>b
  <2> QED
    BY <1>c, <2>1, Zenon DEF ConsoleInv, NoLineEnd
<1>5. Waiting'
  BY Zenon DEF ConsoleInv, TypeOK, Waiting
<1> QED
  BY <1>1, <1>2, <1>3, <1>4, <1>5, Zenon DEF ConsoleInv

\* consoleread is called.
LEMMA ReadCallInv ==
  ASSUME ConsoleInv, NEW p \in Readers, ReadCall(p)
  PROVE  ConsoleInv'
<1> USE NamesAssumption DEF ReadCall, Goto, cons, ReadPCs, LockPCs
<1>1. TypeOK'
  BY DEF ConsoleInv, TypeOK
<1>2. LockHeld'
  BY DEF ConsoleInv, TypeOK, LockHeld
<1>3. Fits'
  BY DEF ConsoleInv, Ready, Edit, Count, Fits
<1>4. NoLineEnd'
  BY Zenon DEF ConsoleInv, Text, Ready, Edit, Count, NoLineEnd
<1>5. Waiting'
  BY DEF ConsoleInv, TypeOK, Waiting
<1> QED
  BY <1>1, <1>2, <1>3, <1>4, <1>5, Zenon DEF ConsoleInv

\* acquire(&cons.lock).
LEMMA AcquireInv ==
  ASSUME ConsoleInv, NEW p \in Readers, Acquire(p)
  PROVE  ConsoleInv'
<1> USE NamesAssumption DEF Acquire, Goto, cons, ReadPCs, LockPCs
<1>1. TypeOK'
  BY DEF ConsoleInv, TypeOK
<1>2. LockHeld'
  BY DEF ConsoleInv, TypeOK, LockHeld
<1>3. Fits'
  BY DEF ConsoleInv, Ready, Edit, Count, Fits
<1>4. NoLineEnd'
  BY Zenon DEF ConsoleInv, Text, Ready, Edit, Count, NoLineEnd
<1>5. Waiting'
  BY DEF ConsoleInv, TypeOK, Waiting
<1> QED
  BY <1>1, <1>2, <1>3, <1>4, <1>5, Zenon DEF ConsoleInv

\* The test of the inner loop of consoleread.
LEMMA CheckInv ==
  ASSUME ConsoleInv, NEW p \in Readers, Check(p)
  PROVE  ConsoleInv'
<1> USE NamesAssumption DEF Check, Goto, cons, ReadPCs, LockPCs
<1>1. TypeOK'
  BY Zenon DEF ConsoleInv, TypeOK
<1>2. LockHeld'
  BY DEF ConsoleInv, TypeOK, LockHeld
<1>3. Fits'
  BY DEF ConsoleInv, Ready, Edit, Count, Fits
<1>4. NoLineEnd'
  BY DEF ConsoleInv, Text, Ready, Edit, Count, NoLineEnd
<1>5. Waiting'
  BY DEF ConsoleInv, TypeOK, Waiting
<1> QED
  BY <1>1, <1>2, <1>3, <1>4, <1>5, Zenon DEF ConsoleInv

\* consoleread sleeps.
LEMMA SleepInv ==
  ASSUME ConsoleInv, NEW p \in Readers, Sleep(p)
  PROVE  ConsoleInv'
<1> USE NamesAssumption DEF Sleep, Goto, cons, ReadPCs, LockPCs
<1>1. TypeOK'
  BY DEF ConsoleInv, TypeOK
<1>2. LockHeld'
  BY DEF ConsoleInv, TypeOK, LockHeld
<1>3. Fits'
  BY DEF ConsoleInv, Ready, Edit, Count, Fits
<1>4. NoLineEnd'
  BY Zenon DEF ConsoleInv, Text, Ready, Edit, Count, NoLineEnd
<1>5. Waiting'
  BY DEF ConsoleInv, TypeOK, Waiting
<1> QED
  BY <1>1, <1>2, <1>3, <1>4, <1>5, Zenon DEF ConsoleInv

\* consoleread meets an end of file.
LEMMA TakeEOTInv ==
  ASSUME ConsoleInv, NEW p \in Readers, TakeEOT(p)
  PROVE  ConsoleInv'
<1> USE NamesAssumption DEF TakeEOT, Return, Goto, ReadPCs, LockPCs
<1>a. Ready \in Nat /\ Edit \in Nat /\ Count \in Nat /\ Ready + Edit = Count
      /\ Count <= INPUT_BUF_SIZE
  BY Indices DEF ConsoleInv
<1>b. UNCHANGED <<buf, w, e>> /\ r # w
  BY DEF ConsoleInv, Waiting
<1>c. \/ r' = r
      \/ /\ Ready' = Ready - 1 /\ Count' = Count - 1 /\ Edit' = Edit /\ Ready > 0
         /\ r' \in 0 .. Wrap - 1 /\ \A k \in 1 .. Count - 1 : Text'[k] = Text[k + 1]
  <2>1. r' = r \/ r' = (r + 1) % Wrap
    OBVIOUS
  <2>2. ASSUME r' = (r + 1) % Wrap
        PROVE  /\ Ready' = Ready - 1 /\ Count' = Count - 1 /\ Edit' = Edit /\ Ready > 0
               /\ r' \in 0 .. Wrap - 1 /\ \A k \in 1 .. Count - 1 : Text'[k] = Text[k + 1]
    BY <1>b, <2>2, TakeMoves, Zenon
  <2> QED
    BY <2>1, <2>2, Zenon
<1>d. lock' = None /\ pc' = [pc EXCEPT ![p] = "idle"] /\ pc[p] = "char"
      /\ UNCHANGED <<left, some, killed>>
  OBVIOUS
<1> HIDE DEF TakeEOT
<1>1. TypeOK'
  BY <1>b, <1>c, <1>d, Zenon DEF ConsoleInv, TypeOK
<1>2. LockHeld'
  BY <1>d DEF ConsoleInv, TypeOK, LockHeld
<1>3. Fits'
  <2>1. CASE r' = r
    BY <1>b, <2>1 DEF ConsoleInv, Fits, Ready, Edit, Count
  <2>2. CASE r' # r
    BY <1>a, <1>c, <2>2, Sizes DEF Fits
  <2> QED
    BY <2>1, <2>2
<1>4. NoLineEnd'
  <2>1. CASE r' = r
    BY <1>b, <2>1, Zenon DEF ConsoleInv, NoLineEnd, Text, Ready, Edit, Count
  <2>2. CASE r' # r
    <3> SUFFICES ASSUME NEW k \in 1 .. Edit PROVE Text'[Ready' + k] # NL
      BY <1>c, <2>2 DEF NoLineEnd
    <3>1. Ready' + k \in 1 .. Count - 1 /\ Ready' + k + 1 = Ready + k
      BY <1>a, <1>c, <2>2
    <3> QED
      BY <1>c, <2>2, <3>1, Zenon DEF ConsoleInv, NoLineEnd
  <2> QED
    BY <2>1, <2>2
<1>5. Waiting'
  BY <1>b, <1>d, Zenon DEF ConsoleInv, TypeOK, LockHeld, Waiting
<1> QED
  BY <1>1, <1>2, <1>3, <1>4, <1>5, Zenon DEF ConsoleInv

\* consoleread copies a character out.
LEMMA TakeCharInv ==
  ASSUME ConsoleInv, NEW p \in Readers, TakeChar(p)
  PROVE  ConsoleInv'
<1> USE NamesAssumption DEF TakeChar, Goto, Return, ReadPCs, LockPCs
<1>a. Ready \in Nat /\ Edit \in Nat /\ Count \in Nat /\ Ready + Edit = Count
      /\ Count <= INPUT_BUF_SIZE
  BY Indices DEF ConsoleInv
<1>b. r' = (r + 1) % Wrap /\ UNCHANGED <<buf, w, e>> /\ r # w
  BY DEF ConsoleInv, Waiting
<1>c. /\ Ready' = Ready - 1 /\ Count' = Count - 1 /\ Edit' = Edit /\ Ready > 0
      /\ r' \in 0 .. Wrap - 1 /\ \A k \in 1 .. Count - 1 : Text'[k] = Text[k + 1]
  BY <1>b, TakeMoves, Zenon
<1>1. TypeOK'
  <2>1. left[p] - 1 \in Nat
    BY DEF ConsoleInv, TypeOK, Waiting
  <2> QED
    BY <1>b, <1>c, <2>1, Zenon DEF ConsoleInv, TypeOK
<1>2. LockHeld'
  BY Zenon DEF ConsoleInv, TypeOK, LockHeld
<1>3. Fits'
  BY <1>a, <1>c, Sizes DEF Fits
<1>4. NoLineEnd'
  <2> SUFFICES ASSUME NEW k \in 1 .. Edit PROVE Text'[Ready' + k] # NL
    BY <1>c, Zenon DEF NoLineEnd
  <2>1. Ready' + k \in 1 .. Count - 1 /\ Ready' + k + 1 = Ready + k
    BY <1>a, <1>c
  <2> QED
    BY <1>c, <2>1, Zenon DEF ConsoleInv, NoLineEnd
<1>5. Waiting'
  BY <1>b DEF ConsoleInv, TypeOK, LockHeld, Waiting
<1> QED
  BY <1>1, <1>2, <1>3, <1>4, <1>5, Zenon DEF ConsoleInv

\* consoleread cannot copy a character out.
LEMMA TakeFaultInv ==
  ASSUME ConsoleInv, NEW p \in Readers, TakeFault(p)
  PROVE  ConsoleInv'
<1> USE NamesAssumption DEF TakeFault, Return, Goto, ReadPCs, LockPCs
<1>a. Ready \in Nat /\ Edit \in Nat /\ Count \in Nat /\ Ready + Edit = Count
      /\ Count <= INPUT_BUF_SIZE
  BY Indices DEF ConsoleInv
<1>b. r' = (r + 1) % Wrap /\ UNCHANGED <<buf, w, e>> /\ r # w
  BY DEF ConsoleInv, Waiting
<1>c. /\ Ready' = Ready - 1 /\ Count' = Count - 1 /\ Edit' = Edit /\ Ready > 0
      /\ r' \in 0 .. Wrap - 1 /\ \A k \in 1 .. Count - 1 : Text'[k] = Text[k + 1]
  BY <1>b, TakeMoves, Zenon
<1>1. TypeOK'
  BY <1>b, <1>c, Zenon DEF ConsoleInv, TypeOK
<1>2. LockHeld'
  BY Zenon DEF ConsoleInv, TypeOK, LockHeld
<1>3. Fits'
  BY <1>a, <1>c, Sizes DEF Fits
<1>4. NoLineEnd'
  <2> SUFFICES ASSUME NEW k \in 1 .. Edit PROVE Text'[Ready' + k] # NL
    BY <1>c DEF NoLineEnd
  <2>1. Ready' + k \in 1 .. Count - 1 /\ Ready' + k + 1 = Ready + k
    BY <1>a, <1>c
  <2> QED
    BY <1>c, <2>1, Zenon DEF ConsoleInv, NoLineEnd
<1>5. Waiting'
  BY <1>b, Zenon DEF ConsoleInv, TypeOK, LockHeld, Waiting
<1> QED
  BY <1>1, <1>2, <1>3, <1>4, <1>5, Zenon DEF ConsoleInv

\* kill.
LEMMA KillInv ==
  ASSUME ConsoleInv, NEW p \in Readers, Kill(p)
  PROVE  ConsoleInv'
<1> USE NamesAssumption DEF Kill, Goto, cons, ReadPCs, LockPCs
<1>1. TypeOK'
  BY Zenon DEF ConsoleInv, TypeOK
<1>2. LockHeld'
  BY DEF ConsoleInv, TypeOK, LockHeld
<1>3. Fits'
  BY DEF ConsoleInv, Ready, Edit, Count, Fits
<1>4. NoLineEnd'
  BY Zenon DEF ConsoleInv, Text, Ready, Edit, Count, NoLineEnd
<1>5. Waiting'
  BY DEF ConsoleInv, TypeOK, Waiting
<1> QED
  BY <1>1, <1>2, <1>3, <1>4, <1>5, Zenon DEF ConsoleInv

----------------------------------------------------------------------------
\* ConsoleInv is inductive.
THEOREM ConsoleInvariant == Spec => []ConsoleInv
<1>1. Init => ConsoleInv
  <2> SUFFICES ASSUME Init PROVE ConsoleInv
    OBVIOUS
  <2>1. TypeOK
    BY Sizes, NamesAssumption DEF Init, TypeOK
  <2>2. LockHeld /\ Waiting
    BY NamesAssumption DEF Init, LockHeld, LockPCs, Waiting, ReadPCs
  <2>3. Ready = 0 /\ Edit = 0 /\ Count = 0
    BY <2>1, Sizes, AheadReaches DEF Init, TypeOK, Ready, Edit, Count
  <2>4. Fits /\ NoLineEnd
    BY <2>3, Sizes DEF Fits, NoLineEnd
  <2> QED
    BY <2>1, <2>2, <2>4 DEF ConsoleInv
<1>2. ConsoleInv /\ [Next]_vars => ConsoleInv'
  <2>1. ASSUME ConsoleInv, UNCHANGED vars PROVE ConsoleInv'
    BY <2>1, Zenon DEF ConsoleInv, TypeOK, LockHeld, Fits, NoLineEnd, Waiting, Text, Ready, Edit,
           Count, vars, cons
  <2>2. ASSUME ConsoleInv, Next PROVE ConsoleInv'
    BY Zenon, <2>2, StoreInv, BackspaceInv, KillLineInv, ReadCallInv, AcquireInv, CheckInv,
       SleepInv, TakeEOTInv, TakeCharInv, TakeFaultInv, KillInv
    DEF Next
  <2> QED
    BY <2>1, <2>2
<1> QED
  BY <1>1, <1>2, PTL DEF Spec

\* consoleintr wakes the readers for a whole line, for every number of readers
\* and every size of the buffer: nobody sleeps while there is a finished line.
THEOREM ReadersAlwaysWoken == Spec => []NoSleepOnInput
<1>1. ConsoleInv => NoSleepOnInput
  BY DEF ConsoleInv, Waiting, NoSleepOnInput
<1> QED
  BY <1>1, ConsoleInvariant, PTL

----------------------------------------------------------------------------
\* Two sequences one after the other, element by element.
LEMMA ConcatIs ==
  ASSUME NEW S, NEW f \in Seq(S), NEW g \in Seq(S), NEW h \in Seq(S), Len(h) = Len(f) + Len(g),
         \A k \in 1 .. Len(f) : h[k] = f[k], \A k \in 1 .. Len(g) : h[Len(f) + k] = g[k]
  PROVE  h = f \o g
<1>1. Len(f) \in Nat /\ Len(g) \in Nat
  OBVIOUS
<1>2. /\ f \o g \in Seq(S) /\ Len(f \o g) = Len(f) + Len(g)
      /\ \A k \in 1 .. Len(f) + Len(g) : (f \o g)[k] = IF k <= Len(f) THEN f[k] ELSE g[k - Len(f)]
  BY ConcatProperties
<1>3. ASSUME NEW k \in 1 .. Len(h) PROVE h[k] = (f \o g)[k]
  <2>1. CASE k <= Len(f)
    BY <1>1, <1>2, <2>1
  <2>2. CASE ~(k <= Len(f))
    <3>1. k - Len(f) \in 1 .. Len(g) /\ Len(f) + (k - Len(f)) = k
      BY <1>1, <2>2
    <3>2. h[k] = g[k - Len(f)]
      BY <3>1
    <3> QED
      BY <1>2, <2>2, <3>2, Zenon
  <2> QED
    BY <2>1, <2>2
<1> QED
  BY <1>2, <1>3, SeqEqual, Zenon

\* A sequence and one element more, element by element.
LEMMA AppendIs ==
  ASSUME NEW S, NEW n \in Nat, NEW f \in [1 .. n -> S], NEW x \in S, NEW g \in [1 .. n + 1 -> S],
         \A k \in 1 .. n : g[k] = f[k], g[n + 1] = x
  PROVE  g = Append(f, x)
OBVIOUS

\* A sequence less its last element.
LEMMA FrontIs ==
  ASSUME NEW S, NEW n \in Nat \ {0}, NEW f \in [1 .. n -> S], NEW g \in [1 .. n - 1 -> S],
         \A k \in 1 .. n - 1 : g[k] = f[k]
  PROVE  g = SubSeq(f, 1, Len(f) - 1) /\ f # <<>>
OBVIOUS

\* A sequence less its first element.
LEMMA TailIs ==
  ASSUME NEW S, NEW n \in Nat \ {0}, NEW f \in [1 .. n -> S], NEW g \in [1 .. n - 1 -> S],
         \A k \in 1 .. n - 1 : g[k] = f[k + 1]
  PROVE  g = Tail(f) /\ Head(f) = f[1] /\ f # <<>>
OBVIOUS

\* A sequence is its elements.
LEMMA SameIs ==
  ASSUME NEW S, NEW n \in Nat, NEW f \in [1 .. n -> S], NEW g \in [1 .. n -> S],
         \A k \in 1 .. n : g[k] = f[k]
  PROVE  g = f
OBVIOUS

\* What the step of a character, a line or a read starts from and comes to: the
\* view of the buffer before and after it.
LEMMA BothViews ==
  ASSUME ConsoleInv, ConsoleInv'
  PROVE  /\ View /\ View'
         /\ Ready \in Nat /\ Edit \in Nat /\ Count \in Nat /\ Ready + Edit = Count
         /\ Len(Between(r, w)) = Ready /\ Len(Between(w, e)) = Edit
<1>1. View /\ Ready \in Nat /\ Edit \in Nat /\ Count \in Nat /\ Ready + Edit = Count
  BY ViewHolds, Indices DEF ConsoleInv
<1>2. TypeOK /\ Fits => View
  BY ViewHolds
<1>3. TypeOK' /\ Fits' => View'
  BY ViewHolds, PTL
<1>4. Len(Between(r, w)) = Ready /\ Len(Between(w, e)) = Edit
  BY <1>1 DEF View
<1> QED
  BY <1>1, <1>3, <1>4 DEF ConsoleInv

\* consoleintr, the default case: the character joins the line being typed, or
\* finishes it.
LEMMA StoreTypes ==
  ASSUME ConsoleInv, ConsoleInv', NEW ch \in Chars, Store(ch)
  PROVE  Lines!Type(ch)
<1>1. /\ Count < INPUT_BUF_SIZE
      /\ (\A k \in 1 .. Count : Text'[k] = Text[k]) /\ Text'[Count + 1] = ch
      /\ IF ch \in {NL, EOT} \/ Count + 1 = INPUT_BUF_SIZE
         THEN Ready' = Count + 1 /\ Edit' = 0
         ELSE Ready' = Ready /\ Edit' = Edit + 1
  BY StoreMoves
<1>2. /\ View /\ View'
      /\ Ready \in Nat /\ Edit \in Nat /\ Count \in Nat /\ Ready + Edit = Count
      /\ Len(Between(r, w)) = Ready /\ Len(Between(w, e)) = Edit
  BY BothViews
<1>3. last' = last
  BY DEF Store
<1>a. /\ \A k \in 1 .. Ready : Between(r, w)[k] = Text[k] /\ k \in 1 .. Count
      /\ \A k \in 1 .. Edit : Between(w, e)[k] = Text[Ready + k] /\ Ready + k \in 1 .. Count
  BY <1>2 DEF View
<1>4. CASE ch \in {NL, EOT} \/ Count + 1 = INPUT_BUF_SIZE
  <2>1. Ready' = Count + 1 /\ Edit' = 0
    BY <1>1, <1>4
  <2>2. PICK g \in [1 .. Edit + 1 -> Chars] :
           (\A k \in 1 .. Edit : g[k] = Between(w, e)[k]) /\ g[Edit + 1] = ch
    <3> DEFINE f == [k \in 1 .. Edit + 1 |-> IF k = Edit + 1 THEN ch ELSE Between(w, e)[k]]
    <3>1. \A k \in 1 .. Edit : Between(w, e)[k] \in Chars
      BY <1>2 DEF View
    <3>2. f \in [1 .. Edit + 1 -> Chars] /\ (\A k \in 1 .. Edit : f[k] = Between(w, e)[k])
          /\ f[Edit + 1] = ch
      BY <1>2, <3>1
    <3> QED
      BY <3>2, Zenon
  <2>3. g = Append(Between(w, e), ch)
    BY <1>2, <2>2, AppendIs DEF View
  <2>4. Between(r, w)' \in [1 .. Ready + (Edit + 1) -> Chars]
    BY <1>2, <2>1 DEF View
  <2>5. \A k \in 1 .. Count + 1 : Between(r, w)'[k] = Text'[k]
    BY <1>2, <2>1, Zenon DEF View
  <2>6. \A k \in 1 .. Ready : Between(r, w)'[k] = Between(r, w)[k]
    <3>1. \A k \in 1 .. Count : k \in 1 .. Count + 1
      BY <1>2
    <3> QED
      BY <1>1, <1>a, <2>5, <3>1, Zenon
  <2>7. ASSUME NEW k \in 1 .. Edit + 1 PROVE Between(r, w)'[Ready + k] = g[k]
    <3>1. Ready + k \in 1 .. Count + 1
      BY <1>2
    <3>2. CASE k = Edit + 1
      <4>1. Ready + k = Count + 1
        BY <1>2, <3>2
      <4> QED
        BY <1>1, <2>2, <2>5, <3>1, <3>2, <4>1, Zenon
    <3>3. CASE k \in 1 .. Edit
      <4>1. Ready + k \in 1 .. Count
        BY <1>2, <3>3
      <4> QED
        BY <1>1, <1>a, <2>2, <2>5, <3>1, <3>3, <4>1, Zenon
    <3> QED
      BY <1>2, <3>2, <3>3
  <2>8. Between(r, w)' = Between(r, w) \o g
    <3> DEFINE f == Between(r, w)
               h == Between(r, w)'
    <3>1. f \in Seq(Chars) /\ g \in Seq(Chars) /\ Len(f) = Ready /\ Len(g) = Edit + 1
      BY <1>2, <2>2 DEF View
    <3>2. h \in Seq(Chars) /\ Len(h) = Ready + (Edit + 1)
      BY <1>2, <2>4
    <3>3. (\A k \in 1 .. Ready : h[k] = f[k]) /\ (\A k \in 1 .. Edit + 1 : h[Ready + k] = g[k])
      BY <2>6, <2>7, Zenon
    <3> HIDE DEF f, h
    <3>4. /\ Len(h) = Len(f) + Len(g)
          /\ \A k \in 1 .. Len(f) : h[k] = f[k]
          /\ \A k \in 1 .. Len(g) : h[Len(f) + k] = g[k]
      BY <3>1, <3>2, <3>3, Zenon
    <3>5. h = f \o g
      BY <3>1, <3>2, <3>4, ConcatIs, Zenon
    <3> QED
      BY <3>5 DEF f, h
  <2>9. Between(w, e)' = <<>>
    BY <1>2, <2>1 DEF View
  <2> QED
    BY <1>1, <1>2, <1>3, <1>4, <2>3, <2>8, <2>9, Zenon DEF Lines!Type
<1>5. CASE ~(ch \in {NL, EOT} \/ Count + 1 = INPUT_BUF_SIZE)
  <2>1. Ready' = Ready /\ Edit' = Edit + 1
    BY <1>1, <1>5
  <2>2. Between(r, w)' = Between(r, w)
    <3>1. /\ Between(r, w) \in [1 .. Ready -> Chars] /\ Between(r, w)' \in [1 .. Ready -> Chars]
          /\ \A k \in 1 .. Ready : Between(r, w)'[k] = Between(r, w)[k]
      BY <1>1, <1>2, <2>1 DEF View
    <3> QED
      BY <1>2, <3>1, SameIs
  <2>3. Between(w, e)' = Append(Between(w, e), ch)
    <3>1. /\ Between(w, e) \in [1 .. Edit -> Chars] /\ Between(w, e)' \in [1 .. Edit + 1 -> Chars]
          /\ \A k \in 1 .. Edit : Between(w, e)[k] = Text[Ready + k] /\ Ready + k \in 1 .. Count
          /\ \A k \in 1 .. Edit + 1 : Between(w, e)'[k] = Text'[Ready + k]
      BY <1>2, <2>1 DEF View
    <3>2. \A k \in 1 .. Edit : Between(w, e)'[k] = Between(w, e)[k]
      BY <1>1, <1>2, <3>1
    <3>3. Between(w, e)'[Edit + 1] = ch
      <4>1. Edit + 1 \in 1 .. Edit + 1 /\ Ready + (Edit + 1) = Count + 1
        BY <1>2
      <4> QED
        BY <1>1, <3>1, <4>1
    <3> QED
      BY <1>2, <3>1, <3>2, <3>3, AppendIs
  <2> QED
    BY <1>1, <1>2, <1>3, <1>5, <2>2, <2>3, Zenon DEF Lines!Type
<1> QED
  BY <1>4, <1>5

\* consoleintr, backspace and C('U'): the end of the line being typed is taken
\* back, and nothing of a finished line.
LEMMA EraseErases ==
  ASSUME ConsoleInv, ConsoleInv', Backspace \/ KillLine
  PROVE  Lines!Erase \/ Lines!KillLine
<1>1. /\ View /\ View'
      /\ Ready \in Nat /\ Edit \in Nat /\ Count \in Nat /\ Ready + Edit = Count
      /\ Len(Between(r, w)) = Ready /\ Len(Between(w, e)) = Edit
  BY BothViews
<1>2. UNCHANGED <<buf, r, w, last>>
  BY DEF Backspace, KillLine
<1>3. Between(r, w)' = Between(r, w)
  BY <1>2 DEF Between
<1>4. CASE Backspace
  <2>1. 1 \in 0 .. Edit /\ e' = (e - 1) % Wrap
    BY <1>1, <1>4, Indices DEF ConsoleInv, Backspace
  <2>2. Edit' = Edit - 1 /\ Ready' = Ready /\ \A k \in 1 .. Count - 1 : Text'[k] = Text[k]
    BY <1>2, <2>1, EraseMoves, Zenon
  <2>3. /\ Between(w, e) \in [1 .. Edit -> Chars] /\ Between(w, e)' \in [1 .. Edit - 1 -> Chars]
        /\ \A k \in 1 .. Edit : Between(w, e)[k] = Text[Ready + k]
        /\ \A k \in 1 .. Edit - 1 : Between(w, e)'[k] = Text'[Ready + k]
    BY <1>1, <2>2, Zenon DEF View
  <2>4. \A k \in 1 .. Edit - 1 : Between(w, e)'[k] = Between(w, e)[k]
    <3>1. \A k \in 1 .. Edit - 1 : Ready + k \in 1 .. Count - 1 /\ k \in 1 .. Edit
      BY <1>1, <2>1
    <3> QED
      BY <2>2, <2>3, <3>1, Zenon
  <2>5. Between(w, e)' = SubSeq(Between(w, e), 1, Len(Between(w, e)) - 1) /\ Between(w, e) # <<>>
    <3>1. Edit \in Nat \ {0}
      BY <1>1, <2>1
    <3> QED
      BY <2>3, <2>4, <3>1, FrontIs
  <2> QED
    BY <1>2, <1>3, <2>5, Zenon DEF Lines!Erase
<1>5. CASE KillLine
  <2>1. Edit \in 0 .. Edit /\ e' = (e - Edit) % Wrap
    BY <1>1, <1>5, KillLineAll
  <2>2. Edit' = 0
    BY <1>1, <1>2, <2>1, EraseMoves
  <2>3. Between(w, e)' = <<>>
    BY <1>1, <2>2 DEF View
  <2> QED
    BY <1>2, <1>3, <2>3 DEF Lines!KillLine
<1> QED
  BY <1>4, <1>5

\* consoleread takes the first character of the finished lines.
LEMMA TakeTakes ==
  ASSUME ConsoleInv, ConsoleInv', r # w, UNCHANGED <<buf, w, e>>, r' = (r + 1) % Wrap,
         last' = <<buf[r % INPUT_BUF_SIZE]>>
  PROVE  Lines!Take
<1>1. /\ View /\ View'
      /\ Ready \in Nat /\ Edit \in Nat /\ Count \in Nat /\ Ready + Edit = Count
      /\ Len(Between(r, w)) = Ready /\ Len(Between(w, e)) = Edit
  BY BothViews
<1>2. /\ Ready > 0 /\ Ready' = Ready - 1
      /\ \A k \in 1 .. Count - 1 : Text'[k] = Text[k + 1]
      /\ Text[1] = buf[r % INPUT_BUF_SIZE]
  BY TakeMoves, Zenon
<1>3. Between(w, e)' = Between(w, e)
  BY DEF Between
<1>4. /\ Between(r, w) \in [1 .. Ready -> Chars] /\ Between(r, w)' \in [1 .. Ready - 1 -> Chars]
      /\ \A k \in 1 .. Ready : Between(r, w)[k] = Text[k]
      /\ \A k \in 1 .. Ready - 1 : Between(r, w)'[k] = Text'[k]
  BY <1>1, <1>2, Zenon DEF View
<1>5. \A k \in 1 .. Ready - 1 : Between(r, w)'[k] = Between(r, w)[k + 1]
  <2>1. \A k \in 1 .. Ready - 1 : k \in 1 .. Count - 1 /\ k + 1 \in 1 .. Ready
    BY <1>1, <1>2
  <2> QED
    BY <1>2, <1>4, <2>1, Zenon
<1>6. Between(r, w)' = Tail(Between(r, w)) /\ Head(Between(r, w)) = Between(r, w)[1]
      /\ Between(r, w) # <<>>
  <2>1. Ready \in Nat \ {0}
    BY <1>1, <1>2
  <2> QED
    BY <1>4, <1>5, <2>1, TailIs
<1>7. Between(r, w)[1] = buf[r % INPUT_BUF_SIZE]
  BY <1>1, <1>2, <1>4
<1> QED
  BY <1>3, <1>6, <1>7, Zenon DEF Lines!Take

\* consoleintr and consoleread implement LineInput: typed lines reach the readers
\* as edited, each character once and in order, for every number of readers, size
\* of the buffer and width of the indices.
THEOREM ConsoleImplementsLines == Spec => LinesInOrder
<1>1. Init => Lines!Init
  <2> SUFFICES ASSUME Init PROVE Lines!Init
    OBVIOUS
  <2>1. (w - r) % Wrap = 0 /\ (e - w) % Wrap = 0
    BY Sizes, ModSmall DEF Init
  <2> QED
    BY <2>1 DEF Init, Between, Lines!Init
<1>2. ConsoleInv /\ ConsoleInv' /\ [Next]_vars
         => [Lines!Next]_<<Between(r, w), Between(w, e), last>>
  <2> SUFFICES ASSUME ConsoleInv, ConsoleInv', [Next]_vars
               PROVE  Lines!Next \/ UNCHANGED <<Between(r, w), Between(w, e), last>>
    OBVIOUS
  <2>1. CASE \E ch \in Chars : Store(ch)
    BY <2>1, StoreTypes DEF Lines!Next
  <2>2. CASE Backspace \/ KillLine
    BY <2>2, EraseErases DEF Lines!Next
  <2>3. ASSUME NEW p \in Readers, TakeEOT(p) \/ TakeChar(p) \/ TakeFault(p)
        PROVE  Lines!Next \/ UNCHANGED <<Between(r, w), Between(w, e), last>>
    <3>1. r # w /\ UNCHANGED <<buf, w, e>>
      BY <2>3, Zenon DEF ConsoleInv, Waiting, TakeEOT, TakeChar, TakeFault
    <3>2. \/ r' = (r + 1) % Wrap /\ last' = <<buf[r % INPUT_BUF_SIZE]>>
          \/ r' = r /\ last' = last
      BY <2>3, Zenon DEF TakeEOT, TakeChar, TakeFault
    <3>3. ASSUME r' = r, last' = last PROVE UNCHANGED <<Between(r, w), Between(w, e), last>>
      BY <3>1, <3>3 DEF Between
    <3> QED
      BY <3>1, <3>2, <3>3, TakeTakes, Zenon DEF Lines!Next
  <2>4. CASE UNCHANGED <<cons, last>>
    BY <2>4 DEF cons, Between
  <2>5. ASSUME NEW p \in Readers,
               ReadCall(p) \/ Acquire(p) \/ Check(p) \/ Sleep(p) \/ Kill(p)
        PROVE  UNCHANGED <<cons, last>>
    BY <2>5, Zenon DEF ReadCall, Acquire, Check, Sleep, Kill
  <2> QED
    BY <2>1, <2>2, <2>3, <2>4, <2>5, Zenon DEF Next, vars
<1> QED
  BY <1>1, <1>2, ConsoleInvariant, PTL DEF Spec, LinesInOrder, Lines!Spec
============================================================================
