---------------------------- MODULE Pipe_proofs ----------------------------
(***************************************************************************)
(* Proofs about Pipe, for any number of processes, any ring size and any   *)
(* width of the counters that it divides: PipeInv is inductive, and with   *)
(* it the pipe implements ByteStream.                                      *)
(***************************************************************************)
EXTENDS Pipe, RingArith, SequenceTheorems, TLAPS

\* Leaves go to the SMT solver unless they name another prover.
USE SMTT(60)

\* Where a process is in a write or a read, and where it has pi->lock.
WritePCs == {"w_lock", "w_asleep", "w_check", "w_body", "w_done"}
ReadPCs == {"r_lock", "r_asleep", "r_check", "r_sleep", "r_copy", "r_done"}
ClosePCs == {"close_r", "close_w"}
LockPCs == {"w_check", "w_body", "w_done", "r_check", "r_sleep", "r_copy", "r_done"}

\* How many bytes the ring holds.
Count == Ahead(nread, nwrite, Wrap)

TypeOK ==
    /\ data \in [0 .. PIPESIZE - 1 -> Bytes]
    /\ nread \in 0 .. Wrap - 1 /\ nwrite \in 0 .. Wrap - 1
    /\ readopen \in BOOLEAN /\ writeopen \in BOOLEAN /\ freed \in Nat
    /\ holds \in [Procs -> SUBSET Ends]
    /\ lock \in Procs \cup {None}
    /\ pc \in [Procs -> {"idle"} \cup WritePCs \cup ReadPCs \cup ClosePCs]
    /\ left \in [Procs -> Nat] /\ some \in [Procs -> BOOLEAN]
    /\ killed \in [Procs -> BOOLEAN] /\ mute \in BOOLEAN

\* pi->lock is held by the process in its section, and the ring does not overflow.
LockHeld == \A p \in Procs : lock = p <=> pc[p] \in LockPCs
Fits == Count <= PIPESIZE

\* fileclose, pipeclose: who is in a call has its end; an end is open while a
\* process has it or the last one that had it has yet to close it.
EndsOpen ==
    /\ \A p \in Procs : /\ pc[p] \in WritePCs => "w" \in holds[p]
                        /\ pc[p] \in ReadPCs => "r" \in holds[p]
    /\ writeopen <=> \E p \in Procs : "w" \in holds[p] \/ pc[p] = "close_w"
    /\ readopen <=> \E p \in Procs : "r" \in holds[p] \/ pc[p] = "close_r"
    /\ \A p, q \in Procs : /\ pc[p] = "close_w" => "w" \notin holds[q]
                           /\ pc[p] = "close_r" => "r" \notin holds[q]
                           /\ pc[p] = pc[q] /\ pc[p] \in ClosePCs => p = q
    /\ freed = IF readopen \/ writeopen THEN 0 ELSE 1

\* pipewrite has a byte left to store and somebody to read it; piperead copies
\* when there is something, or when nothing more will come.
Progress ==
    \A p \in Procs :
        /\ pc[p] = "w_body" => left[p] > 0 /\ readopen
        /\ pc[p] = "r_sleep" => Empty /\ writeopen
        /\ pc[p] = "r_copy" => some[p] \/ ~Empty \/ ~writeopen

PipeInv == TypeOK /\ LockHeld /\ Fits /\ EndsOpen /\ Progress

\* A reader sleeps on an empty pipe, or a writer that has stored a byte will
\* wake it, unless it was killed; a writer sleeps on a full pipe, or a reader
\* will wake it.
SleepersServed ==
    \A p \in Procs :
        /\ pc[p] = "r_asleep" =>
              /\ writeopen
              /\ \/ Empty \/ mute
                 \/ \E q \in Procs :
                       pc[q] = "w_done" \/ (pc[q] \in {"w_check", "w_body"} /\ some[q])
        /\ pc[p] = "w_asleep" =>
              /\ readopen
              /\ Full \/ \E q \in Procs : pc[q] \in {"r_copy", "r_done"}

----------------------------------------------------------------------------
\* The constants, as the lemmas about rings need them.
LEMMA Sizes == /\ PIPESIZE \in Nat \ {0} /\ Wrap \in Nat \ {0}
               /\ PIPESIZE <= Wrap - 1 /\ Wrap % PIPESIZE = 0
BY SizeAssumption

\* The tests for an empty and for a full pipe, on counters that wrap.
LEMMA RingState ==
  ASSUME TypeOK, Fits
  PROVE  /\ Count \in 0 .. PIPESIZE
         /\ Empty <=> Count = 0
         /\ Full <=> Count = PIPESIZE
         /\ nwrite % PIPESIZE \in 0 .. PIPESIZE - 1 /\ nread % PIPESIZE \in 0 .. PIPESIZE - 1
<1>1. /\ Count \in 0 .. Wrap - 1 /\ (Count = 0 <=> nread = nwrite)
      /\ (nread + Count) % Wrap = nwrite
      /\ \A n \in 0 .. Wrap - 1 : (nread + n) % Wrap = nwrite => Count = n
  <2>1. nread \in 0 .. Wrap - 1 /\ nwrite \in 0 .. Wrap - 1 /\ Wrap \in Nat \ {0}
    BY Sizes DEF TypeOK
  <2>2. Count \in 0 .. Wrap - 1
    BY <2>1, AheadReaches DEF Count
  <2>3. (nread + Count) % Wrap = nwrite
    BY <2>1, AheadReaches DEF Count
  <2>4. Count = 0 <=> nread = nwrite
    BY <2>1, AheadReaches DEF Count
  <2>5. \A n \in 0 .. Wrap - 1 : (nread + n) % Wrap = nwrite => Count = n
    BY <2>1, AheadReaches DEF Count
  <2> QED
    BY <2>2, <2>3, <2>4, <2>5
<1>2. Full <=> Count = PIPESIZE
  <2>1. PIPESIZE \in 0 .. Wrap - 1
    BY Sizes
  <2> QED
    BY <1>1, <2>1 DEF Full
<1>3. nwrite % PIPESIZE \in 0 .. PIPESIZE - 1 /\ nread % PIPESIZE \in 0 .. PIPESIZE - 1
  BY Sizes, DivMod DEF TypeOK
<1> QED
  BY <1>1, <1>2, <1>3, Sizes DEF Empty, Fits

\* pipewrite stores a byte: the ring holds one more.
LEMMA RingPut ==
  ASSUME TypeOK, Fits, ~Full, nread' = nread, nwrite' = (nwrite + 1) % Wrap
  PROVE  Count' = Count + 1 /\ Count' <= PIPESIZE /\ nwrite' \in 0 .. Wrap - 1
<1>1. Count \in 0 .. PIPESIZE - 1
  BY RingState, Sizes
<1>2. Count' = Count + 1
  BY <1>1, Sizes, AheadMoves DEF Count, TypeOK
<1>3. nwrite' \in 0 .. Wrap - 1
  BY Sizes, DivMod DEF TypeOK
<1> QED
  BY <1>1, <1>2, <1>3, Sizes

\* piperead takes a byte: the ring holds one less.
LEMMA RingTake ==
  ASSUME TypeOK, Fits, ~Empty, nwrite' = nwrite, nread' = (nread + 1) % Wrap
  PROVE  Count' = Count - 1 /\ Count' <= PIPESIZE /\ nread' \in 0 .. Wrap - 1
<1>1. Count \in 1 .. PIPESIZE
  BY RingState, Sizes
<1>2. Count' = Count - 1
  BY <1>1, Sizes, AheadMoves DEF Count, TypeOK
<1>3. nread' \in 0 .. Wrap - 1
  BY Sizes, DivMod DEF TypeOK
<1> QED
  BY <1>1, <1>2, <1>3, Sizes

\* acquire(&pi->lock).
LEMMA AcquireInv ==
  ASSUME PipeInv, NEW p \in Procs, Acquire(p)
  PROVE  PipeInv'
<1> USE ProcsAssumption DEF Acquire, Goto, ring, ends, call, Empty, Ends, WritePCs, ReadPCs,
        ClosePCs, LockPCs
<1>1. TypeOK'
  BY Zenon DEF PipeInv, TypeOK
<1>2. LockHeld'
  BY DEF PipeInv, TypeOK, LockHeld
<1>3. Fits'
  BY DEF PipeInv, Count, Fits
<1>4. EndsOpen'
  BY DEF PipeInv, TypeOK, LockHeld, EndsOpen
<1>5. Progress'
  BY DEF PipeInv, TypeOK, LockHeld, Progress
<1> QED
  BY <1>1, <1>2, <1>3, <1>4, <1>5, Zenon DEF PipeInv

\* pipewrite is called.
LEMMA WriteCallInv ==
  ASSUME PipeInv, NEW p \in Procs, WriteCall(p)
  PROVE  PipeInv'
<1> USE ProcsAssumption DEF WriteCall, Goto, ring, ends, Empty, Ends, WritePCs, ReadPCs, ClosePCs,
        LockPCs
<1>1. TypeOK'
  BY DEF PipeInv, TypeOK
<1>2. LockHeld'
  BY DEF PipeInv, TypeOK, LockHeld
<1>3. Fits'
  BY DEF PipeInv, Count, Fits
<1>4. EndsOpen'
  BY DEF PipeInv, TypeOK, LockHeld, EndsOpen
<1>5. Progress'
  BY DEF PipeInv, TypeOK, LockHeld, Progress
<1> QED
  BY <1>1, <1>2, <1>3, <1>4, <1>5, Zenon DEF PipeInv

\* The head of the loop of pipewrite.
LEMMA WriteCheckInv ==
  ASSUME PipeInv, NEW p \in Procs, WriteCheck(p)
  PROVE  PipeInv'
<1> USE ProcsAssumption DEF WriteCheck, Goto, ring, ends, call, Empty, Ends, WritePCs, ReadPCs,
        ClosePCs, LockPCs
<1>1. TypeOK'
  BY DEF PipeInv, TypeOK
<1>2. LockHeld'
  BY DEF PipeInv, TypeOK, LockHeld
<1>3. Fits'
  BY DEF PipeInv, Count, Fits
<1>4. EndsOpen'
  BY DEF PipeInv, TypeOK, LockHeld, EndsOpen
<1>5. Progress'
  BY DEF PipeInv, TypeOK, LockHeld, Progress
<1> QED
  BY <1>1, <1>2, <1>3, <1>4, <1>5, Zenon DEF PipeInv

\* pipewrite finds the pipe full.
LEMMA WriteFullInv ==
  ASSUME PipeInv, NEW p \in Procs, WriteFull(p)
  PROVE  PipeInv'
<1> USE ProcsAssumption DEF WriteFull, WakeReaders, Full, ring, ends, call, WakeAndGoto, Empty,
        Ends, WritePCs, ReadPCs, ClosePCs, LockPCs
<1>1. TypeOK'
  BY Zenon DEF PipeInv, TypeOK
<1>2. LockHeld'
  BY DEF PipeInv, TypeOK, LockHeld
<1>3. Fits'
  BY DEF PipeInv, Count, Fits
<1>4. EndsOpen'
  BY Zenon DEF PipeInv, TypeOK, LockHeld, EndsOpen
<1>5. Progress'
  BY Zenon DEF PipeInv, TypeOK, LockHeld, Progress
<1> QED
  BY <1>1, <1>2, <1>3, <1>4, <1>5, Zenon DEF PipeInv

\* pipewrite stores a byte: there is room for one more.
LEMMA WriteByteInv ==
  ASSUME PipeInv, NEW p \in Procs, WriteByte(p)
  PROVE  PipeInv'
<1> USE ProcsAssumption DEF WriteByte, Goto, Moved, Full, ends, Empty, Ends, WritePCs, ReadPCs,
        ClosePCs, LockPCs
<1>a. Count' = Count + 1 /\ Count' <= PIPESIZE /\ nwrite' \in 0 .. Wrap - 1
  BY RingPut DEF PipeInv
<1>1. TypeOK'
  <2>1. nwrite % PIPESIZE \in 0 .. PIPESIZE - 1 /\ left[p] - 1 \in Nat
    BY RingState DEF PipeInv, TypeOK, Progress
  <2>2. data' \in [0 .. PIPESIZE - 1 -> Bytes] /\ left' \in [Procs -> Nat]
    BY <2>1 DEF PipeInv, TypeOK
  <2> QED
    BY <1>a, <2>2, Zenon DEF PipeInv, TypeOK
<1>2. LockHeld'
  BY DEF PipeInv, TypeOK, LockHeld
<1>3. Fits'
  BY <1>a DEF Fits
<1>4. EndsOpen'
  BY DEF PipeInv, TypeOK, LockHeld, EndsOpen
<1>5. Progress'
  BY Zenon DEF PipeInv, TypeOK, LockHeld, Progress
<1> QED
  BY <1>1, <1>2, <1>3, <1>4, <1>5, Zenon DEF PipeInv

\* pipewrite cannot copy a byte in.
LEMMA WriteFaultInv ==
  ASSUME PipeInv, NEW p \in Procs, WriteFault(p)
  PROVE  PipeInv'
<1> USE ProcsAssumption DEF WriteFault, Goto, Full, ring, ends, call, Empty, Ends, WritePCs,
        ReadPCs, ClosePCs, LockPCs
<1>1. TypeOK'
  BY Zenon DEF PipeInv, TypeOK
<1>2. LockHeld'
  BY DEF PipeInv, TypeOK, LockHeld
<1>3. Fits'
  BY DEF PipeInv, Count, Fits
<1>4. EndsOpen'
  BY DEF PipeInv, TypeOK, LockHeld, EndsOpen
<1>5. Progress'
  BY Zenon DEF PipeInv, TypeOK, LockHeld, Progress
<1> QED
  BY <1>1, <1>2, <1>3, <1>4, <1>5, Zenon DEF PipeInv

\* The end of pipewrite.
LEMMA WriteDoneInv ==
  ASSUME PipeInv, NEW p \in Procs, WriteDone(p)
  PROVE  PipeInv'
<1> USE ProcsAssumption DEF WriteDone, WakeReaders, ring, ends, call, WakeAndGoto, Empty, Ends,
        WritePCs, ReadPCs, ClosePCs, LockPCs
<1>1. TypeOK'
  BY Zenon DEF PipeInv, TypeOK
<1>2. LockHeld'
  BY DEF PipeInv, TypeOK, LockHeld
<1>3. Fits'
  BY DEF PipeInv, Count, Fits
<1>4. EndsOpen'
  BY Zenon DEF PipeInv, TypeOK, LockHeld, EndsOpen
<1>5. Progress'
  BY Zenon DEF PipeInv, TypeOK, LockHeld, Progress
<1> QED
  BY <1>1, <1>2, <1>3, <1>4, <1>5, Zenon DEF PipeInv

\* piperead is called.
LEMMA ReadCallInv ==
  ASSUME PipeInv, NEW p \in Procs, ReadCall(p)
  PROVE  PipeInv'
<1> USE ProcsAssumption DEF ReadCall, Goto, ring, ends, Empty, Ends, WritePCs, ReadPCs, ClosePCs,
        LockPCs
<1>1. TypeOK'
  BY DEF PipeInv, TypeOK
<1>2. LockHeld'
  BY DEF PipeInv, TypeOK, LockHeld
<1>3. Fits'
  BY DEF PipeInv, Count, Fits
<1>4. EndsOpen'
  BY DEF PipeInv, TypeOK, LockHeld, EndsOpen
<1>5. Progress'
  BY DEF PipeInv, TypeOK, LockHeld, Progress
<1> QED
  BY <1>1, <1>2, <1>3, <1>4, <1>5, Zenon DEF PipeInv

\* The head of the waiting loop of piperead.
LEMMA ReadCheckInv ==
  ASSUME PipeInv, NEW p \in Procs, ReadCheck(p)
  PROVE  PipeInv'
<1> USE ProcsAssumption DEF ReadCheck, Goto, Empty, ring, ends, call, Ends, WritePCs, ReadPCs,
        ClosePCs, LockPCs
<1>1. TypeOK'
  BY Zenon DEF PipeInv, TypeOK
<1>2. LockHeld'
  BY DEF PipeInv, TypeOK, LockHeld
<1>3. Fits'
  BY DEF PipeInv, Count, Fits
<1>4. EndsOpen'
  BY DEF PipeInv, TypeOK, LockHeld, EndsOpen
<1>5. Progress'
  BY DEF PipeInv, TypeOK, LockHeld, Progress
<1> QED
  BY <1>1, <1>2, <1>3, <1>4, <1>5, Zenon DEF PipeInv

\* piperead sleeps.
LEMMA ReadSleepInv ==
  ASSUME PipeInv, NEW p \in Procs, ReadSleep(p)
  PROVE  PipeInv'
<1> USE ProcsAssumption DEF ReadSleep, Goto, ring, ends, call, Empty, Ends, WritePCs, ReadPCs,
        ClosePCs, LockPCs
<1>1. TypeOK'
  BY DEF PipeInv, TypeOK
<1>2. LockHeld'
  BY DEF PipeInv, TypeOK, LockHeld
<1>3. Fits'
  BY DEF PipeInv, Count, Fits
<1>4. EndsOpen'
  BY DEF PipeInv, TypeOK, LockHeld, EndsOpen
<1>5. Progress'
  BY Zenon DEF PipeInv, TypeOK, LockHeld, Progress
<1> QED
  BY <1>1, <1>2, <1>3, <1>4, <1>5, Zenon DEF PipeInv

\* piperead takes a byte out.
LEMMA ReadByteInv ==
  ASSUME PipeInv, NEW p \in Procs, ReadByte(p)
  PROVE  PipeInv'
<1> USE ProcsAssumption DEF ReadByte, Goto, Moved, Empty, ends, call, Ends, WritePCs, ReadPCs,
        ClosePCs, LockPCs
<1>a. Count' = Count - 1 /\ Count' <= PIPESIZE /\ nread' \in 0 .. Wrap - 1
  BY RingTake DEF PipeInv
<1>1. TypeOK'
  <2>1. left[p] - 1 \in Nat
    BY DEF PipeInv, TypeOK
  <2>2. left' \in [Procs -> Nat]
    BY <2>1, ZenonT(60) DEF PipeInv, TypeOK
  <2>3. some' \in [Procs -> BOOLEAN]
    BY Zenon DEF PipeInv, TypeOK
  <2>4. pc' \in [Procs -> {"idle"} \cup WritePCs \cup ReadPCs \cup ClosePCs]
    BY ZenonT(60) DEF PipeInv, TypeOK
  <2> QED
    BY <1>a, <2>2, <2>3, <2>4, Zenon DEF PipeInv, TypeOK
<1>2. LockHeld'
  BY Zenon DEF PipeInv, TypeOK, LockHeld
<1>3. Fits'
  BY <1>a DEF Fits
<1>4. EndsOpen'
  BY DEF PipeInv, TypeOK, LockHeld, EndsOpen
<1>5. Progress'
  BY DEF PipeInv, TypeOK, LockHeld, Progress
<1> QED
  BY <1>1, <1>2, <1>3, <1>4, <1>5, Zenon DEF PipeInv

\* The end of the copying loop of piperead.
LEMMA ReadEndInv ==
  ASSUME PipeInv, NEW p \in Procs, ReadEnd(p)
  PROVE  PipeInv'
<1> USE ProcsAssumption DEF ReadEnd, Goto, Empty, ring, ends, call, Ends, WritePCs, ReadPCs,
        ClosePCs, LockPCs
<1>1. TypeOK'
  BY DEF PipeInv, TypeOK
<1>2. LockHeld'
  BY DEF PipeInv, TypeOK, LockHeld
<1>3. Fits'
  BY DEF PipeInv, Count, Fits
<1>4. EndsOpen'
  BY DEF PipeInv, TypeOK, LockHeld, EndsOpen
<1>5. Progress'
  BY DEF PipeInv, TypeOK, LockHeld, Progress
<1> QED
  BY <1>1, <1>2, <1>3, <1>4, <1>5, Zenon DEF PipeInv

\* The end of piperead.
LEMMA ReadDoneInv ==
  ASSUME PipeInv, NEW p \in Procs, ReadDone(p)
  PROVE  PipeInv'
<1> USE ProcsAssumption DEF ReadDone, WakeWriters, ring, ends, call, WakeAndGoto, Empty, Ends,
        WritePCs, ReadPCs, ClosePCs, LockPCs
<1>1. TypeOK'
  BY Zenon DEF PipeInv, TypeOK
<1>2. LockHeld'
  BY DEF PipeInv, TypeOK, LockHeld
<1>3. Fits'
  BY DEF PipeInv, Count, Fits
<1>4. EndsOpen'
  BY Zenon DEF PipeInv, TypeOK, LockHeld, EndsOpen
<1>5. Progress'
  BY DEF PipeInv, TypeOK, LockHeld, Progress
<1> QED
  BY <1>1, <1>2, <1>3, <1>4, <1>5, Zenon DEF PipeInv

\* fileclose: the last one that has an end goes on to close it.
LEMMA FileCloseInv ==
  ASSUME PipeInv, NEW p \in Procs, NEW e \in Ends, FileClose(p, e)
  PROVE  PipeInv'
<1> USE ProcsAssumption DEF FileClose, Goto, ring, call, Empty, Ends, WritePCs, ReadPCs, ClosePCs,
        LockPCs
<1>1. TypeOK'
  BY Zenon DEF PipeInv, TypeOK
<1>2. LockHeld'
  BY DEF PipeInv, TypeOK, LockHeld
<1>3. Fits'
  BY DEF PipeInv, Count, Fits
<1>4. EndsOpen'
  BY DEF PipeInv, TypeOK, LockHeld, EndsOpen
<1>5. Progress'
  BY DEF PipeInv, TypeOK, LockHeld, Progress
<1> QED
  BY <1>1, <1>2, <1>3, <1>4, <1>5, Zenon DEF PipeInv

\* pipeclose: the end is closed, and the page freed with the second one.
LEMMA PipeCloseInv ==
  ASSUME PipeInv, NEW p \in Procs, PipeClose(p)
  PROVE  PipeInv'
<1> USE ProcsAssumption DEF PipeClose, WakeReaders, WakeWriters, ring, call, WakeAndGoto, Empty,
        Ends, WritePCs, ReadPCs, ClosePCs, LockPCs
<1>1. TypeOK'
  <2>1. readopen' \in BOOLEAN /\ writeopen' \in BOOLEAN
    BY Zenon DEF PipeInv, TypeOK
  <2>2. freed' \in Nat
    BY DEF PipeInv, TypeOK
  <2>3. pc' \in [Procs -> {"idle"} \cup WritePCs \cup ReadPCs \cup ClosePCs]
    BY DEF PipeInv, TypeOK
  <2> QED
    BY <2>1, <2>2, <2>3, Zenon DEF PipeInv, TypeOK
<1>2. LockHeld'
  <2>1. \A q \in Procs : pc'[q] \in LockPCs <=> pc[q] \in LockPCs
    BY DEF PipeInv, TypeOK
  <2> QED
    BY <2>1 DEF PipeInv, LockHeld
<1>3. Fits'
  BY DEF PipeInv, Count, Fits
<1>4. EndsOpen'
  <2>1. CASE pc[p] = "close_w"
    <3>1. /\ writeopen /\ ~writeopen' /\ (readopen' <=> readopen) /\ holds' = holds
          /\ \A q \in Procs : pc'[q] = IF q = p THEN "idle"
                                       ELSE IF pc[q] = "r_asleep" THEN "r_lock" ELSE pc[q]
          /\ freed' = IF readopen THEN freed ELSE freed + 1
      BY <2>1 DEF PipeInv, EndsOpen
    <3> HIDE DEF PipeClose
    <3>2. \A q \in Procs : "w" \notin holds[q] /\ (pc[q] = "close_w" => q = p)
      BY <2>1 DEF PipeInv, EndsOpen
    <3>3. ~\E q \in Procs : "w" \in holds'[q] \/ pc'[q] = "close_w"
      BY <3>1, <3>2
    <3>4. freed' = IF readopen' \/ writeopen' THEN 0 ELSE 1
      BY <3>1 DEF PipeInv, EndsOpen
    <3> QED
      BY <2>1, <3>1, <3>3, <3>4 DEF PipeInv, EndsOpen
  <2>2. CASE pc[p] = "close_r"
    <3>1. /\ readopen /\ ~readopen' /\ (writeopen' <=> writeopen) /\ holds' = holds
          /\ \A q \in Procs : pc'[q] = IF q = p THEN "idle"
                                       ELSE IF pc[q] = "w_asleep" THEN "w_lock" ELSE pc[q]
          /\ freed' = IF writeopen THEN freed ELSE freed + 1
      BY <2>2 DEF PipeInv, EndsOpen
    <3> HIDE DEF PipeClose
    <3>2. \A q \in Procs : "r" \notin holds[q] /\ (pc[q] = "close_r" => q = p)
      BY <2>2 DEF PipeInv, EndsOpen
    <3>3. ~\E q \in Procs : "r" \in holds'[q] \/ pc'[q] = "close_r"
      BY <3>1, <3>2
    <3>4. freed' = IF readopen' \/ writeopen' THEN 0 ELSE 1
      BY <3>1 DEF PipeInv, EndsOpen
    <3> QED
      BY <2>2, <3>1, <3>3, <3>4 DEF PipeInv, EndsOpen
  <2> QED
    BY <2>1, <2>2
<1>5. Progress'
  BY DEF PipeInv, TypeOK, LockHeld, Progress
<1> QED
  BY <1>1, <1>2, <1>3, <1>4, <1>5, Zenon DEF PipeInv

\* kill.
LEMMA KillInv ==
  ASSUME PipeInv, NEW p \in Killable, Kill(p)
  PROVE  PipeInv'
<1> USE ProcsAssumption DEF Kill, Goto, ring, ends, call, Empty, Ends, WritePCs, ReadPCs, ClosePCs,
        LockPCs
<1>a. p \in Procs
  BY ProcsAssumption
<1>1. TypeOK'
  BY <1>a, Zenon DEF PipeInv, TypeOK
<1>2. LockHeld'
  BY <1>a, Zenon DEF PipeInv, TypeOK, LockHeld
<1>3. Fits'
  BY <1>a DEF PipeInv, Count, Fits
<1>4. EndsOpen'
  BY <1>a DEF PipeInv, TypeOK, LockHeld, EndsOpen
<1>5. Progress'
  BY <1>a, Zenon DEF PipeInv, TypeOK, LockHeld, Progress
<1> QED
  BY <1>1, <1>2, <1>3, <1>4, <1>5, Zenon DEF PipeInv

----------------------------------------------------------------------------
\* PipeInv is inductive.
THEOREM PipeInvariant == Spec => []PipeInv
<1>1. Init => PipeInv
  <2> SUFFICES ASSUME Init PROVE PipeInv
    OBVIOUS
  <2> USE ProcsAssumption DEF Init, Ends, WritePCs, ReadPCs, ClosePCs, LockPCs
  <2>1. TypeOK
    BY Sizes DEF TypeOK
  <2>2. LockHeld /\ Progress
    BY DEF LockHeld, Progress
  <2>3. EndsOpen
    <3>1. \A p \in Procs : /\ "w" \in holds[p] <=> p \in Writers
                           /\ "r" \in holds[p] <=> p \in Readers
      OBVIOUS
    <3>2. PICK w \in Writers, r \in Readers : w \in Procs /\ r \in Procs
      OBVIOUS
    <3>3. (\E p \in Procs : "w" \in holds[p]) /\ (\E p \in Procs : "r" \in holds[p])
      BY <3>1, <3>2
    <3> QED
      BY <3>3 DEF EndsOpen
  <2>4. Fits
    <3>1. Count = 0
      BY <2>1, Sizes, AheadReaches DEF Count, TypeOK
    <3> QED
      BY <3>1, Sizes DEF Fits
  <2> QED
    BY <2>1, <2>2, <2>3, <2>4, Zenon DEF PipeInv
<1>2. PipeInv /\ [Next]_vars => PipeInv'
  <2>1. ASSUME PipeInv, UNCHANGED vars PROVE PipeInv'
    BY <2>1, Zenon DEF PipeInv, TypeOK, LockHeld, Fits, Count, EndsOpen, Progress, Empty,
           vars, ring, ends, call
  <2>2. ASSUME PipeInv, Next PROVE PipeInv'
    BY Zenon, <2>2, AcquireInv, WriteCallInv, WriteCheckInv, WriteFullInv, WriteByteInv,
       WriteFaultInv, WriteDoneInv, ReadCallInv, ReadCheckInv, ReadSleepInv, ReadByteInv,
       ReadEndInv, ReadDoneInv, FileCloseInv, PipeCloseInv, KillInv
    DEF Next, Step, User
  <2> QED
    BY <2>1, <2>2
<1> QED
  BY <1>1, <1>2, PTL DEF Spec

\* pipeclose: the page is freed once, and then nobody uses the pipe.
THEOREM PipeFreedOnce == Spec => []FreedOnce
<1>1. PipeInv => FreedOnce
  <2> SUFFICES ASSUME PipeInv PROVE FreedOnce
    OBVIOUS
  <2>1. freed = IF readopen \/ writeopen THEN 0 ELSE 1
    BY DEF PipeInv, EndsOpen
  <2>2. ASSUME freed = 1, NEW p \in Procs PROVE pc[p] = "idle" /\ holds[p] = {}
    <3>1. ~readopen /\ ~writeopen
      BY <2>1, <2>2
    <3>2. "r" \notin holds[p] /\ "w" \notin holds[p] /\ pc[p] \notin ClosePCs
      BY <3>1 DEF PipeInv, EndsOpen, ClosePCs
    <3>3. holds[p] = {}
      BY <3>2, Zenon DEF PipeInv, TypeOK, Ends
    <3>4. pc[p] \notin WritePCs /\ pc[p] \notin ReadPCs
      BY <3>2 DEF PipeInv, EndsOpen
    <3> QED
      BY <3>2, <3>3, <3>4, Zenon DEF PipeInv, TypeOK
  <2> QED
    BY <2>1, <2>2 DEF FreedOnce
<1> QED
  BY <1>1, PipeInvariant, PTL

\* piperead: only the copying loop comes to the end of the call.
LEMMA OnlyCopyEnds ==
  ASSUME PipeInv, Next, NEW p \in Procs, pc[p] # "r_done", pc'[p] = "r_done"
  PROVE  ReadByte(p) \/ ReadEnd(p)
<1> USE ProcsAssumption DEF PipeInv, TypeOK, Goto, WakeReaders, WakeWriters, WakeAndGoto
<1>1. ASSUME NEW q \in Procs, Step(q) PROVE ReadByte(p) \/ ReadEnd(p)
  BY <1>1, Zenon DEF Step, Acquire, WriteCheck, WriteFull, WriteByte, WriteFault, WriteDone,
         ReadCheck, ReadSleep, ReadByte, ReadEnd, ReadDone, PipeClose
<1>2. ASSUME NEW q \in Procs, User(q) PROVE FALSE
  BY <1>2, Zenon DEF User, WriteCall, ReadCall, FileClose
<1>3. ASSUME NEW q \in Killable, Kill(q) PROVE FALSE
  BY <1>3, Zenon DEF Kill
<1> QED
  BY <1>1, <1>2, <1>3, Zenon DEF Next

\* piperead: a read of at least one byte that has none to return found the write
\* end closed, or lost the byte it took to a failing copyout.
THEOREM EofAlwaysMeansClosed == Spec => EofMeansClosed
<1>1. ASSUME PipeInv, Next, NEW p \in Procs, pc[p] # "r_done", pc'[p] = "r_done",
             ~some'[p], left'[p] > 0
      PROVE  ~writeopen \/ nread' # nread
  <2>1. CASE ReadEnd(p)
    <3>1. ~some[p] /\ left[p] > 0
      BY <1>1, <2>1 DEF ReadEnd, call
    <3> QED
      BY <1>1, <2>1, <3>1 DEF PipeInv, TypeOK, Progress, ReadEnd
  <2>2. CASE ReadByte(p)
    <3>1. Count \in Nat /\ Count' = Count - 1 /\ nwrite' = nwrite
      BY <1>1, <2>2, RingTake, RingState DEF PipeInv, ReadByte
    <3> QED
      BY <3>1 DEF Count
  <2> QED
    BY <1>1, <2>1, <2>2, OnlyCopyEnds, Zenon
<1>2. PipeInv /\ [Next]_vars =>
        [\A p \in Procs : /\ pc[p] # "r_done" /\ pc'[p] = "r_done"
                          /\ ~some'[p] /\ left'[p] > 0
                          => ~writeopen \/ nread' # nread]_vars
  BY <1>1, Zenon
<1> QED
  BY <1>2, PipeInvariant, PTL DEF EofMeansClosed, Spec

----------------------------------------------------------------------------
\* The bytes in the ring, as a function on the numbers up to their count.
LEMMA ContentsAre ==
  ASSUME TypeOK, Fits
  PROVE  /\ Contents \in [1 .. Count -> Bytes] /\ Count \in Nat
         /\ \A k \in 1 .. Count : Contents[k] = data[(nread + k - 1) % PIPESIZE]
<1>1. Count \in 0 .. PIPESIZE
  BY RingState
<1>2. \A k \in 1 .. Count : (nread + k - 1) % PIPESIZE \in 0 .. PIPESIZE - 1
  BY <1>1, Sizes, DivMod DEF TypeOK
<1>3. Contents = [k \in 1 .. Count |-> data[(nread + k - 1) % PIPESIZE]]
  BY DEF Contents, Count, Ahead
<1>4. \A k \in 1 .. Count : data[(nread + k - 1) % PIPESIZE] \in Bytes
  BY <1>2 DEF TypeOK
<1> HIDE DEF Contents, Count
<1> QED
  BY <1>1, <1>3, <1>4

\* A sequence grows at its end: what Append gives, element by element.
LEMMA AppendIs ==
  ASSUME NEW S, NEW n \in Nat, NEW f \in [1 .. n -> S], NEW g \in [1 .. n + 1 -> S],
         \A k \in 1 .. n : g[k] = f[k]
  PROVE  g = Append(f, g[n + 1]) /\ Len(f) = n
OBVIOUS

\* A sequence shrinks at its front: what Tail and Head give, element by element.
LEMMA TailIs ==
  ASSUME NEW S, NEW n \in Nat \ {0}, NEW f \in [1 .. n -> S], NEW g \in [1 .. n - 1 -> S],
         \A k \in 1 .. n - 1 : g[k] = f[k + 1]
  PROVE  g = Tail(f) /\ Head(f) = f[1] /\ f # <<>>
OBVIOUS

\* pipewrite puts a byte at the end of the stream, where there is room for it:
\* the slot it stores to holds none of the bytes that are in the ring.
LEMMA WriteBytePuts ==
  ASSUME PipeInv, NEW p \in Procs, WriteByte(p)
  PROVE  \E b \in Bytes : Stream!Put(b)
<1>1. PICK b \in Bytes : data' = [data EXCEPT ![nwrite % PIPESIZE] = b]
  BY Zenon DEF WriteByte
<1>2. nread' = nread /\ nwrite' = (nwrite + 1) % Wrap /\ last' = last /\ ~Full
  BY DEF WriteByte
<1>3. Count' = Count + 1 /\ Count \in 0 .. PIPESIZE - 1 /\ Count \in Nat
  BY <1>2, RingPut, RingState, Sizes DEF PipeInv
<1>4. nwrite % PIPESIZE \in 0 .. PIPESIZE - 1 /\ nwrite % PIPESIZE = (nread + Count) % PIPESIZE
  <2>1. nread \in 0 .. Wrap - 1 /\ nwrite \in 0 .. Wrap - 1
    BY DEF PipeInv, TypeOK
  <2>2. nwrite % PIPESIZE = (nread + Count) % PIPESIZE
    BY <2>1, Sizes, SlotOf DEF Count
  <2> QED
    BY <2>2, RingState DEF PipeInv
<1>5. \A k \in 1 .. Count : /\ (nread + k - 1) % PIPESIZE \in 0 .. PIPESIZE - 1
                            /\ (nread + k - 1) % PIPESIZE # (nread + Count) % PIPESIZE
  <2> SUFFICES ASSUME NEW k \in 1 .. Count
               PROVE  /\ (nread + k - 1) % PIPESIZE \in 0 .. PIPESIZE - 1
                      /\ (nread + k - 1) % PIPESIZE # (nread + Count) % PIPESIZE
    OBVIOUS
  <2>1. nread + k - 1 = nread + (k - 1) /\ k - 1 \in Int /\ Count \in Int /\ nread \in Int
        /\ k - 1 # Count /\ (k - 1) - Count < PIPESIZE /\ Count - (k - 1) < PIPESIZE
    BY <1>3, Sizes DEF PipeInv, TypeOK
  <2>2. (nread + (k - 1)) % PIPESIZE # (nread + Count) % PIPESIZE
    BY <2>1, Sizes, SlotsApart, Zenon
  <2>3. (nread + k - 1) % PIPESIZE \in 0 .. PIPESIZE - 1
    BY Sizes, DivMod DEF PipeInv, TypeOK
  <2> QED
    BY <2>1, <2>2, <2>3, Zenon
<1>6. Contents' = [k \in 1 .. Count + 1 |-> data'[(nread + k - 1) % PIPESIZE]]
  BY <1>2, <1>3 DEF Contents, Count, Ahead
<1>7. \A k \in 1 .. Count : data'[(nread + k - 1) % PIPESIZE] = Contents[k] /\ Contents[k] \in Bytes
  BY <1>1, <1>4, <1>5, ContentsAre, Zenon DEF PipeInv, TypeOK
<1>8. data'[(nread + (Count + 1) - 1) % PIPESIZE] = b
  BY <1>1, <1>3, <1>4 DEF PipeInv, TypeOK
<1>9. Contents' \in [1 .. Count + 1 -> Bytes] /\ Contents'[Count + 1] = b
      /\ \A k \in 1 .. Count : Contents'[k] = Contents[k]
  <2>1. /\ Count + 1 \in 1 .. Count + 1 /\ \A k \in 1 .. Count : k \in 1 .. Count + 1
        /\ \A k \in 1 .. Count + 1 : k \in 1 .. Count \/ k = Count + 1
    BY <1>3
  <2>2. \A k \in 1 .. Count + 1 : data'[(nread + k - 1) % PIPESIZE] \in Bytes
    BY <1>7, <1>8, <2>1, Zenon
  <2>3. Contents' \in [1 .. Count + 1 -> Bytes]
    BY <1>6, <2>2, Zenon
  <2> QED
    BY <1>6, <1>7, <1>8, <2>1, <2>3, Zenon
<1>10. Contents' = Append(Contents, b) /\ Len(Contents) = Count
  BY <1>3, <1>9, ContentsAre, AppendIs, Zenon DEF PipeInv
<1>11. Len(Contents) < PIPESIZE
  BY <1>3, <1>10, Sizes
<1> QED
  BY <1>2, <1>10, <1>11, Zenon DEF Stream!Put

\* piperead takes the byte at the front of the stream.
LEMMA ReadByteTakes ==
  ASSUME PipeInv, NEW p \in Procs, ReadByte(p)
  PROVE  Stream!Take
<1>1. nread' = (nread + 1) % Wrap /\ nwrite' = nwrite /\ data' = data /\ ~Empty
      /\ last' = <<data[nread % PIPESIZE]>>
  BY DEF ReadByte
<1>2. Count' = Count - 1 /\ Count \in Nat \ {0}
  BY <1>1, RingTake, RingState, Sizes DEF PipeInv
<1>3. Contents' = [k \in 1 .. Count - 1 |-> data[(nread' + k - 1) % PIPESIZE]]
  BY <1>1, <1>2, Zenon DEF Contents, Count, Ahead
<1>4. \A k \in 1 .. Count - 1 : /\ (nread' + k - 1) % PIPESIZE = (nread + (k + 1) - 1) % PIPESIZE
                                /\ k + 1 \in 1 .. Count
  <2> SUFFICES ASSUME NEW k \in 1 .. Count - 1
               PROVE  (nread' + k - 1) % PIPESIZE = (nread + (k + 1) - 1) % PIPESIZE
    BY <1>2
  <2>1. PICK j \in Int : j = k - 1
    OBVIOUS
  <2>2. (((nread + 1) % Wrap) + j) % PIPESIZE = (nread + 1 + j) % PIPESIZE
    <3>1. nread + 1 \in Int
      BY DEF PipeInv, TypeOK
    <3>2. \A x \in Int, i \in Int : ((x % Wrap) + i) % PIPESIZE = (x + i) % PIPESIZE
      BY Sizes, SlotFrom, Zenon
    <3> QED
      BY <3>1, <3>2, Zenon
  <2>3. nread + 1 + j = nread + (k + 1) - 1 /\ nread' + j = nread' + k - 1
    BY <1>1, <2>1, Sizes, DivMod DEF PipeInv, TypeOK
  <2> QED
    BY <1>1, <2>2, <2>3, Zenon
<1>5. \A k \in 1 .. Count - 1 : /\ data[(nread' + k - 1) % PIPESIZE] = Contents[k + 1]
                                /\ Contents[k + 1] \in Bytes
  BY <1>2, <1>4, ContentsAre, Zenon DEF PipeInv
<1>6. Contents' \in [1 .. Count - 1 -> Bytes]
      /\ \A k \in 1 .. Count - 1 : Contents'[k] = Contents[k + 1]
  BY <1>2, <1>3, <1>5, Zenon
<1>7. Contents' = Tail(Contents) /\ Head(Contents) = Contents[1] /\ Contents # <<>>
  BY <1>2, <1>6, ContentsAre, TailIs DEF PipeInv
<1>8. Contents[1] = data[nread % PIPESIZE]
  BY <1>2, ContentsAre DEF PipeInv, TypeOK
<1> QED
  BY <1>1, <1>7, <1>8, Zenon DEF Stream!Take

\* pipewrite and piperead implement ByteStream: every byte comes out once and in
\* order, for every number of processes, ring size and width of the counters.
THEOREM PipeImplementsStream == Spec => InOrder
<1>1. Init => Stream!Init
  <2> SUFFICES ASSUME Init PROVE Stream!Init
    OBVIOUS
  <2>1. (nwrite - nread) % Wrap = 0
    BY Sizes, ModSmall DEF Init
  <2> QED
    BY <2>1 DEF Init, Contents, Stream!Init
<1>2. PipeInv /\ [Next]_vars => [Stream!Next]_<<Contents, last>>
  <2> SUFFICES ASSUME PipeInv, [Next]_vars, ~(\E p \in Procs : WriteByte(p) \/ ReadByte(p))
               PROVE  UNCHANGED <<Contents, last>>
    BY WriteBytePuts, ReadByteTakes DEF Stream!Next
  <2>1. UNCHANGED <<ring, last>>
    BY ProcsAssumption, Zenon DEF Next, Step, User, Acquire, WriteCall, WriteCheck, WriteFull,
           WriteFault, WriteDone, ReadCall, ReadCheck, ReadSleep, ReadEnd, ReadDone, FileClose,
           PipeClose, Kill, vars
  <2> QED
    BY <2>1 DEF ring, Contents
<1> QED
  BY <1>1, <1>2, PipeInvariant, PTL DEF Spec, InOrder, Stream!Spec

----------------------------------------------------------------------------
\* pipewrite, piperead and pipeclose: every step leaves the sleepers where
\* somebody will wake them.
LEMMA SleepersStep ==
  ASSUME PipeInv, PipeInv', SleepersServed, Next
  PROVE  SleepersServed'
<1> USE DEF WritePCs, ReadPCs, ClosePCs, LockPCs, Ends
<1>1. ASSUME NEW p \in Procs, Acquire(p) PROVE SleepersServed'
  BY <1>1 DEF PipeInv, TypeOK, LockHeld, SleepersServed, Empty, Full, Acquire, Goto, ring, ends,
         call
<1>2. ASSUME NEW p \in Procs, WriteCall(p) PROVE SleepersServed'
  BY <1>2 DEF PipeInv, TypeOK, LockHeld, SleepersServed, Empty, Full, WriteCall, Goto, ring, ends
<1>3. ASSUME NEW p \in Procs, WriteCheck(p) PROVE SleepersServed'
  <2>1. /\ pc[p] = "w_check" /\ \A q \in Procs : q # p => pc'[q] = pc[q]
        /\ UNCHANGED <<nread, nwrite, readopen, writeopen, some>>
    BY <1>3 DEF PipeInv, TypeOK, WriteCheck, Goto, ring, ends, call
  <2>2. \A q \in Procs : q # p => pc[q] \notin LockPCs
    BY <2>1 DEF PipeInv, LockHeld
  <2>3. ASSUME NEW r \in Procs, pc'[r] = "w_asleep" PROVE readopen' /\ Full'
    <3>1. r # p /\ pc[r] = "w_asleep"
      BY <1>3, <2>1, <2>3 DEF PipeInv, TypeOK, WriteCheck, Goto
    <3> QED
      BY <2>1, <2>2, <3>1 DEF SleepersServed, Full
  <2>4. ASSUME NEW r \in Procs, pc'[r] = "r_asleep"
        PROVE  /\ writeopen'
               /\ \/ Empty' \/ mute'
                  \/ \E q \in Procs :
                        pc'[q] = "w_done" \/ (pc'[q] \in {"w_check", "w_body"} /\ some'[q])
    <3>1. r # p /\ pc[r] = "r_asleep"
      BY <1>3, <2>1, <2>4 DEF PipeInv, TypeOK, WriteCheck, Goto
    <3>2. writeopen /\ (Empty \/ mute \/ some[p])
      BY <2>1, <2>2, <3>1 DEF SleepersServed
    <3>3. readopen
      BY <3>1 DEF PipeInv, EndsOpen
    <3>4. CASE left[p] > 0 /\ killed[p]
      <4>1. mute' = (mute \/ some[p])
        BY <1>3, <3>4, Zenon DEF WriteCheck
      <4> QED
        BY <2>1, <3>2, <4>1, Zenon DEF Empty
    <3>5. CASE ~(left[p] > 0 /\ killed[p])
      <4>1. mute' = mute /\ pc'[p] \in {"w_body", "w_done"}
        BY <1>3, <3>3, <3>5, Zenon DEF PipeInv, TypeOK, WriteCheck, Goto
      <4> QED
        BY <2>1, <3>2, <4>1, Zenon DEF Empty
    <3> QED
      BY <3>4, <3>5
  <2> QED
    BY <2>3, <2>4, Zenon DEF SleepersServed
<1>4. ASSUME NEW p \in Procs, WriteFull(p) PROVE SleepersServed'
  BY <1>4, Zenon DEF PipeInv, TypeOK, LockHeld, EndsOpen, Progress, SleepersServed, Empty, Full,
         WriteFull, WakeReaders, ring, ends, call, WakeAndGoto
<1>5. ASSUME NEW p \in Procs, WriteByte(p) PROVE SleepersServed'
  <2>1. \A q \in Procs : pc[q] \notin {"r_copy", "r_done"}
    BY <1>5 DEF PipeInv, LockHeld, WriteByte
  <2>2. \A q \in Procs : pc[q] # "w_asleep"
    BY <1>5, <2>1, Zenon DEF SleepersServed, WriteByte
  <2>3. /\ pc'[p] = "w_check" /\ \A q \in Procs : q # p => pc'[q] = pc[q]
        /\ some'[p] /\ UNCHANGED <<readopen, writeopen>>
    BY <1>5 DEF PipeInv, TypeOK, WriteByte, Goto, Moved, ends
  <2> QED
    BY <2>2, <2>3 DEF SleepersServed
<1>6. ASSUME NEW p \in Procs, WriteFault(p) PROVE SleepersServed'
  BY <1>6, ZenonT(60) DEF PipeInv, TypeOK, LockHeld, SleepersServed, Empty, Full, WriteFault,
         Goto, ring, ends, call
<1>7. ASSUME NEW p \in Procs, WriteDone(p) PROVE SleepersServed'
  BY <1>7, Zenon DEF PipeInv, TypeOK, LockHeld, SleepersServed, Empty, Full, WriteDone,
         WakeReaders, ring, ends, call, WakeAndGoto
<1>8. ASSUME NEW p \in Procs, ReadCall(p) PROVE SleepersServed'
  BY <1>8 DEF PipeInv, TypeOK, LockHeld, SleepersServed, Empty, Full, ReadCall, Goto, ring, ends
<1>9. ASSUME NEW p \in Procs, ReadCheck(p) PROVE SleepersServed'
  BY <1>9 DEF PipeInv, TypeOK, LockHeld, SleepersServed, Empty, Full, ReadCheck, Goto, ring, ends,
         call
<1>10. ASSUME NEW p \in Procs, ReadSleep(p) PROVE SleepersServed'
  BY <1>10 DEF PipeInv, TypeOK, LockHeld, EndsOpen, Progress, SleepersServed, Empty, Full,
         ReadSleep, Goto, ring, ends, call
<1>11. ASSUME NEW p \in Procs, ReadByte(p) PROVE SleepersServed'
  BY <1>11 DEF PipeInv, TypeOK, LockHeld, SleepersServed, Empty, Full, ReadByte, Goto, Moved,
         ends, call
<1>12. ASSUME NEW p \in Procs, ReadEnd(p) PROVE SleepersServed'
  BY <1>12 DEF PipeInv, TypeOK, LockHeld, SleepersServed, Empty, Full, ReadEnd, Goto, ring, ends,
         call
<1>13. ASSUME NEW p \in Procs, ReadDone(p) PROVE SleepersServed'
  BY <1>13, Zenon DEF PipeInv, TypeOK, LockHeld, SleepersServed, Empty, Full, ReadDone,
         WakeWriters, ring, ends, call, WakeAndGoto
<1>14. ASSUME NEW p \in Procs, NEW e \in Ends, FileClose(p, e) PROVE SleepersServed'
  BY <1>14 DEF PipeInv, TypeOK, LockHeld, SleepersServed, Empty, Full, FileClose, Goto, ring, call
<1>15. ASSUME NEW p \in Procs, PipeClose(p) PROVE SleepersServed'
  BY <1>15 DEF PipeInv, TypeOK, LockHeld, SleepersServed, Empty, Full, PipeClose, WakeReaders,
         WakeWriters, ring, call, WakeAndGoto
<1>16. ASSUME NEW p \in Killable, Kill(p) PROVE SleepersServed'
  BY <1>16, ProcsAssumption DEF PipeInv, TypeOK, LockHeld, SleepersServed, Empty, Full, Kill,
         Goto, ring, ends, call
<1> QED
  BY Zenon, <1>1, <1>2, <1>3, <1>4, <1>5, <1>6, <1>7, <1>8, <1>9, <1>10, <1>11, <1>12, <1>13,
     <1>14, <1>15, <1>16
  DEF Next, Step, User

\* Who sleeps in piperead or pipewrite has reason to, for every number of readers
\* and writers, any of which may be killed: only a pipewrite that is killed after
\* it stored something leaves readers asleep on it.
THEOREM SleepersAlwaysServed == Spec => []NoSleepWhenReady
<1>1. Init => SleepersServed
  BY DEF Init, SleepersServed
<1>2. PipeInv /\ PipeInv' /\ SleepersServed /\ [Next]_vars => SleepersServed'
  <2>1. ASSUME SleepersServed, UNCHANGED vars PROVE SleepersServed'
    BY <2>1 DEF SleepersServed, Empty, Full, vars, ring, ends, call
  <2> QED
    BY <2>1, SleepersStep
<1>3. PipeInv /\ SleepersServed => NoSleepWhenReady
  BY ProcsAssumption DEF PipeInv, TypeOK, LockHeld, LockPCs, SleepersServed, NoSleepWhenReady
<1> QED
  BY <1>1, <1>2, <1>3, PipeInvariant, PTL DEF Spec
============================================================================
