---------------------------- MODULE Log_proofs ----------------------------
(***************************************************************************)
(* Proofs about Log, for any number of processes, blocks and contents and  *)
(* any sizes: LogInv is inductive, and with it the log implements          *)
(* AtomicDisk.                                                             *)
(***************************************************************************)
EXTENDS Log, FiniteSetTheorems, TLAPS

\* Leaves go to the SMT solver unless they name another prover.
USE SMTT(60)

\* The calls in progress are finitely many.
LEMMA InOpFinite == IsFiniteSet(InOp)
BY ProcsAssumption, FS_Subset, Zenon DEF InOp

\* log.outstanding is 0 exactly when no call is in progress.
LEMMA NoCallCounts ==
  ASSUME LogInv PROVE outstanding = 0 <=> InOp = {}
BY InOpFinite, FS_EmptySet, Zenon DEF LogInv, CountsCalls

\* While a call is between begin_op and end_op nobody commits, recovery
\* is over and the log on the disk is empty.
LEMMA DuringOp ==
  ASSUME LogInv, NEW p \in Procs, pc[p] = "op"
  PROVE  /\ ~Booting /\ ~committing /\ dlh = <<>>
         /\ outstanding \in Nat \ {0}
         /\ \A q \in Procs : pc[q] \in {"idle", "begin", "sleep", "op"}
<1>1. outstanding # 0
  BY NoCallCounts, Zenon DEF InOp
<1>2. ~committing /\ \A q \in Procs : pc[q] \notin CommitPCs
  BY <1>1, Zenon DEF LogInv, OneCommitter, Committers
<1>3. ~Booting
  BY ProcsAssumption, Zenon DEF LogInv, BootAlone, Booting
<1> QED
  BY <1>1, <1>2, <1>3, Zenon DEF LogInv, TypeOK, BootAlone, PhaseInv, BootPCs, CommitPCs, PCs

\* While p commits no call is in progress and nobody else commits.
LEMMA DuringCommit ==
  ASSUME LogInv, NEW p \in Procs, pc[p] \in CommitPCs
  PROVE  /\ ~Booting /\ committing /\ outstanding = 0 /\ InOp = {}
         /\ \A q \in Procs : /\ q # p => pc[q] \in {"idle", "begin", "sleep"}
                             /\ held[q] = NoBlock
<1>1. /\ committing /\ outstanding = 0
      /\ \A q \in Procs : q # p => pc[q] \notin CommitPCs
  BY Zenon DEF LogInv, OneCommitter, Committers
<1>2. InOp = {}
  BY <1>1, NoCallCounts, Zenon
<1>3. ~Booting
  BY <1>1, ProcsAssumption, Zenon DEF LogInv, BootAlone, Booting
<1> QED
  BY <1>1, <1>2, <1>3, Zenon DEF LogInv, TypeOK, BootAlone, BootPCs, CommitPCs, PCs, InOp,
         HeldInOp

\* While p runs recovery nobody else runs.
LEMMA DuringBoot ==
  ASSUME LogInv, NEW p \in Procs, pc[p] \in BootPCs
  PROVE  /\ Booting /\ ~committing /\ outstanding = 0 /\ InOp = {}
         /\ \A q \in Procs : /\ q # InitProc => pc[q] = "off"
                             /\ held[q] = NoBlock
         /\ \A b \in Blocks : Contents(b) = home[b] /\ pin[b] = 0
<1>1. Booting
  BY Zenon DEF LogInv, BootAlone
<1>2. ~committing /\ \A q \in Procs : q # InitProc => pc[q] = "off"
  BY <1>1, Zenon DEF LogInv, BootAlone
<1>3. InOp = {} /\ outstanding = 0
  BY <1>1, <1>2, NoCallCounts, Zenon DEF InOp, Booting
<1>4. \A q \in Procs : held[q] = NoBlock
  BY <1>3, Zenon DEF LogInv, HeldInOp, InOp
<1> QED
  BY <1>1, <1>2, <1>3, <1>4, Zenon DEF LogInv, BootAlone, PinnedUntilInstalled

\* The buffer of a block of the transaction that is not pinned agrees with the
\* disk: bget may recycle it.
LEMMA UnpinnedIsClean ==
  ASSUME LogInv, NEW b \in Blocks, pin[b] = 0, InLog(b)
  PROVE  Contents(b) = home[b]
<1>1. CASE Booting
  BY <1>1, Zenon DEF LogInv, BootAlone
<1>2. CASE ~Booting /\ InLog(b)
  <2>1. PICK i \in 1 .. Len(lh) : lh[i] = b
    BY <1>2, Zenon DEF InLog
  <2>2. ~OnlyCopy(b)
    BY <1>2 DEF LogInv, PinnedUntilInstalled
  <2>3. PICK r \in Procs : pc[r] = "install" /\ ~(tail[r] <= i)
    BY <2>1, <2>2, Zenon DEF OnlyCopy
  <2>4. home[b] = dlog[i] /\ dlog[i] = Contents(b)
    BY <2>1, <2>3 DEF LogInv, PhaseInv, Installed, TypeOK
  <2> QED BY <2>4, Zenon
<1> QED BY <1>1, <1>2, Zenon

\* install_trans works on an entry of the log, within the log area.
LEMMA TailInRange ==
  ASSUME TypeOK, LogInjective, NEW p \in Procs, CopyHome(p)
  PROVE  tail[p] \in 1 .. Len(lh) /\ tail[p] \in Slots /\ lh[tail[p]] \in Blocks
<1>1. tail[p] \in Nat \ {0} /\ lh \in Seq(Blocks)
  BY Zenon DEF TypeOK
<1>2. tail[p] <= Len(lh) /\ Len(lh) <= NLOG - 1
  BY Zenon DEF CopyHome, LogInjective
<1>3. Len(lh) \in Nat
  BY <1>1
<1>4. tail[p] \in 1 .. Len(lh)
  BY <1>1, <1>2, <1>3
<1>5. tail[p] \in Slots
  BY <1>1, <1>2, <1>3, SizeAssumption DEF Slots
<1>6. lh[tail[p]] \in Blocks
  BY <1>1, <1>4
<1> QED BY <1>4, <1>5, <1>6, Zenon

---------------------------------------------------------------------------
\* BeginOpSleep preserves the invariant.
LEMMA BeginOpSleepInv ==
  ASSUME LogInv, NEW p \in Procs, BeginOpSleep(p)
  PROVE  LogInv'
<1> USE DEF LogInv, disk
<1>1. TypeOK'
  BY Zenon DEF BeginOpSleep, TypeOK, PCs, Slots, NoSpace
<1>2. BootAlone'
  BY DEF BeginOpSleep, BootAlone, Booting, BootPCs, Contents, NoSpace, TypeOK
<1>3. CountsCalls'
  BY Zenon DEF BeginOpSleep, CountsCalls, InOp, NoSpace, TypeOK
<1>4. OneCommitter'
  BY Zenon DEF BeginOpSleep, OneCommitter, Committers, CommitPCs, NoSpace, TypeOK
<1>5. LogInjective'
  BY Zenon DEF BeginOpSleep, LogInjective, NoSpace, TypeOK
<1>6. HeldInOp'
  BY Zenon DEF BeginOpSleep, HeldInOp, NoSpace, TypeOK
<1>7. PhaseInv'
  BY DEF BeginOpSleep, PhaseInv, Installed, Booting, Contents, NoSpace, TypeOK
<1>8. PinnedUntilInstalled'
  BY DEF BeginOpSleep, PinnedUntilInstalled, OnlyCopy, Booting, NoSpace, TypeOK
<1> QED BY <1>1, <1>2, <1>3, <1>4, <1>5, <1>6, <1>7, <1>8, Zenon

\* BeginOpEnter preserves the invariant.
LEMMA BeginOpEnterInv ==
  ASSUME LogInv, NEW p \in Procs, BeginOpEnter(p)
  PROVE  LogInv'
<1> USE DEF LogInv, disk
<1>1. TypeOK'
  BY DEF BeginOpEnter, TypeOK, PCs, Slots, NoSpace
<1>2. BootAlone'
  BY DEF BeginOpEnter, BootAlone, Booting, BootPCs, Contents, NoSpace, TypeOK
<1>3. CountsCalls'
  <2>1. InOp' = InOp \cup {p} /\ p \notin InOp
    BY Zenon DEF BeginOpEnter, InOp, TypeOK
  <2> QED
    BY <2>1, InOpFinite, FS_AddElement, Zenon DEF BeginOpEnter, CountsCalls
<1>4. OneCommitter'
  BY Zenon DEF BeginOpEnter, OneCommitter, Committers, CommitPCs, NoSpace, TypeOK
<1>5. LogInjective'
  BY Zenon DEF BeginOpEnter, LogInjective, NoSpace, TypeOK
<1>6. HeldInOp'
  BY Zenon DEF BeginOpEnter, HeldInOp, NoSpace, TypeOK
<1>7. PhaseInv'
  BY DEF BeginOpEnter, PhaseInv, Installed, Booting, Contents, NoSpace, TypeOK
<1>8. PinnedUntilInstalled'
  BY DEF BeginOpEnter, PinnedUntilInstalled, OnlyCopy, Booting, NoSpace, TypeOK
<1> QED BY <1>1, <1>2, <1>3, <1>4, <1>5, <1>6, <1>7, <1>8, Zenon

\* Modify preserves the invariant.
LEMMA ModifyInv ==
  ASSUME LogInv, NEW p \in Procs, NEW b \in Blocks, NEW d \in Data, Modify(p, b, d)
  PROVE  LogInv'
<1> USE DEF LogInv, disk
<1>1. TypeOK'
  BY Zenon DEF Modify, TypeOK, PCs, Slots, IsHeld
<1>2. BootAlone'
  BY Zenon DEF Modify, BootAlone, Booting, BootPCs, Contents, IsHeld, TypeOK
<1>3. CountsCalls'
  BY Zenon DEF Modify, CountsCalls, InOp, IsHeld, TypeOK
<1>4. OneCommitter'
  BY Zenon DEF Modify, OneCommitter, Committers, CommitPCs, IsHeld, TypeOK
<1>5. LogInjective'
  BY Zenon DEF Modify, LogInjective, IsHeld, TypeOK
<1>6. HeldInOp'
  BY Zenon DEF Modify, HeldInOp, IsHeld, TypeOK
<1>7. PhaseInv'
  BY DuringOp, Zenon DEF Modify, PhaseInv, Booting
<1>8. PinnedUntilInstalled'
  BY Zenon DEF Modify, PinnedUntilInstalled, OnlyCopy, Booting, IsHeld, TypeOK
<1> QED BY <1>1, <1>2, <1>3, <1>4, <1>5, <1>6, <1>7, <1>8, Zenon

\* LogWrite preserves the invariant.
LEMMA LogWriteInv ==
  ASSUME LogInv, NEW p \in Procs, LogWrite(p)
  PROVE  LogInv'
<1> USE DEF LogInv, disk
<1>1. TypeOK'
  <2>1. held[p] \in Blocks
    BY Zenon DEF LogWrite, TypeOK
  <2>2. Append(lh, held[p]) \in Seq(Blocks)
    BY <2>1 DEF TypeOK
  <2>3. lh' \in Seq(Blocks)
    BY <2>2, Zenon DEF LogWrite, TypeOK
  <2>4. pin' \in [Blocks -> Nat]
    <3>1. pin' = pin \/ pin' = [pin EXCEPT ![held[p]] = @ + 1]
      BY Zenon DEF LogWrite
    <3> QED BY <2>1, <3>1 DEF TypeOK
  <2>5. wrote' \in [Procs -> SUBSET Blocks]
    <3>1. wrote' = wrote \/ wrote' = [wrote EXCEPT ![p] = @ \cup {held[p]}]
      BY Zenon DEF LogWrite
    <3>2. wrote[p] \cup {held[p]} \in SUBSET Blocks
      BY <2>1, Zenon DEF TypeOK
    <3> QED BY <3>1, <3>2, Zenon DEF TypeOK
  <2>6. held' \in [Procs -> Blocks \cup {NoBlock}]
    BY Zenon DEF LogWrite, TypeOK
  <2> QED
    BY <2>3, <2>4, <2>5, <2>6, Zenon DEF LogWrite, TypeOK
<1>2. BootAlone'
  BY Zenon DEF LogWrite, BootAlone, Booting, BootPCs, Contents, InLog, TooBig, TypeOK
<1>3. CountsCalls'
  BY Zenon DEF LogWrite, CountsCalls, InOp, InLog, TooBig, TypeOK
<1>4. OneCommitter'
  BY Zenon DEF LogWrite, OneCommitter, Committers, CommitPCs, InLog, TooBig, TypeOK
<1>5. LogInjective'
  <2>1. CASE TooBig \/ outstanding < 1
    BY <2>1, Zenon DEF LogWrite, LogInjective
  <2>2. CASE ~(TooBig \/ outstanding < 1) /\ InLog(held[p])
    BY <2>2, DataAssumption, Zenon DEF LogWrite, LogInjective
  <2>3. CASE ~(TooBig \/ outstanding < 1) /\ ~InLog(held[p])
    <3>1. lh' = Append(lh, held[p]) /\ dlh' = dlh /\ held[p] \in Blocks
      BY <2>3, Zenon DEF LogWrite, TypeOK
    <3>2. Len(lh') = Len(lh) + 1 /\ Len(lh) \in Nat
      BY <3>1 DEF TypeOK
    <3>3. \A i \in 1 .. Len(lh) : lh'[i] = lh[i] /\ lh[i] # held[p]
      BY <2>3, <3>1 DEF InLog, TypeOK
    <3>4. lh'[Len(lh) + 1] = held[p]
      BY <3>1 DEF TypeOK
    <3>5. Len(lh') <= LOGSIZE /\ Len(lh') <= NLOG - 1
      BY <2>3, <3>2, SizeAssumption DEF TooBig
    <3>6. \A i, j \in 1 .. Len(lh') : lh'[i] = lh'[j] => i = j
      BY <3>2, <3>3, <3>4 DEF LogInjective
    <3> QED BY <3>1, <3>5, <3>6, Zenon DEF LogInjective
  <2> QED BY <2>1, <2>2, <2>3, Zenon
<1>6. HeldInOp'
  BY Zenon DEF LogWrite, HeldInOp, InLog, TooBig, TypeOK
<1>7. PhaseInv'
  BY DuringOp, Zenon DEF LogWrite, PhaseInv, Installed, Booting, Contents, InLog, TooBig, TypeOK
<1>8. PinnedUntilInstalled'
  <2>1. ~Booting /\ ~Booting' /\ \A q \in Procs : pc[q] # "install" /\ pc'[q] # "install"
    BY DuringOp, Zenon DEF LogWrite, Booting
  <2>2. \A c \in Blocks : (OnlyCopy(c) <=> InLog(c)) /\ (OnlyCopy(c)' <=> InLog(c)')
    BY <2>1, Zenon DEF OnlyCopy, InLog
  <2>3. CASE lh' = lh /\ pin' = pin
    BY <2>1, <2>2, <2>3 DEF InLog, PinnedUntilInstalled
  <2>4. CASE /\ lh' = Append(lh, held[p]) /\ ~InLog(held[p])
             /\ pin' = [pin EXCEPT ![held[p]] = @ + 1]
    <3>1. held[p] \in Blocks
      BY Zenon DEF LogWrite, TypeOK
    <3>2. \A c \in Blocks : InLog(c)' <=> InLog(c) \/ c = held[p]
      <4>1. Len(lh') = Len(lh) + 1 /\ Len(lh) \in Nat /\ lh'[Len(lh) + 1] = held[p]
        BY <2>4, <3>1 DEF TypeOK
      <4>2. \A i \in 1 .. Len(lh) : lh'[i] = lh[i]
        BY <2>4, <3>1 DEF TypeOK
      <4> QED BY <4>1, <4>2 DEF InLog
    <3>3. pin[held[p]] = 0
      BY <2>1, <2>2, <2>4, <3>1, Zenon DEF PinnedUntilInstalled
    <3> QED
      BY <2>1, <2>2, <2>4, <3>1, <3>2, <3>3 DEF PinnedUntilInstalled, TypeOK
  <2> QED BY <2>3, <2>4, Zenon DEF LogWrite
<1> QED BY <1>1, <1>2, <1>3, <1>4, <1>5, <1>6, <1>7, <1>8, Zenon

\* ReleaseUnlogged preserves the invariant.
LEMMA ReleaseUnloggedInv ==
  ASSUME LogInv, NEW p \in Procs, ReleaseUnlogged(p)
  PROVE  LogInv'
<1> USE DEF LogInv, disk
<1>1. TypeOK'
  BY Zenon DEF ReleaseUnlogged, TypeOK
<1>2. BootAlone'
  BY Zenon DEF ReleaseUnlogged, BootAlone, Booting, Contents
<1>3. CountsCalls' /\ OneCommitter' /\ LogInjective'
  BY Zenon DEF ReleaseUnlogged, CountsCalls, InOp, OneCommitter, Committers, LogInjective
<1>4. HeldInOp'
  BY Zenon DEF ReleaseUnlogged, HeldInOp, TypeOK
<1>5. \A q \in Procs : Installed(q)' <=> Installed(q)
  BY Zenon DEF ReleaseUnlogged, Installed
<1>6. PhaseInv'
  BY <1>5, Zenon DEF ReleaseUnlogged, PhaseInv, Booting, Contents
<1>7. PinnedUntilInstalled'
  BY Zenon DEF ReleaseUnlogged, PinnedUntilInstalled, OnlyCopy, Booting
<1> QED BY <1>1, <1>2, <1>3, <1>4, <1>6, <1>7, Zenon

\* EndOp preserves the invariant.
LEMMA EndOpInv ==
  ASSUME LogInv, NEW p \in Procs, EndOp(p)
  PROVE  LogInv'
<1> USE DEF LogInv, disk
<1>1. TypeOK'
  <2>1. outstanding - 1 \in Nat
    BY DuringOp DEF EndOp
  <2>2. CASE outstanding' = 0
    <3>1. pc' \in [Procs -> PCs]
      BY <2>2, DuringOp, Zenon DEF EndOp, PCs, TypeOK
    <3>2. tail' \in [Procs -> Nat \ {0}]
      BY <2>2, DuringOp DEF EndOp, TypeOK
    <3> QED BY <2>1, <2>2, <3>1, <3>2, DuringOp, Zenon DEF EndOp, TypeOK
  <2>3. CASE outstanding' # 0
    <3>1. pc' \in [Procs -> PCs]
      BY <2>3, DuringOp, Zenon DEF EndOp, Woken, PCs, TypeOK
    <3> QED BY <2>1, <2>3, <3>1, DuringOp, Zenon DEF EndOp, TypeOK
  <2> QED BY <2>2, <2>3, Zenon
<1>2. BootAlone'
  BY ProcsAssumption, Zenon DEF EndOp, BootAlone, Booting, BootPCs, Contents, Woken, TypeOK
<1>3. CountsCalls'
  <2>1. InOp' = InOp \ {p} /\ p \in InOp
    BY DuringOp, Zenon DEF EndOp, Woken, InOp, TypeOK
  <2> QED
    BY <2>1, InOpFinite, FS_RemoveElement, Zenon DEF EndOp, CountsCalls
<1>4. OneCommitter'
  <2>1. CASE outstanding' = 0
    <3>1. committing' /\ Committers' = {p}
      BY <2>1, DuringOp, ZenonT(60) DEF EndOp, Committers, CommitPCs, TypeOK
    <3> QED BY <2>1, <3>1, Zenon DEF OneCommitter
  <2>2. CASE outstanding' # 0
    <3>1. ~committing' /\ Committers' = {}
      BY <2>2, DuringOp, Zenon DEF EndOp, Woken, Committers, CommitPCs, TypeOK
    <3> QED BY <3>1, Zenon DEF OneCommitter
  <2> QED BY <2>1, <2>2, Zenon
<1>5. LogInjective'
  BY Zenon DEF EndOp, LogInjective, Woken, TypeOK
<1>6. HeldInOp'
  BY Zenon DEF EndOp, HeldInOp, Woken, TypeOK
<1>7. PhaseInv'
  <2>1. dlh' = <<>> /\ lh' = lh
    BY DuringOp, Zenon DEF EndOp
  <2>2. \A q \in Procs : q # p => pc'[q] \in {"idle", "begin", "sleep", "op"}
    BY DuringOp, Zenon DEF EndOp, Woken, TypeOK
  <2>3. \/ pc'[p] = "idle"
        \/ pc'[p] = "end" /\ lh = <<>>
        \/ pc'[p] = "write_log" /\ tail'[p] = 1
    BY DuringOp, Zenon DEF EndOp, Woken, TypeOK
  <2>4. Len(lh) \in Nat
    BY DEF TypeOK
  <2> QED
    BY <2>1, <2>2, <2>3, <2>4 DEF PhaseInv
<1>8. PinnedUntilInstalled'
  <2>1. ~Booting' /\ \A q \in Procs : pc[q] # "install" /\ pc'[q] # "install"
    BY ProcsAssumption, DuringOp, Zenon DEF EndOp, Woken, Booting, TypeOK
  <2>2. \A b \in Blocks : OnlyCopy(b)' <=> OnlyCopy(b)
    BY <2>1, Zenon DEF EndOp, OnlyCopy
  <2> QED
    BY <2>1, <2>2, DuringOp, Zenon DEF EndOp, PinnedUntilInstalled
<1> QED BY <1>1, <1>2, <1>3, <1>4, <1>5, <1>6, <1>7, <1>8, Zenon

\* WriteLog preserves the invariant.
LEMMA WriteLogInv ==
  ASSUME LogInv, NEW p \in Procs, WriteLog(p)
  PROVE  LogInv'
<1> USE DEF LogInv, disk
<1>1. TypeOK'
  <2>1. tail[p] \in 1 .. Len(lh) /\ lh[tail[p]] \in Blocks
    BY DEF WriteLog, TypeOK
  <2>2. Contents(lh[tail[p]]) \in Data
    BY <2>1, Zenon DEF Contents, TypeOK
  <2>3. dlog' \in [Slots -> Data]
    BY <2>2, Zenon DEF WriteLog, TypeOK
  <2>4. tail' \in [Procs -> Nat \ {0}]
    BY DEF WriteLog, TypeOK
  <2> QED
    BY <2>3, <2>4, Zenon DEF WriteLog, TypeOK
<1>2. BootAlone'
  BY Zenon DEF WriteLog, BootAlone, Booting, BootPCs, Contents, TypeOK
<1>3. CountsCalls'
  BY Zenon DEF WriteLog, CountsCalls, InOp, Contents, TypeOK
<1>4. OneCommitter'
  BY Zenon DEF WriteLog, OneCommitter, Committers, CommitPCs, Contents, TypeOK
<1>5. LogInjective'
  BY Zenon DEF WriteLog, LogInjective, Contents, TypeOK
<1>6. HeldInOp'
  BY Zenon DEF WriteLog, HeldInOp, Contents, TypeOK
<1>7. PhaseInv'
  <2>1. tail[p] \in 1 .. Len(lh) /\ tail[p] \in Slots
    BY SizeAssumption DEF WriteLog, TypeOK, LogInjective, Slots
  <2>2. \A q \in Procs : pc'[q] = "write_log" \/ pc'[q] \in {"idle", "begin", "sleep"}
    BY DuringCommit, Zenon DEF WriteLog, CommitPCs
  <2>3. \A q \in Procs : pc'[q] = "write_log" => q = p
    BY DuringCommit, Zenon DEF WriteLog, CommitPCs
  <2>4. \A i \in 1 .. Len(lh) : i < tail[p] + 1 => dlog'[i] = Contents(lh[i])
    <3>1. \A i \in 1 .. Len(lh) : i \in Slots
      BY SizeAssumption DEF LogInjective, Slots, TypeOK
    <3>2. \A i \in 1 .. Len(lh) : i < tail[p] => dlog[i] = Contents(lh[i])
      BY Zenon DEF WriteLog, PhaseInv
    <3>3. ASSUME NEW i \in 1 .. Len(lh), i < tail[p] + 1
          PROVE  dlog'[i] = Contents(lh[i])
      <4>1. i = tail[p] \/ (i # tail[p] /\ i < tail[p])
        BY <2>1, <3>3
      <4>2. dlog' = [dlog EXCEPT ![tail[p]] = Contents(lh[tail[p]])]
        BY Zenon DEF WriteLog
      <4> QED
        BY <2>1, <3>1, <3>2, <4>1, <4>2, Zenon DEF TypeOK
    <3> QED BY <3>3, Zenon
  <2>5. \A b : Contents(b)' = Contents(b)
    BY Zenon DEF WriteLog, Contents
  <2>6. committing' /\ dlh' = <<>> /\ lh' = lh /\ tail'[p] = tail[p] + 1
    BY DuringCommit, Zenon DEF WriteLog, CommitPCs, PhaseInv, TypeOK
  <2> QED
    BY <2>1, <2>2, <2>3, <2>4, <2>5, <2>6 DEF PhaseInv
<1>8. PinnedUntilInstalled'
  BY Zenon DEF WriteLog, PinnedUntilInstalled, OnlyCopy, Booting, Contents, TypeOK
<1> QED BY <1>1, <1>2, <1>3, <1>4, <1>5, <1>6, <1>7, <1>8, Zenon

\* WriteHead preserves the invariant.
LEMMA WriteHeadInv ==
  ASSUME LogInv, NEW p \in Procs, WriteHead(p)
  PROVE  LogInv'
<1> USE DEF LogInv, disk
<1>1. TypeOK'
  BY DEF WriteHead, TypeOK, PCs, Slots
<1>2. BootAlone'
  BY DEF WriteHead, BootAlone, Booting, BootPCs, Contents, TypeOK
<1>3. CountsCalls'
  BY Zenon DEF WriteHead, CountsCalls, InOp, TypeOK
<1>4. OneCommitter'
  BY Zenon DEF WriteHead, OneCommitter, Committers, CommitPCs, TypeOK
<1>5. LogInjective'
  BY Zenon DEF WriteHead, LogInjective, TypeOK
<1>6. HeldInOp'
  BY Zenon DEF WriteHead, HeldInOp, TypeOK
<1>7. PhaseInv'
  <2>1. \A q \in Procs : q # p => pc'[q] \in {"idle", "begin", "sleep"}
    BY DuringCommit DEF WriteHead, CommitPCs
  <2>2. /\ pc'[p] = "install" /\ committing' /\ dlh' = lh /\ lh' = lh /\ tail'[p] = 1
        /\ dlog' = dlog /\ home' = home
    BY DuringCommit, Zenon DEF WriteHead, CommitPCs, TypeOK
  <2>3. \A b : Contents(b)' = Contents(b)
    BY Zenon DEF WriteHead, Contents
  <2>4. \A i \in 1 .. Len(lh) : dlog[i] = Contents(lh[i])
    BY DEF WriteHead, PhaseInv, TypeOK
  <2>5. Installed(p)'
    BY <2>2 DEF Installed, TypeOK
  <2> QED
    BY <2>1, <2>2, <2>3, <2>4, <2>5, Zenon DEF PhaseInv
<1>8. PinnedUntilInstalled'
  BY DEF WriteHead, PinnedUntilInstalled, OnlyCopy, Booting, TypeOK
<1> QED BY <1>1, <1>2, <1>3, <1>4, <1>5, <1>6, <1>7, <1>8, Zenon

\* Install preserves the invariant.
LEMMA InstallInv ==
  ASSUME LogInv, NEW p \in Procs, Install(p)
  PROVE  LogInv'
<1> USE DEF LogInv, disk
<1>1. TypeOK'
  <2>1. tail[p] \in 1 .. Len(lh) /\ tail[p] \in Slots /\ lh[tail[p]] \in Blocks
    BY TailInRange, Zenon DEF Install
  <2>2. dlog[tail[p]] \in Data
    BY <2>1, Zenon DEF TypeOK
  <2>3. OnlyCopy(lh[tail[p]])
    <3>1. \A q \in Procs : pc[q] = "install" => q = p
      BY DuringCommit, Zenon DEF Install, CommitPCs
    <3>2. tail[p] \in Int /\ \A q \in Procs : pc[q] = "install" => tail[q] <= tail[p]
      BY <2>1, <3>1 DEF TypeOK
    <3> QED
      BY <2>1, <3>2, Zenon DEF OnlyCopy
  <2>4. pin[lh[tail[p]]] = 1
    BY <2>1, <2>3, DuringCommit, Zenon DEF Install, PinnedUntilInstalled, CommitPCs
  <2> QED
    BY <2>1, <2>2, <2>4 DEF Install, CopyHome, TypeOK
<1>2. BootAlone'
  BY Zenon DEF Install, BootAlone, Booting, BootPCs, Contents, CopyHome, TypeOK
<1>3. CountsCalls'
  BY Zenon DEF Install, CountsCalls, InOp, CopyHome, TypeOK
<1>4. OneCommitter'
  BY Zenon DEF Install, OneCommitter, Committers, CommitPCs, CopyHome, TypeOK
<1>5. LogInjective'
  BY Zenon DEF Install, LogInjective, CopyHome, TypeOK
<1>6. HeldInOp'
  BY Zenon DEF Install, HeldInOp, CopyHome, TypeOK
<1>7. PhaseInv'
  <2>1. tail[p] \in 1 .. Len(lh) /\ tail[p] \in Slots /\ lh[tail[p]] \in Blocks
    BY TailInRange, Zenon DEF Install
  <2>2. \A q \in Procs : q # p => pc'[q] \in {"idle", "begin", "sleep"}
    BY DuringCommit, Zenon DEF Install, CommitPCs
  <2>3. \A i \in 1 .. Len(lh) : i # tail[p] => lh[i] # lh[tail[p]]
    BY <2>1, Zenon DEF LogInjective
  <2>4. /\ pc'[p] = "install" /\ committing' /\ dlh' = lh /\ lh' = lh /\ dlog' = dlog
        /\ tail'[p] = tail[p] + 1
    BY DuringCommit, Zenon DEF Install, CopyHome, CommitPCs, PhaseInv, Installed, TypeOK
  <2>5. \A i \in 1 .. Len(lh) : dlog[i] = Contents(lh[i])
    BY Zenon DEF Install, PhaseInv
  <2>6. \A i \in 1 .. Len(lh) : lh[i] \in Blocks
    BY DEF TypeOK
  <2>7. dlog[tail[p]] \in Data
    BY <2>1, Zenon DEF TypeOK
  <2>8. \A i \in 1 .. Len(lh) : dlog[i] = Contents(lh[i])'
    BY <2>1, <2>3, <2>5, <2>6, <2>7, DataAssumption, Zenon DEF Install, CopyHome, Contents, TypeOK
  <2>9. \A i \in 1 .. Len(lh) : i < tail[p] + 1 => home'[lh[i]] = dlog[i]
    <3>1. \A i \in 1 .. Len(lh) : i < tail[p] => home[lh[i]] = dlog[i]
      BY Zenon DEF Install, PhaseInv, Installed
    <3>2. home' = [home EXCEPT ![lh[tail[p]]] = dlog[tail[p]]]
      BY Zenon DEF Install, CopyHome
    <3>3. ASSUME NEW i \in 1 .. Len(lh), i < tail[p] + 1
          PROVE  home'[lh[i]] = dlog[i]
      <4>1. i = tail[p] \/ (i # tail[p] /\ i < tail[p])
        BY <2>1, <3>3
      <4> QED
        BY <2>1, <2>3, <2>6, <3>1, <3>2, <4>1, Zenon DEF TypeOK
    <3> QED BY <3>3, Zenon
  <2>10. Installed(p)'
    BY <2>1, <2>4, <2>9 DEF Installed
  <2> QED
    BY <2>2, <2>4, <2>8, <2>10, Zenon DEF PhaseInv
<1>8. PinnedUntilInstalled'
  <2>1. tail[p] \in 1 .. Len(lh) /\ tail[p] \in Slots /\ lh[tail[p]] \in Blocks
    BY TailInRange, Zenon DEF Install
  <2>2. \A q \in Procs : q # p => pc'[q] \in {"idle", "begin", "sleep"} /\ pc[q] = pc'[q]
    BY DuringCommit, Zenon DEF Install, CommitPCs
  <2>3. \A i \in 1 .. Len(lh) : i # tail[p] => lh[i] # lh[tail[p]]
    BY <2>1, Zenon DEF LogInjective
  <2>4. pc[p] = "install" /\ pc' = pc /\ lh' = lh /\ tail'[p] = tail[p] + 1 /\ tail[p] \in Nat
    BY Zenon DEF Install, CopyHome, TypeOK
  <2>5. ~Booting /\ ~Booting'
    BY <2>4, DuringCommit, Zenon DEF Booting, CommitPCs
  <2>6. \A c \in Blocks : OnlyCopy(c) <=> \E i \in 1 .. Len(lh) : lh[i] = c /\ tail[p] <= i
    BY <2>2, <2>4, Zenon DEF OnlyCopy
  <2>7. \A c \in Blocks : OnlyCopy(c)' <=> \E i \in 1 .. Len(lh) : lh[i] = c /\ tail[p] + 1 <= i
    BY <2>2, <2>4, Zenon DEF OnlyCopy
  <2> SUFFICES ASSUME NEW c \in Blocks
               PROVE  pin'[c] = IF OnlyCopy(c)' THEN 1 ELSE 0
    BY <2>5, Zenon DEF PinnedUntilInstalled
  <2>8. CASE c = lh[tail[p]]
    <3>1. OnlyCopy(c) /\ ~OnlyCopy(c)'
      BY <2>1, <2>3, <2>4, <2>6, <2>7, <2>8
    <3>2. pin[c] = 1 /\ pin'[c] = pin[c] - 1
      BY <2>5, <2>8, <3>1, Zenon DEF PinnedUntilInstalled, Install, TypeOK
    <3> QED BY <3>1, <3>2
  <2>9. CASE c # lh[tail[p]]
    <3>1. \A i \in 1 .. Len(lh) : lh[i] = c => (tail[p] <= i <=> tail[p] + 1 <= i)
      BY <2>1, <2>4, <2>9
    <3>2. OnlyCopy(c)' <=> OnlyCopy(c)
      BY <2>6, <2>7, <3>1, Zenon
    <3>3. pin'[c] = pin[c]
      BY <2>1, <2>9, Zenon DEF Install, TypeOK
    <3> QED BY <2>5, <3>2, <3>3, Zenon DEF PinnedUntilInstalled
  <2> QED BY <2>8, <2>9, Zenon
<1> QED BY <1>1, <1>2, <1>3, <1>4, <1>5, <1>6, <1>7, <1>8, Zenon

\* CommitErase preserves the invariant.
LEMMA CommitEraseInv ==
  ASSUME LogInv, NEW p \in Procs, CommitErase(p)
  PROVE  LogInv'
<1> USE DEF LogInv, disk
<1>1. TypeOK'
  BY DEF CommitErase, TypeOK, PCs, Slots, EraseLog
<1>2. BootAlone'
  BY DEF CommitErase, BootAlone, Booting, BootPCs, Contents, EraseLog, TypeOK
<1>3. CountsCalls'
  BY Zenon DEF CommitErase, CountsCalls, InOp, EraseLog, TypeOK
<1>4. OneCommitter'
  BY Zenon DEF CommitErase, OneCommitter, Committers, CommitPCs, EraseLog, TypeOK
<1>5. LogInjective'
  BY ProcsAssumption, DataAssumption, SizeAssumption, DuringCommit
  DEF CommitErase, LogInjective, EraseLog, CommitPCs, TypeOK
<1>6. HeldInOp'
  BY Zenon DEF CommitErase, HeldInOp, EraseLog, TypeOK
<1>7. PhaseInv'
  <2>1. \A q \in Procs : q # p => pc'[q] \in {"idle", "begin", "sleep"}
    BY DuringCommit DEF CommitErase, CommitPCs
  <2>2. pc'[p] = "end" /\ lh' = <<>> /\ dlh' = <<>>
    BY Zenon DEF CommitErase, EraseLog, TypeOK
  <2> QED
    BY <2>1, <2>2, Zenon DEF PhaseInv
<1>8. PinnedUntilInstalled'
  BY DEF CommitErase, PinnedUntilInstalled, OnlyCopy, Booting, EraseLog, TypeOK
<1> QED BY <1>1, <1>2, <1>3, <1>4, <1>5, <1>6, <1>7, <1>8, Zenon

\* EndCommit preserves the invariant.
LEMMA EndCommitInv ==
  ASSUME LogInv, NEW p \in Procs, EndCommit(p)
  PROVE  LogInv'
<1> USE DEF LogInv, disk
<1>1. TypeOK'
  BY Zenon DEF EndCommit, TypeOK, PCs, Slots, Woken
<1>2. BootAlone'
  BY ProcsAssumption, Zenon DEF EndCommit, BootAlone, Booting, BootPCs, Contents, Woken, TypeOK
<1>3. CountsCalls'
  BY Zenon DEF EndCommit, CountsCalls, InOp, Woken, TypeOK
<1>4. OneCommitter'
  BY Zenon DEF EndCommit, OneCommitter, Committers, CommitPCs, Woken, TypeOK
<1>5. LogInjective'
  BY Zenon DEF EndCommit, LogInjective, Woken, TypeOK
<1>6. HeldInOp'
  BY Zenon DEF EndCommit, HeldInOp, Woken, TypeOK
<1>7. PhaseInv'
  BY DEF EndCommit, PhaseInv, Installed, Booting, Contents, Woken, TypeOK
<1>8. PinnedUntilInstalled'
  BY ProcsAssumption, Zenon DEF EndCommit, PinnedUntilInstalled, OnlyCopy, Booting, Woken, TypeOK
<1> QED BY <1>1, <1>2, <1>3, <1>4, <1>5, <1>6, <1>7, <1>8, Zenon

\* ReadHead preserves the invariant.
LEMMA ReadHeadInv ==
  ASSUME LogInv, NEW p \in Procs, ReadHead(p)
  PROVE  LogInv'
<1> USE DEF LogInv, disk
<1>1. TypeOK'
  BY Zenon DEF ReadHead, TypeOK, PCs, Slots
<1>2. BootAlone'
  BY Zenon DEF ReadHead, BootAlone, Booting, BootPCs, Contents, TypeOK
<1>3. CountsCalls'
  BY Zenon DEF ReadHead, CountsCalls, InOp, TypeOK
<1>4. OneCommitter'
  BY Zenon DEF ReadHead, OneCommitter, Committers, CommitPCs, TypeOK
<1>5. LogInjective'
  BY Zenon DEF ReadHead, LogInjective, TypeOK
<1>6. HeldInOp'
  BY Zenon DEF ReadHead, HeldInOp, TypeOK
<1>7. PhaseInv'
  <2>1. p = InitProc /\ pc'[p] = "recover" /\ Booting'
    BY DuringBoot, Zenon DEF ReadHead, BootPCs, Booting, TypeOK
  <2>2. \A q \in Procs : q # p => pc'[q] = "off"
    BY <2>1, DuringBoot, Zenon DEF ReadHead, BootPCs, TypeOK
  <2>3. lh' = dlh' /\ tail'[p] = 1
    BY Zenon DEF ReadHead, PhaseInv
  <2>4. Installed(p)'
    BY <2>3 DEF Installed, ReadHead, TypeOK
  <2> QED
    BY <2>1, <2>2, <2>4, Zenon DEF PhaseInv
<1>8. PinnedUntilInstalled'
  <2>1. Booting' /\ pin' = pin
    BY DuringBoot, Zenon DEF ReadHead, BootPCs, Booting, TypeOK
  <2>2. \A b \in Blocks : pin[b] = 0
    BY DuringBoot, Zenon DEF ReadHead, BootPCs
  <2> QED
    BY <2>1, <2>2, Zenon DEF PinnedUntilInstalled
<1> QED BY <1>1, <1>2, <1>3, <1>4, <1>5, <1>6, <1>7, <1>8, Zenon

\* RecoverInstall preserves the invariant.
LEMMA RecoverInstallInv ==
  ASSUME LogInv, NEW p \in Procs, RecoverInstall(p)
  PROVE  LogInv'
<1> USE DEF LogInv, disk
<1>1. TypeOK'
  <2>1. tail[p] \in 1 .. Len(lh) /\ tail[p] \in Slots /\ lh[tail[p]] \in Blocks
    BY TailInRange, Zenon DEF RecoverInstall
  <2>2. dlog[tail[p]] \in Data
    BY <2>1, Zenon DEF TypeOK
  <2> QED
    BY <2>1, <2>2 DEF RecoverInstall, CopyHome, TypeOK
<1>2. BootAlone'
  <2>1. tail[p] \in 1 .. Len(lh) /\ tail[p] \in Slots /\ lh[tail[p]] \in Blocks
    BY TailInRange, Zenon DEF RecoverInstall
  <2>2. dlog[tail[p]] \in Data
    BY <2>1, Zenon DEF TypeOK
  <2>3. \A c \in Blocks : Contents(c)' = home'[c]
    BY <2>1, <2>2, DuringBoot, DataAssumption, Zenon
    DEF RecoverInstall, CopyHome, BootPCs, Contents, TypeOK
  <2> QED
    BY <2>3, DuringBoot, Zenon DEF RecoverInstall, BootPCs, BootAlone, Booting
<1>3. CountsCalls'
  BY Zenon DEF RecoverInstall, CountsCalls, InOp, CopyHome, TypeOK
<1>4. OneCommitter'
  BY Zenon DEF RecoverInstall, OneCommitter, Committers, CommitPCs, CopyHome, TypeOK
<1>5. LogInjective'
  BY Zenon DEF RecoverInstall, LogInjective, CopyHome, TypeOK
<1>6. HeldInOp'
  BY Zenon DEF RecoverInstall, HeldInOp, CopyHome, TypeOK
<1>7. PhaseInv'
  <2>1. tail[p] \in 1 .. Len(lh) /\ tail[p] \in Slots /\ lh[tail[p]] \in Blocks
    BY TailInRange, Zenon DEF RecoverInstall
  <2>2. p = InitProc /\ pc' = pc /\ Booting' /\ lh' = lh /\ dlh' = dlh /\ dlog' = dlog
    BY DuringBoot, Zenon DEF RecoverInstall, BootPCs, Booting
  <2>3. \A q \in Procs : q # p => pc'[q] = "off"
    BY <2>2, DuringBoot, Zenon DEF RecoverInstall, BootPCs
  <2>4. \A i \in 1 .. Len(lh) : i # tail[p] => lh[i] # lh[tail[p]]
    BY <2>1, Zenon DEF LogInjective
  <2>5. \A i \in 1 .. Len(lh) : lh[i] \in Blocks
    BY DEF TypeOK
  <2>6. \A i \in 1 .. Len(lh) : i < tail[p] + 1 => home'[lh[i]] = dlog[i]
    <3>1. \A i \in 1 .. Len(lh) : i < tail[p] => home[lh[i]] = dlog[i]
      BY Zenon DEF RecoverInstall, PhaseInv, Installed
    <3>2. home' = [home EXCEPT ![lh[tail[p]]] = dlog[tail[p]]]
      BY Zenon DEF RecoverInstall, CopyHome
    <3>3. ASSUME NEW i \in 1 .. Len(lh), i < tail[p] + 1
          PROVE  home'[lh[i]] = dlog[i]
      <4>1. i = tail[p] \/ (i # tail[p] /\ i < tail[p])
        BY <2>1, <3>3
      <4> QED
        BY <2>1, <2>4, <2>5, <3>1, <3>2, <4>1, Zenon DEF TypeOK
    <3> QED BY <3>3, Zenon
  <2>7. Installed(p)'
    BY <2>1, <2>2, <2>6 DEF RecoverInstall, CopyHome, Installed, PhaseInv, TypeOK
  <2> QED
    BY <2>2, <2>3, <2>7, Zenon DEF PhaseInv, RecoverInstall
<1>8. PinnedUntilInstalled'
  BY Zenon DEF RecoverInstall, PinnedUntilInstalled, OnlyCopy, Booting, CopyHome, TypeOK
<1> QED BY <1>1, <1>2, <1>3, <1>4, <1>5, <1>6, <1>7, <1>8, Zenon

\* RecoverErase preserves the invariant.
LEMMA RecoverEraseInv ==
  ASSUME LogInv, NEW p \in Procs, RecoverErase(p)
  PROVE  LogInv'
<1> USE DEF LogInv, disk
<1>1. TypeOK'
  BY DEF RecoverErase, TypeOK, PCs, Slots, EraseLog
<1>2. BootAlone'
  BY ProcsAssumption, Zenon DEF RecoverErase, BootAlone, Booting, BootPCs
<1>3. CountsCalls'
  BY DuringBoot, Zenon DEF RecoverErase, CountsCalls, InOp, EraseLog, BootPCs, TypeOK
<1>4. OneCommitter'
  BY DuringBoot, Zenon DEF RecoverErase, OneCommitter, Committers, CommitPCs, EraseLog, BootPCs,
         TypeOK
<1>5. LogInjective'
  BY ProcsAssumption, DataAssumption, SizeAssumption, DuringBoot
  DEF RecoverErase, LogInjective, EraseLog, BootPCs, TypeOK
<1>6. HeldInOp'
  BY DuringBoot, Zenon DEF RecoverErase, HeldInOp, EraseLog, BootPCs, TypeOK
<1>7. PhaseInv'
  BY Zenon DEF RecoverErase, PhaseInv, Installed, Booting, Contents, EraseLog, TypeOK
<1>8. PinnedUntilInstalled'
  BY DuringBoot DEF RecoverErase, PinnedUntilInstalled, OnlyCopy, Booting, EraseLog, BootPCs,
         TypeOK
<1> QED BY <1>1, <1>2, <1>3, <1>4, <1>5, <1>6, <1>7, <1>8, Zenon

\* Read preserves the invariant.
LEMMA ReadInv ==
  ASSUME LogInv, NEW b \in Blocks, Read(b)
  PROVE  LogInv'
<1> USE DEF LogInv, disk
<1>1. TypeOK'
  BY Zenon DEF Read, TypeOK, PCs, Slots
<1>2. BootAlone'
  BY Zenon DEF Read, BootAlone, Booting, BootPCs, Contents, TypeOK
<1>3. CountsCalls'
  BY Zenon DEF Read, CountsCalls, InOp, TypeOK
<1>4. OneCommitter'
  BY Zenon DEF Read, OneCommitter, Committers, CommitPCs, TypeOK
<1>5. LogInjective'
  BY Zenon DEF Read, LogInjective, TypeOK
<1>6. HeldInOp'
  BY Zenon DEF Read, HeldInOp, TypeOK
<1>7. PhaseInv'
  <2>1. \A c \in Blocks : Contents(c)' = Contents(c)
    BY Zenon DEF Read, Contents, TypeOK
  <2>2. \A i \in 1 .. Len(lh) : lh[i] \in Blocks
    BY DEF TypeOK
  <2>3. UNCHANGED <<pc, tail, lh, committing, dlh, dlog, home>>
    BY Zenon DEF Read
  <2>4. /\ Booting' <=> Booting
        /\ \A q \in Procs : Installed(q)' <=> Installed(q)
    BY <2>3, Zenon DEF Booting, Installed
  <2> QED
    BY <2>1, <2>2, <2>3, <2>4, Zenon DEF PhaseInv
<1>8. PinnedUntilInstalled'
  BY Zenon DEF Read, PinnedUntilInstalled, OnlyCopy, Booting, TypeOK
<1> QED BY <1>1, <1>2, <1>3, <1>4, <1>5, <1>6, <1>7, <1>8, Zenon

\* Recycle preserves the invariant.
LEMMA RecycleInv ==
  ASSUME LogInv, NEW b \in Blocks, Recycle(b)
  PROVE  LogInv'
<1> USE DEF LogInv, disk
<1>1. TypeOK'
  BY Zenon DEF Recycle, TypeOK, PCs, Slots, IsHeld
<1>2. BootAlone'
  BY DuringBoot, Zenon DEF Recycle, BootAlone, Booting, BootPCs, Contents, TypeOK
<1>3. CountsCalls'
  BY Zenon DEF Recycle, CountsCalls, InOp, IsHeld, TypeOK
<1>4. OneCommitter'
  BY Zenon DEF Recycle, OneCommitter, Committers, CommitPCs, IsHeld, TypeOK
<1>5. LogInjective'
  BY DEF Recycle, LogInjective, IsHeld, TypeOK
<1>6. HeldInOp'
  BY Zenon DEF Recycle, HeldInOp, IsHeld, TypeOK
<1>7. PhaseInv'
  <2>1. \A c \in Blocks : InLog(c) => Contents(c)' = Contents(c)
    BY UnpinnedIsClean, Zenon DEF Recycle, Contents, TypeOK
  <2>2. \A i \in 1 .. Len(lh) : lh[i] \in Blocks /\ InLog(lh[i])
    BY DEF TypeOK, InLog
  <2>3. \A q \in Procs : Installed(q)' <=> Installed(q)
    BY Zenon DEF Recycle, Installed
  <2> QED
    BY <2>1, <2>2, <2>3, Zenon DEF Recycle, PhaseInv, Booting
<1>8. PinnedUntilInstalled'
  BY Zenon DEF Recycle, PinnedUntilInstalled, OnlyCopy, Booting, IsHeld, TypeOK
<1> QED BY <1>1, <1>2, <1>3, <1>4, <1>5, <1>6, <1>7, <1>8, Zenon

\* Crash preserves the invariant.
LEMMA CrashInv ==
  ASSUME LogInv, Crash
  PROVE  LogInv'
<1> USE DEF LogInv, disk
<1>1. TypeOK'
  <2>1. pc' \in [Procs -> PCs]
    BY Zenon DEF Crash, PowerOnPC, PCs
  <2>2. lh' \in Seq(Blocks) /\ outstanding' \in Nat
    BY DEF Crash
  <2>3. tail' \in [Procs -> Nat \ {0}]
    BY DEF Crash
  <2>4. /\ cache' \in [Blocks -> Data \cup {NoData}]
        /\ pin' \in [Blocks -> Nat]
        /\ held' \in [Procs -> Blocks \cup {NoBlock}]
        /\ wrote' \in [Procs -> SUBSET Blocks]
    BY Zenon DEF Crash
  <2> QED
    BY <2>1, <2>2, <2>3, <2>4, Zenon DEF Crash, TypeOK
<1>2. BootAlone'
  BY ProcsAssumption, Zenon DEF Crash, BootAlone, Booting, BootPCs, Contents, PowerOnPC, TypeOK
<1>3. CountsCalls'
  <2>1. InOp' = {}
    BY Zenon DEF Crash, InOp, PowerOnPC
  <2> QED
    BY <2>1, FS_EmptySet, Zenon DEF Crash, CountsCalls
<1>4. OneCommitter'
  BY Zenon DEF Crash, OneCommitter, Committers, CommitPCs, PowerOnPC, TypeOK
<1>5. LogInjective'
  BY ProcsAssumption, DataAssumption, SizeAssumption DEF Crash, LogInjective, PowerOnPC, TypeOK
<1>6. HeldInOp'
  BY Zenon DEF Crash, HeldInOp, PowerOnPC, TypeOK
<1>7. PhaseInv'
  BY ProcsAssumption, Zenon DEF Crash, PhaseInv, Installed, Booting, Contents, PowerOnPC, TypeOK
<1>8. PinnedUntilInstalled'
  BY DEF Crash, PinnedUntilInstalled, OnlyCopy, Booting, PowerOnPC, TypeOK
<1> QED BY <1>1, <1>2, <1>3, <1>4, <1>5, <1>6, <1>7, <1>8, Zenon

---------------------------------------------------------------------------
\* The state at power-on satisfies the invariant.
LEMMA InitInv == Init => LogInv
<1> SUFFICES ASSUME Init PROVE LogInv
  OBVIOUS
<1> USE ProcsAssumption, DataAssumption, SizeAssumption DEF Init
<1>1. Booting /\ \A p \in Procs : pc[p] \notin CommitPCs /\ pc[p] # "op"
  BY Zenon DEF PowerOnPC, Booting, CommitPCs
<1>2. TypeOK
  <2>1. pc \in [Procs -> PCs]
    BY Zenon DEF PowerOnPC, PCs
  <2>2. lh \in Seq(Blocks) /\ dlh \in Seq(Blocks) /\ outstanding \in Nat
    OBVIOUS
  <2>3. tail \in [Procs -> Nat \ {0}] /\ pin \in [Blocks -> Nat]
    OBVIOUS
  <2>4. /\ cache \in [Blocks -> Data \cup {NoData}]
        /\ held \in [Procs -> Blocks \cup {NoBlock}]
        /\ wrote \in [Procs -> SUBSET Blocks]
        /\ dlog \in [Slots -> Data]
    OBVIOUS
  <2> QED BY <2>1, <2>2, <2>3, <2>4, Zenon DEF TypeOK
<1>3. BootAlone
  BY <1>1, Zenon DEF BootAlone, PowerOnPC, Contents
<1>4. CountsCalls
  <2>1. InOp = {}
    BY <1>1, Zenon DEF InOp
  <2> QED BY <2>1, FS_EmptySet, Zenon DEF CountsCalls
<1>5. OneCommitter
  BY <1>1, Zenon DEF OneCommitter, Committers
<1>6. LogInjective /\ HeldInOp
  BY DEF LogInjective, HeldInOp
<1>7. PhaseInv
  BY <1>1, Zenon DEF PhaseInv, PowerOnPC, CommitPCs
<1>8. PinnedUntilInstalled
  BY <1>1, Zenon DEF PinnedUntilInstalled
<1> QED
  BY <1>2, <1>3, <1>4, <1>5, <1>6, <1>7, <1>8, Zenon DEF LogInv

\* Every step preserves the invariant.
LEMMA NextInv == LogInv /\ [Next]_vars => LogInv'
<1> SUFFICES ASSUME LogInv, [Next]_vars PROVE LogInv'
  OBVIOUS
<1>1. ASSUME NEW p \in Procs, BeginOp(p) PROVE LogInv'
  BY <1>1, BeginOpSleepInv, BeginOpEnterInv, Zenon DEF BeginOp
<1>2. ASSUME NEW p \in Procs, NEW b \in Blocks, NEW d \in Data, Modify(p, b, d) PROVE LogInv'
  BY <1>2, ModifyInv, Zenon
<1>3. ASSUME NEW p \in Procs, LogWrite(p) \/ ReleaseUnlogged(p) PROVE LogInv'
  BY <1>3, LogWriteInv, ReleaseUnloggedInv, Zenon
<1>4. ASSUME NEW p \in Procs, EndOp(p) PROVE LogInv'
  BY <1>4, EndOpInv, Zenon
<1>5. ASSUME NEW p \in Procs, CommitStep(p) PROVE LogInv'
  BY <1>5, WriteLogInv, WriteHeadInv, InstallInv, CommitEraseInv, EndCommitInv, Zenon
  DEF CommitStep
<1>6. ASSUME NEW p \in Procs, RecoverStep(p) PROVE LogInv'
  BY <1>6, ReadHeadInv, RecoverInstallInv, RecoverEraseInv, Zenon DEF RecoverStep
<1>7. ASSUME NEW b \in Blocks, Read(b) \/ Recycle(b) PROVE LogInv'
  BY <1>7, ReadInv, RecycleInv, Zenon
<1>8. CASE Crash
  BY <1>8, CrashInv, Zenon
<1>9. CASE UNCHANGED vars
  <2>1. TypeOK' /\ LogInjective' /\ HeldInOp'
    BY <1>9, Zenon DEF vars, LogInv, TypeOK, LogInjective, HeldInOp
  <2>2. BootAlone' /\ PinnedUntilInstalled'
    BY <1>9, Zenon DEF vars, LogInv, BootAlone, PinnedUntilInstalled, Booting, BootPCs, Contents,
           OnlyCopy
  <2>3. CountsCalls' /\ OneCommitter'
    BY <1>9, Zenon DEF vars, LogInv, CountsCalls, OneCommitter, InOp, Committers
  <2>4. \A q \in Procs : Installed(q)' <=> Installed(q)
    BY <1>9, Zenon DEF vars, Installed
  <2>5. PhaseInv'
    BY <1>9, <2>4, Zenon DEF vars, LogInv, PhaseInv, Booting, Contents
  <2> QED BY <2>1, <2>2, <2>3, <2>5, Zenon DEF LogInv
<1> QED
  BY <1>1, <1>2, <1>3, <1>4, <1>5, <1>6, <1>7, <1>8, <1>9, Zenon DEF Next, Step

\* The invariant that ties the in-memory log, the pins, the buffers and the
\* disk together in every phase of log.c holds in every reachable state.
THEOREM Invariance == Spec => []LogInv
<1> QED BY InitInv, NextInv, PTL DEF Spec

\* Every variable of log.c keeps its type; in particular no pin count and no
\* log.outstanding goes below zero.
THEOREM TypeCorrect == Spec => []TypeOK
<1>1. LogInv => TypeOK
  BY Zenon DEF LogInv
<1> QED BY <1>1, Invariance, PTL

\* log_write never lets a transaction outgrow the header or the log area.
THEOREM LogNeverOverruns == Spec => []LogFits
<1>1. LogInv => LogFits
  BY Zenon DEF LogInv, LogInjective, LogFits
<1> QED BY <1>1, Invariance, PTL

\* commit runs alone: one process, and no call between begin_op and end_op.
THEOREM CommitRunsAlone == Spec => []CommitAlone
<1>1. LogInv => CommitAlone
  <2> SUFFICES ASSUME LogInv PROVE CommitAlone
    OBVIOUS
  <2>1. ASSUME committing PROVE \E p \in Procs : Committers = {p} /\ InOp = {}
    <3>1. PICK p \in Committers : TRUE
      BY <2>1, Zenon DEF LogInv, OneCommitter
    <3>2. p \in Procs /\ pc[p] \in CommitPCs /\ Committers = {p}
      BY Zenon DEF LogInv, OneCommitter, Committers
    <3>3. InOp = {}
      BY <3>2, DuringCommit, Zenon
    <3> QED BY <3>2, <3>3, Zenon
  <2>2. ASSUME ~committing PROVE Committers = {}
    BY <2>2, Zenon DEF LogInv, OneCommitter
  <2> QED BY <2>1, <2>2, Zenon DEF CommitAlone
<1> QED BY <1>1, Invariance, PTL

\* bpin and bunpin match: a buffer is pinned exactly while it is the only
\* good copy of its block.
THEOREM PinsMatch == Spec => []PinnedUntilInstalled
<1>1. LogInv => PinnedUntilInstalled
  BY Zenon DEF LogInv
<1> QED BY <1>1, Invariance, PTL

\* install_trans overwrites a home block only with the copy the committed log
\* on the disk holds for it.
THEOREM WriteAheadHolds == Spec => WriteAhead
<1> DEFINE Ahead == \A b \in Blocks : home'[b] # home[b] =>
                        \E i \in 1 .. Len(dlh) : dlh[i] = b /\ dlog[i] = home'[b]
<1>1. ASSUME LogInv, [Next]_vars PROVE Ahead
  <2>1. ASSUME NEW p \in Procs, CopyHome(p), lh = dlh PROVE Ahead
    <3>1. tail[p] \in 1 .. Len(lh)
      BY <1>1, <2>1 DEF CopyHome, LogInv, TypeOK
    <3> QED BY <1>1, <2>1, <3>1, Zenon DEF CopyHome, LogInv, TypeOK
  <2>2. ASSUME NEW p \in Procs, Install(p) PROVE Ahead
    BY <1>1, <2>1, <2>2, Zenon DEF Install, LogInv, PhaseInv, Installed
  <2>3. ASSUME NEW p \in Procs, RecoverInstall(p) PROVE Ahead
    BY <1>1, <2>1, <2>3 DEF RecoverInstall, LogInv, PhaseInv, Installed
  <2>4. CASE home' = home
    BY <2>4, Zenon
  <2> QED
    BY <1>1, <2>2, <2>3, <2>4, Zenon DEF Next, Step, BeginOp, BeginOpSleep, BeginOpEnter, Modify,
           LogWrite, ReleaseUnlogged, EndOp, CommitStep, WriteLog, WriteHead, CommitErase,
           EndCommit, RecoverStep, ReadHead, RecoverErase, Read, Recycle, Crash, disk, vars
<1> QED BY <1>1, Invariance, PTL DEF Spec, WriteAhead
---------------------------------------------------------------------------
\* A step that leaves the disk view, the kernel's view and the calls alone.
Stutter == Recovered' = Recovered /\ Current' = Current /\ InOp' = InOp

\* What a restart would find does not depend on log blocks beyond the header.
LEMMA RecoveredSame ==
  ASSUME dlh' = dlh, home' = home, dlog' = dlog \/ dlh = <<>>
  PROVE  Recovered' = Recovered
BY DEF Recovered, Committed

\* What the calls have written to b: its buffer when it is locked or in the
\* transaction.
View(b) == IF InLog(b) \/ IsHeld(b) THEN Contents(b) ELSE home[b]

\* The updates of the calls change with what they have written to some block.
LEMMA CurrentSame ==
  ASSUME Recovered' = Recovered, Booting' <=> Booting,
         ~Booting => \A b \in Blocks : View(b)' = View(b)
  PROVE  Current' = Current
BY Zenon DEF Current, View

\* A step that leaves the transaction, the locks, the buffers and the home
\* blocks alone leaves what the calls have written alone.
LEMMA ViewSame ==
  ASSUME UNCHANGED <<lh, held, cache, home>>
  PROVE  \A b \in Blocks : View(b)' = View(b)
BY Zenon DEF View, InLog, IsHeld, Contents

\* log_write adds the buffer it is given to the transaction and takes none out.
LEMMA LogWriteLogs ==
  ASSUME LogInv, NEW p \in Procs, LogWrite(p), NEW b \in Blocks
  PROVE  InLog(b)' \/ IsHeld(b)' <=> InLog(b) \/ IsHeld(b)
<1> USE DEF LogInv
<1>1. CASE lh' = lh /\ held' = held
  BY <1>1, Zenon DEF InLog, IsHeld
<1>2. CASE lh' = lh /\ InLog(held[p]) /\ held' = [held EXCEPT ![p] = NoBlock]
  BY <1>2, DataAssumption, Zenon DEF InLog, IsHeld, TypeOK
<1>3. CASE lh' = Append(lh, held[p]) /\ held' = [held EXCEPT ![p] = NoBlock]
  <2>1. held[p] \in Blocks
    BY Zenon DEF LogWrite, TypeOK
  <2>2. Len(lh') = Len(lh) + 1 /\ Len(lh) \in Nat /\ lh'[Len(lh) + 1] = held[p]
    BY <1>3, <2>1 DEF TypeOK
  <2>3. \A i \in 1 .. Len(lh) : lh'[i] = lh[i]
    BY <1>3, <2>1 DEF TypeOK
  <2>4. InLog(b)' <=> InLog(b) \/ b = held[p]
    BY <2>2, <2>3 DEF InLog
  <2> QED BY <1>3, <2>4, DataAssumption, Zenon DEF IsHeld, TypeOK
<1> QED BY <1>1, <1>2, <1>3, Zenon DEF LogWrite

\* Once install_trans is through, home blocks hold what the log holds.
LEMMA AllInstalled ==
  ASSUME LogInv, NEW p \in Procs, Installed(p), tail[p] > Len(lh)
  PROVE  Recovered = home
<1>1. \A i \in 1 .. Len(dlh) : home[dlh[i]] = dlog[i]
  BY DEF Installed, LogInv, TypeOK
<1>2. \A b \in Blocks : Recovered[b] = home[b]
  BY <1>1, Zenon DEF Recovered, Committed
<1> QED BY <1>2, Zenon DEF Recovered, LogInv, TypeOK

\* With an empty header a restart finds the home blocks.
LEMMA EmptyLog == ASSUME LogInv, dlh = <<>> PROVE Recovered = home
BY DEF Recovered, Committed, LogInv, TypeOK

\* begin_op, log_write, end_op and the change of a buffer.
LEMMA CallSteps ==
  ASSUME LogInv, NEW p \in Procs
  PROVE  /\ BeginOpSleep(p) => Stutter
         /\ BeginOpEnter(p) => Atomic!Begin(p)
         /\ \A b \in Blocks, d \in Data : Modify(p, b, d) => Atomic!Write(p, b, d)
         /\ LogWrite(p) => Stutter
         /\ ReleaseUnlogged(p) => \E b \in Blocks, d \in Data : Atomic!Write(p, b, d)
         /\ EndOp(p) => Atomic!End(p)
<1> USE DEF LogInv, disk
<1>1. ASSUME pc[p] \in {"idle", "begin"}, NEW s \in {"sleep", "op"},
             pc' = [pc EXCEPT ![p] = s], UNCHANGED <<lh, held, cache, disk>>
      PROVE  Recovered' = Recovered /\ Current' = Current
  <2>1. Booting' <=> Booting
    BY <1>1 DEF Booting, TypeOK
  <2> QED BY <1>1, <2>1, RecoveredSame, CurrentSame, ViewSame, Zenon
<1>2. BeginOpSleep(p) => Stutter
  BY <1>1, Zenon DEF BeginOpSleep, Stutter, InOp, TypeOK
<1>3. BeginOpEnter(p) => Atomic!Begin(p)
  <2> SUFFICES ASSUME BeginOpEnter(p) PROVE Atomic!Begin(p)
    OBVIOUS
  <2>1. InOp' = InOp \cup {p} /\ p \notin InOp
    BY Zenon DEF BeginOpEnter, InOp, TypeOK
  <2>2. Recovered' = Recovered /\ Current' = Current
    BY <1>1, Zenon DEF BeginOpEnter
  <2> QED BY <2>1, <2>2, Zenon DEF Atomic!Begin
<1>4. ASSUME NEW b \in Blocks, NEW d \in Data, Modify(p, b, d) PROVE Atomic!Write(p, b, d)
  <2>1. Recovered' = Recovered /\ InOp' = InOp /\ p \in InOp
    BY <1>4, RecoveredSame, Zenon DEF Modify, InOp
  <2>2. ~Booting /\ ~Booting'
    BY <1>4, DuringOp, Zenon DEF Modify, Booting
  <2>3. \A c \in Blocks : Contents(c)' = IF c = b THEN d ELSE Contents(c)
    BY <1>4, DataAssumption, Zenon DEF Modify, Contents, TypeOK
  <2>4. \A c \in Blocks : /\ InLog(c)' <=> InLog(c)
                          /\ IsHeld(c)' <=> IsHeld(c) \/ c = b
    BY <1>4, DataAssumption, Zenon DEF Modify, InLog, IsHeld, TypeOK
  <2>5. \A c \in Blocks : View(c)' = IF c = b THEN d ELSE View(c)
    BY <1>4, <2>3, <2>4, Zenon DEF View, Modify
  <2>6. Current' = [Current EXCEPT ![b] = d]
    BY <2>2, <2>5, Zenon DEF Current, View
  <2> QED BY <2>1, <2>6, Zenon DEF Atomic!Write
<1>5. LogWrite(p) => Stutter
  <2> SUFFICES ASSUME LogWrite(p) PROVE Stutter
    OBVIOUS
  <2>1. pc' = pc /\ cache' = cache /\ home' = home /\ dlh' = dlh /\ dlog' = dlog
    BY Zenon DEF LogWrite
  <2>2. \A b \in Blocks : View(b)' = View(b)
    BY <2>1, LogWriteLogs, Zenon DEF View, Contents
  <2> QED BY <2>1, <2>2, RecoveredSame, CurrentSame, Zenon DEF Stutter, InOp, Booting
<1>6. ASSUME ReleaseUnlogged(p) PROVE \E b \in Blocks, d \in Data : Atomic!Write(p, b, d)
  <2>1. Recovered' = Recovered /\ InOp' = InOp /\ p \in InOp
    BY <1>6, RecoveredSame, Zenon DEF ReleaseUnlogged, InOp
  <2>2. ~Booting /\ ~Booting'
    BY <1>6, DuringOp, Zenon DEF ReleaseUnlogged, Booting
  <2>3. PICK b \in Blocks : held[p] = b
    BY <1>6, Zenon DEF ReleaseUnlogged, TypeOK
  <2>4. \A c \in Blocks : c # b => View(c)' = View(c)
    BY <1>6, <2>3, DataAssumption, Zenon DEF ReleaseUnlogged, View, InLog, IsHeld, Contents, TypeOK
  <2>5. PICK d \in Data : d = View(b)'
    BY <1>6, Zenon DEF ReleaseUnlogged, View, Contents, TypeOK
  <2>6. Current' = [Current EXCEPT ![b] = d]
    BY <2>2, <2>4, <2>5, Zenon DEF Current, View
  <2> QED BY <2>1, <2>6, Zenon DEF Atomic!Write
<1>7. EndOp(p) => Atomic!End(p)
  <2> SUFFICES ASSUME EndOp(p) PROVE Atomic!End(p)
    OBVIOUS
  <2>1. InOp' = InOp \ {p} /\ p \in InOp
    BY DuringOp, Zenon DEF EndOp, Woken, InOp, TypeOK
  <2>2. ~Booting /\ ~Booting'
    BY ProcsAssumption, DuringOp, Zenon DEF EndOp, Woken, Booting, TypeOK
  <2>3. Recovered' = Recovered /\ Current' = Current
    BY <2>2, RecoveredSame, CurrentSame, ViewSame, Zenon DEF EndOp
  <2> QED BY <2>1, <2>3, Zenon DEF Atomic!End
<1> QED BY <1>2, <1>3, <1>4, <1>5, <1>6, <1>7, Zenon

\* The phases of commit: only the first write_head changes what a restart
\* would find.
LEMMA CommitSteps ==
  ASSUME LogInv, NEW p \in Procs
  PROVE  /\ WriteLog(p) => Stutter
         /\ WriteHead(p) => Atomic!Commit
         /\ Install(p) => Stutter
         /\ CommitErase(p) => Stutter
         /\ EndCommit(p) => Stutter
<1> USE DEF LogInv
<1>1. WriteLog(p) => Stutter
  <2> SUFFICES ASSUME WriteLog(p) PROVE Stutter
    OBVIOUS
  <2>1. dlh = <<>>
    BY Zenon DEF WriteLog, PhaseInv
  <2> QED BY <2>1, RecoveredSame, CurrentSame, ViewSame, Zenon
  DEF WriteLog, Stutter, InOp, Booting
<1>2. WriteHead(p) => Atomic!Commit
  <2> SUFFICES ASSUME WriteHead(p) PROVE Atomic!Commit
    OBVIOUS
  <2>1. /\ ~Booting /\ InOp = {} /\ \A q \in Procs : held[q] = NoBlock
    BY DuringCommit, Zenon DEF WriteHead, CommitPCs
  <2>2. ~Booting' /\ InOp' = {}
    BY <2>1 DEF WriteHead, Booting, InOp, TypeOK
  <2>3. \A i \in 1 .. Len(lh) : dlog[i] = Contents(lh[i])
    BY DEF WriteHead, PhaseInv, TypeOK
  <2>4. \A b \in Blocks : ~IsHeld(b)
    BY <2>1, DataAssumption, Zenon DEF IsHeld
  <2>5. \A b \in Blocks : Recovered'[b] = View(b)
    BY <2>3, <2>4, Zenon DEF WriteHead, Recovered, Committed, InLog, View
  <2>6. Recovered' = Current
    BY <2>1, <2>5, Zenon DEF Recovered, Current, View
  <2>7. \A b \in Blocks : View(b)' = View(b)
    BY ViewSame, Zenon DEF WriteHead
  <2>8. Current' = Current
    BY <2>1, <2>2, <2>7, Zenon DEF Current, View
  <2> QED BY <2>1, <2>2, <2>6, <2>8, Zenon DEF Atomic!Commit
<1>3. Install(p) => Stutter
  <2> SUFFICES ASSUME Install(p) PROVE Stutter
    OBVIOUS
  <2>1. tail[p] \in 1 .. Len(lh) /\ tail[p] \in Slots /\ lh[tail[p]] \in Blocks
    BY TailInRange, Zenon DEF Install
  <2>2. lh = dlh /\ dlog[tail[p]] = Contents(lh[tail[p]]) /\ dlog[tail[p]] \in Data
    BY <2>1, Zenon DEF Install, PhaseInv, Installed, TypeOK
  <2>3. \A b \in Blocks : Contents(b)' = Contents(b)
    BY <2>1, <2>2, DataAssumption, Zenon DEF Install, CopyHome, Contents, TypeOK
  <2>4. Committed(lh[tail[p]])
    BY <2>1, <2>2, Zenon DEF Committed
  <2>5. Recovered' = Recovered
    BY <2>1, <2>4, Zenon DEF Install, CopyHome, Recovered, Committed, TypeOK
  <2>6. InLog(lh[tail[p]])
    BY <2>1, Zenon DEF InLog
  <2>7. \A b \in Blocks : View(b)' = View(b)
    BY <2>1, <2>3, <2>6, Zenon DEF Install, CopyHome, View, InLog, IsHeld, TypeOK
  <2> QED BY <2>5, <2>7, CurrentSame, Zenon DEF Install, Stutter, InOp, Booting
<1>4. CommitErase(p) => Stutter
  <2> SUFFICES ASSUME CommitErase(p) PROVE Stutter
    OBVIOUS
  <2>1. InOp = {} /\ InOp' = {} /\ ~Booting /\ ~Booting'
    BY DuringCommit DEF CommitErase, CommitPCs, InOp, Booting, TypeOK
  <2>2. Recovered = home
    BY AllInstalled, Zenon DEF CommitErase, EraseLog, PhaseInv
  <2>3. Recovered' = home
    BY DEF CommitErase, EraseLog, Recovered, Committed, TypeOK
  <2>4. \A i \in 1 .. Len(lh) : home[lh[i]] = Contents(lh[i])
    BY DEF CommitErase, EraseLog, PhaseInv, Installed, TypeOK
  <2>5. \A b \in Blocks : ~IsHeld(b)
    BY DuringCommit, DataAssumption, Zenon DEF CommitErase, CommitPCs, IsHeld
  <2>6. \A b \in Blocks : View(b) = home[b]
    BY <2>4, <2>5, Zenon DEF View, InLog
  <2>7. \A b \in Blocks : ~InLog(b)' /\ ~IsHeld(b)'
    BY <2>5 DEF CommitErase, EraseLog, InLog, IsHeld
  <2>8. \A b \in Blocks : View(b)' = View(b)
    BY <2>6, <2>7, Zenon DEF CommitErase, View
  <2> QED BY <2>1, <2>2, <2>3, <2>8, CurrentSame, Zenon DEF Stutter
<1>5. EndCommit(p) => Stutter
  <2> SUFFICES ASSUME EndCommit(p) PROVE Stutter
    OBVIOUS
  <2>1. InOp = {} /\ InOp' = {} /\ ~Booting /\ ~Booting'
    BY ProcsAssumption, DuringCommit DEF EndCommit, Woken, CommitPCs, InOp, Booting, TypeOK
  <2> QED BY <2>1, RecoveredSame, CurrentSame, ViewSame, Zenon DEF EndCommit, Stutter, disk
<1> QED BY <1>1, <1>2, <1>3, <1>4, <1>5, Zenon

\* Recovery never changes what a restart would find, so that a crash during
\* recovery is harmless.
LEMMA RecoverSteps ==
  ASSUME LogInv, NEW p \in Procs, RecoverStep(p)
  PROVE  Stutter
<1> USE DEF LogInv
<1>1. pc[p] \in BootPCs /\ Booting /\ InOp = {}
  BY DuringBoot, Zenon DEF RecoverStep, ReadHead, RecoverInstall, RecoverErase, BootPCs
<1>2. CASE ReadHead(p)
  <2>1. Booting' /\ InOp' = {}
    BY <1>1, <1>2 DEF ReadHead, Booting, InOp, TypeOK
  <2> QED BY <1>1, <1>2, <2>1, RecoveredSame, CurrentSame, Zenon DEF ReadHead, Stutter, disk
<1>3. CASE RecoverInstall(p)
  <2>1. tail[p] \in 1 .. Len(lh) /\ lh[tail[p]] \in Blocks
    BY <1>3 DEF RecoverInstall, CopyHome, TypeOK
  <2>2. Committed(lh[tail[p]])
    BY <1>3, <2>1, Zenon DEF RecoverInstall, PhaseInv, Installed, Committed
  <2>3. Recovered' = Recovered
    BY <1>3, <2>1, <2>2, Zenon DEF RecoverInstall, CopyHome, Recovered, Committed, TypeOK
  <2> QED BY <1>1, <1>3, <2>3, CurrentSame, Zenon DEF RecoverInstall, Stutter, InOp, Booting
<1>4. CASE RecoverErase(p)
  <2>1. Recovered = home
    BY <1>4, AllInstalled, Zenon DEF RecoverErase, EraseLog, PhaseInv
  <2>2. Recovered' = home
    BY <1>4 DEF RecoverErase, EraseLog, Recovered, Committed, TypeOK
  <2>3. ~Booting' /\ InOp' = {}
    BY <1>4, ProcsAssumption, Zenon DEF RecoverErase, Booting, InOp
  <2>4. \A b \in Blocks : Contents(b)' = home[b]
    BY <1>1, <1>4, DuringBoot, Zenon DEF RecoverErase, Contents
  <2>5. Current' = home
    BY <1>4, <2>3, <2>4, Zenon DEF Current, RecoverErase, TypeOK
  <2> QED BY <1>1, <2>1, <2>2, <2>3, <2>5, Zenon DEF Stutter, Current
<1> QED BY <1>2, <1>3, <1>4, Zenon DEF RecoverStep

\* Readers, recycling and crashes.
LEMMA EnvironmentSteps ==
  ASSUME LogInv
  PROVE  /\ \A b \in Blocks : Read(b) \/ Recycle(b) => Stutter
         /\ Crash => Atomic!Crash
<1> USE DEF LogInv, disk
<1>1. ASSUME NEW b \in Blocks, Read(b) \/ Recycle(b) PROVE Stutter
  <2>1. \A c \in Blocks : InLog(c) \/ IsHeld(c) => Contents(c)' = Contents(c)
    BY <1>1, UnpinnedIsClean, Zenon DEF Read, Recycle, Contents, TypeOK
  <2>2. \A c \in Blocks : View(c)' = View(c)
    BY <1>1, <2>1, Zenon DEF Read, Recycle, View, InLog, IsHeld
  <2> QED BY <1>1, <2>2, RecoveredSame, CurrentSame, Zenon
  DEF Read, Recycle, Stutter, InOp, Booting
<1>2. ASSUME Crash PROVE Atomic!Crash
  <2>1. Recovered' = Recovered
    BY <1>2, RecoveredSame, Zenon DEF Crash
  <2>2. Booting' /\ InOp' = {}
    BY <1>2, ProcsAssumption, Zenon DEF Crash, PowerOnPC, Booting, InOp
  <2> QED BY <2>1, <2>2, Zenon DEF Atomic!Crash, Current
<1> QED BY <1>1, <1>2, Zenon

\* The log of log.c implements the atomic disk: the calls of a transaction
\* reach the disk together, whatever disk write a crash or a crash during
\* recovery falls on.
THEOREM Refinement == Spec => CallsAtomic
<1>1. Init => Atomic!Init
  <2> SUFFICES ASSUME Init PROVE Atomic!Init
    OBVIOUS
  <2>1. Booting /\ InOp = {}
    BY ProcsAssumption, Zenon DEF Init, PowerOnPC, Booting, InOp
  <2>2. Recovered = home
    BY InitInv, EmptyLog, Zenon DEF Init
  <2> QED BY <2>1, <2>2, Zenon DEF Init, Atomic!Init, Current
<1>2. LogInv /\ [Next]_vars => [Atomic!Next]_Atomic!vars
  <2> SUFFICES ASSUME LogInv, [Next]_vars
               PROVE  Atomic!Next \/ Stutter
    BY Zenon DEF Stutter, Atomic!vars
  <2>1. ASSUME NEW p \in Procs, Step(p) PROVE Atomic!Next \/ Stutter
    BY <2>1, CallSteps, CommitSteps, RecoverSteps, Zenon
    DEF Step, BeginOp, CommitStep, Atomic!Next
  <2>2. ASSUME NEW b \in Blocks, Read(b) \/ Recycle(b) PROVE Stutter
    BY <2>2, EnvironmentSteps, Zenon
  <2>3. CASE Crash
    BY <2>3, EnvironmentSteps, Zenon DEF Atomic!Next
  <2>4. CASE UNCHANGED vars
    BY <2>4, RecoveredSame, CurrentSame, ViewSame, Zenon DEF vars, Stutter, InOp, Booting
  <2> QED BY <2>1, <2>2, <2>3, <2>4, Zenon DEF Next
<1> QED BY <1>1, <1>2, Invariance, PTL DEF Spec, CallsAtomic, Atomic!Spec

----------------------------------------------------------------------------
\* Between transactions log.lh is empty: end_op of the last call commits, and
\* recovery has erased what it found.
IdleEmpty == InOp = {} /\ ~committing /\ ~Booting => lh = <<>>

\* No step of begin_op, log_write, end_op, commit or recovery leaves blocks in a
\* log that nobody will commit.
LEMMA IdleEmptyNext ==
  ASSUME LogInv, LogInv', IdleEmpty, [Next]_vars
  PROVE  IdleEmpty'
<1> USE DEF disk
<1>1. ASSUME NEW p \in Procs, BeginOpSleep(p) PROVE IdleEmpty'
  <2>1. InOp' = InOp
    BY <1>1, Zenon DEF LogInv, TypeOK, BeginOpSleep, InOp
  <2>2. Booting' => Booting
    BY <1>1 DEF LogInv, TypeOK, BeginOpSleep, Booting
  <2>3. Booting => Booting'
    BY <1>1, DuringBoot, Zenon DEF LogInv, BootAlone, BeginOpSleep, Booting
  <2> QED
    BY <1>1, <2>1, <2>2, <2>3, Zenon DEF IdleEmpty, BeginOpSleep
<1>2. ASSUME NEW p \in Procs, pc'[p] = "op" PROVE IdleEmpty'
  BY <1>2, Zenon DEF IdleEmpty, InOp
<1>3. ASSUME NEW p \in Procs, BeginOpEnter(p) PROVE IdleEmpty'
  <2>1. pc'[p] = "op"
    BY <1>3, Zenon DEF LogInv, TypeOK, BeginOpEnter
  <2> QED
    BY <1>2, <2>1, Zenon
<1>4. ASSUME NEW p \in Procs,
             \/ LogWrite(p) \/ ReleaseUnlogged(p)
             \/ \E b \in Blocks, d \in Data : Modify(p, b, d)
      PROVE  IdleEmpty'
  <2>1. pc'[p] = "op"
    BY <1>4, Zenon DEF LogWrite, ReleaseUnlogged, Modify
  <2> QED
    BY <1>2, <2>1, Zenon
<1>5. ASSUME NEW p \in Procs, EndOp(p) PROVE IdleEmpty'
  <2>1. outstanding' = 0 => committing'
    BY <1>5, DuringOp, Zenon DEF EndOp
  <2>2. InOp' = {} => outstanding' = 0
    BY FS_EmptySet, Zenon DEF LogInv, CountsCalls
  <2> QED
    BY <2>1, <2>2, Zenon DEF IdleEmpty
<1>6. ASSUME NEW p \in Procs, WriteLog(p) \/ WriteHead(p) \/ Install(p) \/ CommitErase(p)
      PROVE  IdleEmpty'
  <2>1. pc[p] \in CommitPCs /\ committing' = committing
    BY <1>6, Zenon DEF WriteLog, WriteHead, Install, CommitErase, CommitPCs
  <2>2. committing
    BY <2>1, DuringCommit, Zenon
  <2> QED
    BY <2>1, <2>2, Zenon DEF IdleEmpty
<1>7. ASSUME NEW p \in Procs, EndCommit(p) PROVE IdleEmpty'
  BY <1>7, Zenon DEF LogInv, PhaseInv, EndCommit, IdleEmpty
<1>8. ASSUME NEW p \in Procs, ReadHead(p) \/ RecoverInstall(p) PROVE IdleEmpty'
  <2>1. p = InitProc
    BY <1>8, DuringBoot, Zenon DEF ReadHead, RecoverInstall, BootPCs
  <2>2. Booting'
    BY <1>8, <2>1, Zenon DEF LogInv, TypeOK, ReadHead, RecoverInstall, Booting
  <2> QED
    BY <2>2, Zenon DEF IdleEmpty
<1>9. ASSUME NEW p \in Procs, RecoverErase(p) PROVE IdleEmpty'
  BY <1>9, Zenon DEF RecoverErase, EraseLog, IdleEmpty
<1>10. CASE Crash
  BY <1>10, ProcsAssumption, Zenon DEF Crash, IdleEmpty
<1>11. ASSUME UNCHANGED <<pc, committing, lh>> PROVE IdleEmpty'
  BY <1>11, Zenon DEF IdleEmpty, InOp, Booting
<1>12. CASE (\E b \in Blocks : Read(b) \/ Recycle(b)) \/ UNCHANGED vars
  BY <1>11, <1>12, Zenon DEF Read, Recycle, vars
<1> QED
  BY <1>1, <1>3, <1>4, <1>5, <1>6, <1>7, <1>8, <1>9, <1>10, <1>12, Zenon
  DEF Next, Step, BeginOp, CommitStep, RecoverStep

\* begin_op sleeps only while a commit or another call is under way, and both
\* wake it up at their end.
LEMMA SleepersNext ==
  ASSUME MAXOPBLOCKS <= LOGSIZE, LogInv, LogInv', IdleEmpty, SleepersCalled, [Next]_vars
  PROVE  SleepersCalled'
<1> USE DEF disk
<1>1. ASSUME NEW p \in Procs, BeginOpSleep(p) PROVE SleepersCalled'
  <2>1. CASE committing
    BY <1>1, <2>1, Zenon DEF BeginOpSleep, SleepersCalled
  <2>2. CASE ~committing /\ outstanding = 0
    <3>1. InOp = {} /\ NoSpace
      BY <1>1, <2>2, NoCallCounts, Zenon DEF BeginOpSleep
    <3>2. ~Booting
      BY <1>1, Zenon DEF LogInv, BootAlone, BeginOpSleep, Booting
    <3>3. Len(lh) = 0
      BY <2>2, <3>1, <3>2 DEF IdleEmpty
    <3> QED
      BY <2>2, <3>1, <3>3, SizeAssumption DEF NoSpace
  <2>3. CASE outstanding > 0
    BY <1>1, <2>3, Zenon DEF BeginOpSleep, SleepersCalled
  <2> QED
    BY <2>1, <2>2, <2>3 DEF LogInv, TypeOK
<1>2. ASSUME NEW p \in Procs, BeginOpEnter(p) PROVE SleepersCalled'
  <2>1. outstanding' > 0
    BY <1>2 DEF LogInv, TypeOK, BeginOpEnter
  <2> QED
    BY <2>1, Zenon DEF SleepersCalled
<1>3. ASSUME UNCHANGED <<pc, committing, outstanding>> PROVE SleepersCalled'
  BY <1>3, Zenon DEF SleepersCalled
<1>4. ASSUME NEW p \in Procs,
             \/ LogWrite(p) \/ ReleaseUnlogged(p)
             \/ \E b \in Blocks, d \in Data : Modify(p, b, d)
      PROVE  SleepersCalled'
  BY <1>3, <1>4, Zenon DEF LogWrite, ReleaseUnlogged, Modify
<1>5. ASSUME NEW p \in Procs, pc' = [Woken EXCEPT ![p] = "idle"] PROVE SleepersCalled'
  BY <1>5, Zenon DEF SleepersCalled, Woken
<1>6. ASSUME NEW p \in Procs, EndOp(p) PROVE SleepersCalled'
  <2>1. ~committing
    BY <1>6, DuringOp, Zenon DEF EndOp
  <2>2. CASE outstanding' = 0
    BY <1>6, <2>1, <2>2, Zenon DEF EndOp, SleepersCalled
  <2>3. CASE outstanding' # 0
    BY <1>5, <1>6, <2>1, <2>3, Zenon DEF EndOp
  <2> QED
    BY <2>2, <2>3, Zenon
<1>7. ASSUME NEW p \in Procs, WriteLog(p) \/ WriteHead(p) \/ Install(p) \/ CommitErase(p)
      PROVE  SleepersCalled'
  <2>1. pc[p] \in CommitPCs /\ committing' = committing
    BY <1>7, Zenon DEF WriteLog, WriteHead, Install, CommitErase, CommitPCs
  <2>2. committing
    BY <2>1, DuringCommit, Zenon
  <2> QED
    BY <2>1, <2>2, Zenon DEF SleepersCalled
<1>8. ASSUME NEW p \in Procs, EndCommit(p) PROVE SleepersCalled'
  BY <1>5, <1>8, Zenon DEF EndCommit
<1>9. ASSUME NEW p \in Procs, ReadHead(p) \/ RecoverInstall(p) PROVE SleepersCalled'
  <2>1. pc[p] \in BootPCs /\ pc[p] # "sleep"
    BY <1>9, Zenon DEF ReadHead, RecoverInstall, BootPCs
  <2>2. p = InitProc /\ \A q \in Procs : q # InitProc => pc[q] = "off"
    BY <1>9, <2>1, DuringBoot, Zenon DEF ReadHead, RecoverInstall
  <2>3. \A q \in Procs : pc'[q] # "sleep"
    <3>1. \A q \in Procs : pc[q] # "sleep"
      BY <2>1, <2>2, Zenon
    <3>2. \A q \in Procs : pc'[q] = pc[q] \/ pc'[q] = "recover"
      BY <1>9, Zenon DEF LogInv, TypeOK, ReadHead, RecoverInstall
    <3> QED
      BY <3>1, <3>2, Zenon
  <2> QED
    BY <2>3, Zenon DEF SleepersCalled
<1>10. ASSUME NEW p \in Procs, RecoverErase(p) PROVE SleepersCalled'
  BY <1>10, Zenon DEF RecoverErase, SleepersCalled
<1>11. CASE Crash
  BY <1>11, Zenon DEF Crash, PowerOnPC, SleepersCalled
<1>12. CASE (\E b \in Blocks : Read(b) \/ Recycle(b)) \/ UNCHANGED vars
  BY <1>3, <1>12, Zenon DEF Read, Recycle, vars
<1> QED
  BY <1>1, <1>2, <1>4, <1>6, <1>7, <1>8, <1>9, <1>10, <1>11, <1>12, Zenon
  DEF Next, Step, BeginOp, CommitStep, RecoverStep

\* begin_op, end_op and commit: whoever sleeps in begin_op has somebody to wake it
\* up, if the log has room for one call at all.
THEOREM SleepersAlwaysCalled ==
  ASSUME MAXOPBLOCKS <= LOGSIZE
  PROVE  Spec => []SleepersCalled
<1>1. Init => IdleEmpty /\ SleepersCalled
  BY Zenon DEF Init, PowerOnPC, IdleEmpty, SleepersCalled
<1>2. LogInv /\ LogInv' /\ IdleEmpty /\ SleepersCalled /\ [Next]_vars
        => IdleEmpty' /\ SleepersCalled'
  BY IdleEmptyNext, SleepersNext, Zenon
<1> QED
  BY <1>1, <1>2, Invariance, PTL DEF Spec

----------------------------------------------------------------------------
\* The length at which log_write panics, and the calls for which begin_op keeps
\* the transaction below it.  With the code's values (LOGSIZE = 30, nlog = 30,
\* MAXOPBLOCKS = 10) they log at most 9 blocks each, one less than they reserve.
Room == IF LOGSIZE < NLOG - 1 THEN LOGSIZE ELSE NLOG - 1
CallsFit == OpBlocks < Room /\ LOGSIZE - 2 * (MAXOPBLOCKS - OpBlocks) < Room

\* One element for each block that a call in progress may still add.
Spare == {x \in InOp \X (1 .. OpBlocks) : x[2] > Cardinality(wrote[x[1]])}

\* What the calls have logged is in the log, none exceeds its share, and there
\* is room for all that they may still log.
Space ==
    /\ ~panicked
    /\ \A p \in InOp :
          /\ \A b \in wrote[p] : InLog(b)
          /\ IsFiniteSet(wrote[p]) /\ Cardinality(wrote[p]) <= OpBlocks
          /\ held[p] # NoBlock => Cardinality(wrote[p] \cup {held[p]}) <= OpBlocks
    /\ InOp # {} => Len(lh) + Cardinality(Spare) < Room

\* The calls in progress have at most OpBlocks elements of Spare each.
LEMMA SpareFinite ==
  ASSUME LogInv
  PROVE  /\ IsFiniteSet(Spare) /\ Cardinality(Spare) \in Nat
         /\ Cardinality(Spare) <= outstanding * OpBlocks
<1> DEFINE S == InOp
           T == 1 .. OpBlocks
<1>1. IsFiniteSet(T) /\ Cardinality(T) = OpBlocks
  BY SizeAssumption, FS_Interval
<1>2. IsFiniteSet(S) /\ Cardinality(S) = outstanding
  BY InOpFinite, Zenon DEF LogInv, CountsCalls
<1>3. Spare \subseteq S \X T
  BY Zenon DEF Spare
<1> HIDE DEF S, T
<1>4. IsFiniteSet(S \X T) /\ Cardinality(S \X T) = outstanding * OpBlocks
  BY <1>1, <1>2, FS_Product, Zenon
<1>5. IsFiniteSet(Spare) /\ Cardinality(Spare) <= Cardinality(S \X T)
  BY <1>3, <1>4, FS_Subset, Zenon
<1> QED
  BY <1>4, <1>5, FS_CardinalityType, Zenon

\* With no call in progress there is nothing to reserve.
LEMMA NoCallSpace ==
  ASSUME InOp' = {}, ~panicked'
  PROVE  Space'
BY Zenon DEF Space

\* Space depends on the log, the calls in progress and what they have logged.
LEMMA SpaceKept ==
  ASSUME Space, UNCHANGED <<lh, held, wrote, panicked>>, InOp' = InOp
  PROVE  Space'
<1>1. Spare' = Spare
  BY Zenon DEF Spare
<1> QED
  BY <1>1, Zenon DEF Space, InLog

\* begin_op: what a new call may log fits, since each call in progress reserves more
\* than it logs and the first one starts with an empty log.
LEMMA BeginOpSpace ==
  ASSUME CallsFit, LogInv, LogInv', IdleEmpty, Space, NEW p \in Procs, BeginOpEnter(p)
  PROVE  Space'
<1> USE DEF disk
<1>1. /\ ~committing /\ ~NoSpace /\ lh' = lh /\ outstanding' = outstanding + 1
      /\ pc[p] \in {"idle", "begin"} /\ UNCHANGED <<held, panicked>>
      /\ pc' = [pc EXCEPT ![p] = "op"] /\ wrote' = [wrote EXCEPT ![p] = {}]
  BY Zenon DEF BeginOpEnter
<1>2. ~Booting
  BY <1>1, Zenon DEF LogInv, BootAlone, Booting
<1>3. Cardinality(Spare') \in Nat /\ Cardinality(Spare') <= outstanding' * OpBlocks
  <2>1. (LogInv => Cardinality(Spare) \in Nat /\ Cardinality(Spare) <= outstanding * OpBlocks)'
    BY SpareFinite, PTL
  <2> QED
    BY <2>1, Zenon
<1>4. Len(lh) + Cardinality(Spare') < Room
  <2>1. outstanding \in Nat /\ Len(lh) \in Nat
    BY DEF LogInv, TypeOK
  <2>2. CASE outstanding = 0
    <3>1. Len(lh) = 0
      BY <1>1, <1>2, <2>2, NoCallCounts DEF IdleEmpty
    <3>2. Cardinality(Spare') <= OpBlocks
      BY <1>1, <1>3, <2>2, SizeAssumption
    <3> QED
      BY <1>3, <3>1, <3>2, SizeAssumption DEF CallsFit, Room
  <2>3. CASE outstanding > 0
    <3> DEFINE o == outstanding + 1
               d == MAXOPBLOCKS - OpBlocks
    <3>1. d \in Nat /\ d > 0 /\ o \in Nat /\ o >= 2
      BY <2>1, <2>3, SizeAssumption DEF CallsFit, Room
    <3>2. Len(lh) + o * MAXOPBLOCKS <= LOGSIZE
      BY <1>1, <2>1, SizeAssumption DEF NoSpace
    <3>3. o * MAXOPBLOCKS = o * OpBlocks + o * d
      BY <3>1, SizeAssumption
    <3>4. o * d >= 2 * d
      BY <3>1
    <3>5. Cardinality(Spare') <= o * OpBlocks
      BY <1>1, <1>3, Zenon
    <3>6. o * OpBlocks \in Nat /\ o * d \in Nat
      BY <3>1, SizeAssumption
    <3> QED
      BY <1>3, <2>1, <3>1, <3>2, <3>3, <3>4, <3>5, <3>6, SizeAssumption DEF CallsFit, Room
  <2> QED
    BY <2>1, <2>2, <2>3
<1>5. ASSUME NEW q \in InOp'
      PROVE  /\ \A b \in wrote'[q] : InLog(b)'
             /\ IsFiniteSet(wrote'[q]) /\ Cardinality(wrote'[q]) <= OpBlocks
             /\ held'[q] # NoBlock => Cardinality(wrote'[q] \cup {held'[q]}) <= OpBlocks
  <2>1. CASE q = p
    <3>1. wrote'[p] = {} /\ held'[p] = NoBlock
      BY <1>1, Zenon DEF LogInv, TypeOK, HeldInOp
    <3>2. IsFiniteSet({}) /\ Cardinality({}) <= OpBlocks
      BY FS_EmptySet, SizeAssumption
    <3> QED
      BY <2>1, <3>1, <3>2, Zenon
  <2>2. CASE q # p
    <3>1. q \in InOp /\ wrote'[q] = wrote[q] /\ held'[q] = held[q]
      BY <1>1, <2>2, Zenon DEF LogInv, TypeOK, InOp
    <3>2. \A b \in wrote[q] : InLog(b)'
      BY <1>1, <3>1, Zenon DEF Space, InLog
    <3> QED
      BY <3>1, <3>2, Zenon DEF Space
  <2> QED
    BY <2>1, <2>2, Zenon
<1> QED
  BY <1>1, <1>4, <1>5, Zenon DEF Space

\* Modify: the caller stays within its share.
LEMMA ModifySpace ==
  ASSUME LogInv, Space, NEW p \in Procs, NEW b \in Blocks, NEW d \in Data, Modify(p, b, d)
  PROVE  Space'
<1> USE DEF disk
<1>1. /\ UNCHANGED <<pc, lh, wrote, panicked>> /\ held' = [held EXCEPT ![p] = b]
      /\ Cardinality(wrote[p] \cup {b}) <= OpBlocks
  BY Zenon DEF Modify
<1>2. InOp' = InOp
  BY <1>1, Zenon DEF InOp
<1>3. Spare' = Spare
  BY <1>1, <1>2, Zenon DEF Spare
<1>4. \A q \in InOp : held'[q] # NoBlock => Cardinality(wrote'[q] \cup {held'[q]}) <= OpBlocks
  BY <1>1, Zenon DEF LogInv, TypeOK, Space, InOp
<1> QED
  BY <1>1, <1>2, <1>3, <1>4, Zenon DEF Space, InLog

\* ReleaseUnlogged: the caller keeps its share.
LEMMA ReleaseUnloggedSpace ==
  ASSUME LogInv, Space, NEW p \in Procs, ReleaseUnlogged(p)
  PROVE  Space'
<1>1. UNCHANGED <<pc, lh, wrote, panicked>> /\ held' = [held EXCEPT ![p] = NoBlock]
  BY Zenon DEF ReleaseUnlogged
<1>2. InOp' = InOp
  BY <1>1, Zenon DEF InOp
<1>3. Spare' = Spare
  BY <1>1, <1>2, Zenon DEF Spare
<1>4. \A q \in InOp : held'[q] # NoBlock => held'[q] = held[q]
  BY <1>1, Zenon DEF LogInv, TypeOK, InOp
<1> QED
  BY <1>1, <1>2, <1>3, <1>4, Zenon DEF Space, InLog

\* end_op: what the call did not use is given back, and it does not meet a commit.
LEMMA EndOpSpace ==
  ASSUME LogInv, Space, NEW p \in Procs, EndOp(p)
  PROVE  Space'
<1> USE DEF disk
<1>1. UNCHANGED <<lh, held, wrote, panicked>> /\ pc[p] = "op"
  BY DuringOp, Zenon DEF EndOp
<1>2. InOp' \subseteq InOp
  BY Zenon DEF LogInv, TypeOK, EndOp, InOp, Woken
<1>3. Spare' \in SUBSET Spare
  BY <1>1, <1>2, Zenon DEF Spare
<1>4. Cardinality(Spare') <= Cardinality(Spare) /\ Cardinality(Spare') \in Nat
      /\ Cardinality(Spare) \in Nat
  BY <1>3, SpareFinite, FS_Subset, FS_CardinalityType, Zenon
<1>5. InOp' # {} => Len(lh') + Cardinality(Spare') < Room
  <2>1. InOp' # {} => Len(lh) + Cardinality(Spare) < Room
    BY <1>2, Zenon DEF Space
  <2>2. Len(lh) \in Nat /\ Room \in Int
    BY SizeAssumption DEF LogInv, TypeOK, Room
  <2> QED
    BY <1>1, <1>4, <2>1, <2>2
<1> QED
  BY <1>1, <1>2, <1>5, Zenon DEF Space, InLog

\* log_write: the log is never full, and a block that is new to it was one that the
\* call could still log.
LEMMA LogWriteSpace ==
  ASSUME LogInv, Space, NEW p \in Procs, LogWrite(p)
  PROVE  Space'
<1> DEFINE c == Cardinality(wrote[p])
<1> USE DEF disk
<1>0. PICK b \in Blocks : held[p] = b /\ b # NoBlock
  BY Zenon DEF LogInv, TypeOK, LogWrite
<1>1. p \in InOp /\ outstanding >= 1
  BY DuringOp DEF LogWrite, InOp
<1>2. /\ Len(lh) \in Nat /\ Room \in Int /\ Cardinality(Spare) \in Nat /\ IsFiniteSet(Spare)
      /\ Len(lh) + Cardinality(Spare) < Room
  <2>1. Len(lh) \in Nat
    BY DEF LogInv, TypeOK
  <2>2. Room \in Int
    BY SizeAssumption DEF Room
  <2> QED
    BY <1>1, <2>1, <2>2, SpareFinite, Zenon DEF Space
<1>3. ~TooBig
  BY <1>2, SizeAssumption DEF TooBig, Room
<1>4. /\ UNCHANGED <<pc, panicked>>
      /\ wrote' = [wrote EXCEPT ![p] = @ \cup {b}] /\ held' = [held EXCEPT ![p] = NoBlock]
      /\ lh' = IF InLog(b) THEN lh ELSE Append(lh, b)
  <2>1. ~(TooBig \/ outstanding < 1)
    BY <1>1, <1>3 DEF LogInv, TypeOK
  <2> QED
    BY <1>0, <2>1, Zenon DEF LogWrite
<1>5. InOp' = InOp
  BY <1>4, Zenon DEF InOp
<1>6. InLog(b)' /\ \A x \in Blocks : InLog(x) => InLog(x)'
  <2>1. CASE InLog(b)
    BY <1>4, <2>1, Zenon DEF InLog
  <2>2. CASE ~InLog(b)
    <3>1. /\ lh' = Append(lh, b) /\ lh \in Seq(Blocks) /\ Len(lh') = Len(lh) + 1
          /\ lh'[Len(lh) + 1] = b /\ \A i \in 1 .. Len(lh) : lh'[i] = lh[i]
      BY <1>4, <2>2 DEF LogInv, TypeOK
    <3>2. Len(lh) + 1 \in 1 .. Len(lh') /\ \A i \in 1 .. Len(lh) : i \in 1 .. Len(lh')
      BY <1>2, <3>1
    <3> QED
      BY <3>1, <3>2, Zenon DEF InLog
  <2> QED
    BY <2>1, <2>2, Zenon
<1>7. /\ wrote'[p] = wrote[p] \cup {b} /\ held'[p] = NoBlock
      /\ \A q \in InOp : q # p => wrote'[q] = wrote[q] /\ held'[q] = held[q]
  BY <1>4, Zenon DEF LogInv, TypeOK, InOp
<1>8. IsFiniteSet(wrote[p]) /\ c \in Nat /\ Cardinality(wrote[p] \cup {b}) <= OpBlocks
  BY <1>0, <1>1, FS_CardinalityType, Zenon DEF Space
<1>9. Len(lh') + Cardinality(Spare') < Room
  <2>1. CASE b \in wrote[p]
    <3>1. InLog(b) /\ wrote[p] \cup {b} = wrote[p]
      BY <1>1, <2>1, Zenon DEF Space
    <3>2. wrote' = wrote
      BY <1>4, <3>1, Zenon DEF LogInv, TypeOK
    <3>3. Spare' = Spare
      BY <1>5, <3>2, Zenon DEF Spare
    <3> QED
      BY <1>2, <1>4, <3>1, <3>3, Zenon
  <2>2. CASE b \notin wrote[p]
    <3> DEFINE e == <<p, c + 1>>
    <3>1. Cardinality(wrote'[p]) = c + 1 /\ c + 1 \in 1 .. OpBlocks
      <4>1. Cardinality(wrote[p] \cup {b}) = c + 1
        BY <1>8, <2>2, FS_AddElement, Zenon
      <4> QED
        BY <1>7, <1>8, <4>1, SizeAssumption
    <3>2. e \in Spare
      BY <1>1, <1>8, <3>1 DEF Spare
    <3>3. Spare' = Spare \ {e}
      <4>1. ASSUME NEW x \in Spare' PROVE x \in Spare \ {e}
        <5>1. x \in InOp \X (1 .. OpBlocks) /\ x[2] > Cardinality(wrote'[x[1]])
          BY <1>5, Zenon DEF Spare
        <5>2. CASE x[1] = p
          BY <1>8, <3>1, <5>1, <5>2 DEF Spare
        <5>3. CASE x[1] # p
          BY <1>7, <5>1, <5>3 DEF Spare
        <5> QED
          BY <5>2, <5>3, Zenon
      <4>2. ASSUME NEW x \in Spare, x # e PROVE x \in Spare'
        <5>1. x \in InOp \X (1 .. OpBlocks) /\ x[2] > Cardinality(wrote[x[1]])
          BY Zenon DEF Spare
        <5>2. CASE x[1] = p
          <6>1. x = <<x[1], x[2]>> /\ x[2] \in Nat
            BY <5>1
          <6>2. x[2] # c + 1
            BY <4>2, <5>2, <6>1, Zenon
          <6>3. x[2] > Cardinality(wrote'[x[1]])
            BY <1>8, <3>1, <5>1, <5>2, <6>1, <6>2
          <6> QED
            BY <1>5, <5>1, <6>3, Zenon DEF Spare
        <5>3. CASE x[1] # p
          <6>1. wrote'[x[1]] = wrote[x[1]]
            BY <1>7, <5>1, <5>3, Zenon
          <6> QED
            BY <1>5, <5>1, <6>1, Zenon DEF Spare
        <5> QED
          BY <5>2, <5>3, Zenon
      <4> QED
        BY <4>1, <4>2, Zenon
    <3>4. Cardinality(Spare') = Cardinality(Spare) - 1
      BY <1>2, <3>2, <3>3, FS_RemoveElement, Zenon
    <3>5. Len(lh') <= Len(lh) + 1 /\ Len(lh') \in Nat
      BY <1>1, <1>2, <1>4 DEF LogInv, TypeOK
    <3> QED
      BY <1>2, <3>4, <3>5
  <2> QED
    BY <2>1, <2>2, Zenon
<1>10. ASSUME NEW q \in InOp
       PROVE  /\ \A x \in wrote'[q] : InLog(x)'
              /\ IsFiniteSet(wrote'[q]) /\ Cardinality(wrote'[q]) <= OpBlocks
              /\ held'[q] # NoBlock => Cardinality(wrote'[q] \cup {held'[q]}) <= OpBlocks
  <2>1. \A x \in wrote[q] : InLog(x)'
    BY <1>6, Zenon DEF LogInv, TypeOK, Space, InOp
  <2>2. CASE q = p
    <3>1. IsFiniteSet(wrote[p] \cup {b})
      BY <1>8, FS_AddElement, Zenon
    <3> QED
      BY <1>6, <1>7, <1>8, <2>1, <2>2, <3>1, Zenon
  <2>3. CASE q # p
    BY <1>7, <2>1, <2>3, Zenon DEF Space
  <2> QED
    BY <2>2, <2>3, Zenon
<1> QED
  BY <1>4, <1>5, <1>9, <1>10, Zenon DEF Space

\* commit, recovery and a crash have no call in progress.
LEMMA QuietSpace ==
  ASSUME LogInv, Space, NEW p \in Procs, CommitStep(p) \/ RecoverStep(p)
  PROVE  Space'
<1> USE DEF disk
<1>1. panicked' = panicked
  BY Zenon DEF CommitStep, RecoverStep, WriteLog, WriteHead, Install, CommitErase, EndCommit,
         ReadHead, RecoverInstall, RecoverErase
<1>2. InOp = {}
  BY DuringCommit, DuringBoot, Zenon DEF CommitStep, RecoverStep, WriteLog, WriteHead, Install,
         CommitErase, EndCommit, ReadHead, RecoverInstall, RecoverErase, CommitPCs, BootPCs
<1>3. \A q \in Procs : pc'[q] = "op" => pc[q] = "op"
  <2>1. CASE WriteLog(p) \/ Install(p) \/ RecoverInstall(p)
    BY <2>1, Zenon DEF WriteLog, Install, RecoverInstall
  <2>2. CASE WriteHead(p) \/ CommitErase(p) \/ ReadHead(p)
    BY <2>2, Zenon DEF LogInv, TypeOK, WriteHead, CommitErase, ReadHead
  <2>3. CASE EndCommit(p)
    BY <2>3, Zenon DEF EndCommit, Woken
  <2>4. CASE RecoverErase(p)
    BY <2>4, Zenon DEF RecoverErase
  <2> QED
    BY <2>1, <2>2, <2>3, <2>4, Zenon DEF CommitStep, RecoverStep
<1>4. InOp' = {}
  BY <1>2, <1>3, Zenon DEF InOp
<1> QED
  BY <1>1, <1>4, NoCallSpace, Zenon DEF Space

\* begin_op, log_write and end_op never panic when every call logs a little less
\* than begin_op reserves for it (CallsFit).
THEOREM NeverPanics ==
  ASSUME CallsFit
  PROVE  Spec => []NoPanic
<1>1. Init => IdleEmpty /\ Space
  BY Zenon DEF Init, PowerOnPC, IdleEmpty, Space, InOp
<1>2. LogInv /\ LogInv' /\ IdleEmpty /\ Space /\ [Next]_vars => IdleEmpty' /\ Space'
  <2> SUFFICES ASSUME LogInv, LogInv', IdleEmpty, Space, [Next]_vars
               PROVE  Space'
    BY IdleEmptyNext, Zenon
  <2>1. ASSUME NEW p \in Procs, BeginOpSleep(p) PROVE Space'
    <3>1. InOp' = InOp
      BY <2>1, Zenon DEF LogInv, TypeOK, BeginOpSleep, InOp
    <3> QED
      BY <2>1, <3>1, SpaceKept, Zenon DEF BeginOpSleep
  <2>2. ASSUME (\E b \in Blocks : Read(b) \/ Recycle(b)) \/ UNCHANGED vars PROVE Space'
    <3>1. InOp' = InOp /\ UNCHANGED <<lh, held, wrote, panicked>>
      BY <2>2, Zenon DEF Read, Recycle, vars, InOp
    <3> QED
      BY <3>1, SpaceKept, Zenon
  <2>3. CASE Crash
    <3>1. InOp' = {} /\ ~panicked'
      BY <2>3, Zenon DEF Crash, PowerOnPC, InOp
    <3> QED
      BY <3>1, NoCallSpace, Zenon
  <2> QED
    BY <2>1, <2>2, <2>3, BeginOpSpace, ModifySpace, LogWriteSpace, ReleaseUnloggedSpace,
       EndOpSpace, QuietSpace, Zenon
    DEF Next, Step, BeginOp
<1>3. Space => NoPanic
  BY Zenon DEF Space, NoPanic
<1> QED
  BY <1>1, <1>2, <1>3, Invariance, PTL DEF Spec
===========================================================================
