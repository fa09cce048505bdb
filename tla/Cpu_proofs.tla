---------------------------- MODULE Cpu_proofs ----------------------------
(***************************************************************************)
(* Proofs about Cpu: for any number of CPUs and processes, the panics of   *)
(* the spinlocks and of sched never happen, interrupts are masked in the   *)
(* kernel, ELR_EL1 survives a return, and no sleeper is forgotten.         *)
(*                                                                         *)
(* The label of a thread decides which locks its CPU holds, how deep its   *)
(* push_offs are nested, and whether interrupts may be on.  Most steps     *)
(* change one CPU and the thread that it runs: LocalStep says what such a  *)
(* step has to show about these two, and LocalStepInv that the others      *)
(* follow.                                                                 *)
(***************************************************************************)
EXTENDS Cpu, TLAPS

USE SMTT(60)

(***************************************************************************)
(* What a label says.                                                      *)
(***************************************************************************)
OwnHeld ==
    {"forkret", "y_sched", "y_rel", "e_drop", "e_sched", "s_drop", "s_sched", "s_wake",
     "f_drop", "f_sched", "f_wake"}
PickHeld == {"picked", "unpick"}
TicksHeld == {"t_tick", "t_wake", "t_rel", "s_read", "s_test", "s_own", "s_drop", "s_rel"}
WaitHeld == {"e_lock", "e_drop"}
DiskHeld == {"d_wake", "d_rel", "f_test", "f_own", "f_drop", "f_rel"}
OuterHeld == TicksHeld \cup WaitHeld \cup DiskHeld

Acquires ==
    {"pick", "y_lock", "e_wait", "e_lock", "t_lock", "d_lock", "s_lock", "s_own", "s_again",
     "f_lock", "f_own", "f_again"}
Releases ==
    {"unpick", "forkret", "y_rel", "e_drop", "t_rel", "d_rel", "s_rel", "s_drop", "s_wake",
     "f_rel", "f_drop", "f_wake"}

Booting == {"boot", "cpuset", "started"}
Handling ==
    {"irq", "t_lock", "t_tick", "t_wake", "t_rel", "d_lock", "d_wake", "d_rel", "irq_done",
     "irq_ret"}
Picking == {"pick", "picked", "unpick"}
Yielding == {"y_lock", "y_sched", "y_rel"}
Exiting == {"e_wait", "e_lock", "e_drop", "e_sched"}
Sleeping ==
    {"s_lock", "s_read", "s_test", "s_own", "s_drop", "s_sched", "s_wake", "s_again", "s_rel"}
Mounting ==
    {"f_init", "f_lock", "f_test", "f_own", "f_drop", "f_sched", "f_wake", "f_again", "f_rel"}
Returning == {"trapret", "eret"}

\* Where interrupts may be on in a new process.
Open == {"f_first", "f_init", "f_lock", "f_again", "trapret", "eret"}

SchedLabels == Booting \cup Handling \cup Picking \cup {"idle"}
ProcLabels ==
    Handling \cup Yielding \cup Exiting \cup Sleeping \cup Mounting \cup Returning
    \cup {"forkret", "f_first", "user", "exited", "svc_done"}

Resumable == {"forkret", "y_rel", "s_wake", "f_wake"}   \* where swtch to a process goes on

States == {"unused", "runnable", "running", "sleeping", "zombie"}

ThreadRecs ==
    [pc : SchedLabels \cup ProcLabels, spin : BOOLEAN, pick : Procs \cup {None},
     ret : {"irq_ret", "svc_done"}, back : SchedLabels \cup ProcLabels, is_timer : BOOLEAN,
     intena : BOOLEAN, ticks0 : Int, n : Int, new : BOOLEAN, val : SUBSET Cpus]

TypeOK ==
    /\ locks \in [Locks -> Cpus \cup {None}]
    /\ irq \in [Cpus -> BOOLEAN] /\ noff \in [Cpus -> Int] /\ intena \in [Cpus -> BOOLEAN]
    /\ elr \in [Cpus -> {"user", "kernel"}] /\ on \in [Cpus -> Threads]
    /\ th \in [Threads -> ThreadRecs]
    /\ state \in [Procs -> States] /\ killed \in [Procs -> BOOLEAN]
    /\ ticks \in Int /\ targets \in SUBSET Cpus /\ first \in BOOLEAN
    /\ panic = FALSE /\ wild \in BOOLEAN

\* Thread t may have record r.  An interrupt comes where interrupts may be on, so it
\* goes back to there.
ThreadOk(t, r) ==
    /\ t[1] = "scheduler" => r.pc \in SchedLabels
    /\ t[1] = "proc" => r.pc \in ProcLabels
    /\ r.spin => r.pc \in Acquires
    /\ r.pc = "started" => t = Sched(0)
    /\ r.pc \in Picking => r.pick \in Procs
    /\ r.pc \in Handling /\ t[1] = "scheduler" =>
          r.back \in {"idle", "pick"} /\ (r.back = "pick" => r.pick \in Procs)
    /\ (r.pc \in Handling /\ t[1] = "proc") \/ (r.pc \in Yielding /\ r.ret = "irq_ret") =>
          r.back = "user" \/ (r.new /\ r.back \in Open)
    /\ r.pc \in Mounting \cup {"forkret", "f_first"} => r.new

\* How deep the push_offs of a CPU are nested whose thread has record r.
Depth(r) ==
    (IF r.pc \in OuterHeld THEN 1 ELSE 0) + (IF r.pc \in OwnHeld \cup PickHeld THEN 1 ELSE 0)
    + (IF r.spin THEN 1 ELSE 0)

\* A CPU whose thread has record r may have irq i, noff n and intena e.
CpuOk(r, i, n, e) ==
    /\ n = Depth(r)
    /\ i => n = 0 /\ (r.pc \in {"user", "idle", "pick"} \/ (r.new /\ r.pc \in Open))
    /\ e /\ n > 0 => r.pc \in Picking \cup Mounting \cup {"forkret"}

\* A CPU that runs thread t with record r holds lock l.
Holds(t, r, l) ==
    \/ r.pc \in TicksHeld /\ l = "ticks"
    \/ r.pc \in WaitHeld /\ l = "wait"
    \/ r.pc \in DiskHeld /\ l = "disk"
    \/ r.pc \in OwnHeld /\ t = Proc(l)
    \/ r.pc \in PickHeld /\ l = r.pick

ThreadsOk == \A t \in Threads : ThreadOk(t, th[t])
CpusOk == \A c \in Cpus : CpuOk(th[on[c]], irq[c], noff[c], intena[c])
LocksOk == \A c \in Cpus, l \in Locks : locks[l] = c <=> Holds(on[c], th[on[c]], l)

\* A CPU runs its scheduler, or a process that the scheduler waits for.
OnOk ==
    \A c \in Cpus :
        on[c] = Sched(c) \/ \E p \in Procs :
            /\ on[c] = Proc(p) /\ state[p] = "running"
            /\ th[Sched(c)].pc = "unpick" /\ th[Sched(c)].pick = p
OnOnce == \A c, d \in Cpus : on[c] = on[d] => c = d

\* A process that no CPU runs is where it has left one.
ParkedOk ==
    \A p \in Procs : (\A c \in Cpus : on[c] # Proc(p)) =>
        /\ state[p] # "running"
        /\ th[Proc(p)].pc \in Resumable \cup {"exited"}
        /\ state[p] \in {"runnable", "sleeping"} => th[Proc(p)].pc # "exited"
        /\ th[Proc(p)].pc \in {"y_rel", "s_wake"} => ~th[Proc(p)].intena

BootOk ==
    th[Sched(0)].pc \in Booting =>
        \A p \in Procs : state[p] = "unused" /\ th[Proc(p)].pc = "forkret"

\* From the test of sys_sleep to sched: first tickslock keeps the clock from going
\* on, then p->lock keeps wakeup from going past the process.
Dozes(p) == state[p] = "sleeping" /\ th[Proc(p)].pc = "s_wake"
SleepOk ==
    \A p \in Procs :
        /\ th[Proc(p)].pc \in {"s_own", "s_drop"} => ~Due(Proc(p))
        /\ (th[Proc(p)].pc = "s_sched" \/ Dozes(p)) /\ Due(Proc(p))
           => \E c \in Cpus : Pc(c) = "t_wake"

ElrOk == \A c \in Cpus : Pc(c) = "eret" /\ ~th[on[c]].new => elr[c] = "user"

CpuInv ==
    /\ TypeOK /\ ThreadsOk /\ CpusOk /\ LocksOk /\ OnOk /\ OnOnce /\ ParkedOk /\ BootOk
    /\ SleepOk /\ ElrOk

(***************************************************************************)
(* Lemmas about names and labels.                                          *)
(***************************************************************************)
\* The threads of schedulers and of processes (struct cpu's context, struct proc's
\* context) are all different.
LEMMA ThreadNames ==
    /\ \A c, d : Sched(c) = Sched(d) => c = d
    /\ \A p, q : Proc(p) = Proc(q) => p = q
    /\ \A c, p : Sched(c) # Proc(p)
    /\ \A c : Sched(c)[1] = "scheduler"
    /\ \A p : Proc(p)[1] = "proc" /\ Proc(p)[2] = p
    /\ \A c \in Cpus : Sched(c) \in Threads
    /\ \A p \in Procs : Proc(p) \in Threads
    /\ \A t \in Threads : (\E c \in Cpus : t = Sched(c)) \/ \E p \in Procs : t = Proc(p)
BY Zenon DEF Sched, Proc, Threads

\* p->lock of a process is no other lock nor no lock at all, and no CPU is None.
LEMMA LockNames ==
    /\ {"ticks", "wait", "disk"} \subseteq Locks
    /\ \A p \in Procs : p \in Locks /\ p \notin {"ticks", "wait", "disk"} /\ p # None
    /\ \A c \in Cpus : c # None
BY CpuAssumption, Zenon DEF Locks

\* mycpu()->proc: the process that the CPU runs, or none in the scheduler.
LEMMA MyprocIs ==
    ASSUME NEW c \in Cpus
    PROVE  /\ \A p : on[c] = Proc(p) => Myproc(c) = p
           /\ on[c] = Sched(c) => Myproc(c) = None
BY ThreadNames, Zenon DEF Myproc

\* noff counts the locks that the label stands for, and the one that acquire spins on.
LEMMA DepthIs ==
    ASSUME NEW r
    PROVE  /\ ~r.spin /\ r.pc \notin OuterHeld \cup OwnHeld \cup PickHeld => Depth(r) = 0
           /\ ~r.spin /\ r.pc \in OuterHeld \ (OwnHeld \cup PickHeld) => Depth(r) = 1
           /\ ~r.spin /\ r.pc \in (OwnHeld \cup PickHeld) \ OuterHeld => Depth(r) = 1
           /\ ~r.spin /\ r.pc \in OuterHeld \cap OwnHeld => Depth(r) = 2
           /\ r.spin /\ r.pc \notin OuterHeld \cup OwnHeld \cup PickHeld => Depth(r) = 1
           /\ r.spin /\ r.pc \in OuterHeld \ (OwnHeld \cup PickHeld) => Depth(r) = 2
BY DEF Depth

(***************************************************************************)
(* Steps of one CPU.                                                       *)
(***************************************************************************)
\* CPU c changes its own registers and the record of the thread that it runs, both
\* as its label allows; it takes and gives back locks; and processes that no CPU
\* runs may change state.
LocalStep(c) ==
    /\ TypeOK' /\ on' = on
    /\ \A t \in Threads \ {on[c]} : th'[t] = th[t]
    /\ \A d \in Cpus \ {c} :
          irq'[d] = irq[d] /\ noff'[d] = noff[d] /\ intena'[d] = intena[d] /\ elr'[d] = elr[d]
    /\ \A l \in Locks :
          locks'[l] = locks[l] \/ (locks[l] \in {c, None} /\ locks'[l] \in {c, None})
    /\ \A p \in Procs :
          \/ state'[p] = state[p]
          \/ /\ state[p] # "running" /\ state'[p] # "running"
             /\ state'[p] \in {"runnable", "sleeping"} => th[Proc(p)].pc # "exited"
    /\ ThreadOk(on[c], th'[on[c]])
    /\ CpuOk(th'[on[c]], irq'[c], noff'[c], intena'[c])
    /\ \A l \in Locks : locks'[l] = c <=> Holds(on[c], th'[on[c]], l)
    /\ th'[Sched(0)].pc \in Booting => th[Sched(0)].pc \in Booting /\ state' = state
    /\ th'[on[c]].pc = "eret" /\ ~th'[on[c]].new => elr'[c] = "user"

\* Such a step keeps the parts of the invariant that are not about sleepers.
LEMMA LocalStepInv ==
    ASSUME CpuInv, NEW c \in Cpus, LocalStep(c)
    PROVE  (/\ ThreadsOk /\ CpusOk /\ LocksOk /\ OnOk /\ OnOnce /\ ParkedOk /\ BootOk /\ ElrOk)'
<1>. USE DEF CpuInv, LocalStep
<1>0. \A d \in Cpus \ {c} : on[d] # on[c] /\ on[d] \in Threads /\ th'[on[d]] = th[on[d]]
  BY DEF OnOnce, TypeOK
<1>1. ThreadsOk'
  BY Zenon DEF ThreadsOk
<1>2. CpusOk'
  BY <1>0, Zenon DEF CpusOk
<1>3. LocksOk'
  BY <1>0, LockNames DEF LocksOk
<1>4. OnOk'
  BY ThreadNames DEF OnOk
<1>5. OnOnce'
  BY Zenon DEF OnOnce
<1>6. ParkedOk'
  BY ThreadNames DEF ParkedOk
<1>7. BootOk'
  BY ThreadNames, CpuAssumption DEF BootOk, OnOk
<1>8. ElrOk'
  BY <1>0 DEF ElrOk, Pc
<1>. QED
  BY <1>1, <1>2, <1>3, <1>4, <1>5, <1>6, <1>7, <1>8, Zenon

\* Steps that leave the clock alone, and move a process towards sleep only from where
\* sys_sleep has found that it is not yet time, keep what SleepOk says.
LEMMA QuietStep ==
    ASSUME CpuInv, ticks' = ticks,
           \A p \in Procs :
             /\ th'[Proc(p)].pc \in {"s_own", "s_drop"} =>
                  /\ th[Proc(p)].pc \in {"s_own", "s_drop"}
                  /\ th'[Proc(p)].ticks0 = th[Proc(p)].ticks0 /\ th'[Proc(p)].n = th[Proc(p)].n
             /\ th'[Proc(p)].pc = "s_sched" \/ Dozes(p)' =>
                  /\ th[Proc(p)].pc \in {"s_drop", "s_sched"} \/ Dozes(p)
                  /\ th'[Proc(p)].ticks0 = th[Proc(p)].ticks0 /\ th'[Proc(p)].n = th[Proc(p)].n,
           (\E c \in Cpus : Pc(c) = "t_wake") => \E c \in Cpus : Pc(c)' = "t_wake"
    PROVE  SleepOk'
<1>1. \A p \in Procs :
        th'[Proc(p)].ticks0 = th[Proc(p)].ticks0 /\ th'[Proc(p)].n = th[Proc(p)].n
        => (Due(Proc(p))' <=> Due(Proc(p)))
  BY Zenon DEF Due
<1>. QED
  BY <1>1, Zenon DEF CpuInv, SleepOk

\* What the invariant says of a CPU and the thread that it runs.
LEMMA Current ==
    ASSUME CpuInv, NEW c \in Cpus
    PROVE  /\ on[c] \in Threads /\ th[on[c]] \in ThreadRecs /\ Pc(c) = th[on[c]].pc
           /\ ThreadOk(on[c], th[on[c]]) /\ CpuOk(th[on[c]], irq[c], noff[c], intena[c])
           /\ \A l \in Locks : locks[l] = c <=> Holds(on[c], th[on[c]], l)
           /\ \/ on[c] = Sched(c) /\ Myproc(c) = None
              \/ Myproc(c) \in Procs /\ on[c] = Proc(Myproc(c)) /\ state[Myproc(c)] = "running"
BY MyprocIs DEF CpuInv, TypeOK, ThreadsOk, CpusOk, LocksOk, OnOk, Pc

\* A process gets a new state.
LEMMA SetState ==
    ASSUME CpuInv, NEW p \in Procs, NEW s \in States
    PROVE  [state EXCEPT ![p] = s] \in [Procs -> States]
<1>1. state \in [Procs -> States]
  BY Zenon DEF CpuInv, TypeOK
<1>. QED
  BY <1>1, Zenon

\* Two records that agree on all but the label, is_timer and val.
Kept(s, r) ==
    /\ s.spin = r.spin /\ s.pick = r.pick /\ s.ret = r.ret /\ s.back = r.back
    /\ s.intena = r.intena /\ s.ticks0 = r.ticks0 /\ s.n = r.n /\ s.new = r.new

\* Two records that agree on all but the label and whether the thread spins.
KeptSpin(s, r) ==
    /\ s.pick = r.pick /\ s.ret = r.ret /\ s.back = r.back
    /\ s.intena = r.intena /\ s.ticks0 = r.ticks0 /\ s.n = r.n /\ s.new = r.new

\* A record in which a scheduler has picked process p.
Picks(s, r, p) == s.pick = p /\ s.spin = r.spin

\* A record of a thread that was interrupted at label y, and of one that has made a
\* system call.
Interrupted(s, r, y) == s.back = y /\ s.new = r.new /\ s.spin = r.spin /\ s.pick = r.pick
Called(s, r) == s.ret = "svc_done" /\ s.spin = r.spin
SameCall(s, r) == s.pc = r.pc /\ s.ret = r.ret /\ s.spin = r.spin

\* The new records that the steps give a thread.
LEMMA JumpVal ==
    ASSUME NEW r \in ThreadRecs, NEW x \in SchedLabels \cup ProcLabels, NEW v \in SUBSET Cpus
    PROVE  LET s == [r EXCEPT !.pc = x, !.val = v]
           IN  s \in ThreadRecs /\ s.pc = x /\ Kept(s, r)
BY Zenon DEF ThreadRecs, Kept

LEMMA JumpPick ==
    ASSUME NEW r \in ThreadRecs, NEW x \in SchedLabels \cup ProcLabels, NEW p \in Procs
    PROVE  LET s == [r EXCEPT !.pc = x, !.pick = p]
           IN  s \in ThreadRecs /\ s.pc = x /\ Picks(s, r, p)
BY Zenon DEF ThreadRecs, Picks

LEMMA JumpClock ==
    ASSUME NEW r \in ThreadRecs, NEW x \in SchedLabels \cup ProcLabels, NEW k \in Int
    PROVE  LET s == [r EXCEPT !.ticks0 = k, !.pc = x]
           IN  s \in ThreadRecs /\ s.pc = x /\ s.spin = r.spin
BY Zenon DEF ThreadRecs

LEMMA JumpIrq ==
    ASSUME NEW r \in ThreadRecs, NEW x \in SchedLabels \cup ProcLabels,
           NEW y \in SchedLabels \cup ProcLabels
    PROVE  LET s == [r EXCEPT !.pc = x, !.back = y, !.ret = "irq_ret"]
           IN  s \in ThreadRecs /\ s.pc = x /\ Interrupted(s, r, y)
BY Zenon DEF ThreadRecs, Interrupted

LEMMA JumpUser ==
    ASSUME NEW r \in ThreadRecs, NEW x \in SchedLabels \cup ProcLabels
    PROVE  LET s == [r EXCEPT !.pc = x, !.new = FALSE]
           IN  s \in ThreadRecs /\ s.pc = x /\ s.spin = r.spin
BY Zenon DEF ThreadRecs

LEMMA JumpCall ==
    ASSUME NEW r \in ThreadRecs, NEW x \in SchedLabels \cup ProcLabels
    PROVE  LET s == [r EXCEPT !.pc = x, !.ret = "svc_done"]
           IN  s \in ThreadRecs /\ s.pc = x /\ Called(s, r)
BY Zenon DEF ThreadRecs, Called

LEMMA SetN ==
    ASSUME NEW r \in ThreadRecs, NEW k \in Int
    PROVE  LET s == [r EXCEPT !.n = k]
           IN  s \in ThreadRecs /\ SameCall(s, r)
BY Zenon DEF ThreadRecs, SameCall

LEMMA Spins ==
    ASSUME NEW r \in ThreadRecs
    PROVE  LET s == [r EXCEPT !.spin = TRUE]
           IN  s \in ThreadRecs /\ s.spin /\ s.pc = r.pc /\ KeptSpin(s, r)
BY Zenon DEF ThreadRecs, KeptSpin

LEMMA StopsSpinning ==
    ASSUME NEW r \in ThreadRecs, NEW x \in SchedLabels \cup ProcLabels, Code[r.pc][3] = x
    PROVE  LET s == [r EXCEPT !.spin = FALSE, !.pc = Code[@][3]]
           IN  s \in ThreadRecs /\ ~s.spin /\ s.pc = x /\ KeptSpin(s, r)
BY Zenon DEF ThreadRecs, KeptSpin

LEMMA JumpTimer ==
    ASSUME NEW r \in ThreadRecs, NEW x \in SchedLabels \cup ProcLabels, NEW b \in BOOLEAN
    PROVE  LET s == [r EXCEPT !.is_timer = b, !.pc = x]
           IN  s \in ThreadRecs /\ s.pc = x /\ Kept(s, r)
BY Zenon DEF ThreadRecs, Kept

\* The thread that the CPU runs gets a new record, and only that one.
LEMMA BecomeIs ==
    ASSUME CpuInv, NEW c \in Cpus, NEW r \in ThreadRecs, Become(c, r)
    PROVE  /\ th' \in [Threads -> ThreadRecs]
           /\ \A t \in Threads \ {on[c]} : th'[t] = th[t]
           /\ th'[on[c]] = r
BY Zenon DEF CpuInv, TypeOK, Become

\* A jump changes the label of the thread that the CPU runs.
LEMMA JumpTo ==
    ASSUME CpuInv, NEW c \in Cpus, NEW x \in SchedLabels \cup ProcLabels, Goto(c, x)
    PROVE  \E s \in ThreadRecs : s.pc = x /\ Kept(s, th[on[c]]) /\ Become(c, s)
<1>. DEFINE s == [th[on[c]] EXCEPT !.pc = x]
<1>1. th[on[c]] \in ThreadRecs
  BY Current, Zenon
<1>2. s \in ThreadRecs /\ s.pc = x /\ Kept(s, th[on[c]])
  BY <1>1, Zenon DEF ThreadRecs, Kept
<1>3. Become(c, s)
  BY Zenon DEF Goto
<1>. HIDE DEF s
<1>. QED
  BY <1>2, <1>3, Zenon

\* With locks and registers as they were, it is enough that the new label holds the
\* same locks, and that the thread may be there.
LEMMA KeepStep ==
    ASSUME CpuInv, NEW c \in Cpus, TypeOK', on' = on, locks' = locks, mask' = mask,
           \A t \in Threads \ {on[c]} : th'[t] = th[t],
           \A d \in Cpus \ {c} : elr'[d] = elr[d],
           \A p \in Procs :
              \/ state'[p] = state[p]
              \/ /\ state[p] # "running" /\ state'[p] # "running"
                 /\ state'[p] \in {"runnable", "sleeping"} => th[Proc(p)].pc # "exited",
           th'[on[c]].spin = th[on[c]].spin,
           Pc(c) \in PickHeld => th'[on[c]].pick = th[on[c]].pick,
           irq[c] => \/ th'[on[c]].pc \in {"user", "idle", "pick"}
                     \/ th'[on[c]].new /\ th'[on[c]].pc \in Open,
           th'[on[c]].pc \in TicksHeld <=> Pc(c) \in TicksHeld,
           th'[on[c]].pc \in WaitHeld <=> Pc(c) \in WaitHeld,
           th'[on[c]].pc \in DiskHeld <=> Pc(c) \in DiskHeld,
           th'[on[c]].pc \in OwnHeld <=> Pc(c) \in OwnHeld,
           th'[on[c]].pc \in PickHeld <=> Pc(c) \in PickHeld,
           intena[c] /\ noff[c] > 0 => th'[on[c]].pc \in Picking \cup Mounting,
           ThreadOk(on[c], th'[on[c]]),
           th'[on[c]].pc = "eret" /\ ~th'[on[c]].new => elr'[c] = "user",
           th'[Sched(0)].pc \in Booting => th[Sched(0)].pc \in Booting /\ state' = state
    PROVE  LocalStep(c)
<1>. DEFINE r == th[on[c]]  s == th'[on[c]]
<1>1. Pc(c) = r.pc /\ CpuOk(r, irq[c], noff[c], intena[c])
      /\ \A l \in Locks : locks[l] = c <=> Holds(on[c], r, l)
  BY Current, Zenon
<1>2. Depth(s) = Depth(r)
  BY <1>1, Zenon DEF Depth, OuterHeld
<1>3. CpuOk(s, irq[c], noff[c], intena[c])
  BY <1>1, <1>2, Zenon DEF CpuOk
<1>4. \A l \in Locks : Holds(on[c], s, l) <=> Holds(on[c], r, l)
  BY <1>1 DEF Holds
<1>. QED
  BY <1>1, <1>3, <1>4, Zenon DEF LocalStep, mask

\* A step of a CPU that neither comes near the sleep of its thread nor is the wakeup
\* keeps what SleepOk says.
LEMMA AwakeStep ==
    ASSUME CpuInv, NEW c \in Cpus, on' = on, ticks' = ticks,
           \A t \in Threads \ {on[c]} : th'[t] = th[t],
           th'[on[c]].pc \notin {"s_own", "s_drop", "s_sched"}, Pc(c) # "t_wake",
           \A p \in Procs : state'[p] = "sleeping" => state[p] = "sleeping"
    PROVE  SleepOk'
<1>1. \A p \in Procs : on[c] = Proc(p) => state[p] # "sleeping"
  BY ThreadNames DEF CpuInv, OnOk
<1>2. \A d \in Cpus \ {c} : on[d] # on[c] /\ on[d] \in Threads
  BY Zenon DEF CpuInv, OnOnce, TypeOK
<1>3. \A d \in Cpus : Pc(d) = "t_wake" => Pc(d)' = "t_wake"
  BY <1>2, Zenon DEF Pc
<1>. QED
  BY <1>1, <1>3, ThreadNames, QuietStep, Zenon DEF Dozes

\* A step of a CPU keeps the invariant when it keeps what SleepOk says.
LEMMA StepInv ==
    ASSUME CpuInv, NEW c \in Cpus, LocalStep(c), SleepOk'
    PROVE  CpuInv'
<1>1. TypeOK'
  BY Zenon DEF LocalStep
<1>. QED
  BY <1>1, LocalStepInv, Zenon DEF CpuInv

\* The variables other than locks, registers and threads have values of their types.
RestOK ==
    /\ elr \in [Cpus -> {"user", "kernel"}]
    /\ state \in [Procs -> States] /\ killed \in [Procs -> BOOLEAN]
    /\ ticks \in Int /\ targets \in SUBSET Cpus /\ first \in BOOLEAN
    /\ panic = FALSE /\ wild \in BOOLEAN

\* A CPU whose locks and registers stay, and whose thread goes on with record r: the
\* new label holds the same locks, and the thread may be there.
Jump(c, r) ==
    /\ Become(c, r) /\ on' = on /\ locks' = locks /\ mask' = mask /\ RestOK'
    /\ \A d \in Cpus \ {c} : elr'[d] = elr[d]
    /\ \A p \in Procs :
          \/ state'[p] = state[p]
          \/ /\ state[p] # "running" /\ state'[p] # "running"
             /\ state'[p] \in {"runnable", "sleeping"} => th[Proc(p)].pc # "exited"
    /\ r.spin = th[on[c]].spin
    /\ Pc(c) \in PickHeld => r.pick = th[on[c]].pick
    /\ irq[c] => r.pc \in {"user", "idle", "pick"} \/ (r.new /\ r.pc \in Open)
    /\ r.pc \in TicksHeld <=> Pc(c) \in TicksHeld
    /\ r.pc \in WaitHeld <=> Pc(c) \in WaitHeld
    /\ r.pc \in DiskHeld <=> Pc(c) \in DiskHeld
    /\ r.pc \in OwnHeld <=> Pc(c) \in OwnHeld
    /\ r.pc \in PickHeld <=> Pc(c) \in PickHeld
    /\ intena[c] /\ noff[c] > 0 => r.pc \in Picking \cup Mounting
    /\ ThreadOk(on[c], r)
    /\ r.pc = "eret" /\ ~r.new => elr'[c] = "user"
    /\ on[c] = Sched(0) /\ r.pc \in Booting => Pc(c) \in Booting
    /\ (on[c] # Sched(0) \/ r.pc \in Booting) /\ th[Sched(0)].pc \in Booting => state' = state

\* A jump is a step of the CPU alone.
LEMMA JumpLocal ==
    ASSUME CpuInv, NEW c \in Cpus, NEW r \in ThreadRecs, Jump(c, r)
    PROVE  LocalStep(c)
<1>0. /\ Become(c, r) /\ on' = on /\ locks' = locks /\ mask' = mask /\ RestOK'
  BY Zenon DEF Jump
<1>1. /\ th' \in [Threads -> ThreadRecs] /\ th'[on[c]] = r
      /\ \A t \in Threads \ {on[c]} : th'[t] = th[t]
  BY <1>0, BecomeIs, Zenon
<1>2. TypeOK'
  BY <1>0, <1>1, Zenon DEF CpuInv, TypeOK, RestOK, mask
<1>3. Pc(c) = th[on[c]].pc /\ on[c] \in Threads /\ Sched(0) \in Threads
  BY Current, ThreadNames, CpuAssumption, Zenon
<1>4. th'[Sched(0)].pc \in Booting => th[Sched(0)].pc \in Booting /\ state' = state
  <2>1. CASE on[c] = Sched(0)
    BY <1>1, <1>3, <2>1, Zenon DEF Jump
  <2>2. CASE on[c] # Sched(0)
    BY <1>1, <1>3, <2>2, Zenon DEF Jump
  <2>. QED
    BY <2>1, <2>2, Zenon
<1>. QED
  BY <1>0, <1>1, <1>2, <1>4, KeepStep DEF Jump

\* A jump that has nothing to do with sleep keeps the invariant.
LEMMA JumpInv ==
    ASSUME CpuInv, NEW c \in Cpus, NEW r \in ThreadRecs, Jump(c, r), ticks' = ticks,
           r.pc \notin {"s_own", "s_drop", "s_sched"}, Pc(c) # "t_wake",
           \A p \in Procs : state'[p] = "sleeping" => state[p] = "sleeping"
    PROVE  CpuInv'
<1>1. on' = on /\ th'[on[c]] = r /\ \A t \in Threads \ {on[c]} : th'[t] = th[t]
  BY BecomeIs DEF Jump
<1>2. SleepOk'
  BY <1>1, AwakeStep, Zenon
<1>. QED
  BY <1>2, JumpLocal, StepInv, Zenon

\* Interrupts are off but at a few labels, and come back off when the CPU gives its
\* last lock back.
LEMMA OffAt ==
    ASSUME CpuInv, NEW c \in Cpus
    PROVE  /\ Pc(c) \notin {"user", "idle", "pick"} \cup Open => ~irq[c]
           /\ Pc(c) \notin Picking \cup Mounting \cup {"forkret"} => ~(intena[c] /\ noff[c] > 0)
BY Current DEF CpuOk

\* A label tells whether the CPU runs its scheduler or a process.
LEMMA SchedAt ==
    ASSUME CpuInv, NEW c \in Cpus, Pc(c) \in Booting \cup Picking \cup {"idle"}
    PROVE  on[c] = Sched(c) /\ Myproc(c) = None
<1>1. ThreadOk(on[c], th[on[c]]) /\ Pc(c) = th[on[c]].pc
  BY Current, Zenon
<1>2. on[c] = Proc(Myproc(c)) => th[on[c]].pc \in ProcLabels
  BY <1>1, ThreadNames, Zenon DEF ThreadOk, Mounting
<1>3. Pc(c) \notin ProcLabels
  BY Zenon DEF Booting, Picking, ProcLabels, Handling, Yielding, Sleeping, Returning, Exiting,
         Mounting, Open
<1>. QED
  BY <1>1, <1>2, <1>3, Current, Zenon

LEMMA ProcAt ==
    ASSUME CpuInv, NEW c \in Cpus,
           Pc(c) \in Yielding \cup Exiting \cup Sleeping \cup Mounting \cup Returning
                     \cup {"forkret", "f_first", "user", "svc_done"}
    PROVE  Myproc(c) \in Procs /\ on[c] = Proc(Myproc(c)) /\ state[Myproc(c)] = "running"
<1>1. ThreadOk(on[c], th[on[c]]) /\ Pc(c) = th[on[c]].pc
  BY Current, Zenon
<1>2. on[c] = Sched(c) => th[on[c]].pc \in SchedLabels
  BY <1>1, ThreadNames, Zenon DEF ThreadOk, Mounting
<1>3. Pc(c) \notin SchedLabels
  BY Zenon DEF Booting, Picking, SchedLabels, Handling, Yielding, Sleeping, Returning, Exiting,
         Mounting, Open
<1>. QED
  BY <1>1, <1>2, <1>3, Current, Zenon

\* A thread spins only in acquire.
LEMMA NoSpin ==
    ASSUME CpuInv, NEW c \in Cpus, Pc(c) \notin Acquires
    PROVE  ~th[on[c]].spin
BY Current, Zenon DEF ThreadOk, Mounting

\* The labels that ask nothing else of a scheduler, and that it has picked a process.
LEMMA SchedOk ==
    ASSUME NEW c, NEW r, ~r.spin,
           \/ r.pc \in {"cpuset", "idle"}
           \/ r.pc = "started" /\ c = 0
           \/ r.pc \in Picking /\ r.pick \in Procs
    PROVE  ThreadOk(Sched(c), r)
<1>1. Sched(c)[1] = "scheduler"
  BY ThreadNames, Zenon
<1>. QED
  BY <1>1, Zenon DEF ThreadOk, SchedLabels, Booting, Handling, Picking, Yielding, Mounting

\* The labels of a process that ask nothing else of it.
LEMMA ProcOk ==
    ASSUME NEW p, NEW r, ~r.spin,
           \/ r.pc \in Exiting \cup Sleeping \cup Returning \cup {"user", "exited", "svc_done"}
           \/ r.pc \in Mounting \cup {"f_first"} /\ r.new
           \/ r.pc \in Yielding /\ r.ret = "svc_done"
    PROVE  ThreadOk(Proc(p), r)
<1>1. Proc(p)[1] = "proc"
  BY ThreadNames, Zenon
<1>. QED
  BY <1>1, Zenon DEF ThreadOk, ProcLabels, Handling, Picking, Yielding, Sleeping, Returning,
         Exiting, Mounting, Open

\* A handler keeps where it goes back to, also when it goes on to yield.
LEMMA HandleOk ==
    ASSUME CpuInv, NEW c \in Cpus, NEW r, ~r.spin, Kept(r, th[on[c]]), Pc(c) \in Handling,
           r.pc \in Handling \/ (r.pc = "y_lock" /\ on[c] = Proc(Myproc(c)))
    PROVE  ThreadOk(on[c], r)
<1>1. ThreadOk(on[c], th[on[c]]) /\ Pc(c) = th[on[c]].pc
  BY Current, Zenon
<1>2. r.pc = "y_lock" => on[c][1] = "proc"
  BY ThreadNames, Zenon DEF Handling
<1>3. r.pc \in Handling \cup {"y_lock"}
      => r.pc \notin Picking \cup Mounting \cup {"started", "forkret", "f_first"}
  BY Zenon DEF Handling, Picking, Mounting
<1>4. /\ Handling \subseteq SchedLabels \cap ProcLabels
      /\ "y_lock" \in ProcLabels
  BY Zenon DEF SchedLabels, ProcLabels, Yielding, Exiting, Mounting
<1>5. /\ on[c][1] = "scheduler" =>
            r.back \in {"idle", "pick"} /\ (r.back = "pick" => r.pick \in Procs)
      /\ on[c][1] = "proc" => r.back = "user" \/ (r.new /\ r.back \in Open)
  BY <1>1, Zenon DEF ThreadOk, Kept, Mounting
<1>6. CASE r.pc \in Handling
  BY <1>3, <1>4, <1>5, <1>6, Zenon DEF ThreadOk, Yielding, Handling, Mounting
<1>7. CASE r.pc = "y_lock" /\ on[c] = Proc(Myproc(c))
  BY <1>2, <1>3, <1>4, <1>5, <1>7, Zenon DEF ThreadOk, Yielding, Handling, Mounting
<1>. QED
  BY <1>6, <1>7, Zenon

Unlocked == (SchedLabels \cup ProcLabels) \ (OuterHeld \cup OwnHeld \cup PickHeld)

\* A CPU that holds no lock masks or unmasks interrupts, and its thread goes on with
\* record r.
Mask(c, r, b) ==
    /\ Become(c, r) /\ on' = on /\ locks' = locks /\ RestOK' /\ b \in BOOLEAN
    /\ irq' = [irq EXCEPT ![c] = b] /\ noff' = noff /\ intena' = intena
    /\ \A d \in Cpus \ {c} : elr'[d] = elr[d]
    /\ \A p \in Procs :
          \/ state'[p] = state[p]
          \/ /\ state[p] # "running" /\ state'[p] # "running"
             /\ state'[p] \in {"runnable", "sleeping"} => th[Proc(p)].pc # "exited"
    /\ ~th[on[c]].spin /\ Pc(c) \in Unlocked /\ ~r.spin /\ r.pc \in Unlocked
    /\ b => r.pc \in {"user", "idle", "pick"} \/ (r.new /\ r.pc \in Open)
    /\ ThreadOk(on[c], r)
    /\ r.pc = "eret" /\ ~r.new => elr'[c] = "user"
    /\ r.pc \notin Booting
    /\ th[Sched(0)].pc \in Booting => state' = state

\* Such a step is a step of the CPU alone.
LEMMA MaskLocal ==
    ASSUME CpuInv, NEW c \in Cpus, NEW r \in ThreadRecs, NEW b, Mask(c, r, b)
    PROVE  LocalStep(c)
<1>0. /\ Become(c, r) /\ on' = on /\ locks' = locks /\ RestOK' /\ noff' = noff
      /\ intena' = intena
  BY Zenon DEF Mask
<1>1. /\ th' \in [Threads -> ThreadRecs] /\ th'[on[c]] = r
      /\ \A t \in Threads \ {on[c]} : th'[t] = th[t]
  BY <1>0, BecomeIs, Zenon
<1>2. /\ irq' \in [Cpus -> BOOLEAN] /\ irq'[c] = b
      /\ \A d \in Cpus \ {c} : irq'[d] = irq[d]
  <2>1. irq \in [Cpus -> BOOLEAN]
    BY Zenon DEF CpuInv, TypeOK
  <2>. QED
    BY <2>1, Zenon DEF Mask
<1>3. TypeOK'
  BY <1>0, <1>1, <1>2, Zenon DEF CpuInv, TypeOK, RestOK
<1>4. CpuOk(r, b, noff[c], intena[c])
  <2>1. noff[c] = 0
    BY Current DEF CpuOk, Depth, Mask, Unlocked, OuterHeld
  <2>. QED
    BY <2>1 DEF Mask, CpuOk, Depth, Unlocked, OuterHeld
<1>5. \A l \in Locks : ~Holds(on[c], r, l) /\ locks[l] # c
  <2>1. /\ \A l \in Locks : locks[l] = c <=> Holds(on[c], th[on[c]], l)
        /\ th[on[c]].pc \in Unlocked /\ r.pc \in Unlocked
    BY Current, Zenon DEF Mask
  <2>2. \A s, l : s.pc \in Unlocked => ~Holds(on[c], s, l)
    BY Zenon DEF Holds, Unlocked, OuterHeld
  <2>. QED
    BY <2>1, <2>2, Zenon
<1>6. th'[Sched(0)].pc \in Booting => th[Sched(0)].pc \in Booting /\ state' = state
  BY <1>1, ThreadNames, CpuAssumption, Zenon DEF Mask
<1>. QED
  BY <1>0, <1>1, <1>2, <1>3, <1>4, <1>5, <1>6, Zenon DEF LocalStep, Mask

\* It keeps the invariant when it has nothing to do with sleep.
LEMMA MaskInv ==
    ASSUME CpuInv, NEW c \in Cpus, NEW r \in ThreadRecs, NEW b, Mask(c, r, b), ticks' = ticks,
           r.pc # "s_own",
           \A p \in Procs : state'[p] = "sleeping" => state[p] = "sleeping"
    PROVE  CpuInv'
<1>1. on' = on /\ th'[on[c]] = r /\ \A t \in Threads \ {on[c]} : th'[t] = th[t]
  BY BecomeIs, Zenon DEF Mask
<1>2. r.pc \notin {"s_own", "s_drop", "s_sched"} /\ Pc(c) # "t_wake"
  BY Zenon DEF Mask, Unlocked, TicksHeld, OwnHeld, OuterHeld, WaitHeld, DiskHeld
<1>3. SleepOk'
  BY <1>1, <1>2, AwakeStep, Zenon
<1>. QED
  BY <1>3, MaskLocal, StepInv, Zenon

(***************************************************************************)
(* The start of the CPUs.                                                  *)
(***************************************************************************)
\* gichartinit leaves the CPU in start, with no lock and interrupts off.
LEMMA GichartinitInv ==
    ASSUME CpuInv, NEW c \in Cpus, Gichartinit(c)
    PROVE  CpuInv'
<1>0. /\ Pc(c) = "boot" /\ on' = on /\ mask' = mask /\ locks' = locks /\ elr' = elr
      /\ state' = state /\ ticks' = ticks /\ RestOK'
  BY Zenon DEF Gichartinit, At, procs, CpuInv, TypeOK, RestOK
<1>1. PICK r \in ThreadRecs : r.pc = "cpuset" /\ Kept(r, th[on[c]]) /\ Become(c, r)
  <2>0. th[on[c]] \in ThreadRecs
    BY Current, Zenon
  <2>1. targets \in SUBSET Cpus /\ "cpuset" \in SchedLabels \cup ProcLabels
    BY Zenon DEF CpuInv, TypeOK, SchedLabels, Booting
  <2>. QED
    BY <2>0, <2>1, JumpVal, Zenon DEF Gichartinit
<1>2. on[c] = Sched(c) /\ ~irq[c] /\ ~(intena[c] /\ noff[c] > 0)
  BY <1>0, OffAt, SchedAt, Zenon DEF Booting, Returning, Picking, Open, Mounting
<1>3. ThreadOk(on[c], r)
  <2>1. ~r.spin
    BY <1>0, <1>1, NoSpin, Zenon DEF Acquires, Kept
  <2>. QED
    BY <1>1, <1>2, <2>1, SchedOk, Zenon
<1>4. Jump(c, r)
  BY <1>0, <1>1, <1>2, <1>3, Zenon DEF Jump, Kept, TicksHeld, OwnHeld, PickHeld, Booting,
         OuterHeld, WaitHeld, DiskHeld
<1>. QED
  BY <1>0, <1>1, <1>4, JumpInv, Zenon

\* cpuset, and with it gichartinit, ends in the scheduler or, on CPU 0, in userinit.
LEMMA CpusetInv ==
    ASSUME CpuInv, NEW c \in Cpus, Cpuset(c)
    PROVE  CpuInv'
<1>. DEFINE x == IF c = 0 THEN "started" ELSE "idle"
<1>0. /\ Pc(c) = "cpuset" /\ on' = on /\ mask' = mask /\ locks' = locks /\ elr' = elr
      /\ state' = state /\ ticks' = ticks /\ RestOK'
  <2>1. th[on[c]].val \in SUBSET Cpus
    BY Current, Zenon DEF ThreadRecs
  <2>. QED
    BY <2>1, Zenon DEF Cpuset, At, procs, CpuInv, TypeOK, RestOK
<1>1. PICK r \in ThreadRecs : r.pc = x /\ Kept(r, th[on[c]]) /\ Become(c, r)
  <2>0. th[on[c]] \in ThreadRecs
    BY Current, Zenon
  <2>1. x \in SchedLabels \cup ProcLabels
    BY Zenon DEF SchedLabels, Booting
  <2>2. {} \in SUBSET Cpus
    OBVIOUS
  <2>3. Become(c, [th[on[c]] EXCEPT !.pc = x, !.val = {}])
    BY Zenon DEF Cpuset
  <2>. HIDE DEF x
  <2>. QED
    BY <2>0, <2>1, <2>2, <2>3, JumpVal, Zenon
<1>2. on[c] = Sched(c) /\ ~irq[c] /\ ~(intena[c] /\ noff[c] > 0)
  BY <1>0, OffAt, SchedAt, Zenon DEF Booting, Returning, Picking, Open, Mounting
<1>3. ThreadOk(on[c], r)
  <2>1. ~r.spin
    BY <1>0, <1>1, NoSpin, Zenon DEF Acquires, Kept
  <2>. QED
    BY <1>1, <1>2, <2>1, SchedOk, Zenon
<1>4. Jump(c, r)
  BY <1>0, <1>1, <1>2, <1>3, Zenon DEF Jump, Kept, TicksHeld, OwnHeld, PickHeld, Booting,
         OuterHeld, WaitHeld, DiskHeld
<1>. QED
  BY <1>0, <1>1, <1>4, JumpInv, Zenon

\* userinit makes the first process runnable before any scheduler runs.
LEMMA StartInv ==
    ASSUME CpuInv, NEW c \in Cpus, Start(c)
    PROVE  CpuInv'
<1>0. /\ Pc(c) = "started" /\ on' = on /\ mask' = mask /\ locks' = locks /\ elr' = elr
      /\ state' = [state EXCEPT ![First] = "runnable"] /\ ticks' = ticks
      /\ Goto(c, "idle") /\ RestOK'
  <2>1. [state EXCEPT ![First] = "runnable"] \in [Procs -> States]
    <3>1. First \in Procs /\ "runnable" \in States
      BY CpuAssumption, Zenon DEF States
    <3>. QED
      BY <3>1, SetState, Zenon
  <2>. QED
    BY <2>1, Zenon DEF Start, At, CpuInv, TypeOK, RestOK
<1>1. on[c] = Sched(c) /\ on[c] = Sched(0) /\ ~irq[c] /\ ~(intena[c] /\ noff[c] > 0)
  BY <1>0, OffAt, SchedAt, Current, Zenon DEF Booting, Returning, Picking, ThreadOk, Mounting,
         Open
<1>2. PICK r \in ThreadRecs : r.pc = "idle" /\ Kept(r, th[on[c]]) /\ Become(c, r)
  BY <1>0, JumpTo, Zenon DEF SchedLabels
<1>3. \A p \in Procs : state[p] = "unused" /\ th[Proc(p)].pc = "forkret"
  BY <1>0, <1>1, Current, Zenon DEF CpuInv, BootOk, Booting
<1>4. ThreadOk(on[c], r)
  <2>1. ~r.spin
    BY <1>0, <1>2, NoSpin, Zenon DEF Acquires, Kept
  <2>. QED
    BY <1>1, <1>2, <2>1, SchedOk, Zenon
<1>5. \A p \in Procs : state'[p] = state[p] \/ state'[p] = "runnable"
  BY <1>0, Zenon DEF CpuInv, TypeOK
<1>6. Jump(c, r)
  BY <1>0, <1>1, <1>2, <1>3, <1>4, <1>5, Zenon DEF Jump, Kept, TicksHeld, OwnHeld, PickHeld,
         Booting, OuterHeld, WaitHeld, DiskHeld
<1>. QED
  BY <1>0, <1>2, <1>5, <1>6, JumpInv, Zenon

(***************************************************************************)
(* The scheduler.                                                          *)
(***************************************************************************)
\* scheduler goes to the next process, with interrupts on or off.
LEMMA PickInv ==
    ASSUME CpuInv, NEW c \in Cpus, NEW p \in Procs, Pick(c, p)
    PROVE  CpuInv'
<1>0. /\ Pc(c) = "idle" /\ on' = on /\ mask' = mask /\ locks' = locks /\ elr' = elr
      /\ state' = state /\ ticks' = ticks /\ RestOK'
  BY Zenon DEF Pick, At, procs, CpuInv, TypeOK, RestOK
<1>1. PICK r \in ThreadRecs : r.pc = "pick" /\ Picks(r, th[on[c]], p) /\ Become(c, r)
  <2>1. th[on[c]] \in ThreadRecs /\ "pick" \in SchedLabels \cup ProcLabels
    BY Current, Zenon DEF SchedLabels, Picking, Mounting
  <2>. QED
    BY <2>1, JumpPick, Zenon DEF Pick
<1>2. on[c] = Sched(c) /\ ~(intena[c] /\ noff[c] > 0)
  BY <1>0, OffAt, SchedAt, Zenon DEF Picking, Mounting
<1>3. ThreadOk(on[c], r)
  <2>1. ~r.spin
    BY <1>0, <1>1, NoSpin, Zenon DEF Acquires, Picks
  <2>. QED
    BY <1>1, <1>2, <2>1, SchedOk, Zenon DEF Picking, Picks, Mounting
<1>4. Jump(c, r)
  BY <1>0, <1>1, <1>2, <1>3, Zenon DEF Jump, Picks, TicksHeld, OwnHeld, PickHeld, Booting,
         OuterHeld, WaitHeld, DiskHeld
<1>. QED
  BY <1>0, <1>1, <1>4, JumpInv, Zenon

(***************************************************************************)
(* The clock.                                                              *)
(***************************************************************************)
\* Between the test of sys_sleep and the release in sleep, tickslock is held.
LEMMA NotSleeping ==
    ASSUME CpuInv, NEW c \in Cpus, Pc(c) = "t_tick"
    PROVE  \A p \in Procs : th[Proc(p)].pc \notin {"s_own", "s_drop"}
<1>. SUFFICES ASSUME NEW p \in Procs, th[Proc(p)].pc \in {"s_own", "s_drop"}
              PROVE  FALSE
  BY Zenon
<1>1. PICK d \in Cpus : on[d] = Proc(p)
  BY Zenon DEF CpuInv, ParkedOk, Resumable
<1>2. locks["ticks"] = d /\ locks["ticks"] = c
  BY <1>1, LockNames DEF CpuInv, LocksOk, Holds, TicksHeld, Pc
<1>. QED
  BY <1>1, <1>2, Zenon DEF Pc

(***************************************************************************)
(* Interrupts.                                                             *)
(***************************************************************************)
\* irqhandle stays in the handler of the interrupt, with what was interrupted saved.
LEMMA IrqhandleInv ==
    ASSUME CpuInv, NEW c \in Cpus, NEW id \in {TIMER, DEVICE, SPURIOUS}, Irqhandle(c, id)
    PROVE  CpuInv'
<1>0. /\ Pc(c) = "irq" /\ on' = on /\ mask' = mask /\ locks' = locks /\ elr' = elr
      /\ state' = state /\ ticks' = ticks /\ RestOK'
  BY DEF Irqhandle, At, procs, CpuInv, TypeOK, RestOK
<1>1. Handler(c, id) \in {"t_lock", "d_lock", "irq_done"}
  BY Zenon DEF Handler
<1>2. PICK r \in ThreadRecs :
        r.pc = Handler(c, id) /\ Kept(r, th[on[c]]) /\ Become(c, r)
  <2>1. th[on[c]] \in ThreadRecs /\ Handler(c, id) \in SchedLabels \cup ProcLabels
    BY <1>1, Current, Zenon DEF SchedLabels, Handling
  <2>2. (id = TIMER) \in BOOLEAN
    OBVIOUS
  <2>. QED
    BY <2>1, <2>2, JumpTimer, Zenon DEF Irqhandle
<1>3. ~irq[c] /\ ~(intena[c] /\ noff[c] > 0)
  BY <1>0, OffAt, Zenon DEF Picking, Returning, Open, Mounting
<1>4. ThreadOk(on[c], r)
  <2>1. ~r.spin
    BY <1>0, <1>2, NoSpin, Zenon DEF Acquires, Kept
  <2>. QED
    BY <1>0, <1>1, <1>2, <2>1, HandleOk, Zenon DEF Handling
<1>5. Jump(c, r)
  BY <1>0, <1>1, <1>2, <1>3, <1>4, Zenon DEF Jump, Kept, TicksHeld, OwnHeld, PickHeld, Booting,
         OuterHeld, WaitHeld, DiskHeld
<1>. QED
  BY <1>0, <1>1, <1>2, <1>5, JumpInv, Zenon

\* irqintr goes on to exit or to yield only in a process, and else to the return.
LEMMA IrqDoneInv ==
    ASSUME CpuInv, NEW c \in Cpus, IrqDone(c)
    PROVE  CpuInv'
<1>0. /\ Pc(c) = "irq_done" /\ on' = on /\ mask' = mask /\ locks' = locks /\ elr' = elr
      /\ state' = state /\ ticks' = ticks /\ RestOK'
  BY Zenon DEF IrqDone, At, procs, CpuInv, TypeOK, RestOK
<1>1. PICK x \in {"e_wait", "y_lock", "irq_ret"} :
        Goto(c, x) /\ (x # "irq_ret" => Myproc(c) # None)
  BY Zenon DEF IrqDone
<1>2. PICK r \in ThreadRecs : r.pc = x /\ Kept(r, th[on[c]]) /\ Become(c, r)
  <2>1. x \in SchedLabels \cup ProcLabels
    BY <1>1, Zenon DEF SchedLabels, ProcLabels, Handling, Yielding, Exiting, Mounting
  <2>. QED
    BY <1>1, <2>1, JumpTo, Zenon
<1>3. ~irq[c] /\ ~(intena[c] /\ noff[c] > 0)
  BY <1>0, OffAt, Zenon DEF Picking, Returning, Open, Mounting
<1>4. ThreadOk(on[c], r)
  <2>1. ~r.spin
    BY <1>0, <1>2, NoSpin, Zenon DEF Acquires, Kept
  <2>2. x # "irq_ret" => on[c] = Proc(Myproc(c))
    BY <1>1, Current, Zenon
  <2>3. CASE x = "e_wait"
    BY <1>2, <2>1, <2>2, <2>3, ProcOk, Zenon DEF Exiting
  <2>4. CASE x # "e_wait"
    BY <1>0, <1>1, <1>2, <2>1, <2>2, <2>4, HandleOk, Zenon DEF Handling
  <2>. QED
    BY <2>3, <2>4, Zenon
<1>5. Jump(c, r)
  BY <1>0, <1>1, <1>2, <1>3, <1>4, Zenon DEF Jump, Kept, TicksHeld, OwnHeld, PickHeld, Booting,
         OuterHeld, WaitHeld, DiskHeld
<1>. QED
  BY <1>0, <1>1, <1>2, <1>5, JumpInv, Zenon

\* el0_load_trap_frame_and_ret: interrupts may be on here in a new process only.
LEMMA LoadElrInv ==
    ASSUME CpuInv, NEW c \in Cpus, LoadElr(c)
    PROVE  CpuInv'
<1>0. /\ Pc(c) = "trapret" /\ on' = on /\ mask' = mask /\ locks' = locks
      /\ elr' = [elr EXCEPT ![c] = "user"]
      /\ state' = state /\ ticks' = ticks /\ Goto(c, "eret")
  BY Zenon DEF LoadElr, At, procs
<1>1. RestOK' /\ elr'[c] = "user" /\ \A d \in Cpus \ {c} : elr'[d] = elr[d]
  <2>1. elr \in [Cpus -> {"user", "kernel"}]
    BY Zenon DEF CpuInv, TypeOK
  <2>2. elr' \in [Cpus -> {"user", "kernel"}] /\ elr'[c] = "user"
        /\ \A d \in Cpus \ {c} : elr'[d] = elr[d]
    BY <1>0, <2>1, Zenon
  <2>3. UNCHANGED <<procs, ticks, targets, first, panic, wild>>
    BY Zenon DEF LoadElr
  <2>. QED
    BY <2>2, <2>3, Zenon DEF procs, CpuInv, TypeOK, RestOK
<1>2. PICK r \in ThreadRecs : r.pc = "eret" /\ Kept(r, th[on[c]]) /\ Become(c, r)
  <2>1. "eret" \in SchedLabels \cup ProcLabels
    BY Zenon DEF ProcLabels, Returning, Exiting, Mounting, Open
  <2>. QED
    BY <1>0, <2>1, JumpTo, Zenon
<1>3. ~(intena[c] /\ noff[c] > 0) /\ (irq[c] => th[on[c]].new) /\ on[c] = Proc(Myproc(c))
  BY <1>0, OffAt, Current, ProcAt, Zenon DEF CpuOk, Picking, Returning, Open, Mounting
<1>4. ThreadOk(on[c], r)
  <2>1. ~r.spin
    BY <1>0, <1>2, NoSpin, Zenon DEF Acquires, Kept
  <2>. QED
    BY <1>2, <1>3, <2>1, ProcOk, Zenon DEF Returning, Open
<1>5. Jump(c, r)
  BY <1>0, <1>1, <1>2, <1>3, <1>4, Zenon DEF Jump, Kept, TicksHeld, OwnHeld, PickHeld, Booting,
         Returning, OuterHeld, WaitHeld, DiskHeld, Open
<1>. QED
  BY <1>0, <1>2, <1>5, JumpInv, Zenon

(***************************************************************************)
(* System calls.                                                           *)
(***************************************************************************)
\* svcintr ends with the return to user mode, interrupts still off, or with exit.
LEMMA SvcDoneInv ==
    ASSUME CpuInv, NEW c \in Cpus, SvcDone(c)
    PROVE  CpuInv'
<1>0. /\ Pc(c) = "svc_done" /\ on' = on /\ mask' = mask /\ locks' = locks /\ elr' = elr
      /\ state' = state /\ ticks' = ticks /\ RestOK'
  BY Zenon DEF SvcDone, At, procs, CpuInv, TypeOK, RestOK
<1>1. PICK x \in {"e_wait", "trapret"} : Goto(c, x)
  BY Zenon DEF SvcDone
<1>2. PICK r \in ThreadRecs : r.pc = x /\ Kept(r, th[on[c]]) /\ Become(c, r)
  <2>1. x \in SchedLabels \cup ProcLabels
    BY <1>1, Zenon DEF ProcLabels, Returning, Exiting, Mounting, Open
  <2>. QED
    BY <1>1, <2>1, JumpTo, Zenon
<1>3. ~irq[c] /\ ~(intena[c] /\ noff[c] > 0) /\ on[c] = Proc(Myproc(c))
  BY <1>0, OffAt, ProcAt, Zenon DEF Picking, Returning, Open, Mounting
<1>4. ThreadOk(on[c], r)
  <2>1. ~r.spin
    BY <1>0, <1>2, NoSpin, Zenon DEF Acquires, Kept
  <2>. QED
    BY <1>1, <1>2, <1>3, <2>1, ProcOk, Zenon DEF Returning, Exiting
<1>5. Jump(c, r)
  BY <1>0, <1>1, <1>2, <1>3, <1>4, Zenon DEF Jump, Kept, TicksHeld, OwnHeld, PickHeld, Booting,
         OuterHeld, WaitHeld, DiskHeld
<1>. QED
  BY <1>0, <1>1, <1>2, <1>5, JumpInv, Zenon

\* sys_sleep has tickslock while it reads ticks.
LEMMA SleepReadInv ==
    ASSUME CpuInv, NEW c \in Cpus, SleepRead(c)
    PROVE  CpuInv'
<1>0. /\ Pc(c) = "s_read" /\ on' = on /\ mask' = mask /\ locks' = locks /\ elr' = elr
      /\ state' = state /\ ticks' = ticks /\ RestOK' /\ ticks \in Int
  BY Zenon DEF SleepRead, At, procs, CpuInv, TypeOK, RestOK
<1>1. PICK r \in ThreadRecs : r.pc = "s_test" /\ r.spin = th[on[c]].spin /\ Become(c, r)
  <2>1. th[on[c]] \in ThreadRecs /\ "s_test" \in SchedLabels \cup ProcLabels
    BY Current, Zenon DEF ProcLabels, Sleeping, Exiting, Mounting
  <2>2. Become(c, [th[on[c]] EXCEPT !.ticks0 = ticks, !.pc = "s_test"])
    BY Zenon DEF SleepRead
  <2>. QED
    BY <1>0, <2>1, <2>2, JumpClock, Zenon
<1>2. ~irq[c] /\ ~(intena[c] /\ noff[c] > 0) /\ on[c] = Proc(Myproc(c))
  BY <1>0, OffAt, ProcAt, Zenon DEF Picking, Returning, Sleeping, Open, Mounting
<1>3. ThreadOk(on[c], r)
  <2>1. ~r.spin
    BY <1>0, <1>1, NoSpin, Zenon DEF Acquires
  <2>. QED
    BY <1>1, <1>2, <2>1, ProcOk, Zenon DEF Sleeping
<1>4. Jump(c, r)
  BY <1>0, <1>1, <1>2, <1>3, Zenon DEF Jump, TicksHeld, OwnHeld, PickHeld, Booting, OuterHeld,
         WaitHeld, DiskHeld
<1>. QED
  BY <1>0, <1>1, <1>4, JumpInv, Zenon

\* sys_sleep goes to sleep only when it is not yet time, and tickslock keeps it so.
LEMMA SleepTestInv ==
    ASSUME CpuInv, NEW c \in Cpus, SleepTest(c)
    PROVE  CpuInv'
<1>0. /\ Pc(c) = "s_test" /\ on' = on /\ mask' = mask /\ locks' = locks /\ elr' = elr
      /\ state' = state /\ ticks' = ticks /\ RestOK'
  BY Zenon DEF SleepTest, At, procs, CpuInv, TypeOK, RestOK
<1>1. PICK x \in {"s_rel", "s_own"} : Goto(c, x) /\ (x = "s_own" => ~Due(on[c]))
  BY Zenon DEF SleepTest
<1>2. PICK r \in ThreadRecs : r.pc = x /\ Kept(r, th[on[c]]) /\ Become(c, r)
  <2>1. x \in SchedLabels \cup ProcLabels
    BY <1>1, Zenon DEF ProcLabels, Sleeping, Exiting, Mounting
  <2>. QED
    BY <1>1, <2>1, JumpTo, Zenon
<1>3. ~irq[c] /\ ~(intena[c] /\ noff[c] > 0) /\ on[c] = Proc(Myproc(c))
  BY <1>0, OffAt, ProcAt, Zenon DEF Picking, Returning, Sleeping, Open, Mounting
<1>4. ThreadOk(on[c], r)
  <2>1. ~r.spin
    BY <1>0, <1>2, NoSpin, Zenon DEF Acquires, Kept
  <2>. QED
    BY <1>1, <1>2, <1>3, <2>1, ProcOk, Zenon DEF Sleeping
<1>5. Jump(c, r)
  BY <1>0, <1>1, <1>2, <1>3, <1>4, Zenon DEF Jump, Kept, TicksHeld, OwnHeld, PickHeld, Booting,
         OuterHeld, WaitHeld, DiskHeld
<1>6. th'[on[c]] = r /\ \A t \in Threads \ {on[c]} : th'[t] = th[t]
  BY <1>2, BecomeIs, Zenon
<1>7. SleepOk'
  <2>1. \A t \in Threads : Due(t)' <=> Due(t)
    BY <1>0, <1>2, <1>6, Zenon DEF Due, Kept
  <2>2. \A d \in Cpus : Pc(d) = "t_wake" => Pc(d)' = "t_wake"
    BY <1>0, <1>6, Current, Zenon DEF Pc
  <2>3. \A p \in Procs : Proc(p) # on[c] => th'[Proc(p)] = th[Proc(p)]
    BY <1>6, ThreadNames, Zenon
  <2>4. \A p \in Procs : Proc(p) = on[c] => state[p] = "running"
    BY <1>0, <1>3, ProcAt, ThreadNames DEF Sleeping
  <2>. QED
    BY <1>0, <1>1, <1>2, <1>6, <2>1, <2>2, <2>3, <2>4, ThreadNames DEF CpuInv, SleepOk, Dozes
<1>. QED
  BY <1>2, <1>5, <1>7, JumpLocal, StepInv, Zenon

\* timerintr counts with tickslock held, so nobody is between the test of sys_sleep
\* and the release in sleep; those who have gone on from there are woken up next.
LEMMA TickInv ==
    ASSUME CpuInv, NEW c \in Cpus, Tick(c)
    PROVE  CpuInv'
<1>0. /\ Pc(c) = "t_tick" /\ on' = on /\ mask' = mask /\ locks' = locks /\ elr' = elr
      /\ state' = state /\ RestOK' /\ Goto(c, "t_wake")
  <2>1. (ticks + 1) % TickMod \in Int
    BY CpuAssumption DEF CpuInv, TypeOK
  <2>. QED
    BY <2>1, Zenon DEF Tick, At, procs, CpuInv, TypeOK, RestOK
<1>1. PICK r \in ThreadRecs : r.pc = "t_wake" /\ Kept(r, th[on[c]]) /\ Become(c, r)
  <2>1. "t_wake" \in SchedLabels \cup ProcLabels
    BY Zenon DEF SchedLabels, Handling
  <2>. QED
    BY <1>0, <2>1, JumpTo, Zenon
<1>2. ~irq[c] /\ ~(intena[c] /\ noff[c] > 0)
  BY <1>0, OffAt, Zenon DEF Picking, Returning, Open, Mounting
<1>3. ThreadOk(on[c], r)
  <2>1. ~r.spin
    BY <1>0, <1>1, NoSpin, Zenon DEF Acquires, Kept
  <2>. QED
    BY <1>0, <1>1, <2>1, HandleOk, Zenon DEF Handling
<1>4. Jump(c, r)
  BY <1>0, <1>1, <1>2, <1>3, Zenon DEF Jump, Kept, TicksHeld, OwnHeld, PickHeld, Booting,
         OuterHeld, WaitHeld, DiskHeld
<1>5. th'[on[c]] = r /\ \A t \in Threads \ {on[c]} : th'[t] = th[t]
  BY <1>1, BecomeIs, Zenon
<1>6. Pc(c)' = "t_wake"
  BY <1>0, <1>1, <1>5, Zenon DEF Pc
<1>7. \A p \in Procs : th[Proc(p)].pc \notin {"s_own", "s_drop"}
  BY <1>0, NotSleeping, Zenon
<1>8. SleepOk'
  BY <1>1, <1>5, <1>6, <1>7, ThreadNames, Zenon DEF SleepOk
<1>. QED
  BY <1>4, <1>8, JumpLocal, StepInv, Zenon

\* wakeup makes those runnable that sleep to go on at label x.
LEMMA WakeAllIs ==
    ASSUME CpuInv, NEW c \in Cpus, NEW x, WakeAll(c, x)
    PROVE  /\ RestOK' /\ on' = on /\ mask' = mask /\ locks' = locks /\ elr' = elr
           /\ ticks' = ticks
           /\ \A q \in Procs \ {Myproc(c)} : locks[q] = None
           /\ \A q \in Procs :
                 state'[q] = IF state[q] = "sleeping" /\ th[Proc(q)].pc = x
                             THEN "runnable" ELSE state[q]
           /\ \A q \in Procs : state[q] = "sleeping" => th[Proc(q)].pc # "exited"
           /\ th[Sched(0)].pc \in Booting => state' = state
<1>0. /\ on' = on /\ mask' = mask /\ locks' = locks /\ elr' = elr /\ ticks' = ticks
      /\ \A q \in Procs \ {Myproc(c)} : locks[q] = None
  BY Zenon DEF WakeAll
<1>1. state[Myproc(c)] # "sleeping" \/ Myproc(c) \notin Procs
  BY Current, LockNames, Zenon
<1>2. \A q \in Procs : state'[q] = IF state[q] = "sleeping" /\ th[Proc(q)].pc = x
                                  THEN "runnable" ELSE state[q]
  BY <1>1, Zenon DEF WakeAll
<1>3. state' \in [Procs -> States]
  <2>1. \A q \in Procs : state[q] \in States /\ "runnable" \in States
    BY Zenon DEF CpuInv, TypeOK, States
  <2>. QED
    BY <2>1, Zenon DEF WakeAll
<1>4. RestOK'
  <2>1. UNCHANGED <<elr, killed, ticks, targets, first, panic, wild>>
    BY Zenon DEF WakeAll
  <2>. QED
    BY <1>3, <2>1, Zenon DEF RestOK, CpuInv, TypeOK
<1>5. \A q \in Procs : state[q] = "sleeping" => th[Proc(q)].pc # "exited"
  BY ThreadNames DEF CpuInv, ParkedOk, OnOk
<1>6. th[Sched(0)].pc \in Booting => state' = state
  <2>1. th[Sched(0)].pc \in Booting => \A q \in Procs : state'[q] = state[q]
    BY <1>2, Zenon DEF CpuInv, BootOk
  <2>2. state' \in [Procs -> States] /\ state \in [Procs -> States]
    BY <1>3, Zenon DEF CpuInv, TypeOK
  <2>. QED
    BY <2>1, <2>2
<1>. QED
  BY <1>0, <1>2, <1>4, <1>5, <1>6, Zenon

\* wakeup waits for the lock of each process, so it finds those asleep who were on
\* their way when timerintr counted.
LEMMA WakeupInv ==
    ASSUME CpuInv, NEW c \in Cpus, Wakeup(c)
    PROVE  CpuInv'
<1>0. /\ Pc(c) = "t_wake" /\ WakeAll(c, "s_wake") /\ Goto(c, "t_rel")
  BY Zenon DEF Wakeup, At
<1>1. /\ RestOK' /\ on' = on /\ mask' = mask /\ locks' = locks /\ elr' = elr
      /\ ticks' = ticks
      /\ \A q \in Procs \ {Myproc(c)} : locks[q] = None
      /\ \A q \in Procs : state'[q] = IF state[q] = "sleeping" /\ th[Proc(q)].pc = "s_wake"
                                      THEN "runnable" ELSE state[q]
      /\ \A q \in Procs : state[q] = "sleeping" => th[Proc(q)].pc # "exited"
      /\ th[Sched(0)].pc \in Booting => state' = state
  BY <1>0, WakeAllIs, Zenon
<1>2. PICK r \in ThreadRecs : r.pc = "t_rel" /\ Kept(r, th[on[c]]) /\ Become(c, r)
  <2>1. "t_rel" \in SchedLabels \cup ProcLabels
    BY Zenon DEF SchedLabels, Handling
  <2>. QED
    BY <1>0, <2>1, JumpTo, Zenon
<1>3. ~irq[c] /\ ~(intena[c] /\ noff[c] > 0)
  BY <1>0, OffAt, Zenon DEF Picking, Mounting, Open
<1>4. ThreadOk(on[c], r)
  <2>1. ~r.spin
    BY <1>0, <1>2, NoSpin, Zenon DEF Acquires, Kept
  <2>. QED
    BY <1>0, <1>2, <2>1, HandleOk, Zenon DEF Handling
<1>5. Jump(c, r)
  BY <1>0, <1>1, <1>2, <1>3, <1>4, Zenon
  DEF Jump, Kept, TicksHeld, WaitHeld, DiskHeld, OwnHeld, PickHeld, Booting
<1>6. /\ th'[on[c]] = r /\ \A t \in Threads \ {on[c]} : th'[t] = th[t]
  BY <1>2, BecomeIs, Zenon
<1>7. \A p \in Procs : th[Proc(p)].pc # "s_sched"
  <2>. SUFFICES ASSUME NEW p \in Procs, th[Proc(p)].pc = "s_sched"
                PROVE  FALSE
    BY Zenon
  <2>1. PICK d \in Cpus : on[d] = Proc(p)
    BY Zenon DEF CpuInv, ParkedOk, Resumable
  <2>2. locks[p] = d /\ d # None
    BY <2>1, LockNames, Zenon DEF CpuInv, LocksOk, Holds, OwnHeld
  <2>3. Myproc(c) = p
    BY <1>1, <2>2, Zenon
  <2>4. on[c] = Proc(p)
    BY <2>3, Current, LockNames, Zenon
  <2>. QED
    BY <1>0, <2>4, Zenon DEF Pc
<1>8. SleepOk'
  <2>1. \A p \in Procs : Proc(p) # on[c] => th'[Proc(p)] = th[Proc(p)]
    BY <1>6, ThreadNames, Zenon
  <2>2. \A p \in Procs : th'[Proc(p)].pc # "s_sched" /\ ~Dozes(p)'
    BY <1>1, <1>2, <1>6, <1>7, <2>1, Zenon DEF Dozes
  <2>3. \A p \in Procs : th'[Proc(p)].pc \in {"s_own", "s_drop"} => th'[Proc(p)] = th[Proc(p)]
    BY <1>2, <1>6, <2>1, Zenon
  <2>4. \A p \in Procs : th'[Proc(p)] = th[Proc(p)] => (Due(Proc(p))' <=> Due(Proc(p)))
    BY <1>1, Zenon DEF Due
  <2>. QED
    BY <2>2, <2>3, <2>4, Zenon DEF CpuInv, SleepOk
<1>. QED
  BY <1>5, <1>8, JumpLocal, StepInv, Zenon

\* virtio_disk_intr: the wakeup of those who wait for the disk does not disturb those
\* who wait for the clock.
LEMMA DiskIntrInv ==
    ASSUME CpuInv, NEW c \in Cpus, DiskIntr(c)
    PROVE  CpuInv'
<1>0. /\ Pc(c) = "d_wake" /\ Goto(c, "d_rel")
      /\ \/ WakeAll(c, "f_wake")
         \/ UNCHANGED <<locks, mask, elr, on, procs, ticks, targets, first, panic, wild>>
  BY Zenon DEF DiskIntr, At
<1>1. /\ RestOK' /\ on' = on /\ mask' = mask /\ locks' = locks /\ elr' = elr
      /\ ticks' = ticks
      /\ \A q \in Procs : \/ state'[q] = state[q]
                          \/ /\ state[q] = "sleeping" /\ state'[q] = "runnable"
                             /\ th[Proc(q)].pc # "exited"
      /\ th[Sched(0)].pc \in Booting => state' = state
  <2>1. CASE WakeAll(c, "f_wake")
    BY <2>1, WakeAllIs, Zenon
  <2>2. CASE UNCHANGED <<locks, mask, elr, on, procs, ticks, targets, first, panic, wild>>
    BY <2>2, Zenon DEF procs, CpuInv, TypeOK, RestOK
  <2>. QED
    BY <1>0, <2>1, <2>2, Zenon
<1>2. PICK r \in ThreadRecs : r.pc = "d_rel" /\ Kept(r, th[on[c]]) /\ Become(c, r)
  <2>1. "d_rel" \in SchedLabels \cup ProcLabels
    BY Zenon DEF SchedLabels, Handling
  <2>. QED
    BY <1>0, <2>1, JumpTo, Zenon
<1>3. ~irq[c] /\ ~(intena[c] /\ noff[c] > 0)
  BY <1>0, OffAt, Zenon DEF Picking, Mounting, Open
<1>4. ThreadOk(on[c], r)
  <2>1. ~r.spin
    BY <1>0, <1>2, NoSpin, Zenon DEF Acquires, Kept
  <2>. QED
    BY <1>0, <1>2, <2>1, HandleOk, Zenon DEF Handling
<1>5. Jump(c, r)
  BY <1>0, <1>1, <1>2, <1>3, <1>4, Zenon
  DEF Jump, Kept, TicksHeld, WaitHeld, DiskHeld, OwnHeld, PickHeld, Booting
<1>6. \A q \in Procs : state'[q] = "sleeping" => state[q] = "sleeping"
  BY <1>1, Zenon
<1>. QED
  BY <1>0, <1>1, <1>2, <1>5, <1>6, JumpInv, Zenon

(***************************************************************************)
(* forkret and fsinit.                                                     *)
(***************************************************************************)
\* The first process goes on to fsinit, the others to the return; interrupts may be on
\* at both labels.
LEMMA ForkretInv ==
    ASSUME CpuInv, NEW c \in Cpus, Forkret(c)
    PROVE  CpuInv'
<1>0. /\ Pc(c) = "f_first" /\ on' = on /\ mask' = mask /\ locks' = locks /\ elr' = elr
      /\ state' = state /\ ticks' = ticks /\ RestOK'
  BY Zenon DEF Forkret, At, procs, CpuInv, TypeOK, RestOK
<1>1. PICK x \in {"f_init", "trapret"} : Goto(c, x)
  BY Zenon DEF Forkret
<1>2. PICK r \in ThreadRecs : r.pc = x /\ Kept(r, th[on[c]]) /\ Become(c, r)
  <2>1. x \in SchedLabels \cup ProcLabels
    BY <1>1, Zenon DEF ProcLabels, Mounting, Returning
  <2>. QED
    BY <1>1, <2>1, JumpTo, Zenon
<1>3. ~(intena[c] /\ noff[c] > 0) /\ on[c] = Proc(Myproc(c)) /\ r.new /\ ~r.spin
  <2>1. th[on[c]].new
    BY <1>0, Current, Zenon DEF ThreadOk
  <2>. QED
    BY <1>0, <1>2, <2>1, OffAt, ProcAt, NoSpin, Zenon DEF Picking, Mounting, Acquires, Kept
<1>4. ThreadOk(on[c], r)
  BY <1>1, <1>2, <1>3, ProcOk, Zenon DEF Mounting, Returning
<1>5. Jump(c, r)
  BY <1>0, <1>1, <1>2, <1>3, <1>4, Zenon
  DEF Jump, Kept, Open, TicksHeld, WaitHeld, DiskHeld, OwnHeld, PickHeld, Booting
<1>. QED
  BY <1>0, <1>1, <1>2, <1>5, JumpInv, Zenon

\* fsinit comes to the next call of virtio_disk_rw, or to its end.
LEMMA FsinitInv ==
    ASSUME CpuInv, NEW c \in Cpus, Fsinit(c)
    PROVE  CpuInv'
<1>0. /\ Pc(c) = "f_init" /\ on' = on /\ mask' = mask /\ locks' = locks /\ elr' = elr
      /\ state' = state /\ ticks' = ticks /\ RestOK'
  BY Zenon DEF Fsinit, At, procs, CpuInv, TypeOK, RestOK
<1>1. PICK x \in {"f_lock", "trapret"} : Goto(c, x)
  BY Zenon DEF Fsinit
<1>2. PICK r \in ThreadRecs : r.pc = x /\ Kept(r, th[on[c]]) /\ Become(c, r)
  <2>1. x \in SchedLabels \cup ProcLabels
    BY <1>1, Zenon DEF ProcLabels, Mounting, Returning
  <2>. QED
    BY <1>1, <2>1, JumpTo, Zenon
<1>3. ~(intena[c] /\ noff[c] > 0) /\ on[c] = Proc(Myproc(c)) /\ r.new /\ ~r.spin
  <2>1. th[on[c]].new /\ ~th[on[c]].spin /\ on[c] = Proc(Myproc(c))
    BY <1>0, Current, ProcAt, Zenon DEF ThreadOk, Mounting, Acquires
  <2>2. noff[c] = Depth(th[on[c]]) /\ th[on[c]].pc = "f_init"
    BY <1>0, Current, Zenon DEF CpuOk
  <2>3. Depth(th[on[c]]) = 0
    BY <2>1, <2>2, DepthIs, Zenon
    DEF OuterHeld, TicksHeld, WaitHeld, DiskHeld, OwnHeld, PickHeld
  <2>4. ~(noff[c] > 0)
    BY <2>2, <2>3
  <2>. QED
    BY <1>2, <2>1, <2>4, Zenon DEF Kept
<1>4. ThreadOk(on[c], r)
  BY <1>1, <1>2, <1>3, ProcOk, Zenon DEF Mounting, Returning
<1>5. Jump(c, r)
  BY <1>0, <1>1, <1>2, <1>3, <1>4, Zenon
  DEF Jump, Kept, Open, TicksHeld, WaitHeld, DiskHeld, OwnHeld, PickHeld, Booting
<1>. QED
  BY <1>0, <1>1, <1>2, <1>5, JumpInv, Zenon

\* virtio_disk_rw tests b->disk with vdisk_lock held, and keeps it.
LEMMA DiskTestInv ==
    ASSUME CpuInv, NEW c \in Cpus, DiskTest(c)
    PROVE  CpuInv'
<1>0. /\ Pc(c) = "f_test" /\ on' = on /\ mask' = mask /\ locks' = locks /\ elr' = elr
      /\ state' = state /\ ticks' = ticks /\ RestOK'
  BY Zenon DEF DiskTest, At, procs, CpuInv, TypeOK, RestOK
<1>1. PICK x \in {"f_own", "f_rel"} : Goto(c, x)
  BY Zenon DEF DiskTest
<1>2. PICK r \in ThreadRecs : r.pc = x /\ Kept(r, th[on[c]]) /\ Become(c, r)
  <2>1. x \in SchedLabels \cup ProcLabels
    BY <1>1, Zenon DEF ProcLabels, Mounting
  <2>. QED
    BY <1>1, <2>1, JumpTo, Zenon
<1>3. ~irq[c] /\ on[c] = Proc(Myproc(c)) /\ r.new /\ ~r.spin /\ r.pc \in Mounting
  <2>1. th[on[c]].new /\ ~th[on[c]].spin /\ on[c] = Proc(Myproc(c))
    BY <1>0, Current, ProcAt, Zenon DEF ThreadOk, Mounting, Acquires
  <2>2. ~irq[c]
    BY <1>0, OffAt, Zenon DEF Open
  <2>. QED
    BY <1>1, <1>2, <2>1, <2>2, Zenon DEF Kept, Mounting
<1>4. ThreadOk(on[c], r)
  BY <1>3, ProcOk, Zenon
<1>5. Jump(c, r)
  BY <1>0, <1>1, <1>2, <1>3, <1>4, Zenon
  DEF Jump, Kept, TicksHeld, WaitHeld, DiskHeld, OwnHeld, PickHeld, Booting
<1>. QED
  BY <1>0, <1>1, <1>2, <1>5, JumpInv, Zenon

\* scheduler turns interrupts on at the top of its loop, where it holds no lock.
LEMMA IntrOnInv ==
    ASSUME CpuInv, NEW c \in Cpus, IntrOn(c)
    PROVE  CpuInv'
<1>0. /\ Pc(c) = "idle" /\ on' = on /\ locks' = locks /\ elr' = elr /\ RestOK'
      /\ irq' = [irq EXCEPT ![c] = TRUE] /\ noff' = noff /\ intena' = intena
      /\ state' = state /\ ticks' = ticks /\ th' = th
  BY Zenon DEF IntrOn, At, procs, CpuInv, TypeOK, RestOK
<1>1. Become(c, th[on[c]])
  BY <1>0, Zenon DEF Become, CpuInv, TypeOK
<1>2. /\ th[on[c]] \in ThreadRecs /\ th[on[c]].pc = "idle" /\ ~th[on[c]].spin
      /\ ThreadOk(on[c], th[on[c]])
  BY <1>0, Current, Zenon DEF ThreadOk, Acquires, ThreadRecs, Mounting
<1>3. "idle" \in Unlocked
  BY Zenon DEF Unlocked, SchedLabels, TicksHeld, OwnHeld, PickHeld, OuterHeld, WaitHeld,
         DiskHeld
<1>4. Mask(c, th[on[c]], TRUE)
  BY <1>0, <1>1, <1>2, <1>3, Zenon DEF Mask, Booting
<1>. QED
  BY <1>0, <1>2, <1>4, MaskInv, Zenon

\* An interrupt comes where they may be on: it finds no lock held, and saves a label
\* at which they may be on again.
LEMMA IrqInv ==
    ASSUME CpuInv, NEW c \in Cpus, Irq(c)
    PROVE  CpuInv'
<1>0. /\ irq[c] /\ on' = on /\ locks' = locks
      /\ irq' = [irq EXCEPT ![c] = FALSE] /\ noff' = noff /\ intena' = intena
      /\ state' = state /\ ticks' = ticks
  BY Zenon DEF Irq, procs
<1>1. RestOK' /\ \A d \in Cpus \ {c} : elr'[d] = elr[d]
  <2>1. elr \in [Cpus -> {"user", "kernel"}]
    BY Zenon DEF CpuInv, TypeOK
  <2>2. elr' \in [Cpus -> {"user", "kernel"}] /\ \A d \in Cpus \ {c} : elr'[d] = elr[d]
    BY <2>1, Zenon DEF Irq
  <2>3. UNCHANGED <<procs, ticks, targets, first, panic, wild>>
    BY Zenon DEF Irq
  <2>. QED
    BY <2>2, <2>3, Zenon DEF procs, CpuInv, TypeOK, RestOK
<1>2. /\ Pc(c) \in {"user", "idle", "pick"} \/ (th[on[c]].new /\ Pc(c) \in Open)
      /\ ~th[on[c]].spin /\ Pc(c) \in Unlocked
  <2>1. Pc(c) \in {"user", "idle", "pick"} \/ (th[on[c]].new /\ Pc(c) \in Open)
    BY <1>0, Current DEF CpuOk
  <2>2. Pc(c) \in Unlocked
    BY <2>1, Zenon DEF Unlocked, SchedLabels, ProcLabels, Picking, Returning, TicksHeld,
           OwnHeld, PickHeld, OuterHeld, WaitHeld, DiskHeld, Exiting, Mounting, Open
  <2>3. ~th[on[c]].spin
    BY <1>0, <2>2, Current DEF CpuOk, Depth, Unlocked, OuterHeld
  <2>. QED
    BY <2>1, <2>2, <2>3, Zenon
<1>3. PICK r \in ThreadRecs : r.pc = "irq" /\ Interrupted(r, th[on[c]], Pc(c)) /\ Become(c, r)
  <2>1. /\ th[on[c]] \in ThreadRecs /\ "irq" \in SchedLabels \cup ProcLabels
        /\ Pc(c) \in SchedLabels \cup ProcLabels
    BY <1>2, Current, Zenon DEF SchedLabels, Handling, Unlocked
  <2>. QED
    BY <2>1, JumpIrq, Zenon DEF Irq
<1>4. "irq" \in Unlocked
  BY Zenon DEF Unlocked, SchedLabels, Handling, TicksHeld, OwnHeld, PickHeld, OuterHeld,
         WaitHeld, DiskHeld
<1>5. ThreadOk(on[c], r)
  <2>0. ThreadOk(on[c], th[on[c]]) /\ Pc(c) = th[on[c]].pc
    BY Current, Zenon
  <2>1. CASE on[c] = Sched(c)
    <3>1. on[c][1] = "scheduler"
      BY <2>1, ThreadNames, Zenon
    <3>2. Pc(c) \in {"idle", "pick"} /\ (Pc(c) = "pick" => th[on[c]].pick \in Procs)
      BY <1>2, <2>0, <3>1, Zenon DEF ThreadOk, SchedLabels, Booting, Handling, Picking,
             Returning, Mounting, Open
    <3>. QED
      BY <1>2, <1>3, <3>1, <3>2, Zenon DEF ThreadOk, Interrupted, SchedLabels, Handling,
             Picking, Yielding, Mounting
  <2>2. CASE on[c] = Proc(Myproc(c))
    <3>1. on[c][1] = "proc"
      BY <2>2, ThreadNames, Zenon
    <3>2. Pc(c) = "user" \/ (th[on[c]].new /\ Pc(c) \in Open)
      BY <1>2, <2>0, <3>1, Zenon DEF ThreadOk, ProcLabels, Handling, Yielding, Sleeping,
             Returning, Exiting, Mounting, Open
    <3>. QED
      BY <1>2, <1>3, <3>1, <3>2, Zenon DEF ThreadOk, Interrupted, ProcLabels, Handling,
             Picking, Yielding, Exiting, Mounting
  <2>. QED
    BY <2>1, <2>2, Current, Zenon
<1>6. Mask(c, r, FALSE)
  BY <1>0, <1>1, <1>2, <1>3, <1>4, <1>5, Zenon DEF Mask, Interrupted, Booting
<1>. QED
  BY <1>0, <1>3, <1>6, MaskInv, Zenon

\* The return from an interrupt: to user mode with interrupts still off, or to where
\* they were on.
LEMMA IrqRetInv ==
    ASSUME CpuInv, NEW c \in Cpus, IrqRet(c)
    PROVE  CpuInv'
<1>0. /\ Pc(c) = "irq_ret" /\ on' = on /\ locks' = locks /\ noff' = noff /\ intena' = intena
      /\ state' = state /\ ticks' = ticks
      /\ UNCHANGED <<procs, ticks, targets, first, panic, wild>>
  BY Zenon DEF IrqRet, At, procs
<1>1. ~irq[c] /\ ~(intena[c] /\ noff[c] > 0)
  BY <1>0, OffAt, Zenon DEF Picking, Returning, Open, Mounting
<1>2. CASE th[on[c]].back = "user"
  <2>0. elr' = elr /\ mask' = mask /\ RestOK' /\ Goto(c, "trapret")
    BY <1>0, <1>2, Zenon DEF IrqRet, procs, mask, CpuInv, TypeOK, RestOK
  <2>1. PICK r \in ThreadRecs : r.pc = "trapret" /\ Kept(r, th[on[c]]) /\ Become(c, r)
    <3>1. "trapret" \in SchedLabels \cup ProcLabels
      BY Zenon DEF ProcLabels, Returning, Exiting, Mounting, Open
    <3>. QED
      BY <2>0, <3>1, JumpTo, Zenon
  <2>2. on[c] = Proc(Myproc(c))
    <3>1. ThreadOk(on[c], th[on[c]]) /\ Pc(c) = th[on[c]].pc
      BY Current, Zenon
    <3>2. on[c] # Sched(c)
      BY <1>0, <1>2, <3>1, ThreadNames, Zenon DEF ThreadOk, Handling, Mounting
    <3>. QED
      BY <3>2, Current, Zenon
  <2>3. ThreadOk(on[c], r)
    <3>1. ~r.spin
      BY <1>0, <2>1, NoSpin, Zenon DEF Acquires, Kept
    <3>. QED
      BY <2>1, <2>2, <3>1, ProcOk, Zenon DEF Returning, Open
  <2>4. Jump(c, r)
    BY <1>0, <1>1, <2>0, <2>1, <2>3, Zenon DEF Jump, Kept, TicksHeld, OwnHeld, PickHeld,
           Booting, OuterHeld, WaitHeld, DiskHeld
  <2>. QED
    BY <1>0, <2>1, <2>4, JumpInv, Zenon
<1>3. CASE th[on[c]].back # "user"
  <2>0. irq' = [irq EXCEPT ![c] = TRUE] /\ Goto(c, th[on[c]].back)
        /\ elr' = [elr EXCEPT ![c] = "kernel"]
    BY <1>3, Zenon DEF IrqRet
  <2>1. RestOK' /\ \A d \in Cpus \ {c} : elr'[d] = elr[d]
    <3>1. elr \in [Cpus -> {"user", "kernel"}]
      BY Zenon DEF CpuInv, TypeOK
    <3>2. elr' \in [Cpus -> {"user", "kernel"}] /\ \A d \in Cpus \ {c} : elr'[d] = elr[d]
      BY <2>0, <3>1, Zenon
    <3>. QED
      BY <1>0, <3>2, Zenon DEF procs, CpuInv, TypeOK, RestOK
  <2>2. \/ on[c] = Sched(c) /\ th[on[c]].back \in {"idle", "pick"}
           /\ (th[on[c]].back = "pick" => th[on[c]].pick \in Procs)
        \/ on[c] = Proc(Myproc(c)) /\ th[on[c]].new /\ th[on[c]].back \in Open
    <3>0. ThreadOk(on[c], th[on[c]]) /\ Pc(c) = th[on[c]].pc
      BY Current, Zenon
    <3>1. CASE on[c] = Sched(c)
      <4>1. on[c][1] = "scheduler"
        BY <3>1, ThreadNames, Zenon
      <4>. QED
        BY <1>0, <3>0, <3>1, <4>1, Zenon DEF ThreadOk, Handling, Mounting
    <3>2. CASE on[c] = Proc(Myproc(c))
      <4>1. on[c][1] = "proc"
        BY <3>2, ThreadNames, Zenon
      <4>. QED
        BY <1>0, <1>3, <3>0, <3>2, <4>1, Zenon DEF ThreadOk, Handling, Mounting
    <3>. QED
      BY <3>1, <3>2, Current, Zenon
  <2>3. th[on[c]].back \in Unlocked
    BY <2>2, Zenon DEF Unlocked, SchedLabels, ProcLabels, Picking, Returning, TicksHeld,
           OwnHeld, PickHeld, OuterHeld, WaitHeld, DiskHeld, Exiting, Mounting, Open
  <2>4. PICK r \in ThreadRecs : r.pc = th[on[c]].back /\ Kept(r, th[on[c]]) /\ Become(c, r)
    BY <2>0, <2>3, JumpTo, Zenon DEF Unlocked
  <2>5. ~th[on[c]].spin /\ Pc(c) \in Unlocked
    BY <1>0, Current, Zenon DEF ThreadOk, Acquires, Unlocked, SchedLabels, Handling, TicksHeld,
           OwnHeld, PickHeld, OuterHeld, WaitHeld, DiskHeld, Mounting
  <2>6. ThreadOk(on[c], r)
    <3>1. CASE on[c] = Sched(c)
      BY <2>2, <2>4, <2>5, <3>1, ThreadNames, Zenon
      DEF ThreadOk, Kept, SchedLabels, Handling, Picking, Yielding, Acquires, Returning,
             Mounting, Open
    <3>2. CASE on[c] = Proc(Myproc(c))
      BY <2>2, <2>4, <2>5, <3>2, ThreadNames, Zenon
      DEF ThreadOk, Kept, ProcLabels, Handling, Picking, Yielding, Acquires, Returning,
             Exiting, Mounting, Open
    <3>. QED
      BY <2>2, <3>1, <3>2, Zenon
  <2>7. r.pc \in {"user", "idle", "pick"} \/ (r.new /\ r.pc \in Open)
    BY <2>2, <2>4, Zenon DEF Kept
  <2>8. r.pc \notin Booting /\ (r.pc = "eret" => r.new)
    BY <2>7, Zenon DEF Booting, Returning, Open
  <2>9. Mask(c, r, TRUE)
    BY <1>0, <2>0, <2>1, <2>3, <2>4, <2>5, <2>6, <2>7, <2>8, Zenon DEF Mask, Kept
  <2>. QED
    BY <1>0, <2>7, <2>9, MaskInv, Zenon DEF Returning, Open
<1>. QED
  BY <1>2, <1>3, Zenon

\* eret to user mode unmasks interrupts.
LEMMA EretInv ==
    ASSUME CpuInv, NEW c \in Cpus, Eret(c)
    PROVE  CpuInv'
<1>0. /\ Pc(c) = "eret" /\ on' = on /\ locks' = locks /\ elr' = elr /\ RestOK'
      /\ irq' = [irq EXCEPT ![c] = TRUE] /\ noff' = noff /\ intena' = intena
      /\ state' = state /\ ticks' = ticks
  BY Zenon DEF Eret, At, procs, CpuInv, TypeOK, RestOK
<1>1. PICK r \in ThreadRecs : r.pc = "user" /\ r.spin = th[on[c]].spin /\ Become(c, r)
  <2>1. th[on[c]] \in ThreadRecs /\ "user" \in SchedLabels \cup ProcLabels
    BY Current, Zenon DEF ProcLabels, Exiting, Mounting
  <2>. QED
    BY <2>1, JumpUser, Zenon DEF Eret
<1>2. ~th[on[c]].spin /\ Pc(c) \in Unlocked /\ "user" \in Unlocked /\ on[c] = Proc(Myproc(c))
  BY <1>0, Current, ProcAt, Zenon DEF ThreadOk, Acquires, Returning, Unlocked, ProcLabels,
         TicksHeld, OwnHeld, PickHeld, OuterHeld, WaitHeld, DiskHeld, Exiting, Mounting, Open
<1>3. ThreadOk(on[c], r)
  BY <1>1, <1>2, ThreadNames, Zenon DEF ThreadOk, ProcLabels, Handling, Picking, Yielding,
         Exiting, Mounting
<1>4. Mask(c, r, TRUE)
  BY <1>0, <1>1, <1>2, <1>3, Zenon DEF Mask, Booting
<1>. QED
  BY <1>0, <1>1, <1>4, MaskInv, Zenon

\* svcintr masks interrupts and goes on with a system call, which may change states of
\* processes that no CPU runs.
LEMMA SvcInv ==
    ASSUME CpuInv, NEW c \in Cpus, NEW r \in ThreadRecs, Svc(c, r),
           r.pc \in {"y_lock", "s_lock", "e_wait", "svc_done"}, Called(r, th[on[c]]),
           state' \in [Procs -> States], killed' \in [Procs -> BOOLEAN],
           \A p \in Procs :
              \/ state'[p] = state[p]
              \/ state[p] = "sleeping" /\ state'[p] = "runnable"
              \/ state[p] = "zombie" /\ state'[p] = "unused"
    PROVE  CpuInv'
<1>0. /\ Pc(c) = "user" /\ on' = on /\ locks' = locks /\ elr' = elr /\ RestOK'
      /\ irq' = [irq EXCEPT ![c] = FALSE] /\ noff' = noff /\ intena' = intena
      /\ ticks' = ticks /\ Become(c, r)
  BY Zenon DEF Svc, At, CpuInv, TypeOK, RestOK
<1>1. ~th[on[c]].spin /\ Pc(c) \in Unlocked /\ r.pc \in Unlocked
      /\ Myproc(c) \in Procs /\ on[c] = Proc(Myproc(c)) /\ state[Myproc(c)] = "running"
  BY <1>0, Current, ProcAt, Zenon DEF ThreadOk, Acquires, Yielding, Sleeping, Unlocked,
         ProcLabels, TicksHeld, OwnHeld, PickHeld, OuterHeld, WaitHeld, DiskHeld, Exiting,
         Mounting
<1>2. ThreadOk(on[c], r)
  BY <1>1, ThreadNames, Zenon DEF ThreadOk, Called, ProcLabels, Handling, Picking, Yielding,
         Sleeping, Acquires, Exiting, Mounting
<1>3. \A p \in Procs :
         \/ state'[p] = state[p]
         \/ /\ state[p] # "running" /\ state'[p] # "running"
            /\ state'[p] \in {"runnable", "sleeping"} => th[Proc(p)].pc # "exited"
  BY ThreadNames DEF CpuInv, ParkedOk, OnOk
<1>4. th[Sched(0)].pc \notin Booting
  BY <1>1, Zenon DEF CpuInv, BootOk
<1>5. Mask(c, r, FALSE)
  BY <1>0, <1>1, <1>2, <1>3, <1>4, Zenon DEF Mask, Booting, Called
<1>6. r.pc # "s_own" /\ \A p \in Procs : state'[p] = "sleeping" => state[p] = "sleeping"
  OBVIOUS
<1>. QED
  BY <1>0, <1>5, <1>6, MaskInv, Zenon

\* The record with which a system call goes on.
LEMMA CallIs ==
    ASSUME CpuInv, NEW c \in Cpus, NEW x \in {"y_lock", "s_lock", "e_wait", "svc_done"}
    PROVE  Call(c, x) \in ThreadRecs /\ Call(c, x).pc = x /\ Called(Call(c, x), th[on[c]])
<1>1. th[on[c]] \in ThreadRecs /\ x \in SchedLabels \cup ProcLabels
  BY Current, Zenon DEF ProcLabels, Yielding, Sleeping, Exiting, Mounting
<1>. QED
  BY <1>1, JumpCall, Zenon DEF Call

\* yield, exit and sleep as system calls.
LEMMA SysInv ==
    ASSUME CpuInv, NEW c \in Cpus,
           SysYield(c) \/ SysExit(c) \/ \E n \in Sleeps : SysSleep(c, n)
    PROVE  CpuInv'
<1>1. PICK r \in ThreadRecs :
        /\ Svc(c, r) /\ procs' = procs
        /\ r.pc \in {"y_lock", "s_lock", "e_wait", "svc_done"} /\ Called(r, th[on[c]])
  <2>1. CASE SysYield(c)
    BY <2>1, CallIs, Zenon DEF SysYield
  <2>2. CASE SysExit(c)
    BY <2>2, CallIs, Zenon DEF SysExit
  <2>3. CASE \E n \in Sleeps : SysSleep(c, n)
    <3>1. PICK n \in Sleeps : SysSleep(c, n)
      BY <2>3, Zenon
    <3>2. /\ Call(c, "s_lock") \in ThreadRecs /\ Call(c, "s_lock").pc = "s_lock"
          /\ Called(Call(c, "s_lock"), th[on[c]])
      BY CallIs, Zenon
    <3>3. n % TickMod \in Int
      BY CpuAssumption
    <3>4. PICK s \in ThreadRecs : Svc(c, s) /\ procs' = procs /\ SameCall(s, Call(c, "s_lock"))
      BY <3>1, <3>2, <3>3, SetN, Zenon DEF SysSleep
    <3>. QED
      BY <3>2, <3>4, Zenon DEF SameCall, Called
  <2>. QED
    BY <2>1, <2>2, <2>3, Zenon
<1>2. state' = state /\ killed' = killed /\ state \in [Procs -> States]
      /\ killed \in [Procs -> BOOLEAN]
  BY <1>1, Zenon DEF procs, CpuInv, TypeOK
<1>. QED
  BY <1>1, <1>2, SvcInv, Zenon

\* kill makes a sleeping process runnable.
LEMMA SysKillInv ==
    ASSUME CpuInv, NEW c \in Cpus, NEW q \in Procs, SysKill(c, q)
    PROVE  CpuInv'
<1>1. /\ Call(c, "svc_done") \in ThreadRecs /\ Call(c, "svc_done").pc = "svc_done"
      /\ Called(Call(c, "svc_done"), th[on[c]]) /\ Svc(c, Call(c, "svc_done"))
  BY CallIs, Zenon DEF SysKill
<1>2. state \in [Procs -> States] /\ killed \in [Procs -> BOOLEAN] /\ "runnable" \in States
  BY Zenon DEF CpuInv, TypeOK, States
<1>3. /\ state' \in [Procs -> States]
      /\ \A p \in Procs : \/ state'[p] = state[p]
                          \/ state[p] = "sleeping" /\ state'[p] = "runnable"
  BY <1>2, Zenon DEF SysKill
<1>4. killed' \in [Procs -> BOOLEAN]
  BY <1>2, Zenon DEF SysKill
<1>. QED
  BY <1>1, <1>3, <1>4, SvcInv, Zenon

\* wait frees a zombie.
LEMMA SysWaitInv ==
    ASSUME CpuInv, NEW c \in Cpus, NEW q \in Procs, SysWait(c, q)
    PROVE  CpuInv'
<1>1. /\ Call(c, "svc_done") \in ThreadRecs /\ Call(c, "svc_done").pc = "svc_done"
      /\ Called(Call(c, "svc_done"), th[on[c]]) /\ Svc(c, Call(c, "svc_done"))
  BY CallIs, Zenon DEF SysWait
<1>2. state \in [Procs -> States] /\ killed \in [Procs -> BOOLEAN] /\ "unused" \in States
  BY Zenon DEF CpuInv, TypeOK, States
<1>3. /\ state' \in [Procs -> States]
      /\ \A p \in Procs : \/ state'[p] = state[p]
                          \/ state[p] = "zombie" /\ state'[p] = "unused"
  BY <1>2, Zenon DEF SysWait
<1>4. killed' \in [Procs -> BOOLEAN]
  BY <1>2, Zenon DEF SysWait
<1>. QED
  BY <1>1, <1>3, <1>4, SvcInv, Zenon

(***************************************************************************)
(* Spinlocks.                                                              *)
(***************************************************************************)
LockOwn ==
    {"forkret", "f_own", "f_wake", "y_lock", "y_rel", "e_lock", "s_own", "s_wake"}
LockPick == {"pick", "unpick"}
LockTicks == {"t_lock", "t_rel", "s_lock", "s_rel", "s_drop", "s_again"}
LockWait == {"e_wait", "e_drop"}
LockDisk == {"f_lock", "f_rel", "f_drop", "f_again", "d_lock", "d_rel"}

\* Label x does operation o on lock n and goes on at y.
CodeAt(x, o, n, y) == Code[x][1] = o /\ Code[x][2] = n /\ Code[x][3] = y

\* acquire and release in the kernel: the lock and the label after it.
LEMMA CodeTable ==
    /\ DOMAIN Code = Acquires \cup Releases
    /\ CodeAt("pick", "acquire", "pick", "picked")
    /\ CodeAt("unpick", "release", "pick", "idle")
    /\ CodeAt("forkret", "release", "own", "f_first")
    /\ CodeAt("f_lock", "acquire", "disk", "f_test")
    /\ CodeAt("f_rel", "release", "disk", "f_init")
    /\ CodeAt("f_own", "acquire", "own", "f_drop")
    /\ CodeAt("f_drop", "release", "disk", "f_sched")
    /\ CodeAt("f_wake", "release", "own", "f_again")
    /\ CodeAt("f_again", "acquire", "disk", "f_test")
    /\ CodeAt("d_lock", "acquire", "disk", "d_wake")
    /\ CodeAt("d_rel", "release", "disk", "irq_done")
    /\ CodeAt("y_lock", "acquire", "own", "y_sched")
    /\ CodeAt("y_rel", "release", "own", "ret")
    /\ CodeAt("e_wait", "acquire", "wait", "e_lock")
    /\ CodeAt("e_lock", "acquire", "own", "e_drop")
    /\ CodeAt("e_drop", "release", "wait", "e_sched")
    /\ CodeAt("t_lock", "acquire", "ticks", "t_tick")
    /\ CodeAt("t_rel", "release", "ticks", "irq_done")
    /\ CodeAt("s_lock", "acquire", "ticks", "s_read")
    /\ CodeAt("s_rel", "release", "ticks", "svc_done")
    /\ CodeAt("s_own", "acquire", "own", "s_drop")
    /\ CodeAt("s_drop", "release", "ticks", "s_sched")
    /\ CodeAt("s_wake", "release", "own", "s_again")
    /\ CodeAt("s_again", "acquire", "ticks", "s_test")
<1>1. /\ DOMAIN Steps =
           {"pick", "unpick", "forkret", "f_lock", "f_rel", "f_own", "f_drop", "f_wake",
            "f_again", "d_lock", "d_rel", "y_lock", "y_rel", "e_wait", "e_lock", "e_drop",
            "t_lock", "t_rel", "s_lock", "s_rel"}
      /\ DOMAIN SleepSteps = {"s_own", "s_drop", "s_wake", "s_again"}
  BY Zenon DEF Steps, SleepSteps
<1>2. /\ DOMAIN Code = DOMAIN Steps \cup DOMAIN SleepSteps
      /\ \A x \in DOMAIN Steps : Code[x] = Steps[x]
  BY Zenon DEF Code
<1>3. \A x \in DOMAIN SleepSteps : x \notin DOMAIN Steps
  BY <1>1, Zenon
<1>4. \A x \in DOMAIN SleepSteps : Code[x] = SleepSteps[x]
  BY <1>3, Zenon DEF Code
<1>5. DOMAIN Code = Acquires \cup Releases
  BY <1>1, <1>2, Zenon DEF Acquires, Releases
<1>6. \A x \in {"pick", "unpick", "forkret", "f_lock", "f_rel", "f_own", "f_drop", "f_wake",
              "f_again", "d_lock", "d_rel", "y_lock", "y_rel", "e_wait", "e_lock",
              "e_drop", "t_lock", "t_rel", "s_lock", "s_rel"} :
        Code[x] = Steps[x]
  BY <1>1, <1>2, Zenon
<1>7. \A x \in {"s_own", "s_drop", "s_wake", "s_again"} : Code[x] = SleepSteps[x]
  BY <1>1, <1>4, Zenon
<1>8. /\ Code["pick"] = <<"acquire", "pick", "picked">>
      /\ Code["unpick"] = <<"release", "pick", "idle">>
      /\ Code["forkret"] = <<"release", "own", "f_first">>
      /\ Code["f_lock"] = <<"acquire", "disk", "f_test">>
      /\ Code["f_rel"] = <<"release", "disk", "f_init">>
      /\ Code["f_own"] = <<"acquire", "own", "f_drop">>
      /\ Code["f_drop"] = <<"release", "disk", "f_sched">>
      /\ Code["f_wake"] = <<"release", "own", "f_again">>
      /\ Code["f_again"] = <<"acquire", "disk", "f_test">>
      /\ Code["d_lock"] = <<"acquire", "disk", "d_wake">>
      /\ Code["d_rel"] = <<"release", "disk", "irq_done">>
      /\ Code["y_lock"] = <<"acquire", "own", "y_sched">>
      /\ Code["y_rel"] = <<"release", "own", "ret">>
      /\ Code["e_wait"] = <<"acquire", "wait", "e_lock">>
      /\ Code["e_lock"] = <<"acquire", "own", "e_drop">>
      /\ Code["e_drop"] = <<"release", "wait", "e_sched">>
      /\ Code["t_lock"] = <<"acquire", "ticks", "t_tick">>
      /\ Code["t_rel"] = <<"release", "ticks", "irq_done">>
      /\ Code["s_lock"] = <<"acquire", "ticks", "s_read">>
      /\ Code["s_rel"] = <<"release", "ticks", "svc_done">>
  BY <1>6, Zenon DEF Steps
<1>9. /\ Code["s_own"] = <<"acquire", "own", "s_drop">>
      /\ Code["s_drop"] = <<"release", "ticks", "s_sched">>
      /\ Code["s_wake"] = <<"release", "own", "s_again">>
      /\ Code["s_again"] = <<"acquire", "ticks", "s_test">>
  BY <1>7, Zenon DEF SleepSteps
<1>10. \A x, o, n, y : Code[x] = <<o, n, y>> => CodeAt(x, o, n, y)
  BY DEF CodeAt
<1>. QED
  BY <1>5, <1>8, <1>9, <1>10, Zenon

\* The labels that acquire or release a lock, and which lock.
LEMMA CodeIs ==
    /\ DOMAIN Code = Acquires \cup Releases
    /\ \A l \in Acquires : Code[l][1] = "acquire"
    /\ \A l \in Releases : Code[l][1] = "release"
    /\ \A l \in LockOwn : Code[l][2] = "own"
    /\ \A l \in LockPick : Code[l][2] = "pick"
    /\ \A l \in LockTicks : Code[l][2] = "ticks"
    /\ \A l \in LockWait : Code[l][2] = "wait"
    /\ \A l \in LockDisk : Code[l][2] = "disk"
<1>1. /\ Code["pick"][1] = "acquire" /\ Code["unpick"][1] = "release"
      /\ Code["forkret"][1] = "release" /\ Code["f_lock"][1] = "acquire"
      /\ Code["f_rel"][1] = "release" /\ Code["f_own"][1] = "acquire"
      /\ Code["f_drop"][1] = "release" /\ Code["f_wake"][1] = "release"
      /\ Code["f_again"][1] = "acquire" /\ Code["d_lock"][1] = "acquire"
      /\ Code["d_rel"][1] = "release" /\ Code["y_lock"][1] = "acquire"
      /\ Code["y_rel"][1] = "release" /\ Code["e_wait"][1] = "acquire"
      /\ Code["e_lock"][1] = "acquire" /\ Code["e_drop"][1] = "release"
      /\ Code["t_lock"][1] = "acquire" /\ Code["t_rel"][1] = "release"
      /\ Code["s_lock"][1] = "acquire" /\ Code["s_rel"][1] = "release"
      /\ Code["s_own"][1] = "acquire" /\ Code["s_drop"][1] = "release"
      /\ Code["s_wake"][1] = "release" /\ Code["s_again"][1] = "acquire"
  BY CodeTable, Zenon DEF CodeAt
<1>2. /\ Code["pick"][2] = "pick" /\ Code["unpick"][2] = "pick"
      /\ Code["forkret"][2] = "own" /\ Code["f_lock"][2] = "disk"
      /\ Code["f_rel"][2] = "disk" /\ Code["f_own"][2] = "own" /\ Code["f_drop"][2] = "disk"
      /\ Code["f_wake"][2] = "own" /\ Code["f_again"][2] = "disk"
      /\ Code["d_lock"][2] = "disk" /\ Code["d_rel"][2] = "disk"
      /\ Code["y_lock"][2] = "own" /\ Code["y_rel"][2] = "own" /\ Code["e_wait"][2] = "wait"
      /\ Code["e_lock"][2] = "own" /\ Code["e_drop"][2] = "wait"
      /\ Code["t_lock"][2] = "ticks" /\ Code["t_rel"][2] = "ticks"
      /\ Code["s_lock"][2] = "ticks" /\ Code["s_rel"][2] = "ticks"
      /\ Code["s_own"][2] = "own" /\ Code["s_drop"][2] = "ticks"
      /\ Code["s_wake"][2] = "own" /\ Code["s_again"][2] = "ticks"
  BY CodeTable, Zenon DEF CodeAt
<1>3. /\ \A l \in Acquires : Code[l][1] = "acquire"
      /\ \A l \in Releases : Code[l][1] = "release"
  BY <1>1, Zenon DEF Acquires, Releases
<1>4. /\ \A l \in LockOwn : Code[l][2] = "own"
      /\ \A l \in LockPick : Code[l][2] = "pick"
      /\ \A l \in LockTicks : Code[l][2] = "ticks"
      /\ \A l \in LockWait : Code[l][2] = "wait"
      /\ \A l \in LockDisk : Code[l][2] = "disk"
  BY <1>2, Zenon DEF LockOwn, LockPick, LockTicks, LockWait, LockDisk
<1>. QED
  BY <1>3, <1>4, CodeTable, Zenon

\* The label after the lock.
LEMMA CodeTo ==
    /\ Code["pick"][3] = "picked" /\ Code["unpick"][3] = "idle"
    /\ Code["forkret"][3] = "f_first" /\ Code["f_lock"][3] = "f_test"
    /\ Code["f_rel"][3] = "f_init" /\ Code["f_own"][3] = "f_drop"
    /\ Code["f_drop"][3] = "f_sched" /\ Code["f_wake"][3] = "f_again"
    /\ Code["f_again"][3] = "f_test" /\ Code["d_lock"][3] = "d_wake"
    /\ Code["d_rel"][3] = "irq_done" /\ Code["y_lock"][3] = "y_sched"
    /\ Code["y_rel"][3] = "ret" /\ Code["e_wait"][3] = "e_lock"
    /\ Code["e_lock"][3] = "e_drop" /\ Code["e_drop"][3] = "e_sched"
    /\ Code["t_lock"][3] = "t_tick" /\ Code["t_rel"][3] = "irq_done"
    /\ Code["s_lock"][3] = "s_read" /\ Code["s_rel"][3] = "svc_done"
    /\ Code["s_own"][3] = "s_drop" /\ Code["s_drop"][3] = "s_sched"
    /\ Code["s_wake"][3] = "s_again" /\ Code["s_again"][3] = "s_test"
BY CodeTable, Zenon DEF CodeAt

\* The lock that a label acquires or releases.
LEMMA LockAt ==
    ASSUME CpuInv, NEW c \in Cpus, Pc(c) \in Acquires \cup Releases
    PROVE  LET l == Lock(c, Code[Pc(c)][2]) IN
           /\ l \in Locks
           /\ \/ /\ Pc(c) \in LockOwn /\ l = Myproc(c) /\ l \in Procs /\ on[c] = Proc(l)
              \/ Pc(c) \in LockPick /\ l = th[on[c]].pick /\ l \in Procs /\ on[c] = Sched(c)
              \/ Pc(c) \in LockTicks /\ l = "ticks"
              \/ Pc(c) \in LockWait /\ l = "wait"
              \/ Pc(c) \in LockDisk /\ l = "disk"
<1>1. CASE Pc(c) \in LockOwn
  <2>1. Code[Pc(c)][2] = "own"
    BY <1>1, CodeIs, Zenon
  <2>2. Myproc(c) \in Procs /\ on[c] = Proc(Myproc(c))
    BY <1>1, ProcAt, Zenon DEF LockOwn, Yielding, Exiting, Sleeping, Mounting
  <2>. QED
    BY <1>1, <2>1, <2>2, Zenon DEF Lock, Locks
<1>2. CASE Pc(c) \in LockPick
  <2>1. Code[Pc(c)][2] = "pick"
    BY <1>2, CodeIs, Zenon
  <2>2. th[on[c]].pick \in Procs /\ on[c] = Sched(c)
    BY <1>2, Current, SchedAt DEF LockPick, Picking, ThreadOk, Mounting
  <2>. QED
    BY <1>2, <2>1, <2>2, Zenon DEF Lock, Locks
<1>3. CASE Pc(c) \in LockTicks
  <2>1. Code[Pc(c)][2] = "ticks"
    BY <1>3, CodeIs, Zenon
  <2>. QED
    BY <1>3, <2>1, Zenon DEF Lock, Locks
<1>4. CASE Pc(c) \in LockWait
  <2>1. Code[Pc(c)][2] = "wait"
    BY <1>4, CodeIs, Zenon
  <2>. QED
    BY <1>4, <2>1, Zenon DEF Lock, Locks
<1>5. CASE Pc(c) \in LockDisk
  <2>1. Code[Pc(c)][2] = "disk"
    BY <1>5, CodeIs, Zenon
  <2>. QED
    BY <1>5, <2>1, Zenon DEF Lock, Locks
<1>. QED
  BY <1>1, <1>2, <1>3, <1>4, <1>5, Zenon
  DEF Acquires, Releases, LockOwn, LockPick, LockTicks, LockWait, LockDisk

\* Steps of acquire and release take the thread to sleep only from where sys_sleep has
\* found that it is not yet time.
LEMMA LockSleep ==
    ASSUME CpuInv, NEW c \in Cpus, on' = on, ticks' = ticks, state' = state,
           \A t \in Threads \ {on[c]} : th'[t] = th[t], Pc(c) # "t_wake",
           th'[on[c]].pc \in {"s_own", "s_drop"} => Pc(c) \in {"s_own", "s_drop"},
           th'[on[c]].pc = "s_sched" => Pc(c) = "s_drop",
           th'[on[c]].ticks0 = th[on[c]].ticks0, th'[on[c]].n = th[on[c]].n
    PROVE  SleepOk'
<1>1. \A p \in Procs : on[c] = Proc(p) => state[p] # "sleeping"
  BY ThreadNames DEF CpuInv, OnOk
<1>2. \A d \in Cpus \ {c} : on[d] # on[c] /\ on[d] \in Threads
  BY Zenon DEF CpuInv, OnOnce, TypeOK
<1>3. \A d \in Cpus : Pc(d) = "t_wake" => Pc(d)' = "t_wake"
  BY <1>2, Zenon DEF Pc
<1>4. Pc(c) = th[on[c]].pc
  BY Zenon DEF Pc
<1>. QED
  BY <1>1, <1>3, <1>4, ThreadNames, QuietStep, Zenon DEF Dozes

\* When the label of a thread changes, what changes with it is one lock.
LEMMA OtherLocks ==
    ASSUME NEW t, NEW r, NEW s, NEW l, s.pick = r.pick,
           (s.pc \in TicksHeld <=> r.pc \in TicksHeld) \/ l = "ticks",
           (s.pc \in WaitHeld <=> r.pc \in WaitHeld) \/ l = "wait",
           (s.pc \in DiskHeld <=> r.pc \in DiskHeld) \/ l = "disk",
           (s.pc \in OwnHeld <=> r.pc \in OwnHeld) \/ t = Proc(l),
           (s.pc \in PickHeld <=> r.pc \in PickHeld) \/ l = r.pick
    PROVE  \A k \in Locks \ {l} : Holds(t, s, k) <=> Holds(t, r, k)
<1>. SUFFICES ASSUME NEW k \in Locks \ {l} PROVE Holds(t, s, k) <=> Holds(t, r, k)
  BY Zenon
<1>1. k # l /\ (t = Proc(k) => t # Proc(l))
  BY ThreadNames, Zenon
<1>. QED
  BY <1>1, Zenon DEF Holds

\* acquire: the CPU does not hold the lock yet, so it does not panic; push_off masks
\* interrupts.
LEMMA AcquireStartInv ==
    ASSUME CpuInv, NEW c \in Cpus, AcquireStart(c)
    PROVE  CpuInv'
<1>. DEFINE l == Lock(c, Code[Pc(c)][2])
<1>0. /\ Pc(c) \in Acquires /\ ~th[on[c]].spin /\ PushOff(c)
      /\ panic' = (locks[l] = c)
      /\ on' = on /\ locks' = locks /\ elr' = elr /\ state' = state /\ ticks' = ticks
      /\ killed' = killed /\ targets' = targets /\ first' = first /\ wild' = wild
  <2>1. Pc(c) \in Acquires
    BY CodeIs, Zenon DEF AcquireStart, Does
  <2>. QED
    BY <2>1, Zenon DEF AcquireStart, Holding, procs
<1>1. locks[l] # c
  <2>. HIDE DEF l
  <2>1. l \in Locks /\ (Pc(c) \in {"s_own", "e_lock", "f_own"} => l \in Procs)
    BY <1>0, LockAt, Zenon DEF LockOwn, LockPick, LockTicks, l, LockWait, LockDisk
  <2>2. ~Holds(on[c], th[on[c]], l)
    BY <1>0, <2>1, Current, LockNames, Zenon DEF Acquires, Holds, TicksHeld, OwnHeld, PickHeld,
           OuterHeld, WaitHeld, DiskHeld
  <2>. QED
    BY <2>1, <2>2, Current, Zenon
<1>2. PICK r \in ThreadRecs :
        r.spin /\ r.pc = th[on[c]].pc /\ KeptSpin(r, th[on[c]]) /\ Become(c, r)
  <2>1. th[on[c]] \in ThreadRecs
    BY Current, Zenon
  <2>. QED
    BY <2>1, Spins, Zenon DEF AcquireStart
<1>3. /\ th' \in [Threads -> ThreadRecs] /\ th'[on[c]] = r
      /\ \A t \in Threads \ {on[c]} : th'[t] = th[t]
  BY <1>2, BecomeIs, Zenon
<1>4. /\ irq' \in [Cpus -> BOOLEAN] /\ noff' \in [Cpus -> Int] /\ intena' \in [Cpus -> BOOLEAN]
      /\ irq'[c] = FALSE /\ noff'[c] = noff[c] + 1
      /\ intena'[c] => (noff[c] = 0 /\ irq[c]) \/ (noff[c] # 0 /\ intena[c])
      /\ \A d \in Cpus \ {c} : irq'[d] = irq[d] /\ noff'[d] = noff[d] /\ intena'[d] = intena[d]
  <2>1. irq \in [Cpus -> BOOLEAN] /\ noff \in [Cpus -> Int] /\ intena \in [Cpus -> BOOLEAN]
    BY Zenon DEF CpuInv, TypeOK
  <2>. QED
    BY <1>0, <2>1 DEF PushOff
<1>. HIDE DEF l
<1>5. TypeOK'
  BY <1>0, <1>1, <1>3, <1>4, Zenon DEF CpuInv, TypeOK
<1>6. CpuOk(r, irq'[c], noff'[c], intena'[c])
  <2>1. noff[c] = Depth(th[on[c]]) /\ Pc(c) = th[on[c]].pc
    BY Current, Zenon DEF CpuOk
  <2>2. \/ Depth(th[on[c]]) = 0 /\ Depth(r) = 1
        \/ Depth(th[on[c]]) = 1 /\ Depth(r) = 2
    BY <1>0, <1>2, <2>1, DepthIs, Zenon DEF Acquires, TicksHeld, OwnHeld, PickHeld, OuterHeld,
           WaitHeld, DiskHeld
  <2>3. noff'[c] = Depth(r) /\ (noff[c] # 0 => noff[c] > 0)
    BY <1>4, <2>1, <2>2
  <2>4. /\ irq[c] => Pc(c) \in {"user", "idle", "pick"} \cup Open
        /\ intena[c] /\ noff[c] > 0 => Pc(c) \in Picking \cup Mounting \cup {"forkret"}
    BY OffAt, Zenon
  <2>5. intena'[c] => r.pc \in Picking \cup Mounting
    <3>1. intena'[c] => irq[c] \/ (noff[c] > 0 /\ intena[c])
      BY <1>4, <2>3, Zenon
    <3>2. Pc(c) \in Acquires /\ r.pc = Pc(c)
      BY <1>0, <1>2, Current, Zenon
    <3>. QED
      BY <2>4, <3>1, <3>2, Zenon DEF Acquires, Picking, Returning, Open, Mounting
  <2>. QED
    BY <1>4, <2>3, <2>5, Zenon DEF CpuOk
<1>7. ThreadOk(on[c], r)
  <2>1. ThreadOk(on[c], th[on[c]]) /\ Pc(c) = th[on[c]].pc
    BY Current, Zenon
  <2>. QED
    BY <1>0, <1>2, <2>1, Zenon DEF ThreadOk, KeptSpin, Mounting
<1>8. \A k \in Locks : locks'[k] = c <=> Holds(on[c], r, k)
  <2>1. \A k \in Locks : locks[k] = c <=> Holds(on[c], th[on[c]], k)
    BY Current, Zenon
  <2>2. \A k \in Locks : Holds(on[c], r, k) <=> Holds(on[c], th[on[c]], k)
    BY <1>2, Zenon DEF Holds, KeptSpin
  <2>. QED
    BY <1>0, <2>1, <2>2, Zenon
<1>9. th'[Sched(0)].pc = th[Sched(0)].pc
  BY <1>2, <1>3, ThreadNames, CpuAssumption, Zenon
<1>10. LocalStep(c)
  <2>1. r.pc # "eret"
    BY <1>0, <1>2, Current, Zenon DEF Acquires
  <2>2. locks' = locks /\ on' = on /\ elr' = elr /\ state' = state
    BY <1>0, Zenon
  <2>. QED
    BY <1>3, <1>4, <1>5, <1>6, <1>7, <1>8, <1>9, <2>1, <2>2, Zenon DEF LocalStep
<1>11. SleepOk'
  <2>1. r.pc = Pc(c) /\ r.ticks0 = th[on[c]].ticks0 /\ r.n = th[on[c]].n
    BY <1>2, Current, Zenon DEF KeptSpin
  <2>2. Pc(c) \notin {"t_wake", "s_sched"}
    BY <1>0, Zenon DEF Acquires
  <2>3. on' = on /\ ticks' = ticks /\ state' = state
    BY <1>0, Zenon
  <2>. QED
    BY <1>3, <2>1, <2>2, <2>3, LockSleep, Zenon
<1>. QED
  BY <1>10, <1>11, StepInv, Zenon

\* acquire: the CPU gets the lock, and the depth stays, since push_off has counted it.
LEMMA AcquireInv ==
    ASSUME CpuInv, NEW c \in Cpus, Acquire(c)
    PROVE  CpuInv'
<1>. DEFINE l == Lock(c, Code[Pc(c)][2])
            x == Code[Pc(c)][3]
<1>0. /\ Pc(c) \in Acquires /\ th[on[c]].spin /\ locks[l] = None
      /\ locks' = [locks EXCEPT ![l] = c] /\ mask' = mask
      /\ on' = on /\ elr' = elr /\ state' = state /\ ticks' = ticks
      /\ UNCHANGED <<killed, targets, first, panic, wild>>
  <2>1. Pc(c) \in Acquires
    BY CodeIs, Zenon DEF Acquire, Does
  <2>. QED
    BY <2>1, Zenon DEF Acquire, procs
<1>1. /\ l \in Locks
      /\ \/ /\ Pc(c) \in LockOwn /\ l = Myproc(c) /\ l \in Procs /\ on[c] = Proc(l)
         \/ Pc(c) \in LockPick /\ l = th[on[c]].pick /\ l \in Procs /\ on[c] = Sched(c)
         \/ Pc(c) \in LockTicks /\ l = "ticks"
         \/ Pc(c) \in LockWait /\ l = "wait"
         \/ Pc(c) \in LockDisk /\ l = "disk"
  BY <1>0, LockAt, Zenon
<1>2. \/ Pc(c) = "pick" /\ x = "picked"
      \/ Pc(c) = "y_lock" /\ x = "y_sched"
      \/ Pc(c) = "e_wait" /\ x = "e_lock"
      \/ Pc(c) = "e_lock" /\ x = "e_drop"
      \/ Pc(c) = "t_lock" /\ x = "t_tick"
      \/ Pc(c) = "s_lock" /\ x = "s_read"
      \/ Pc(c) = "s_own" /\ x = "s_drop"
      \/ Pc(c) = "s_again" /\ x = "s_test"
      \/ Pc(c) = "d_lock" /\ x = "d_wake"
      \/ Pc(c) = "f_lock" /\ x = "f_test"
      \/ Pc(c) = "f_own" /\ x = "f_drop"
      \/ Pc(c) = "f_again" /\ x = "f_test"
  BY <1>0, CodeTo DEF Acquires
<1>3. PICK r \in ThreadRecs :
        ~r.spin /\ r.pc = x /\ KeptSpin(r, th[on[c]]) /\ Become(c, r)
  <2>1. th[on[c]] \in ThreadRecs /\ Code[th[on[c]].pc][3] = x
    BY Current, Zenon
  <2>2. x \in SchedLabels \cup ProcLabels
    BY <1>2, Zenon DEF SchedLabels, ProcLabels, Picking, Handling, Yielding, Sleeping, Exiting,
           Mounting
  <2>3. Become(c, [th[on[c]] EXCEPT !.spin = FALSE, !.pc = Code[@][3]])
    BY Zenon DEF Acquire
  <2>. HIDE DEF x
  <2>. QED
    BY <2>1, <2>2, <2>3, StopsSpinning, Zenon
<1>4. /\ th' \in [Threads -> ThreadRecs] /\ th'[on[c]] = r
      /\ \A t \in Threads \ {on[c]} : th'[t] = th[t]
  BY <1>3, BecomeIs, Zenon
<1>. HIDE DEF l, x
<1>5. /\ locks' \in [Locks -> Cpus \cup {None}] /\ locks'[l] = c
      /\ \A k \in Locks \ {l} : locks'[k] = locks[k]
  <2>1. locks \in [Locks -> Cpus \cup {None}]
    BY Zenon DEF CpuInv, TypeOK
  <2>. QED
    BY <1>0, <1>1, <2>1, Zenon
<1>6. TypeOK'
  BY <1>0, <1>4, <1>5, Zenon DEF CpuInv, TypeOK, mask
<1>7. CpuOk(r, irq[c], noff[c], intena[c])
  <2>1. CpuOk(th[on[c]], irq[c], noff[c], intena[c]) /\ Pc(c) = th[on[c]].pc
    BY Current, Zenon
  <2>2. \/ Depth(r) = 1 /\ Depth(th[on[c]]) = 1
        \/ Depth(r) = 2 /\ Depth(th[on[c]]) = 2
    BY <1>0, <1>2, <1>3, <2>1, DepthIs, Zenon DEF TicksHeld, OwnHeld, PickHeld, OuterHeld,
           WaitHeld, DiskHeld
  <2>3. noff[c] = Depth(r) /\ noff[c] = Depth(th[on[c]])
    BY <2>1, <2>2, Zenon DEF CpuOk
  <2>4. noff[c] > 0 /\ noff[c] # 0
    BY <2>2, <2>3
  <2>5. ~irq[c] /\ (intena[c] => r.pc \in Picking \cup Mounting)
    BY <1>2, <1>3, <2>1, <2>4, Zenon DEF CpuOk, Picking, Mounting
  <2>. QED
    BY <2>3, <2>5, Zenon DEF CpuOk
<1>8. ThreadOk(on[c], r)
  <2>1. ThreadOk(on[c], th[on[c]]) /\ Pc(c) = th[on[c]].pc
    BY Current, Zenon
  <2>. QED
    BY <1>2, <1>3, <2>1, Zenon DEF ThreadOk, KeptSpin, SchedLabels, ProcLabels, Booting,
           Handling, Picking, Yielding, Sleeping, Returning, Acquires, Exiting, Mounting, Open
<1>9. \A k \in Locks : locks'[k] = c <=> Holds(on[c], r, k)
  <2>1. \A k \in Locks : locks[k] = c <=> Holds(on[c], th[on[c]], k)
    BY Current, Zenon
  <2>2. Holds(on[c], r, l)
    BY <1>1, <1>2, <1>3, Zenon DEF Holds, KeptSpin, LockOwn, LockPick, LockTicks, TicksHeld,
           OwnHeld, PickHeld, OuterHeld, WaitHeld, DiskHeld, LockWait, LockDisk
  <2>3. \A k \in Locks \ {l} : Holds(on[c], r, k) <=> Holds(on[c], th[on[c]], k)
    <3>1. (r.pc \in TicksHeld <=> Pc(c) \in TicksHeld) \/ Pc(c) \in LockTicks
      BY <1>2, <1>3, Zenon DEF TicksHeld, LockTicks
    <3>2. (r.pc \in WaitHeld <=> Pc(c) \in WaitHeld) \/ Pc(c) \in LockWait
      BY <1>2, <1>3, Zenon DEF WaitHeld, LockWait
    <3>3. (r.pc \in DiskHeld <=> Pc(c) \in DiskHeld) \/ Pc(c) \in LockDisk
      BY <1>2, <1>3, Zenon DEF DiskHeld, LockDisk
    <3>4. (r.pc \in OwnHeld <=> Pc(c) \in OwnHeld) \/ Pc(c) \in LockOwn
      BY <1>2, <1>3, Zenon DEF OwnHeld, LockOwn
    <3>5. (r.pc \in PickHeld <=> Pc(c) \in PickHeld) \/ Pc(c) \in LockPick
      BY <1>2, <1>3, Zenon DEF PickHeld, LockPick
    <3>6. /\ Pc(c) \in LockTicks => l = "ticks"
          /\ Pc(c) \in LockWait => l = "wait"
          /\ Pc(c) \in LockDisk => l = "disk"
          /\ Pc(c) \in LockOwn => on[c] = Proc(l)
          /\ Pc(c) \in LockPick => l = th[on[c]].pick
      BY <1>1, Zenon DEF LockOwn, LockPick, LockTicks, LockWait, LockDisk
    <3>7. r.pick = th[on[c]].pick /\ Pc(c) = th[on[c]].pc
      BY <1>3, Current, Zenon DEF KeptSpin
    <3>8. (r.pc \in TicksHeld <=> th[on[c]].pc \in TicksHeld) \/ l = "ticks"
      BY <3>1, <3>6, <3>7, Zenon
    <3>9. (r.pc \in WaitHeld <=> th[on[c]].pc \in WaitHeld) \/ l = "wait"
      BY <3>2, <3>6, <3>7, Zenon
    <3>10. (r.pc \in DiskHeld <=> th[on[c]].pc \in DiskHeld) \/ l = "disk"
      BY <3>3, <3>6, <3>7, Zenon
    <3>11. (r.pc \in OwnHeld <=> th[on[c]].pc \in OwnHeld) \/ on[c] = Proc(l)
      BY <3>4, <3>6, <3>7, Zenon
    <3>12. (r.pc \in PickHeld <=> th[on[c]].pc \in PickHeld) \/ l = th[on[c]].pick
      BY <3>5, <3>6, <3>7, Zenon
    <3>. QED
      BY <3>7, <3>8, <3>11, <3>12, <3>9, <3>10, OtherLocks, Zenon
  <2>4. locks'[l] = c /\ \A k \in Locks \ {l} : locks'[k] = locks[k]
    BY <1>5, Zenon
  <2>. QED
    BY <2>1, <2>2, <2>3, <2>4, Zenon
<1>10. th'[Sched(0)].pc \in Booting => th[Sched(0)].pc \in Booting
  BY <1>2, <1>3, <1>4, ThreadNames, CpuAssumption, Zenon DEF Booting
<1>11. LocalStep(c)
  <2>1. r.pc # "eret"
    BY <1>2, <1>3, Zenon
  <2>2. mask' = mask /\ on' = on /\ elr' = elr /\ state' = state /\ locks[l] = None
    BY <1>0, Zenon
  <2>. QED
    BY <1>4, <1>5, <1>6, <1>7, <1>8, <1>9, <1>10, <2>1, <2>2, Zenon DEF LocalStep, mask
<1>12. SleepOk'
  BY <1>0, <1>2, <1>3, <1>4, LockSleep, Zenon DEF KeptSpin
<1>. QED
  BY <1>11, <1>12, StepInv, Zenon

\* release: the CPU holds the lock and interrupts are off, so neither release nor
\* pop_off panics; interrupts come back on in the scheduler and in a new process only.
LEMMA ReleaseInv ==
    ASSUME CpuInv, NEW c \in Cpus, Release(c)
    PROVE  CpuInv'
<1>. DEFINE l == Lock(c, Code[Pc(c)][2])
            x == IF Code[Pc(c)][3] = "ret" THEN th[on[c]].ret ELSE Code[Pc(c)][3]
<1>0. /\ Pc(c) \in Releases /\ PopOff(c) /\ Goto(c, x)
      /\ panic' = (locks[l] # c \/ irq[c] \/ noff[c] < 1)
      /\ locks' = [locks EXCEPT ![l] = None]
      /\ on' = on /\ elr' = elr /\ state' = state /\ ticks' = ticks
      /\ killed' = killed /\ targets' = targets /\ first' = first /\ wild' = wild
  <2>1. Pc(c) \in Releases
    BY CodeIs, Zenon DEF Release, Does
  <2>. QED
    BY <2>1, Zenon DEF Release, Holding, PopOffPanics, procs
<1>1. /\ l \in Locks
      /\ \/ /\ Pc(c) \in LockOwn /\ l = Myproc(c) /\ l \in Procs /\ on[c] = Proc(l)
         \/ Pc(c) \in LockPick /\ l = th[on[c]].pick /\ l \in Procs /\ on[c] = Sched(c)
         \/ Pc(c) \in LockTicks /\ l = "ticks"
         \/ Pc(c) \in LockWait /\ l = "wait"
         \/ Pc(c) \in LockDisk /\ l = "disk"
  BY <1>0, LockAt, Zenon
<1>2. \/ Pc(c) = "unpick" /\ x = "idle"
      \/ Pc(c) = "forkret" /\ x = "f_first"
      \/ Pc(c) = "y_rel" /\ x = th[on[c]].ret /\ x \in {"irq_ret", "svc_done"}
      \/ Pc(c) = "t_rel" /\ x = "irq_done"
      \/ Pc(c) = "s_rel" /\ x = "svc_done"
      \/ Pc(c) = "s_drop" /\ x = "s_sched"
      \/ Pc(c) = "s_wake" /\ x = "s_again"
      \/ Pc(c) = "e_drop" /\ x = "e_sched"
      \/ Pc(c) = "d_rel" /\ x = "irq_done"
      \/ Pc(c) = "f_rel" /\ x = "f_init"
      \/ Pc(c) = "f_drop" /\ x = "f_sched"
      \/ Pc(c) = "f_wake" /\ x = "f_again"
  <2>1. th[on[c]].ret \in {"irq_ret", "svc_done"}
    BY Current, Zenon DEF ThreadRecs
  <2>2. Pc(c) = "y_rel" => x = th[on[c]].ret
    BY CodeTo, Zenon
  <2>3. Pc(c) # "y_rel" /\ Pc(c) \in Releases => x = Code[Pc(c)][3]
    BY CodeTo, Zenon DEF Releases
  <2>. HIDE DEF x
  <2>. QED
    BY <1>0, <2>1, <2>2, <2>3, CodeTo DEF Releases
<1>. HIDE DEF l, x
<1>3. PICK r \in ThreadRecs : r.pc = x /\ Kept(r, th[on[c]]) /\ Become(c, r)
  <2>1. x \in SchedLabels \cup ProcLabels
    BY <1>2, Zenon DEF SchedLabels, ProcLabels, Handling, Sleeping, Returning, Exiting,
           Mounting, Open
  <2>. QED
    BY <1>0, <2>1, JumpTo, Zenon
<1>4. /\ th' \in [Threads -> ThreadRecs] /\ th'[on[c]] = r
      /\ \A t \in Threads \ {on[c]} : th'[t] = th[t]
  BY <1>3, BecomeIs, Zenon
<1>5. /\ Pc(c) = th[on[c]].pc /\ ThreadOk(on[c], th[on[c]])
      /\ CpuOk(th[on[c]], irq[c], noff[c], intena[c])
      /\ \A k \in Locks : locks[k] = c <=> Holds(on[c], th[on[c]], k)
  BY Current, Zenon
<1>6. locks[l] = c /\ ~irq[c] /\ noff[c] \in Nat \ {0} /\ ~th[on[c]].spin
  <2>1. Holds(on[c], th[on[c]], l)
    BY <1>1, <1>2, <1>5, Zenon DEF Holds, LockOwn, LockPick, LockTicks, TicksHeld, OwnHeld,
           PickHeld, OuterHeld, WaitHeld, DiskHeld, LockWait, LockDisk
  <2>2. ~th[on[c]].spin
    BY <1>0, <1>5, Zenon DEF ThreadOk, Acquires, Releases, Mounting
  <2>3. noff[c] \in Nat \ {0}
    <3>1. noff[c] = Depth(th[on[c]]) /\ Pc(c) \in Releases /\ Pc(c) = th[on[c]].pc
      BY <1>0, <1>5, Zenon DEF CpuOk
    <3>2. Depth(th[on[c]]) = 1 \/ Depth(th[on[c]]) = 2
      BY <2>2, <3>1, DepthIs, Zenon DEF Releases, TicksHeld, OwnHeld, PickHeld, OuterHeld,
             WaitHeld, DiskHeld
    <3>. QED
      BY <3>1, <3>2
  <2>4. ~irq[c]
    BY <1>5, <2>3, Zenon DEF CpuOk
  <2>. QED
    BY <1>1, <1>5, <2>1, <2>2, <2>3, <2>4, Zenon
<1>7. panic' = FALSE
  <2>1. ~(locks[l] # c \/ irq[c] \/ noff[c] < 1)
    BY <1>6
  <2>. QED
    BY <1>0, <2>1, Zenon
<1>8. /\ locks' \in [Locks -> Cpus \cup {None}] /\ locks'[l] = None
      /\ \A k \in Locks \ {l} : locks'[k] = locks[k]
  <2>1. locks \in [Locks -> Cpus \cup {None}]
    BY Zenon DEF CpuInv, TypeOK
  <2>. QED
    BY <1>0, <1>1, <2>1, Zenon
<1>9. /\ irq' \in [Cpus -> BOOLEAN] /\ noff' \in [Cpus -> Int] /\ intena' = intena
      /\ noff'[c] = noff[c] - 1 /\ (irq'[c] => noff[c] = 1 /\ intena[c])
      /\ \A d \in Cpus \ {c} : irq'[d] = irq[d] /\ noff'[d] = noff[d]
  <2>1. irq \in [Cpus -> BOOLEAN] /\ noff \in [Cpus -> Int] /\ intena \in [Cpus -> BOOLEAN]
    BY Zenon DEF CpuInv, TypeOK
  <2>2. /\ noff' = [noff EXCEPT ![c] = @ - 1] /\ intena' = intena
        /\ irq' = [irq EXCEPT ![c] = (noff[c] = 1 /\ intena[c])]
    BY <1>0, Zenon DEF PopOff
  <2>3. /\ noff' \in [Cpus -> Int] /\ noff'[c] = noff[c] - 1
        /\ \A d \in Cpus \ {c} : noff'[d] = noff[d]
    BY <2>1, <2>2
  <2>4. irq' = [irq EXCEPT ![c] = TRUE] \/ irq' = [irq EXCEPT ![c] = FALSE]
    BY <2>2, Zenon
  <2>5. irq' \in [Cpus -> BOOLEAN] /\ \A d \in Cpus \ {c} : irq'[d] = irq[d]
    <3>1. CASE irq' = [irq EXCEPT ![c] = TRUE]
      BY <2>1, <3>1, Zenon
    <3>2. CASE irq' = [irq EXCEPT ![c] = FALSE]
      BY <2>1, <3>2, Zenon
    <3>. QED
      BY <2>4, <3>1, <3>2, Zenon
  <2>6. irq'[c] => noff[c] = 1 /\ intena[c]
    BY <2>1, <2>2, Zenon
  <2>. QED
    BY <2>2, <2>3, <2>5, <2>6, Zenon
<1>10. TypeOK'
  BY <1>0, <1>4, <1>7, <1>8, <1>9 DEF CpuInv, TypeOK
<1>11. CpuOk(r, irq'[c], noff'[c], intena[c])
  <2>1. r.spin = th[on[c]].spin /\ r.new = th[on[c]].new /\ r.pc = x
    BY <1>3, Zenon DEF Kept
  <2>2. Depth(r) = Depth(th[on[c]]) - 1
    <3>1. th[on[c]].pc = Pc(c) /\ r.pc = x /\ ~th[on[c]].spin /\ ~r.spin
      BY <1>5, <1>6, <2>1, Zenon
    <3>2. \/ Depth(th[on[c]]) = 1 /\ Depth(r) = 0
          \/ Depth(th[on[c]]) = 2 /\ Depth(r) = 1
      BY <1>2, <3>1, DepthIs, Zenon DEF TicksHeld, OwnHeld, PickHeld, OuterHeld, WaitHeld,
             DiskHeld
    <3>. QED
      BY <3>2
  <2>3. noff[c] = Depth(th[on[c]])
    BY <1>5, Zenon DEF CpuOk
  <2>4. intena[c] => Pc(c) \in {"unpick", "forkret", "f_rel", "f_drop", "f_wake"}
    <3>1. intena[c] => Pc(c) \in Picking \cup Mounting \cup {"forkret"}
      BY <1>5, <1>6 DEF CpuOk
    <3>. QED
      BY <1>0, <3>1, Zenon DEF Picking, Mounting, Releases
  <2>5. irq'[c] => noff'[c] = 0 /\ (r.pc = "idle" \/ (r.new /\ r.pc \in Open))
    <3>1. irq'[c] => noff'[c] = 0 /\ noff[c] = 1 /\ intena[c]
      BY <1>9
    <3>2. Pc(c) \in {"forkret", "f_rel", "f_wake"} => th[on[c]].new
      BY <1>5, Zenon DEF ThreadOk, Mounting
    <3>3. Pc(c) = "f_drop" => Depth(th[on[c]]) = 2
      BY <1>5, <1>6, DepthIs, Zenon
      DEF OuterHeld, TicksHeld, WaitHeld, DiskHeld, OwnHeld, PickHeld
    <3>4. noff[c] = 1 => Pc(c) # "f_drop"
      BY <2>3, <3>3
    <3>. QED
      BY <1>2, <2>1, <2>4, <3>1, <3>2, <3>4, Zenon DEF Open
  <2>6. intena[c] /\ noff'[c] > 0 => r.pc \in Mounting
    <3>1. Pc(c) \in {"unpick", "forkret"} => Depth(th[on[c]]) = 1
      BY <1>5, <1>6, DepthIs, Zenon
      DEF OuterHeld, TicksHeld, WaitHeld, DiskHeld, OwnHeld, PickHeld
    <3>2. noff'[c] > 0 => Pc(c) \notin {"unpick", "forkret"}
      BY <1>9, <2>3, <3>1
    <3>. QED
      BY <1>2, <2>1, <2>4, <3>2, Zenon DEF Mounting
  <2>. QED
    BY <1>9, <2>2, <2>3, <2>5, <2>6, Zenon DEF CpuOk
<1>12. ThreadOk(on[c], r)
  <2>1. ~r.spin
    BY <1>3, <1>6, Zenon DEF Kept
  <2>2. CASE Pc(c) = "unpick"
    <3>1. on[c] = Sched(c) /\ r.pc = "idle"
      BY <1>2, <1>3, <2>2, SchedAt, Zenon DEF Picking, Mounting
    <3>. QED
      BY <2>1, <3>1, SchedOk, Zenon
  <2>3. CASE Pc(c) \in {"t_rel", "d_rel"}
    <3>1. r.pc \in Handling /\ Pc(c) \in Handling
      BY <1>2, <1>3, <2>3, Zenon DEF Handling
    <3>. QED
      BY <1>3, <2>1, <3>1, HandleOk, Zenon
  <2>4. CASE Pc(c) = "y_rel" /\ x = "irq_ret"
    <3>1. on[c][1] = "proc"
      <4>1. on[c] = Proc(Myproc(c))
        BY <2>4, ProcAt, Zenon DEF Yielding
      <4>. QED
        BY <4>1, ThreadNames, Zenon
    <3>2. r.back = "user" \/ (r.new /\ r.back \in Open)
      BY <1>2, <1>3, <1>5, <2>4, Zenon DEF ThreadOk, Kept, Yielding, Mounting
    <3>. QED
      BY <1>3, <2>1, <2>4, <3>1, <3>2, Zenon DEF ThreadOk, ProcLabels, Handling, Picking,
             Yielding, Exiting, Mounting
  <2>5. CASE x \in {"svc_done", "e_sched", "s_sched", "s_again"}
    <3>1. on[c] = Proc(Myproc(c))
      BY <1>2, <2>5, ProcAt, Zenon DEF Yielding, Exiting, Sleeping
    <3>. QED
      BY <1>3, <2>1, <2>5, <3>1, ProcOk, Zenon DEF Exiting, Sleeping
  <2>6. CASE x \in {"f_first", "f_init", "f_sched", "f_again"}
    <3>1. /\ on[c] = Proc(Myproc(c)) /\ th[on[c]].pc \in Mounting \cup {"forkret"}
      BY <1>2, <1>5, <2>6, ProcAt, Zenon DEF Mounting
    <3>2. r.new /\ r.pc \in Mounting \cup {"f_first"}
      BY <1>3, <1>5, <2>6, <3>1, Zenon DEF ThreadOk, Kept, Mounting
    <3>. QED
      BY <2>1, <3>1, <3>2, ProcOk, Zenon
  <2>. QED
    BY <1>2, <2>2, <2>3, <2>4, <2>5, <2>6, Zenon
<1>13. \A k \in Locks : locks'[k] = c <=> Holds(on[c], r, k)
  <2>1. ~Holds(on[c], r, l)
    <3>1. /\ x \notin OuterHeld \cup PickHeld
          /\ x \in OwnHeld => Pc(c) \in {"s_drop", "e_drop", "f_drop"}
      BY <1>2, Zenon DEF OuterHeld, TicksHeld, WaitHeld, DiskHeld, OwnHeld, PickHeld
    <3>2. Pc(c) \in {"s_drop", "e_drop", "f_drop"} => on[c] # Proc(l)
      <4>1. Pc(c) \in {"s_drop", "e_drop", "f_drop"} => l \in {"ticks", "wait", "disk"}
        BY <1>1, Zenon DEF LockOwn, LockPick
      <4>2. Pc(c) \in {"s_drop", "e_drop", "f_drop"} =>
              Myproc(c) \in Procs /\ on[c] = Proc(Myproc(c))
        BY ProcAt, Zenon DEF Exiting, Sleeping, Mounting
      <4>3. Myproc(c) \in Procs => Myproc(c) \notin {"ticks", "wait", "disk"}
        BY LockNames, Zenon
      <4>. QED
        BY <4>1, <4>2, <4>3, ThreadNames, Zenon
    <3>. QED
      BY <1>3, <3>1, <3>2, Zenon DEF Holds, OuterHeld
  <2>2. \A k \in Locks \ {l} : Holds(on[c], r, k) <=> Holds(on[c], th[on[c]], k)
    <3>1. (r.pc \in TicksHeld <=> Pc(c) \in TicksHeld) \/ Pc(c) \in LockTicks
      BY <1>2, <1>3, Zenon DEF TicksHeld, LockTicks
    <3>2. (r.pc \in WaitHeld <=> Pc(c) \in WaitHeld) \/ Pc(c) \in LockWait
      BY <1>2, <1>3, Zenon DEF WaitHeld, LockWait
    <3>3. (r.pc \in DiskHeld <=> Pc(c) \in DiskHeld) \/ Pc(c) \in LockDisk
      BY <1>2, <1>3, Zenon DEF DiskHeld, LockDisk
    <3>4. (r.pc \in OwnHeld <=> Pc(c) \in OwnHeld) \/ Pc(c) \in LockOwn
      BY <1>2, <1>3, Zenon DEF OwnHeld, LockOwn
    <3>5. (r.pc \in PickHeld <=> Pc(c) \in PickHeld) \/ Pc(c) \in LockPick
      BY <1>2, <1>3, Zenon DEF PickHeld, LockPick
    <3>6. /\ Pc(c) \in LockTicks => l = "ticks"
          /\ Pc(c) \in LockWait => l = "wait"
          /\ Pc(c) \in LockDisk => l = "disk"
          /\ Pc(c) \in LockOwn => on[c] = Proc(l)
          /\ Pc(c) \in LockPick => l = th[on[c]].pick
      BY <1>1, Zenon DEF LockOwn, LockPick, LockTicks, LockWait, LockDisk
    <3>7. r.pick = th[on[c]].pick /\ Pc(c) = th[on[c]].pc
      BY <1>3, <1>5, Zenon DEF Kept
    <3>8. (r.pc \in TicksHeld <=> th[on[c]].pc \in TicksHeld) \/ l = "ticks"
      BY <3>1, <3>6, <3>7, Zenon
    <3>9. (r.pc \in WaitHeld <=> th[on[c]].pc \in WaitHeld) \/ l = "wait"
      BY <3>2, <3>6, <3>7, Zenon
    <3>10. (r.pc \in DiskHeld <=> th[on[c]].pc \in DiskHeld) \/ l = "disk"
      BY <3>3, <3>6, <3>7, Zenon
    <3>11. (r.pc \in OwnHeld <=> th[on[c]].pc \in OwnHeld) \/ on[c] = Proc(l)
      BY <3>4, <3>6, <3>7, Zenon
    <3>12. (r.pc \in PickHeld <=> th[on[c]].pc \in PickHeld) \/ l = th[on[c]].pick
      BY <3>5, <3>6, <3>7, Zenon
    <3>. QED
      BY <3>7, <3>8, <3>11, <3>12, <3>9, <3>10, OtherLocks, Zenon
  <2>. QED
    BY <1>5, <1>8, <2>1, <2>2, LockNames, Zenon
<1>14. th'[Sched(0)].pc \in Booting => th[Sched(0)].pc \in Booting
  BY <1>2, <1>3, <1>4, ThreadNames, CpuAssumption, Zenon DEF Booting
<1>15. LocalStep(c)
  <2>1. r.pc # "eret"
    BY <1>2, <1>3, Zenon
  <2>2. on' = on /\ elr' = elr /\ state' = state
    BY <1>0, Zenon
  <2>. QED
    BY <1>4, <1>6, <1>8, <1>9, <1>10, <1>11, <1>12, <1>13, <1>14, <2>1, <2>2, Zenon
       DEF LocalStep
<1>16. SleepOk'
  BY <1>0, <1>2, <1>3, <1>4, LockSleep, Zenon DEF Kept
<1>. QED
  BY <1>15, <1>16, StepInv, Zenon

(***************************************************************************)
(* The switch between threads.                                             *)
(***************************************************************************)
\* CPU c goes from its scheduler to process p, or back: the thread that it leaves has
\* record r, the locks stay with the CPU, and the thread u that it goes to holds the
\* same ones.
Switch(c, r, u, p) ==
    /\ TypeOK' /\ Become(c, r) /\ locks' = locks /\ irq' = irq /\ noff' = noff /\ elr' = elr
    /\ on'[c] = u /\ \A d \in Cpus \ {c} : on'[d] = on[d] /\ intena'[d] = intena[d]
    /\ \A q \in Procs \ {p} : state'[q] = state[q]
    /\ state[p] \in {"runnable", "running"} /\ \A d \in Cpus \ {c} : on[d] # Proc(p)
    /\ ThreadOk(on[c], r) /\ r.pc \notin Booting
    /\ CpuOk(th[u], irq[c], noff[c], intena'[c]) /\ th[u].pc # "eret"
    /\ \A l \in Locks : locks[l] = c <=> Holds(u, th[u], l)
    /\ \/ /\ on[c] = Sched(c) /\ u = Proc(p) /\ state'[p] = "running"
          /\ r.pc = "unpick" /\ r.pick = p
       \/ /\ on[c] = Proc(p) /\ u = Sched(c) /\ state'[p] # "running"
          /\ r.pc \in Resumable \cup {"exited"}
          /\ state'[p] \in {"runnable", "sleeping"} => r.pc # "exited"
          /\ r.pc \in {"y_rel", "s_wake"} => ~r.intena

\* A switch keeps the parts of the invariant that are not about sleepers.
LEMMA SwitchInv ==
    ASSUME CpuInv, NEW c \in Cpus, NEW r \in ThreadRecs, NEW u, NEW p \in Procs,
           Switch(c, r, u, p)
    PROVE  (/\ ThreadsOk /\ CpusOk /\ LocksOk /\ OnOk /\ OnOnce /\ ParkedOk /\ BootOk /\ ElrOk)'
<1>0. /\ th'[on[c]] = r /\ on[c] \in Threads
      /\ \A t \in Threads \ {on[c]} : th'[t] = th[t]
  <2>1. Become(c, r)
    BY Zenon DEF Switch
  <2>. QED
    BY <2>1, BecomeIs, Current, Zenon
<1>1. \/ on[c] = Sched(c) /\ u = Proc(p)
      \/ on[c] = Proc(p) /\ u = Sched(c)
  BY Zenon DEF Switch
<1>2. u # on[c] /\ u \in Threads /\ th'[u] = th[u] /\ on'[c] = u
  <2>1. on'[c] = u
    BY Zenon DEF Switch
  <2>2. u # on[c] /\ u \in Threads
    BY <1>1, ThreadNames
  <2>. QED
    BY <1>0, <2>1, <2>2, Zenon
<1>3. \A d \in Cpus \ {c} :
        on'[d] = on[d] /\ on[d] # on[c] /\ on[d] \in Threads /\ th'[on[d]] = th[on[d]]
  <2>1. \A d \in Cpus \ {c} : on'[d] = on[d]
    BY Zenon DEF Switch
  <2>2. \A d \in Cpus \ {c} : on[d] # on[c] /\ on[d] \in Threads
    BY Zenon DEF CpuInv, OnOnce, TypeOK
  <2>. QED
    BY <1>0, <2>1, <2>2, Zenon
<1>4. \A d \in Cpus \ {c} : on[d] # u
  <2>. SUFFICES ASSUME NEW d \in Cpus \ {c}, on[d] = u PROVE FALSE
    BY Zenon
  <2>1. u = Sched(c)
    BY <1>1, Zenon DEF Switch
  <2>. QED
    BY <2>1, Current, ThreadNames
<1>5. ThreadsOk'
  <2>1. ThreadsOk /\ ThreadOk(on[c], r)
    BY Zenon DEF CpuInv, Switch
  <2>. QED
    BY <1>0, <2>1, Zenon DEF ThreadsOk
<1>6. CpusOk'
  <2>1. CpusOk /\ CpuOk(th[u], irq[c], noff[c], intena'[c])
    BY Zenon DEF CpuInv, Switch
  <2>2. irq' = irq /\ noff' = noff /\ \A d \in Cpus \ {c} : intena'[d] = intena[d]
    BY Zenon DEF Switch
  <2>3. \A d \in Cpus \ {c} : CpuOk(th'[on'[d]], irq'[d], noff'[d], intena'[d])
    BY <1>3, <2>1, <2>2, Zenon DEF CpusOk
  <2>. QED
    BY <1>2, <2>1, <2>2, <2>3, Zenon DEF CpusOk
<1>7. LocksOk'
  <2>1. LocksOk /\ \A l \in Locks : locks[l] = c <=> Holds(u, th[u], l)
    BY Zenon DEF CpuInv, Switch
  <2>2. locks' = locks
    BY Zenon DEF Switch
  <2>3. \A d \in Cpus \ {c}, l \in Locks : locks'[l] = d <=> Holds(on'[d], th'[on'[d]], l)
    BY <1>3, <2>1, <2>2 DEF LocksOk
  <2>. QED
    BY <1>2, <2>1, <2>2, <2>3, Zenon DEF LocksOk
<1>8. OnOk'
  <2>. SUFFICES ASSUME NEW d \in Cpus
                PROVE  on'[d] = Sched(d) \/ \E q \in Procs :
                         /\ on'[d] = Proc(q) /\ state'[q] = "running"
                         /\ th'[Sched(d)].pc = "unpick" /\ th'[Sched(d)].pick = q
    BY Zenon DEF OnOk
  <2>1. CASE d = c
    <3>1. \/ u = Sched(c)
          \/ /\ on[c] = Sched(c) /\ u = Proc(p) /\ state'[p] = "running"
             /\ r.pc = "unpick" /\ r.pick = p
      BY Zenon DEF Switch
    <3>. QED
      BY <1>0, <1>2, <2>1, <3>1, Zenon
  <2>2. CASE d # c
    <3>1. Sched(d) # on[c] /\ Sched(d) \in Threads
      BY <1>1, <2>2, ThreadNames
    <3>2. th'[Sched(d)] = th[Sched(d)] /\ on'[d] = on[d] /\ on[d] # Proc(p)
      <4>1. on[d] # Proc(p)
        BY <2>2, Zenon DEF Switch
      <4>. QED
        BY <1>0, <1>3, <2>2, <3>1, <4>1, Zenon
    <3>3. \A q \in Procs : on[d] = Proc(q) => state'[q] = state[q]
      BY <3>2, Zenon DEF Switch
    <3>. QED
      BY <3>2, <3>3 DEF CpuInv, OnOk
  <2>. QED
    BY <2>1, <2>2, Zenon
<1>9. OnOnce'
  <2>1. OnOnce
    BY Zenon DEF CpuInv
  <2>. QED
    BY <1>2, <1>3, <1>4, <2>1 DEF OnOnce
<1>10. ParkedOk'
  <2>. SUFFICES ASSUME NEW q \in Procs, \A d \in Cpus : on'[d] # Proc(q)
                PROVE  /\ state'[q] # "running"
                       /\ th'[Proc(q)].pc \in Resumable \cup {"exited"}
                       /\ state'[q] \in {"runnable", "sleeping"} => th'[Proc(q)].pc # "exited"
                       /\ th'[Proc(q)].pc \in {"y_rel", "s_wake"} => ~th'[Proc(q)].intena
    BY Zenon DEF ParkedOk
  <2>1. CASE q = p
    <3>1. /\ on[c] = Proc(p) /\ state'[p] # "running"
          /\ r.pc \in Resumable \cup {"exited"}
          /\ state'[p] \in {"runnable", "sleeping"} => r.pc # "exited"
          /\ r.pc \in {"y_rel", "s_wake"} => ~r.intena
      BY <1>2, <2>1, Zenon DEF Switch
    <3>. QED
      BY <1>0, <2>1, <3>1, Zenon
  <2>2. CASE q # p
    <3>1. Proc(q) # on[c] /\ Proc(q) \in Threads
      BY <1>1, <2>2, ThreadNames, Zenon
    <3>2. th'[Proc(q)] = th[Proc(q)] /\ state'[q] = state[q] /\ \A d \in Cpus : on[d] # Proc(q)
      BY <1>0, <1>3, <2>2, <3>1, Zenon DEF Switch
    <3>. QED
      BY <3>2, Zenon DEF CpuInv, ParkedOk
  <2>. QED
    BY <2>1, <2>2, Zenon
<1>11. BootOk'
  <2>1. th[Sched(0)].pc \notin Booting
    <3>1. state[p] \in {"runnable", "running"}
      BY Zenon DEF Switch
    <3>. QED
      BY <3>1, Zenon DEF CpuInv, BootOk
  <2>2. th'[Sched(0)].pc \notin Booting
    <3>1. r.pc \notin Booting
      BY Zenon DEF Switch
    <3>. QED
      BY <1>0, <2>1, <3>1, ThreadNames, CpuAssumption, Zenon
  <2>. QED
    BY <2>2, Zenon DEF BootOk
<1>12. ElrOk'
  <2>1. ElrOk /\ elr' = elr /\ th[u].pc # "eret"
    BY Zenon DEF CpuInv, Switch
  <2>. QED
    BY <1>2, <1>3, <2>1, Zenon DEF ElrOk, Pc
<1>. QED
  BY <1>5, <1>6, <1>7, <1>8, <1>9, <1>10, <1>11, <1>12, Zenon

\* scheduler goes to the process that it has picked when that is runnable, and else
\* gives its lock back.  The process was in sched, which has saved intena off unless
\* the process is in fsinit, or is new.
LEMMA PickedInv ==
    ASSUME CpuInv, NEW c \in Cpus, Picked(c)
    PROVE  CpuInv'
<1>. DEFINE p == th[on[c]].pick
<1>0. /\ Pc(c) = "picked" /\ Goto(c, "unpick")
      /\ locks' = locks /\ irq' = irq /\ noff' = noff /\ elr' = elr /\ killed' = killed
      /\ ticks' = ticks /\ targets' = targets /\ first' = first /\ panic' = panic /\ wild' = wild
      /\ \/ /\ state[p] = "runnable" /\ state' = [state EXCEPT ![p] = "running"]
            /\ Resume(c, p)
         \/ state' = state /\ on' = on /\ intena' = intena
  BY Zenon DEF Picked, At
<1>1. on[c] = Sched(c) /\ ~irq[c]
  BY <1>0, OffAt, SchedAt, Zenon DEF Picking, Returning, Open, Mounting
<1>2. PICK r \in ThreadRecs : r.pc = "unpick" /\ Kept(r, th[on[c]]) /\ Become(c, r)
  <2>1. "unpick" \in SchedLabels \cup ProcLabels
    BY Zenon DEF SchedLabels, Picking, Mounting
  <2>. QED
    BY <1>0, <2>1, JumpTo, Zenon
<1>3. p \in Procs /\ ~th[on[c]].spin /\ th[on[c]].pc = "picked"
  <2>1. ThreadOk(on[c], th[on[c]]) /\ Pc(c) = th[on[c]].pc
    BY Current, Zenon
  <2>. QED
    BY <1>0, <2>1, Zenon DEF ThreadOk, Picking, Acquires, Mounting
<1>4. ThreadOk(on[c], r)
  BY <1>1, <1>2, <1>3, SchedOk, Zenon DEF Picking, Kept, Mounting
<1>. HIDE DEF p
<1>5. CASE state' = state /\ on' = on /\ intena' = intena
  <2>1. RestOK'
    BY <1>0, <1>5, Zenon DEF RestOK, CpuInv, TypeOK
  <2>2. Jump(c, r)
    BY <1>0, <1>1, <1>2, <1>4, <1>5, <2>1, Zenon DEF Jump, mask, Kept, TicksHeld, OwnHeld,
           PickHeld, Picking, Booting, WaitHeld, DiskHeld
  <2>. QED
    BY <1>0, <1>2, <1>5, <2>2, JumpInv, Zenon
<1>6. CASE /\ state[p] = "runnable" /\ state' = [state EXCEPT ![p] = "running"]
           /\ Resume(c, p)
  <2>. DEFINE s == th[Proc(p)]
  <2>0. /\ state' \in [Procs -> States] /\ state'[p] = "running"
        /\ \A q \in Procs \ {p} : state'[q] = state[q]
    <3>1. "running" \in States /\ state \in [Procs -> States]
      BY Zenon DEF States, CpuInv, TypeOK
    <3>. QED
      BY <1>3, <1>6, <3>1, Zenon
  <2>1. /\ on' \in [Cpus -> Threads] /\ on'[c] = Proc(p)
        /\ \A d \in Cpus \ {c} : on'[d] = on[d]
    <3>1. Proc(p) \in Threads /\ on \in [Cpus -> Threads]
      BY <1>3, ThreadNames, Zenon DEF CpuInv, TypeOK
    <3>. QED
      BY <1>6, <3>1, Zenon DEF Resume
  <2>2. \A d \in Cpus : on[d] # Proc(p)
    BY <1>3, <1>6, ThreadNames DEF CpuInv, OnOk
  <2>3. s.pc \in Resumable /\ (s.pc \in {"y_rel", "s_wake"} => ~s.intena)
    BY <1>3, <1>6, <2>2, Zenon DEF CpuInv, ParkedOk
  <2>4. s \in ThreadRecs /\ ThreadOk(Proc(p), s) /\ s.intena \in BOOLEAN
    BY <1>3, ThreadNames, Zenon DEF CpuInv, TypeOK, ThreadsOk, ThreadRecs
  <2>. HIDE DEF s
  <2>5. /\ intena' \in [Cpus -> BOOLEAN] /\ (intena'[c] => s.pc \in {"forkret", "f_wake"})
        /\ \A d \in Cpus \ {c} : intena'[d] = intena[d]
    <3>1. intena \in [Cpus -> BOOLEAN] /\ intena[c] \in BOOLEAN
      BY Zenon DEF CpuInv, TypeOK
    <3>2. intena' = [intena EXCEPT ![c] = IF s.pc = "forkret" THEN @ ELSE s.intena]
      BY <1>6, Zenon DEF Resume, s
    <3>3. PICK e \in BOOLEAN :
            intena' = [intena EXCEPT ![c] = e] /\ (e => s.pc \in {"forkret", "f_wake"})
      <4>1. CASE s.pc = "forkret"
        BY <3>1, <3>2, <4>1, Zenon
      <4>2. CASE s.pc # "forkret"
        BY <2>3, <2>4, <3>2, <4>2, Zenon DEF Resumable
      <4>. QED
        BY <4>1, <4>2, Zenon
    <3>. QED
      BY <3>1, <3>3, Zenon
  <2>6. TypeOK'
    <3>1. th' \in [Threads -> ThreadRecs]
      BY <1>2, BecomeIs, Zenon
    <3>. QED
      BY <1>0, <2>0, <2>1, <2>5, <3>1, Zenon DEF CpuInv, TypeOK
  <2>7. ~s.spin /\ s.pc \in OwnHeld /\ s.pc \notin OuterHeld \cup PickHeld /\ s.pc # "eret"
    BY <2>3, <2>4, Zenon DEF ThreadOk, Resumable, Acquires, OwnHeld, TicksHeld, PickHeld,
           OuterHeld, WaitHeld, DiskHeld, Mounting
  <2>8. CpuOk(s, irq[c], noff[c], intena'[c])
    <3>1. noff[c] = 1
      <4>1. noff[c] = Depth(th[on[c]])
        BY Current, Zenon DEF CpuOk
      <4>. QED
        BY <1>3, <4>1, DepthIs, Zenon DEF TicksHeld, OwnHeld, PickHeld, OuterHeld, WaitHeld,
               DiskHeld
    <3>2. Depth(s) = 1
      BY <2>7, DepthIs, Zenon
    <3>. QED
      BY <1>1, <2>5, <3>1, <3>2, Zenon DEF CpuOk, Mounting
  <2>9. \A l \in Locks : locks[l] = c <=> Holds(Proc(p), s, l)
    <3>1. \A l \in Locks : locks[l] = c <=> l = p
      <4>1. \A l \in Locks : locks[l] = c <=> Holds(on[c], th[on[c]], l)
        BY Current, Zenon
      <4>. QED
        BY <1>3, <4>1, Zenon DEF Holds, TicksHeld, OwnHeld, PickHeld, p, OuterHeld, WaitHeld,
               DiskHeld
    <3>2. \A l : Holds(Proc(p), s, l) <=> l = p
      BY <2>7, ThreadNames, Zenon DEF Holds, OuterHeld
    <3>. QED
      BY <3>1, <3>2, Zenon
  <2>10. Switch(c, r, Proc(p), p)
    <3>1. r.pick = p /\ r.pc = "unpick" /\ r.pc \notin Booting
      BY <1>2, Zenon DEF Kept, Booting, p
    <3>2. locks' = locks /\ irq' = irq /\ noff' = noff /\ elr' = elr
      BY <1>0, Zenon
    <3>. QED
      BY <1>1, <1>2, <1>4, <1>6, <2>0, <2>1, <2>2, <2>5, <2>6, <2>7, <2>8, <2>9, <3>1, <3>2, Zenon
      DEF Switch, s
  <2>11. SleepOk'
    <3>1. \A t \in Threads \ {on[c]} : th'[t] = th[t]
      BY <1>2, BecomeIs, Zenon
    <3>2. \A q \in Procs : th'[Proc(q)] = th[Proc(q)]
      BY <1>1, <3>1, ThreadNames, Zenon
    <3>3. \A q \in Procs : state'[q] = "sleeping" => state[q] = "sleeping"
      BY <2>0, Zenon
    <3>4. \A d \in Cpus : Pc(d) = "t_wake" => Pc(d)' = "t_wake"
      <4>1. \A d \in Cpus \ {c} : on[d] # on[c] /\ on[d] \in Threads
        BY Zenon DEF CpuInv, OnOnce, TypeOK
      <4>. QED
        BY <1>0, <2>1, <3>1, <4>1, Zenon DEF Pc
    <3>5. ticks' = ticks
      BY <1>0, Zenon
    <3>. QED
      BY <3>2, <3>3, <3>4, <3>5, QuietStep, Zenon DEF Dozes
  <2>. QED
    BY <1>3, <2>6, <2>10, <2>11, SwitchInv, Zenon DEF CpuInv
<1>. QED
  BY <1>0, <1>5, <1>6, Zenon

\* Two records that agree on all but the label and the intena that sched saves.
Saved(s, r, b) ==
    /\ s.spin = r.spin /\ s.pick = r.pick /\ s.ret = r.ret /\ s.back = r.back
    /\ s.ticks0 = r.ticks0 /\ s.n = r.n /\ s.new = r.new /\ s.intena = b

\* The record of a thread that sched leaves.
LEMMA JumpSaved ==
    ASSUME NEW r \in ThreadRecs, NEW x \in SchedLabels \cup ProcLabels, NEW b \in BOOLEAN
    PROVE  LET s == [r EXCEPT !.pc = x, !.intena = b]
           IN  s \in ThreadRecs /\ s.pc = x /\ Saved(s, r, b)
BY Zenon DEF ThreadRecs, Saved

\* sched: the process holds its own lock and no other, and interrupts are off, so it
\* does not panic; the scheduler that waits for it goes on with the lock.
LEMMA SchedToInv ==
    ASSUME CpuInv, NEW c \in Cpus, NEW st, NEW x, SchedTo(c, st, x),
           \/ Pc(c) = "y_sched" /\ st = "runnable" /\ x = "y_rel"
           \/ Pc(c) = "e_sched" /\ st = "zombie" /\ x = "exited"
           \/ Pc(c) = "s_sched" /\ st = "sleeping" /\ x = "s_wake"
           \/ Pc(c) = "f_sched" /\ st = "sleeping" /\ x = "f_wake"
    PROVE  CpuInv'
<1>. DEFINE p == Myproc(c)
<1>0. /\ panic' = (locks[p] # c \/ noff[c] # 1 \/ irq[c])
      /\ state' = [state EXCEPT ![p] = st] /\ on' = [on EXCEPT ![c] = Sched(c)]
      /\ Become(c, [th[on[c]] EXCEPT !.pc = x, !.intena = intena[c]])
      /\ locks' = locks /\ irq' = irq /\ noff' = noff /\ intena' = intena /\ elr' = elr
      /\ killed' = killed /\ ticks' = ticks /\ targets' = targets /\ first' = first /\ wild' = wild
  BY Zenon DEF SchedTo, Holding, mask
<1>1. p \in Procs /\ on[c] = Proc(p) /\ state[p] = "running"
  BY ProcAt, Zenon DEF Yielding, Exiting, Sleeping, Mounting
<1>2. ~irq[c] /\ (intena[c] /\ noff[c] > 0 => x = "f_wake") /\ ~th[on[c]].spin
  BY OffAt, NoSpin, Zenon DEF Picking, Returning, Acquires, Open, Mounting
<1>3. Pc(c) \in OwnHeld /\ Pc(c) \notin OuterHeld \cup PickHeld /\ Pc(c) = th[on[c]].pc
  BY Current, Zenon DEF OwnHeld, TicksHeld, PickHeld, OuterHeld, WaitHeld, DiskHeld
<1>4. noff[c] = 1 /\ intena[c] \in BOOLEAN /\ (intena[c] => x = "f_wake")
  <2>1. noff[c] = Depth(th[on[c]])
    BY Current, Zenon DEF CpuOk
  <2>2. noff[c] = 1
    BY <1>2, <1>3, <2>1, DepthIs, Zenon
  <2>3. intena[c] \in BOOLEAN /\ noff[c] > 0
    BY <2>2 DEF CpuInv, TypeOK
  <2>. QED
    BY <1>2, <2>2, <2>3, Zenon
<1>5. \A l \in Locks : locks[l] = c <=> l = p
  <2>1. \A l \in Locks : locks[l] = c <=> Holds(on[c], th[on[c]], l)
    BY Current, Zenon
  <2>2. \A l : Holds(on[c], th[on[c]], l) <=> l = p
    BY <1>1, <1>3, ThreadNames, Zenon DEF Holds, OuterHeld
  <2>. QED
    BY <2>1, <2>2, Zenon
<1>6. panic' = FALSE
  <2>1. locks[p] = c
    BY <1>1, <1>5, LockNames, Zenon
  <2>. QED
    BY <1>0, <1>2, <1>4, <2>1, Zenon
<1>7. PICK r \in ThreadRecs : r.pc = x /\ Saved(r, th[on[c]], intena[c]) /\ Become(c, r)
  <2>1. th[on[c]] \in ThreadRecs /\ x \in SchedLabels \cup ProcLabels
    BY Current, Zenon DEF ProcLabels, Yielding, Sleeping, Exiting, Mounting
  <2>2. Become(c, [th[on[c]] EXCEPT !.pc = x, !.intena = intena[c]])
    BY <1>0, Zenon
  <2>. QED
    BY <1>4, <2>1, <2>2, JumpSaved, Zenon
<1>. HIDE DEF p
<1>8. ThreadOk(on[c], r)
  <2>1. ~r.spin
    BY <1>2, <1>7, Zenon DEF Saved
  <2>2. CASE x # "y_rel" \/ r.ret = "svc_done"
    <3>1. x = "f_wake" => r.new
      BY <1>3, <1>7, Current, Zenon DEF ThreadOk, Saved, Mounting
    <3>. QED
      BY <1>1, <1>7, <2>1, <2>2, <3>1, ProcOk, Zenon DEF Yielding, Sleeping, Mounting
  <2>3. CASE x = "y_rel" /\ r.ret = "irq_ret"
    <3>1. on[c][1] = "proc"
      BY <1>1, ThreadNames, Zenon
    <3>2. ThreadOk(on[c], th[on[c]]) /\ th[on[c]].pc = "y_sched" /\ th[on[c]].ret = "irq_ret"
      BY <1>3, <1>7, <2>3, Current, Zenon DEF Saved
    <3>3. r.back = "user" \/ (r.new /\ r.back \in Open)
      BY <1>7, <3>2, Zenon DEF ThreadOk, Saved, Yielding, Mounting
    <3>. QED
      BY <1>7, <2>1, <2>3, <3>1, <3>3, Zenon DEF ThreadOk, ProcLabels, Handling, Picking,
             Yielding, Exiting, Mounting
  <2>4. r.ret \in {"irq_ret", "svc_done"}
    BY <1>7, Zenon DEF ThreadRecs
  <2>. QED
    BY <2>2, <2>3, <2>4, Zenon
<1>9. /\ state' \in [Procs -> States] /\ state'[p] = st
      /\ \A q \in Procs \ {p} : state'[q] = state[q]
  <2>1. st \in States /\ state \in [Procs -> States]
    BY Zenon DEF States, CpuInv, TypeOK
  <2>. QED
    BY <1>0, <1>1, <2>1, Zenon
<1>10. /\ on' \in [Cpus -> Threads] /\ on'[c] = Sched(c)
       /\ \A d \in Cpus \ {c} : on'[d] = on[d] /\ on[d] # Proc(p)
  <2>1. Sched(c) \in Threads /\ on \in [Cpus -> Threads]
    BY ThreadNames, Zenon DEF CpuInv, TypeOK
  <2>2. \A d \in Cpus \ {c} : on[d] # on[c]
    BY Zenon DEF CpuInv, OnOnce
  <2>. QED
    BY <1>0, <1>1, <2>1, <2>2, Zenon
<1>11. /\ th' \in [Threads -> ThreadRecs] /\ th'[on[c]] = r
       /\ \A t \in Threads \ {on[c]} : th'[t] = th[t]
  BY <1>7, BecomeIs, Zenon
<1>12. TypeOK'
  BY <1>0, <1>6, <1>9, <1>10, <1>11, Zenon DEF CpuInv, TypeOK
<1>13. th[Sched(c)].pc = "unpick" /\ th[Sched(c)].pick = p
  BY <1>1, ThreadNames DEF CpuInv, OnOk
<1>14. CpuOk(th[Sched(c)], irq[c], noff[c], intena'[c])
  <2>1. ThreadOk(Sched(c), th[Sched(c)])
    BY ThreadNames, Zenon DEF CpuInv, ThreadsOk
  <2>2. ~th[Sched(c)].spin
    BY <1>13, <2>1, Zenon DEF ThreadOk, Acquires, Mounting
  <2>3. Depth(th[Sched(c)]) = 1
    BY <1>13, <2>2, DepthIs, Zenon DEF TicksHeld, OwnHeld, PickHeld, OuterHeld, WaitHeld,
           DiskHeld
  <2>. QED
    BY <1>0, <1>2, <1>4, <1>13, <2>3, Zenon DEF CpuOk, Picking
<1>15. \A l \in Locks : locks[l] = c <=> Holds(Sched(c), th[Sched(c)], l)
  BY <1>5, <1>13, Zenon DEF Holds, TicksHeld, OwnHeld, PickHeld, OuterHeld, WaitHeld, DiskHeld
<1>16. Switch(c, r, Sched(c), p)
  <2>1. /\ r.pc \in Resumable \cup {"exited"} /\ r.pc \notin Booting
        /\ r.pc \in {"y_rel", "s_wake"} => ~r.intena
        /\ st # "running" /\ (st \in {"runnable", "sleeping"} => r.pc # "exited")
    BY <1>4, <1>7, Zenon DEF Saved, Resumable, Booting
  <2>2. locks' = locks /\ irq' = irq /\ noff' = noff /\ elr' = elr /\ intena' = intena
    BY <1>0, Zenon
  <2>3. th[Sched(c)].pc # "eret"
    BY <1>13, Zenon
  <2>. QED
    BY <1>1, <1>7, <1>8, <1>9, <1>10, <1>12, <1>14, <1>15, <2>1, <2>2, <2>3, Zenon DEF Switch
<1>17. SleepOk'
  <2>1. \A q \in Procs \ {p} : th'[Proc(q)] = th[Proc(q)]
    BY <1>1, <1>11, ThreadNames, Zenon
  <2>2. /\ th'[Proc(p)].pc \notin {"s_own", "s_drop", "s_sched"}
        /\ th'[Proc(p)].ticks0 = th[Proc(p)].ticks0 /\ th'[Proc(p)].n = th[Proc(p)].n
        /\ th'[Proc(p)].pc = "s_wake" => th[Proc(p)].pc = "s_sched"
    <3>1. th'[Proc(p)] = r /\ Pc(c) = th[Proc(p)].pc /\ (x = "s_wake" => Pc(c) = "s_sched")
      BY <1>1, <1>3, <1>11, Zenon
    <3>2. r.ticks0 = th[Proc(p)].ticks0 /\ r.n = th[Proc(p)].n /\ r.pc = x
      BY <1>1, <1>7, Zenon DEF Saved
    <3>3. x \notin {"s_own", "s_drop", "s_sched"}
      BY Zenon
    <3>. QED
      BY <3>1, <3>2, <3>3, Zenon
  <2>3. \A d \in Cpus : Pc(d) = "t_wake" => Pc(d)' = "t_wake"
    <3>1. \A d \in Cpus \ {c} : on[d] # on[c] /\ on[d] \in Threads
      BY Zenon DEF CpuInv, OnOnce, TypeOK
    <3>. QED
      BY <1>10, <1>11, <3>1, Zenon DEF Pc
  <2>4. ticks' = ticks
    BY <1>0, Zenon
  <2>5. \A q \in Procs \ {p} : state'[q] = state[q]
    BY <1>9, Zenon
  <2>. QED
    BY <2>1, <2>2, <2>3, <2>4, <2>5, QuietStep, Zenon DEF Dozes
<1>. QED
  BY <1>1, <1>12, <1>16, <1>17, SwitchInv, Zenon DEF CpuInv

\* yield, exit and the two sleeps in the kernel.
LEMMA SwitchOutInv ==
    ASSUME CpuInv, NEW c \in Cpus, Yield(c) \/ Exit(c) \/ Sleep(c) \/ DiskSleep(c)
    PROVE  CpuInv'
BY SchedToInv, Zenon DEF Yield, Exit, Sleep, DiskSleep, At

\* allocproc: the record of a new process, which starts in forkret.
LEMMA NewThread ==
    ASSUME NEW x \in {"boot", "forkret"}
    PROVE  LET r == Thread(x)
           IN  r \in ThreadRecs /\ r.pc = x /\ ~r.spin /\ r.new /\ r.ret = "irq_ret"
<1>1. x \in SchedLabels \cup ProcLabels /\ "user" \in SchedLabels \cup ProcLabels
  BY Zenon DEF SchedLabels, Booting, ProcLabels, Exiting, Mounting
<1>2. 0 \in Int
  BY SMT
<1>3. None \in Procs \cup {None} /\ {} \in SUBSET Cpus
  BY Zenon
<1>. QED
  BY <1>1, <1>2, <1>3, Zenon DEF Thread, ThreadRecs

\* fork: no CPU runs the process that it takes, so the caller and the new process are
\* two threads.
LEMMA SysForkInv ==
    ASSUME CpuInv, NEW c \in Cpus, NEW q \in Procs, SysFork(c, q)
    PROVE  CpuInv'
<1>. DEFINE r == Call(c, "svc_done")
            f == Thread("forkret")
            p == Myproc(c)
<1>0. /\ Pc(c) = "user" /\ state[q] = "unused" /\ irq' = [irq EXCEPT ![c] = FALSE]
      /\ th' = [th EXCEPT ![on[c]] = r, ![Proc(q)] = f]
      /\ state' = [state EXCEPT ![q] = "runnable"] /\ killed' = [killed EXCEPT ![q] = FALSE]
      /\ locks' = locks /\ noff' = noff /\ intena' = intena /\ elr' = elr /\ on' = on
      /\ ticks' = ticks /\ targets' = targets /\ first' = first /\ panic' = panic /\ wild' = wild
  BY Zenon DEF SysFork, At
<1>1. p \in Procs /\ on[c] = Proc(p) /\ state[p] = "running" /\ Pc(c) = th[on[c]].pc
  BY <1>0, ProcAt, Current, Zenon
<1>2. r \in ThreadRecs /\ r.pc = "svc_done" /\ ~r.spin
  <2>1. ~th[on[c]].spin
    BY <1>0, NoSpin, Zenon DEF Acquires
  <2>. QED
    BY <2>1, CallIs, Zenon DEF Called
<1>3. f \in ThreadRecs /\ f.pc = "forkret" /\ ~f.spin /\ f.new
  BY NewThread, Zenon
<1>. HIDE DEF r, f, p
<1>4. p # q /\ \A d \in Cpus : on[d] # Proc(q)
  <2>1. \A d \in Cpus :
           on[d] = Sched(d) \/ \E s \in Procs : on[d] = Proc(s) /\ state[s] = "running"
    BY Zenon DEF CpuInv, OnOk
  <2>2. \A s \in Procs : state[s] = "running" => Proc(s) # Proc(q)
    BY <1>0, ThreadNames, Zenon
  <2>3. \A d : Sched(d) # Proc(q)
    BY ThreadNames, Zenon
  <2>. QED
    BY <1>0, <1>1, <2>1, <2>2, <2>3, Zenon
<1>5. /\ locks' = locks /\ noff' = noff /\ intena' = intena /\ elr' = elr /\ on' = on
       /\ ticks' = ticks
  BY <1>0, Zenon
<1>6. /\ th' \in [Threads -> ThreadRecs] /\ th'[on[c]] = r /\ th'[Proc(q)] = f
      /\ \A t \in Threads \ {on[c], Proc(q)} : th'[t] = th[t]
  <2>1. th \in [Threads -> ThreadRecs] /\ on[c] \in Threads /\ Proc(q) \in Threads
        /\ on[c] # Proc(q)
    BY <1>4, Current, ThreadNames, Zenon DEF CpuInv, TypeOK
  <2>. QED
    BY <1>0, <1>2, <1>3, <2>1
<1>7. \A d \in Cpus \ {c} : on[d] # on[c] /\ on[d] \in Threads /\ th'[on[d]] = th[on[d]]
  <2>1. \A d \in Cpus \ {c} : on[d] # on[c] /\ on[d] \in Threads
    BY Zenon DEF CpuInv, OnOnce, TypeOK
  <2>. QED
    BY <1>4, <1>6, <2>1, Zenon
<1>8. /\ state' \in [Procs -> States] /\ state'[q] = "runnable"
      /\ \A s \in Procs \ {q} : state'[s] = state[s]
  <2>1. "runnable" \in States /\ state \in [Procs -> States]
    BY Zenon DEF States, CpuInv, TypeOK
  <2>. QED
    BY <1>0, <2>1, Zenon
<1>9. /\ irq' \in [Cpus -> BOOLEAN] /\ irq'[c] = FALSE
      /\ \A d \in Cpus \ {c} : irq'[d] = irq[d]
  <2>1. irq \in [Cpus -> BOOLEAN]
    BY Zenon DEF CpuInv, TypeOK
  <2>. QED
    BY <1>0, <2>1, Zenon
<1>10. TypeOK'
  <2>1. killed' \in [Procs -> BOOLEAN]
    BY <1>0, Zenon DEF CpuInv, TypeOK
  <2>. QED
    BY <1>0, <1>6, <1>8, <1>9, <2>1, Zenon DEF CpuInv, TypeOK
<1>11. ThreadsOk'
  <2>1. ThreadOk(on[c], r)
    BY <1>1, <1>2, ProcOk, Zenon
  <2>2. ThreadOk(Proc(q), f)
    <3>1. Proc(q)[1] = "proc"
      BY ThreadNames, Zenon
    <3>. QED
      BY <1>3, <3>1, Zenon DEF ThreadOk, ProcLabels, Handling, Picking, Yielding, Exiting,
             Mounting
  <2>. QED
    BY <1>6, <2>1, <2>2, Zenon DEF CpuInv, ThreadsOk
<1>12. CpusOk'
  <2>1. CpuOk(r, FALSE, noff[c], intena[c])
    <3>1. noff[c] = Depth(th[on[c]]) /\ ~th[on[c]].spin
      BY <1>0, Current, NoSpin, Zenon DEF CpuOk, Acquires
    <3>2. Depth(th[on[c]]) = 0
      BY <1>0, <1>1, <3>1, DepthIs, Zenon DEF TicksHeld, OwnHeld, PickHeld, OuterHeld,
             WaitHeld, DiskHeld
    <3>3. Depth(r) = 0
      BY <1>2, DepthIs, Zenon DEF TicksHeld, OwnHeld, PickHeld, OuterHeld, WaitHeld, DiskHeld
    <3>4. ~(noff[c] > 0)
      BY <3>1, <3>2
    <3>. QED
      BY <3>1, <3>2, <3>3, <3>4, Zenon DEF CpuOk
  <2>2. CpusOk
    BY Zenon DEF CpuInv
  <2>. QED
    BY <1>6, <1>7, <1>9, <1>5, <2>1, <2>2, Zenon DEF CpusOk
<1>13. LocksOk'
  <2>1. \A l : ~Holds(on[c], th[on[c]], l) /\ ~Holds(on[c], r, l)
    BY <1>0, <1>1, <1>2, Zenon DEF Holds, TicksHeld, OwnHeld, PickHeld, OuterHeld, WaitHeld,
           DiskHeld
  <2>2. LocksOk
    BY Zenon DEF CpuInv
  <2>. QED
    BY <1>6, <1>7, <1>5, <2>1, <2>2, Zenon DEF LocksOk
<1>14. \A d \in Cpus : th'[Sched(d)] = th[Sched(d)]
  <2>1. \A d \in Cpus : Sched(d) \in Threads /\ Sched(d) # Proc(p) /\ Sched(d) # Proc(q)
    BY ThreadNames, Zenon
  <2>. QED
    BY <1>1, <1>6, <2>1, Zenon
<1>15. \A s \in Procs \ {p, q} : th'[Proc(s)] = th[Proc(s)] /\ state'[s] = state[s]
  <2>1. \A s \in Procs \ {p, q} : Proc(s) \in Threads /\ Proc(s) # Proc(p) /\ Proc(s) # Proc(q)
    BY ThreadNames, Zenon
  <2>. QED
    BY <1>1, <1>6, <1>8, <2>1, Zenon
<1>16. OnOk' /\ OnOnce'
  <2>1. \A s \in Procs : state[s] = "running" => state'[s] = "running"
    BY <1>0, <1>8, Zenon
  <2>2. OnOk /\ OnOnce
    BY Zenon DEF CpuInv
  <2>3. OnOk'
    <3>. SUFFICES ASSUME NEW d \in Cpus, on[d] # Sched(d)
                  PROVE  \E s \in Procs :
                            /\ on[d] = Proc(s) /\ state'[s] = "running"
                            /\ th'[Sched(d)].pc = "unpick" /\ th'[Sched(d)].pick = s
      BY <1>5, Zenon DEF OnOk
    <3>1. PICK s \in Procs : /\ on[d] = Proc(s) /\ state[s] = "running"
                             /\ th[Sched(d)].pc = "unpick" /\ th[Sched(d)].pick = s
      BY <2>2, Zenon DEF OnOk
    <3>2. th'[Sched(d)] = th[Sched(d)]
      BY <1>14, Zenon
    <3>. QED
      BY <2>1, <3>1, <3>2, Zenon
  <2>4. OnOnce'
    BY <1>5, <2>2, Zenon DEF OnOnce
  <2>. QED
    BY <2>3, <2>4, Zenon
<1>17. ParkedOk'
  <2>1. on[c] = Proc(p) /\ ParkedOk
    BY <1>1, Zenon DEF CpuInv
  <2>2. /\ state'[q] # "running" /\ th'[Proc(q)].pc \in Resumable
        /\ th'[Proc(q)].pc \notin {"exited", "y_rel", "s_wake"}
    BY <1>3, <1>6, <1>8, Zenon DEF Resumable
  <2>. QED
    BY <1>15, <1>5, <2>1, <2>2, Zenon DEF ParkedOk
<1>18. BootOk'
  <2>1. th[Sched(0)].pc \notin Booting
    BY <1>1, Zenon DEF CpuInv, BootOk
  <2>2. th'[Sched(0)] = th[Sched(0)]
    BY <1>14, CpuAssumption, Zenon
  <2>. QED
    BY <2>1, <2>2, Zenon DEF BootOk
<1>19. SleepOk'
  <2>2. /\ th'[Proc(q)].pc \notin {"s_own", "s_drop", "s_sched"} /\ state'[q] # "sleeping"
        /\ th'[Proc(p)].pc \notin {"s_own", "s_drop", "s_sched"} /\ state'[p] # "sleeping"
    BY <1>1, <1>2, <1>3, <1>4, <1>6, <1>8, Zenon
  <2>3. \A d \in Cpus : Pc(d) = "t_wake" => Pc(d)' = "t_wake"
    BY <1>0, <1>7, Zenon DEF Pc
  <2>4. ticks' = ticks
    BY <1>5, Zenon
  <2>. QED
    BY <1>15, <2>2, <2>3, <2>4, QuietStep, Zenon DEF Dozes
<1>20. ElrOk'
  <2>1. r.pc # "eret" /\ ElrOk
    BY <1>2, Zenon DEF CpuInv
  <2>. QED
    BY <1>6, <1>7, <1>5, <2>1, Zenon DEF ElrOk, Pc
<1>. QED
  BY <1>10, <1>11, <1>12, <1>13, <1>16, <1>17, <1>18, <1>19, <1>20, Zenon DEF CpuInv

(***************************************************************************)
(* The theorems.                                                           *)
(***************************************************************************)
\* start: every CPU enters with interrupts off, no lock is held, and no process is used.
LEMMA InitInv == Init => CpuInv
<1>. SUFFICES ASSUME Init PROVE CpuInv
  OBVIOUS
<1>0. /\ locks = [l \in Locks |-> None]
      /\ irq = [c \in Cpus |-> FALSE] /\ noff = [c \in Cpus |-> 0]
      /\ intena = [c \in Cpus |-> FALSE] /\ elr = [c \in Cpus |-> "kernel"]
      /\ on = [c \in Cpus |-> Sched(c)]
      /\ th = [t \in Threads |-> Thread(IF t[1] = "proc" THEN "forkret" ELSE "boot")]
      /\ state = [p \in Procs |-> "unused"] /\ killed = [p \in Procs |-> FALSE]
      /\ ticks = 0 /\ targets = {} /\ first = TRUE /\ panic = FALSE /\ wild = FALSE
  BY Zenon DEF Init
<1>1. /\ \A c \in Cpus : th[Sched(c)] = Thread("boot") /\ on[c] = Sched(c)
      /\ \A p \in Procs : th[Proc(p)] = Thread("forkret") /\ state[p] = "unused"
  <2>1. \A t \in Threads : th[t] = Thread(IF t[1] = "proc" THEN "forkret" ELSE "boot")
    BY <1>0, Zenon
  <2>2. /\ \A c \in Cpus : Sched(c) \in Threads /\ Sched(c)[1] # "proc"
        /\ \A p \in Procs : Proc(p) \in Threads /\ Proc(p)[1] = "proc"
    <3>1. \A c \in Cpus : Sched(c) \in Threads /\ Sched(c)[1] = "scheduler"
      BY ThreadNames, Zenon
    <3>2. \A p \in Procs : Proc(p) \in Threads /\ Proc(p)[1] = "proc"
      BY ThreadNames, Zenon
    <3>. QED
      BY <3>1, <3>2, Zenon
  <2>. QED
    BY <1>0, <2>1, <2>2, Zenon
<1>2. PICK b \in ThreadRecs : b = Thread("boot") /\ b.pc = "boot" /\ ~b.spin
  BY NewThread, Zenon
<1>3. PICK f \in ThreadRecs : f = Thread("forkret") /\ f.pc = "forkret" /\ ~f.spin /\ f.new
  BY NewThread, Zenon
<1>4. TypeOK
  <2>1. th \in [Threads -> ThreadRecs]
    <3>1. \A t \in Threads : Thread(IF t[1] = "proc" THEN "forkret" ELSE "boot") \in ThreadRecs
      BY NewThread, Zenon
    <3>. QED
      BY <1>0, <3>1, Zenon
  <2>2. ticks \in Int /\ noff \in [Cpus -> Int]
    BY <1>0
  <2>3. "unused" \in States
    BY Zenon DEF States
  <2>4. /\ locks \in [Locks -> Cpus \cup {None}] /\ irq \in [Cpus -> BOOLEAN]
        /\ intena \in [Cpus -> BOOLEAN] /\ elr \in [Cpus -> {"user", "kernel"}]
        /\ state \in [Procs -> States] /\ killed \in [Procs -> BOOLEAN]
    BY <1>0, <2>3, Zenon
  <2>5. on \in [Cpus -> Threads]
    BY <1>0, ThreadNames, Zenon
  <2>6. targets \in SUBSET Cpus /\ first \in BOOLEAN /\ panic = FALSE /\ wild \in BOOLEAN
    BY <1>0, Zenon
  <2>. QED
    BY <2>1, <2>2, <2>4, <2>5, <2>6, Zenon DEF TypeOK
<1>5. ThreadsOk
  <2>1. \A c \in Cpus : ThreadOk(Sched(c), b)
    <3>1. \A c \in Cpus : Sched(c)[1] = "scheduler"
      BY ThreadNames, Zenon
    <3>. QED
      BY <1>2, <3>1, Zenon DEF ThreadOk, SchedLabels, Booting, Handling, Picking, Yielding,
             Mounting
  <2>2. \A p \in Procs : ThreadOk(Proc(p), f)
    <3>1. \A p \in Procs : Proc(p)[1] = "proc"
      BY ThreadNames, Zenon
    <3>. QED
      BY <1>3, <3>1, Zenon DEF ThreadOk, ProcLabels, Handling, Picking, Yielding, Exiting,
             Mounting
  <2>3. \A t \in Threads : (\E c \in Cpus : t = Sched(c)) \/ \E p \in Procs : t = Proc(p)
    BY ThreadNames, Zenon
  <2>. QED
    BY <1>1, <1>2, <1>3, <2>1, <2>2, <2>3, Zenon DEF ThreadsOk
<1>6. CpusOk
  <2>1. Depth(b) = 0
    BY <1>2, DepthIs, Zenon DEF TicksHeld, OwnHeld, PickHeld, OuterHeld, WaitHeld, DiskHeld
  <2>2. \A c \in Cpus : noff[c] = 0 /\ irq[c] = FALSE /\ intena[c] = FALSE /\ th[on[c]] = b
    BY <1>0, <1>1, <1>2, Zenon
  <2>. QED
    BY <2>1, <2>2, Zenon DEF CpusOk, CpuOk
<1>7. LocksOk
  <2>1. \A c \in Cpus, l \in Locks : locks[l] # c
    BY <1>0, LockNames, Zenon
  <2>2. \A c \in Cpus : th[on[c]].pc = "boot"
    BY <1>1, <1>2, Zenon
  <2>. QED
    BY <2>1, <2>2, Zenon DEF LocksOk, Holds, TicksHeld, OwnHeld, PickHeld, OuterHeld, WaitHeld,
           DiskHeld
<1>8. OnOk /\ OnOnce
  <2>1. \A c, d : Sched(c) = Sched(d) => c = d
    BY ThreadNames, Zenon
  <2>2. \A c \in Cpus : on[c] = Sched(c)
    BY <1>1, Zenon
  <2>3. OnOnce
    BY <2>1, <2>2, Zenon DEF OnOnce
  <2>. QED
    BY <2>2, <2>3, Zenon DEF OnOk
<1>9. \A p \in Procs : th[Proc(p)].pc = "forkret" /\ state[p] = "unused"
  BY <1>1, <1>3, Zenon
<1>10. ParkedOk /\ BootOk /\ SleepOk
  BY <1>9, Zenon DEF ParkedOk, BootOk, SleepOk, Dozes, Resumable
<1>11. ElrOk
  BY <1>1, <1>2, Zenon DEF ElrOk, Pc
<1>. QED
  BY <1>4, <1>5, <1>6, <1>7, <1>8, <1>10, <1>11, Zenon DEF CpuInv

\* A step that changes nothing.
LEMMA StutterInv ==
    ASSUME CpuInv, UNCHANGED vars
    PROVE  CpuInv'
<1>1. /\ locks' = locks /\ irq' = irq /\ noff' = noff /\ intena' = intena /\ elr' = elr
      /\ on' = on /\ th' = th /\ state' = state /\ killed' = killed /\ ticks' = ticks
      /\ targets' = targets /\ first' = first /\ panic' = panic /\ wild' = wild
  BY Zenon DEF vars, mask, procs
<1>2. TypeOK' /\ ThreadsOk' /\ CpusOk' /\ LocksOk'
  BY <1>1, Zenon DEF CpuInv, TypeOK, ThreadsOk, CpusOk, LocksOk
<1>3. OnOk' /\ OnOnce' /\ ParkedOk' /\ BootOk' /\ SleepOk' /\ ElrOk'
  BY <1>1, Zenon DEF CpuInv, OnOk, OnOnce, ParkedOk, BootOk, SleepOk, Dozes, ElrOk, Pc, Due
<1>. QED
  BY <1>2, <1>3, Zenon DEF CpuInv

\* Every step of every CPU keeps the invariant.
LEMMA NextInv == CpuInv /\ [Next]_vars => CpuInv'
<1>. SUFFICES ASSUME CpuInv, [Next]_vars PROVE CpuInv'
  OBVIOUS
<1>1. CASE UNCHANGED vars
  BY <1>1, StutterInv, Zenon
<1>2. CASE Halted
  BY <1>2, StutterInv, Zenon DEF Halted
<1>3. ASSUME NEW c \in Cpus, Gichartinit(c) \/ Cpuset(c) \/ Start(c)
      PROVE  CpuInv'
  BY <1>3, GichartinitInv, CpusetInv, StartInv, Zenon
<1>4. ASSUME NEW c \in Cpus, AcquireStart(c) \/ Acquire(c) \/ Release(c)
      PROVE  CpuInv'
  BY <1>4, AcquireStartInv, AcquireInv, ReleaseInv, Zenon
<1>5. ASSUME NEW c \in Cpus,
             \/ IntrOn(c) \/ Picked(c) \/ Yield(c) \/ Exit(c) \/ Sleep(c)
             \/ Forkret(c) \/ Fsinit(c) \/ DiskTest(c) \/ DiskSleep(c) \/ DiskIntr(c)
      PROVE  CpuInv'
  BY <1>5, IntrOnInv, PickedInv, SwitchOutInv, ForkretInv, FsinitInv, DiskTestInv, DiskIntrInv,
         Zenon
<1>6. ASSUME NEW c \in Cpus,
             Irq(c) \/ Tick(c) \/ Wakeup(c) \/ IrqDone(c) \/ IrqRet(c) \/ LoadElr(c) \/ Eret(c)
      PROVE  CpuInv'
  BY <1>6, IrqInv, TickInv, WakeupInv, IrqDoneInv, IrqRetInv, LoadElrInv, EretInv, Zenon
<1>7. ASSUME NEW c \in Cpus,
             SysYield(c) \/ SysExit(c) \/ SleepRead(c) \/ SleepTest(c) \/ SvcDone(c)
      PROVE  CpuInv'
  BY <1>7, SysInv, SleepReadInv, SleepTestInv, SvcDoneInv, Zenon
<1>8. ASSUME NEW c \in Cpus,
             \/ \E id \in {TIMER, DEVICE, SPURIOUS} : Irqhandle(c, id)
             \/ \E n \in Sleeps : SysSleep(c, n)
      PROVE  CpuInv'
  BY <1>8, IrqhandleInv, SysInv, Zenon
<1>9. ASSUME NEW c \in Cpus, NEW q \in Procs,
             Pick(c, q) \/ SysKill(c, q) \/ SysFork(c, q) \/ SysWait(c, q)
      PROVE  CpuInv'
  BY <1>9, PickInv, SysKillInv, SysForkInv, SysWaitInv, Zenon
<1>. QED
  BY <1>1, <1>2, <1>3, <1>4, <1>5, <1>6, <1>7, <1>8, <1>9, Zenon DEF Next

\* The label of every thread tells the locks, noff and interrupt mask of the CPU that
\* runs it, whatever CPUs threads move between and wherever interrupts come.
THEOREM CpuInvariant == Spec => []CpuInv
BY InitInv, NextInv, PTL DEF Spec

\* acquire, release, pop_off and sched: none of their panics happens.
THEOREM SpinlocksNeverPanic == Spec => []NoPanic
<1>1. CpuInv => NoPanic
  BY Zenon DEF CpuInv, TypeOK, NoPanic
<1>. QED
  BY <1>1, CpuInvariant, PTL

\* push_off: interrupts are on only in user mode, at the top of the scheduler's loop and
\* in forkret and the first return of a process, and never while the CPU holds a
\* spinlock.
THEOREM AlwaysMaskedInKernel == Spec => []MaskedInKernel
<1>1. CpuInv => MaskedInKernel
  <2>. SUFFICES ASSUME CpuInv, NEW c \in Cpus, irq[c]
                PROVE  /\ noff[c] = 0 /\ \A l \in Locks : locks[l] # c
                       /\ \/ Pc(c) \in {"user", "idle", "pick"}
                          \/ /\ th[on[c]].new
                             /\ Pc(c) \in {"f_first", "f_init", "f_lock", "f_again", "trapret",
                                           "eret"}
    BY Zenon DEF MaskedInKernel
  <2>1. /\ noff[c] = 0 /\ Pc(c) = th[on[c]].pc
        /\ \/ Pc(c) \in {"user", "idle", "pick"}
           \/ /\ th[on[c]].new
                             /\ Pc(c) \in {"f_first", "f_init", "f_lock", "f_again", "trapret",
                                           "eret"}
    BY Current, Zenon DEF CpuOk, Returning, Open
  <2>2. \A l : ~Holds(on[c], th[on[c]], l)
    BY <2>1, Zenon DEF Holds, TicksHeld, OwnHeld, PickHeld, OuterHeld, WaitHeld, DiskHeld
  <2>. QED
    BY <2>1, <2>2, Current, Zenon
<1>. QED
  BY <1>1, CpuInvariant, PTL

\* el0_load_trap_frame_and_ret: nothing comes between the load of ELR_EL1 and the eret
\* that ends a system call or an interrupt.
THEOREM AlwaysReturnsIntact == Spec => []ReturnsIntact
<1>1. CpuInv => ReturnsIntact
  BY Zenon DEF CpuInv, ElrOk, ReturnsIntact
<1>. QED
  BY <1>1, CpuInvariant, PTL

\* sys_sleep and timerintr: whoever sleeps past its time is about to be woken.
THEOREM AlwaysWokenInTime == Spec => []WokenInTime
<1>1. CpuInv => WokenInTime
  BY Zenon DEF CpuInv, SleepOk, Dozes, WokenInTime
<1>. QED
  BY <1>1, CpuInvariant, PTL
===========================================================================
