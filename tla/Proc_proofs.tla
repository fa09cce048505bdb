---------------------------- MODULE Proc_proofs ----------------------------
(***************************************************************************)
(* Proofs about Proc, for any number of processes, CPUs and pids: ProcInv  *)
(* is inductive and implies the safety properties of the process table.    *)
(***************************************************************************)
EXTENDS Proc, WellFoundedInduction, TLAPS

\* Leaves go to the SMT solver unless they name another prover.
USE SMTT(60)

States == {"UNUSED", "USED", "SLEEPING", "RUNNABLE", "RUNNING", "ZOMBIE"}

\* The places of a running process, by what it has: a child it makes,
\* wait_lock, or neither.
ForkPCs == {"fork_parent", "fork_run"}
WaitPCs == {"reparent", "wake_parent", "zombie", "wait_scan", "wait_sleep"}
RunPCs == {"user", "sysret", "exit", "panic", "wait"} \cup ForkPCs \cup WaitPCs

TypeOK ==
    /\ state \in [Slots -> States]
    /\ pc \in [Slots -> RunPCs \cup {"unused", "slept", "dead"}]
    /\ pid \in [Slots -> Nat]
    /\ parent \in [Slots -> Slots \cup {None}]
    /\ chan \in [Slots -> Slots \cup {None}]
    /\ killed \in [Slots -> BOOLEAN]
    /\ child \in [Slots -> Slots \cup {None}]
    /\ plock \in [Slots -> CPUs \cup {None}]
    /\ waitLock \in CPUs \cup {None}
    /\ cur \in [CPUs -> Slots \cup {None}]
    /\ nextpid \in Nat

\* sched, scheduler: a CPU is on one process, which runs or is about to leave
\* it with its lock held by that CPU; no other CPU is on it.
OnCpu ==
    /\ \A c \in CPUs : cur[c] # None => state[cur[c]] = "RUNNING" \/ plock[cur[c]] = c
    /\ \A p \in Slots : plock[p] # None =>
          cur[plock[p]] = p /\ state[p] \in {"RUNNABLE", "SLEEPING", "ZOMBIE"}
    /\ \A c, d \in CPUs : cur[c] = cur[d] /\ cur[c] # None => c = d

\* Where a process can be in each state; one that sleeps, sleeps in wait.
PcState ==
    \A p \in Slots :
        /\ state[p] \in {"UNUSED", "USED"} <=> pc[p] = "unused"
        /\ state[p] = "RUNNABLE" => pc[p] \in {"user", "sysret", "slept"}
        /\ state[p] = "SLEEPING" => pc[p] = "slept" /\ chan[p] = p
        /\ state[p] = "ZOMBIE" <=> pc[p] = "dead"
        /\ state[p] = "RUNNING" => pc[p] \in RunPCs

\* wait_lock is held by the CPU of the one process that exits or waits.
WaitLockHeld ==
    /\ waitLock # None => cur[waitLock] # None /\ pc[cur[waitLock]] \in WaitPCs
    /\ \A p \in Slots : pc[p] \in WaitPCs => waitLock # None /\ cur[waitLock] = p

\* fork: the child in the making belongs to one parent.
ForkChild ==
    /\ \A p \in Slots : pc[p] \in ForkPCs =>
          /\ child[p] # None /\ state[child[p]] = "USED"
          /\ pc[p] = "fork_run" => parent[child[p]] = p
    /\ \A p, q \in Slots : pc[p] \in ForkPCs /\ pc[q] \in ForkPCs /\ child[p] = child[q] => p = q

Alive == {"SLEEPING", "RUNNABLE", "RUNNING"}

\* exit, reparent: parents are alive, init is, and who has reparented its
\* children gets no new ones.
ParentsAlive ==
    /\ \A p \in Slots : parent[p] # None => state[parent[p]] \in Alive
    /\ \A p \in Slots : pc[p] \in {"wake_parent", "zombie"} => Children(p) = {}
    /\ \A p \in Slots : state[p] \in Alive \cup {"ZOMBIE"} /\ p # Initproc => parent[p] # None
    /\ state[Initproc] \in Alive
    /\ pc[Initproc] \notin {"reparent", "wake_parent", "zombie"}

\* wait, exit: nobody sleeps whose child is, or is about to be, a zombie.
ZombiesSeen ==
    /\ \A q \in Slots : (state[q] = "ZOMBIE" \/ pc[q] = "zombie") /\ parent[q] # None =>
          state[parent[q]] # "SLEEPING"
    /\ \A p \in Slots : pc[p] = "wait_sleep" => Zombies(p) = {}

ProcInv ==
    TypeOK /\ OnCpu /\ PcState /\ WaitLockHeld /\ ForkChild /\ ParentsAlive /\ ZombiesSeen

----------------------------------------------------------------------------
\* None is no slot, and init has one.
LEMMA NoneNoSlot == None \notin Slots /\ None \notin CPUs /\ Initproc \in Slots
BY NPROCAssumption, CPUsAssumption DEF Slots, Initproc

\* A set of slots has a first one.
LEMMA FirstSlot ==
  ASSUME NEW T, T \subseteq Slots, T # {}
  PROVE  \E x \in T : \A y \in T : x <= y
<1>1. T \subseteq Nat
  BY NPROCAssumption DEF Slots
<1>2. \E x \in T : \A y \in T : ~(<<y, x>> \in OpToRel(<, Nat))
  BY <1>1, NatLessThanWellFounded, WFMin, Zenon
<1>3. \E x \in T : \A y \in T : ~(y < x)
  BY <1>1, <1>2, Zenon DEF OpToRel
<1> QED
  BY <1>1, <1>3

\* wait: the scan finds a zombie child when there is one.
LEMMA FirstZombieExists ==
  ASSUME NEW p \in Slots, Zombies(p) # {}
  PROVE  /\ FirstZombie(p) \in Slots /\ parent[FirstZombie(p)] = p
         /\ state[FirstZombie(p)] = "ZOMBIE"
<1>1. Zombies(p) \subseteq Slots
  BY DEF Zombies, Children
<1>2. FirstZombie(p) \in Zombies(p)
  BY <1>1, FirstSlot DEF FirstZombie
<1> QED
  BY <1>2 DEF Zombies, Children

\* scheduler: p is locked by nobody, so no CPU is on it.
LEMMA ScheduleInv ==
  ASSUME ProcInv, NEW c \in CPUs, NEW p \in Slots, Schedule(c, p)
  PROVE  ProcInv'
<1> USE NoneNoSlot
    DEF Schedule, Goto, Unlocked, States, ForkPCs, WaitPCs, RunPCs, Alive, Children, Zombies
<1>1. TypeOK'
  BY Zenon DEF ProcInv, TypeOK
<1>2. OnCpu'
  BY DEF ProcInv, TypeOK, OnCpu, PcState
<1>3. PcState'
  BY DEF ProcInv, TypeOK, OnCpu, PcState, ForkChild, ParentsAlive
<1>4. WaitLockHeld'
  BY DEF ProcInv, TypeOK, OnCpu, PcState, WaitLockHeld
<1>5. ForkChild'
  BY DEF ProcInv, TypeOK, PcState, ForkChild
<1>6. ParentsAlive'
  BY DEF ProcInv, TypeOK, PcState, OnCpu, ForkChild, WaitLockHeld, ParentsAlive
<1>7. ZombiesSeen'
  BY DEF ProcInv, TypeOK, PcState, WaitLockHeld, ForkChild, ParentsAlive, ZombiesSeen
<1> QED
  BY <1>1, <1>2, <1>3, <1>4, <1>5, <1>6, <1>7, Zenon DEF ProcInv

\* sched: the CPU leaves p, which has p->lock until then.
LEMMA SwtchInv ==
  ASSUME ProcInv, NEW c \in CPUs, NEW p \in Slots, Swtch(c, p)
  PROVE  ProcInv'
<1> USE NoneNoSlot
    DEF Swtch, States, ForkPCs, WaitPCs, RunPCs, Alive, Children, Zombies
<1>1. TypeOK'
  BY DEF ProcInv, TypeOK
<1>2. OnCpu'
  BY DEF ProcInv, TypeOK, OnCpu, PcState
<1>3. PcState'
  BY Zenon DEF ProcInv, TypeOK, OnCpu, PcState, ForkChild, ParentsAlive
<1>4. WaitLockHeld'
  BY DEF ProcInv, TypeOK, OnCpu, PcState, WaitLockHeld
<1>5. ForkChild'
  BY DEF ProcInv, TypeOK, PcState, ForkChild
<1>6. ParentsAlive'
  BY DEF ProcInv, TypeOK, PcState, OnCpu, ForkChild, WaitLockHeld, ParentsAlive
<1>7. ZombiesSeen'
  BY DEF ProcInv, TypeOK, PcState, WaitLockHeld, ForkChild, ParentsAlive, ZombiesSeen
<1> QED
  BY <1>1, <1>2, <1>3, <1>4, <1>5, <1>6, <1>7, Zenon DEF ProcInv

\* A timer interrupt of user code.
LEMMA TimerIrqInv ==
  ASSUME ProcInv, NEW c \in CPUs, NEW p \in Slots, TimerIrq(c, p)
  PROVE  ProcInv'
<1> USE NoneNoSlot
    DEF TimerIrq, At, Goto, Unlocked, Yield, States, ForkPCs, WaitPCs, RunPCs, Alive, Children,
       Zombies
<1>1. TypeOK'
  BY DEF ProcInv, TypeOK
<1>2. OnCpu'
  BY DEF ProcInv, TypeOK, OnCpu, PcState
<1>3. PcState'
  BY DEF ProcInv, TypeOK, OnCpu, PcState, ForkChild, ParentsAlive
<1>4. WaitLockHeld'
  BY DEF ProcInv, TypeOK, OnCpu, PcState, WaitLockHeld
<1>5. ForkChild'
  BY DEF ProcInv, TypeOK, PcState, ForkChild
<1>6. ParentsAlive'
  BY DEF ProcInv, TypeOK, PcState, OnCpu, ForkChild, WaitLockHeld, ParentsAlive
<1>7. ZombiesSeen'
  BY DEF ProcInv, TypeOK, PcState, WaitLockHeld, ForkChild, ParentsAlive, ZombiesSeen
<1> QED
  BY <1>1, <1>2, <1>3, <1>4, <1>5, <1>6, <1>7, Zenon DEF ProcInv

\* sys_yield.
LEMMA UserYieldInv ==
  ASSUME ProcInv, NEW c \in CPUs, NEW p \in Slots, UserYield(c, p)
  PROVE  ProcInv'
<1> USE NoneNoSlot
    DEF UserYield, At, Goto, Yield, Unlocked, States, ForkPCs, WaitPCs, RunPCs, Alive, Children,
       Zombies
<1>1. TypeOK'
  BY Zenon DEF ProcInv, TypeOK
<1>2. OnCpu'
  BY DEF ProcInv, TypeOK, OnCpu, PcState
<1>3. PcState'
  BY DEF ProcInv, TypeOK, OnCpu, PcState, ForkChild, ParentsAlive
<1>4. WaitLockHeld'
  BY DEF ProcInv, TypeOK, OnCpu, PcState, WaitLockHeld
<1>5. ForkChild'
  BY DEF ProcInv, TypeOK, PcState, ForkChild
<1>6. ParentsAlive'
  BY DEF ProcInv, TypeOK, PcState, OnCpu, ForkChild, WaitLockHeld, ParentsAlive
<1>7. ZombiesSeen'
  BY DEF ProcInv, TypeOK, PcState, WaitLockHeld, ForkChild, ParentsAlive, ZombiesSeen
<1> QED
  BY <1>1, <1>2, <1>3, <1>4, <1>5, <1>6, <1>7, Zenon DEF ProcInv

\* The end of svcintr.
LEMMA SysRetInv ==
  ASSUME ProcInv, NEW c \in CPUs, NEW p \in Slots, SysRet(c, p)
  PROVE  ProcInv'
<1> USE NoneNoSlot
    DEF SysRet, At, Goto, Unlocked, States, ForkPCs, WaitPCs, RunPCs, Alive, Children, Zombies
<1>1. TypeOK'
  BY DEF ProcInv, TypeOK
<1>2. OnCpu'
  BY DEF ProcInv, TypeOK, OnCpu, PcState
<1>3. PcState'
  BY DEF ProcInv, TypeOK, OnCpu, PcState, ForkChild, ParentsAlive
<1>4. WaitLockHeld'
  BY DEF ProcInv, TypeOK, OnCpu, PcState, WaitLockHeld
<1>5. ForkChild'
  BY DEF ProcInv, TypeOK, PcState, ForkChild
<1>6. ParentsAlive'
  BY DEF ProcInv, TypeOK, PcState, OnCpu, ForkChild, WaitLockHeld, ParentsAlive
<1>7. ZombiesSeen'
  BY DEF ProcInv, TypeOK, PcState, WaitLockHeld, ForkChild, ParentsAlive, ZombiesSeen
<1> QED
  BY <1>1, <1>2, <1>3, <1>4, <1>5, <1>6, <1>7, Zenon DEF ProcInv

\* fork, allocproc: an UNUSED slot is no process's parent and no child in the making.
LEMMA ForkAllocInv ==
  ASSUME ProcInv, NEW c \in CPUs, NEW p \in Slots, NEW np \in Slots, ForkAlloc(c, p, np)
  PROVE  ProcInv'
<1> USE NoneNoSlot
    DEF ForkAlloc, At, Goto, Unlocked, Allocpid, States, ForkPCs, WaitPCs, RunPCs, Alive, Children,
       Zombies
<1>1. TypeOK'
  BY DEF ProcInv, TypeOK
<1>2. OnCpu'
  BY DEF ProcInv, TypeOK, OnCpu, PcState
<1>3. PcState'
  BY DEF ProcInv, TypeOK, OnCpu, PcState, ForkChild, ParentsAlive
<1>4. WaitLockHeld'
  BY DEF ProcInv, TypeOK, OnCpu, PcState, WaitLockHeld
<1>5. ForkChild'
  BY DEF ProcInv, TypeOK, PcState, ForkChild
<1>6. ParentsAlive'
  BY DEF ProcInv, TypeOK, PcState, OnCpu, ForkChild, WaitLockHeld, ParentsAlive
<1>7. ZombiesSeen'
  BY DEF ProcInv, TypeOK, PcState, WaitLockHeld, ForkChild, ParentsAlive, ZombiesSeen
<1> QED
  BY <1>1, <1>2, <1>3, <1>4, <1>5, <1>6, <1>7, Zenon DEF ProcInv

\* fork, no memory for the child.
LEMMA ForkFailInv ==
  ASSUME ProcInv, NEW c \in CPUs, NEW p \in Slots, NEW np \in Slots, ForkFail(c, p, np)
  PROVE  ProcInv'
<1> USE NoneNoSlot
    DEF ForkFail, At, Goto, Unlocked, Allocpid, States, ForkPCs, WaitPCs, RunPCs, Alive, Children,
       Zombies
<1>1. TypeOK'
  BY DEF ProcInv, TypeOK
<1>2. OnCpu'
  BY DEF ProcInv, TypeOK, OnCpu, PcState
<1>3. PcState'
  BY DEF ProcInv, TypeOK, OnCpu, PcState, ForkChild, ParentsAlive
<1>4. WaitLockHeld'
  BY DEF ProcInv, TypeOK, OnCpu, PcState, WaitLockHeld
<1>5. ForkChild'
  BY DEF ProcInv, TypeOK, PcState, ForkChild
<1>6. ParentsAlive'
  BY DEF ProcInv, TypeOK, PcState, OnCpu, ForkChild, WaitLockHeld, ParentsAlive
<1>7. ZombiesSeen'
  BY DEF ProcInv, TypeOK, PcState, WaitLockHeld, ForkChild, ParentsAlive, ZombiesSeen
<1> QED
  BY <1>1, <1>2, <1>3, <1>4, <1>5, <1>6, <1>7, Zenon DEF ProcInv

\* fork: the child gets its parent, which runs and does not exit meanwhile.
LEMMA ForkParentInv ==
  ASSUME ProcInv, NEW c \in CPUs, NEW p \in Slots, ForkParent(c, p)
  PROVE  ProcInv'
<1> USE NoneNoSlot
    DEF ForkParent, At, Goto, States, ForkPCs, WaitPCs, RunPCs, Alive, Children, Zombies
<1>1. TypeOK'
  BY Zenon DEF ProcInv, TypeOK
<1>2. OnCpu'
  BY DEF ProcInv, TypeOK, OnCpu, PcState
<1>3. PcState'
  BY DEF ProcInv, TypeOK, OnCpu, PcState, ForkChild, ParentsAlive
<1>4. WaitLockHeld'
  BY DEF ProcInv, TypeOK, OnCpu, PcState, WaitLockHeld
<1>5. ForkChild'
  BY DEF ProcInv, TypeOK, PcState, ForkChild
<1>6. ParentsAlive'
  BY DEF ProcInv, TypeOK, PcState, OnCpu, ForkChild, WaitLockHeld, ParentsAlive
<1>7. ZombiesSeen'
  BY DEF ProcInv, TypeOK, PcState, WaitLockHeld, ForkChild, ParentsAlive, ZombiesSeen
<1> QED
  BY <1>1, <1>2, <1>3, <1>4, <1>5, <1>6, <1>7, Zenon DEF ProcInv

\* fork: the child may run, and has its parent.
LEMMA ForkRunInv ==
  ASSUME ProcInv, NEW c \in CPUs, NEW p \in Slots, ForkRun(c, p)
  PROVE  ProcInv'
<1> USE NoneNoSlot
    DEF ForkRun, At, Unlocked, States, ForkPCs, WaitPCs, RunPCs, Alive, Children, Zombies
<1>a. /\ child[p] \in Slots /\ state[child[p]] = "USED" /\ child[p] # p
      /\ \A d \in CPUs : cur[d] # child[p]
  BY DEF ProcInv, TypeOK, OnCpu, PcState, ForkChild
<1>1. TypeOK'
  BY Zenon DEF ProcInv, TypeOK
<1>2. OnCpu'
  BY <1>a DEF ProcInv, TypeOK, OnCpu, PcState
<1>3. PcState'
  BY <1>a DEF ProcInv, TypeOK, OnCpu, PcState, ForkChild, ParentsAlive
<1>4. WaitLockHeld'
  BY <1>a DEF ProcInv, TypeOK, OnCpu, PcState, WaitLockHeld
<1>5. ForkChild'
  BY <1>a DEF ProcInv, TypeOK, PcState, ForkChild
<1>6. ParentsAlive'
  BY <1>a DEF ProcInv, TypeOK, PcState, OnCpu, ForkChild, WaitLockHeld, ParentsAlive
<1>7. ZombiesSeen'
  BY DEF ProcInv, TypeOK, PcState, WaitLockHeld, ForkChild, ParentsAlive, ZombiesSeen
<1> QED
  BY <1>1, <1>2, <1>3, <1>4, <1>5, <1>6, <1>7, Zenon DEF ProcInv

\* The exit system call.
LEMMA UserExitInv ==
  ASSUME ProcInv, NEW c \in CPUs, NEW p \in Slots, UserExit(c, p)
  PROVE  ProcInv'
<1> USE NoneNoSlot
    DEF UserExit, At, Goto, States, ForkPCs, WaitPCs, RunPCs, Alive, Children, Zombies
<1>1. TypeOK'
  BY Zenon DEF ProcInv, TypeOK
<1>2. OnCpu'
  BY DEF ProcInv, TypeOK, OnCpu, PcState
<1>3. PcState'
  BY DEF ProcInv, TypeOK, OnCpu, PcState, ForkChild, ParentsAlive
<1>4. WaitLockHeld'
  BY DEF ProcInv, TypeOK, OnCpu, PcState, WaitLockHeld
<1>5. ForkChild'
  BY DEF ProcInv, TypeOK, PcState, ForkChild
<1>6. ParentsAlive'
  BY DEF ProcInv, TypeOK, PcState, OnCpu, ForkChild, WaitLockHeld, ParentsAlive
<1>7. ZombiesSeen'
  BY DEF ProcInv, TypeOK, PcState, WaitLockHeld, ForkChild, ParentsAlive, ZombiesSeen
<1> QED
  BY <1>1, <1>2, <1>3, <1>4, <1>5, <1>6, <1>7, Zenon DEF ProcInv

\* exit: init does not get beyond the panic.
LEMMA ExitBeginInv ==
  ASSUME ProcInv, NEW c \in CPUs, NEW p \in Slots, ExitBegin(c, p)
  PROVE  ProcInv'
<1> USE NoneNoSlot
    DEF ExitBegin, At, Goto, States, ForkPCs, WaitPCs, RunPCs, Alive, Children, Zombies
<1>1. TypeOK'
  BY DEF ProcInv, TypeOK
<1>2. OnCpu'
  BY DEF ProcInv, TypeOK, OnCpu, PcState
<1>3. PcState'
  BY DEF ProcInv, TypeOK, OnCpu, PcState, ForkChild, ParentsAlive
<1>4. WaitLockHeld'
  BY DEF ProcInv, TypeOK, OnCpu, PcState, WaitLockHeld
<1>5. ForkChild'
  BY DEF ProcInv, TypeOK, PcState, ForkChild
<1>6. ParentsAlive'
  BY DEF ProcInv, TypeOK, PcState, OnCpu, ForkChild, WaitLockHeld, ParentsAlive
<1>7. ZombiesSeen'
  BY DEF ProcInv, TypeOK, PcState, WaitLockHeld, ForkChild, ParentsAlive, ZombiesSeen
<1> QED
  BY <1>1, <1>2, <1>3, <1>4, <1>5, <1>6, <1>7, Zenon DEF ProcInv

\* reparent: p has no more children, and init is awake if it got one.
LEMMA ReparentInv ==
  ASSUME ProcInv, NEW c \in CPUs, NEW p \in Slots, Reparent(c, p)
  PROVE  ProcInv'
<1> USE NoneNoSlot
    DEF Reparent, At, Goto, Children, Wakeup, Unlocked, States, ForkPCs, WaitPCs, RunPCs, Alive,
       Zombies
<1>1. TypeOK'
  BY DEF ProcInv, TypeOK
<1>2. OnCpu'
  BY DEF ProcInv, TypeOK, OnCpu, PcState
<1>3. PcState'
  BY DEF ProcInv, TypeOK, OnCpu, PcState, ForkChild, ParentsAlive
<1>4. WaitLockHeld'
  BY DEF ProcInv, TypeOK, OnCpu, PcState, WaitLockHeld
<1>5. ForkChild'
  BY DEF ProcInv, TypeOK, PcState, ForkChild
<1>6. ParentsAlive'
  BY DEF ProcInv, TypeOK, PcState, OnCpu, ForkChild, WaitLockHeld, ParentsAlive
<1>7. ZombiesSeen'
  BY DEF ProcInv, TypeOK, PcState, WaitLockHeld, ForkChild, ParentsAlive, ZombiesSeen
<1> QED
  BY <1>1, <1>2, <1>3, <1>4, <1>5, <1>6, <1>7, Zenon DEF ProcInv

\* exit: the parent of p does not sleep from here on, for p has wait_lock.
LEMMA WakeParentInv ==
  ASSUME ProcInv, NEW c \in CPUs, NEW p \in Slots, WakeParent(c, p)
  PROVE  ProcInv'
<1> USE NoneNoSlot
    DEF WakeParent, At, Goto, Wakeup, Unlocked, States, ForkPCs, WaitPCs, RunPCs, Alive, Children,
       Zombies
<1>1. TypeOK'
  BY Zenon DEF ProcInv, TypeOK
<1>2. OnCpu'
  BY DEF ProcInv, TypeOK, OnCpu, PcState
<1>3. PcState'
  BY DEF ProcInv, TypeOK, OnCpu, PcState, ForkChild, ParentsAlive
<1>4. WaitLockHeld'
  BY DEF ProcInv, TypeOK, OnCpu, PcState, WaitLockHeld
<1>5. ForkChild'
  BY DEF ProcInv, TypeOK, PcState, ForkChild
<1>6. ParentsAlive'
  BY DEF ProcInv, TypeOK, PcState, OnCpu, ForkChild, WaitLockHeld, ParentsAlive
<1>7. ZombiesSeen'
  BY DEF ProcInv, TypeOK, PcState, WaitLockHeld, ForkChild, ParentsAlive, ZombiesSeen
<1> QED
  BY <1>1, <1>2, <1>3, <1>4, <1>5, <1>6, <1>7, Zenon DEF ProcInv

\* The end of exit.
LEMMA BecomeZombieInv ==
  ASSUME ProcInv, NEW c \in CPUs, NEW p \in Slots, BecomeZombie(c, p)
  PROVE  ProcInv'
<1> USE NoneNoSlot
    DEF BecomeZombie, At, Goto, Unlocked, States, ForkPCs, WaitPCs, RunPCs, Alive, Children, Zombies
<1>1. TypeOK'
  BY Zenon DEF ProcInv, TypeOK
<1>2. OnCpu'
  BY DEF ProcInv, TypeOK, OnCpu, PcState
<1>3. PcState'
  BY DEF ProcInv, TypeOK, OnCpu, PcState, ForkChild, ParentsAlive
<1>4. WaitLockHeld'
  BY DEF ProcInv, TypeOK, OnCpu, PcState, WaitLockHeld
<1>5. ForkChild'
  BY DEF ProcInv, TypeOK, PcState, ForkChild
<1>6. ParentsAlive'
  BY DEF ProcInv, TypeOK, PcState, OnCpu, ForkChild, WaitLockHeld, ParentsAlive
<1>7. ZombiesSeen'
  BY DEF ProcInv, TypeOK, PcState, WaitLockHeld, ForkChild, ParentsAlive, ZombiesSeen
<1> QED
  BY <1>1, <1>2, <1>3, <1>4, <1>5, <1>6, <1>7, Zenon DEF ProcInv

\* The wait system call.
LEMMA UserWaitInv ==
  ASSUME ProcInv, NEW c \in CPUs, NEW p \in Slots, UserWait(c, p)
  PROVE  ProcInv'
<1> USE NoneNoSlot
    DEF UserWait, At, Goto, States, ForkPCs, WaitPCs, RunPCs, Alive, Children, Zombies
<1>1. TypeOK'
  BY DEF ProcInv, TypeOK
<1>2. OnCpu'
  BY DEF ProcInv, TypeOK, OnCpu, PcState
<1>3. PcState'
  BY DEF ProcInv, TypeOK, OnCpu, PcState, ForkChild, ParentsAlive
<1>4. WaitLockHeld'
  BY DEF ProcInv, TypeOK, OnCpu, PcState, WaitLockHeld
<1>5. ForkChild'
  BY DEF ProcInv, TypeOK, PcState, ForkChild
<1>6. ParentsAlive'
  BY DEF ProcInv, TypeOK, PcState, OnCpu, ForkChild, WaitLockHeld, ParentsAlive
<1>7. ZombiesSeen'
  BY DEF ProcInv, TypeOK, PcState, WaitLockHeld, ForkChild, ParentsAlive, ZombiesSeen
<1> QED
  BY <1>1, <1>2, <1>3, <1>4, <1>5, <1>6, <1>7, Zenon DEF ProcInv

\* wait takes wait_lock.
LEMMA WaitLockInv ==
  ASSUME ProcInv, NEW c \in CPUs, NEW p \in Slots, WaitLock(c, p)
  PROVE  ProcInv'
<1> USE NoneNoSlot
    DEF WaitLock, At, Goto, States, ForkPCs, WaitPCs, RunPCs, Alive, Children, Zombies
<1>1. TypeOK'
  BY Zenon DEF ProcInv, TypeOK
<1>2. OnCpu'
  BY DEF ProcInv, TypeOK, OnCpu, PcState
<1>3. PcState'
  BY DEF ProcInv, TypeOK, OnCpu, PcState, ForkChild, ParentsAlive
<1>4. WaitLockHeld'
  BY DEF ProcInv, TypeOK, OnCpu, PcState, WaitLockHeld
<1>5. ForkChild'
  BY DEF ProcInv, TypeOK, PcState, ForkChild
<1>6. ParentsAlive'
  BY DEF ProcInv, TypeOK, PcState, OnCpu, ForkChild, WaitLockHeld, ParentsAlive
<1>7. ZombiesSeen'
  BY DEF ProcInv, TypeOK, PcState, WaitLockHeld, ForkChild, ParentsAlive, ZombiesSeen
<1> QED
  BY <1>1, <1>2, <1>3, <1>4, <1>5, <1>6, <1>7, Zenon DEF ProcInv

\* wait, freeproc: a zombie that no CPU is on becomes UNUSED.
LEMMA ReapInv ==
  ASSUME ProcInv, NEW c \in CPUs, NEW p \in Slots, Reap(c, p)
  PROVE  ProcInv'
<1> USE NoneNoSlot
    DEF Reap, At, Unlocked, Zombies, Children, States, ForkPCs, WaitPCs, RunPCs, Alive
<1> DEFINE q == FirstZombie(p)
<1>a. q \in Slots /\ state[q] = "ZOMBIE" /\ plock[q] = None /\ parent[q] = p
  BY FirstZombieExists
<1>b. q # p /\ pc[q] = "dead" /\ (\A d \in CPUs : cur[d] # q) /\ (\A r \in Slots : parent[r] # q)
  BY <1>a DEF ProcInv, TypeOK, OnCpu, PcState, ParentsAlive
<1>c. /\ cur[c] = p /\ state[p] = "RUNNING" /\ pc[p] = "wait_scan"
      /\ state' = [state EXCEPT ![q] = "UNUSED"]
      /\ pc' = [pc EXCEPT ![p] = "sysret", ![q] = "unused"]
      /\ parent' = [parent EXCEPT ![q] = None]
      /\ chan' = [chan EXCEPT ![q] = None]
      /\ waitLock' = None
      /\ UNCHANGED <<child, plock, cur, nextpid>>
  OBVIOUS
<1>1. TypeOK'
  BY Zenon DEF ProcInv, TypeOK
<1> HIDE DEF q, Reap
<1>2. OnCpu'
  BY <1>a, <1>b, <1>c DEF ProcInv, TypeOK, OnCpu, PcState
<1>3. PcState'
  BY <1>a, <1>b, <1>c DEF ProcInv, TypeOK, OnCpu, PcState, ForkChild, ParentsAlive
<1>4. WaitLockHeld'
  BY <1>a, <1>b, <1>c DEF ProcInv, TypeOK, OnCpu, PcState, WaitLockHeld
<1>5. ForkChild'
  BY <1>a, <1>b, <1>c DEF ProcInv, TypeOK, PcState, ForkChild
<1>6. ParentsAlive'
  BY <1>a, <1>b, <1>c DEF ProcInv, TypeOK, PcState, OnCpu, ForkChild, WaitLockHeld, ParentsAlive
<1>7. ZombiesSeen'
  BY <1>a, <1>b, <1>c DEF ProcInv, TypeOK, PcState, WaitLockHeld, ForkChild, ParentsAlive,
         ZombiesSeen
<1> QED
  BY <1>1, <1>2, <1>3, <1>4, <1>5, <1>6, <1>7, Zenon DEF ProcInv

\* wait, copyout fails.
LEMMA ReapFaultInv ==
  ASSUME ProcInv, NEW c \in CPUs, NEW p \in Slots, ReapFault(c, p)
  PROVE  ProcInv'
<1> USE NoneNoSlot
    DEF ReapFault, At, Goto, Unlocked, Zombies, Children, States, ForkPCs, WaitPCs, RunPCs, Alive
<1>1. TypeOK'
  BY Zenon DEF ProcInv, TypeOK
<1>2. OnCpu'
  BY DEF ProcInv, TypeOK, OnCpu, PcState
<1>3. PcState'
  BY DEF ProcInv, TypeOK, OnCpu, PcState, ForkChild, ParentsAlive
<1>4. WaitLockHeld'
  BY DEF ProcInv, TypeOK, OnCpu, PcState, WaitLockHeld
<1>5. ForkChild'
  BY DEF ProcInv, TypeOK, PcState, ForkChild
<1>6. ParentsAlive'
  BY DEF ProcInv, TypeOK, PcState, OnCpu, ForkChild, WaitLockHeld, ParentsAlive
<1>7. ZombiesSeen'
  BY DEF ProcInv, TypeOK, PcState, WaitLockHeld, ForkChild, ParentsAlive, ZombiesSeen
<1> QED
  BY <1>1, <1>2, <1>3, <1>4, <1>5, <1>6, <1>7, Zenon DEF ProcInv

\* wait finds no zombie: with wait_lock held none appears before it sleeps.
LEMMA ScanDoneInv ==
  ASSUME ProcInv, NEW c \in CPUs, NEW p \in Slots, ScanDone(c, p)
  PROVE  ProcInv'
<1> USE NoneNoSlot
    DEF ScanDone, At, Goto, Unlocked, Children, Zombies, States, ForkPCs, WaitPCs, RunPCs, Alive
<1>1. TypeOK'
  BY DEF ProcInv, TypeOK
<1>2. OnCpu'
  BY DEF ProcInv, TypeOK, OnCpu, PcState
<1>3. PcState'
  BY DEF ProcInv, TypeOK, OnCpu, PcState, ForkChild, ParentsAlive
<1>4. WaitLockHeld'
  BY DEF ProcInv, TypeOK, OnCpu, PcState, WaitLockHeld
<1>5. ForkChild'
  BY DEF ProcInv, TypeOK, PcState, ForkChild
<1>6. ParentsAlive'
  BY DEF ProcInv, TypeOK, PcState, OnCpu, ForkChild, WaitLockHeld, ParentsAlive
<1>7. ZombiesSeen'
  BY DEF ProcInv, TypeOK, PcState, WaitLockHeld, ForkChild, ParentsAlive, ZombiesSeen
<1> QED
  BY <1>1, <1>2, <1>3, <1>4, <1>5, <1>6, <1>7, Zenon DEF ProcInv

\* sleep in wait.
LEMMA SleepInv ==
  ASSUME ProcInv, NEW c \in CPUs, NEW p \in Slots, Sleep(c, p)
  PROVE  ProcInv'
<1> USE NoneNoSlot
    DEF Sleep, At, Goto, Unlocked, States, ForkPCs, WaitPCs, RunPCs, Alive, Children, Zombies
<1>1. TypeOK'
  BY Zenon DEF ProcInv, TypeOK
<1>2. OnCpu'
  BY DEF ProcInv, TypeOK, OnCpu, PcState
<1>3. PcState'
  BY DEF ProcInv, TypeOK, OnCpu, PcState, ForkChild, ParentsAlive
<1>4. WaitLockHeld'
  BY DEF ProcInv, TypeOK, OnCpu, PcState, WaitLockHeld
<1>5. ForkChild'
  BY DEF ProcInv, TypeOK, PcState, ForkChild
<1>6. ParentsAlive'
  BY DEF ProcInv, TypeOK, PcState, OnCpu, ForkChild, WaitLockHeld, ParentsAlive
<1>7. ZombiesSeen'
  BY DEF ProcInv, TypeOK, PcState, WaitLockHeld, ForkChild, ParentsAlive, ZombiesSeen
<1> QED
  BY <1>1, <1>2, <1>3, <1>4, <1>5, <1>6, <1>7, Zenon DEF ProcInv

\* kill: a sleeper is made to run.
LEMMA KillInv ==
  ASSUME ProcInv, NEW c \in CPUs, NEW p \in Slots, NEW k \in KillArgs, Kill(c, p, k)
  PROVE  ProcInv'
<1> USE NoneNoSlot
    DEF Kill, At, Goto, Unlocked, States, ForkPCs, WaitPCs, RunPCs, Alive, Children, Zombies
<1>1. TypeOK'
  BY Zenon DEF ProcInv, TypeOK
<1>2. OnCpu'
  BY DEF ProcInv, TypeOK, OnCpu, PcState
<1>3. PcState'
  BY DEF ProcInv, TypeOK, OnCpu, PcState, ForkChild, ParentsAlive
<1>4. WaitLockHeld'
  BY DEF ProcInv, TypeOK, OnCpu, PcState, WaitLockHeld
<1>5. ForkChild'
  BY DEF ProcInv, TypeOK, PcState, ForkChild
<1>6. ParentsAlive'
  BY DEF ProcInv, TypeOK, PcState, OnCpu, ForkChild, WaitLockHeld, ParentsAlive
<1>7. ZombiesSeen'
  BY DEF ProcInv, TypeOK, PcState, WaitLockHeld, ForkChild, ParentsAlive, ZombiesSeen
<1> QED
  BY <1>1, <1>2, <1>3, <1>4, <1>5, <1>6, <1>7, Zenon DEF ProcInv

\* Any other system call.
LEMMA OtherCallInv ==
  ASSUME ProcInv, NEW c \in CPUs, NEW p \in Slots, OtherCall(c, p)
  PROVE  ProcInv'
<1> USE NoneNoSlot
    DEF OtherCall, At, Goto, States, ForkPCs, WaitPCs, RunPCs, Alive, Children, Zombies
<1>1. TypeOK'
  BY Zenon DEF ProcInv, TypeOK
<1>2. OnCpu'
  BY DEF ProcInv, TypeOK, OnCpu, PcState
<1>3. PcState'
  BY DEF ProcInv, TypeOK, OnCpu, PcState, ForkChild, ParentsAlive
<1>4. WaitLockHeld'
  BY DEF ProcInv, TypeOK, OnCpu, PcState, WaitLockHeld
<1>5. ForkChild'
  BY DEF ProcInv, TypeOK, PcState, ForkChild
<1>6. ParentsAlive'
  BY DEF ProcInv, TypeOK, PcState, OnCpu, ForkChild, WaitLockHeld, ParentsAlive
<1>7. ZombiesSeen'
  BY DEF ProcInv, TypeOK, PcState, WaitLockHeld, ForkChild, ParentsAlive, ZombiesSeen
<1> QED
  BY <1>1, <1>2, <1>3, <1>4, <1>5, <1>6, <1>7, Zenon DEF ProcInv

----------------------------------------------------------------------------
\* ProcInv is inductive.
THEOREM ProcInvariant == Spec => []ProcInv
<1>1. Init => ProcInv
  BY NoneNoSlot DEF Init, ProcInv, TypeOK, OnCpu, PcState, WaitLockHeld, ForkChild, ParentsAlive,
         ZombiesSeen, States, ForkPCs, WaitPCs, RunPCs, Alive, Children, Zombies
<1>2. ProcInv /\ [Next]_vars => ProcInv'
  <2>1. ASSUME ProcInv, UNCHANGED vars PROVE ProcInv'
    BY <2>1 DEF ProcInv, TypeOK, OnCpu, PcState, WaitLockHeld, ForkChild, ParentsAlive,
           ZombiesSeen, Children, Zombies, vars
  <2>2. ASSUME ProcInv, NEW c \in CPUs, NEW p \in Slots, UserStep(c, p) PROVE ProcInv'
    BY Zenon, <2>2, OtherCallInv, UserYieldInv, UserExitInv, UserWaitInv, KillInv, ForkAllocInv,
       ForkFailInv
    DEF UserStep
  <2>3. ASSUME ProcInv, NEW c \in CPUs, NEW p \in Slots, KernelStep(c, p) PROVE ProcInv'
    BY Zenon, <2>3, SysRetInv, ForkParentInv, ForkRunInv, ExitBeginInv, ReparentInv,
       WakeParentInv, BecomeZombieInv, WaitLockInv, ReapInv, ReapFaultInv, ScanDoneInv, SleepInv,
       SwtchInv
    DEF KernelStep
  <2>4. ASSUME ProcInv, Next PROVE ProcInv'
    BY <2>1, <2>2, <2>3, <2>4, ScheduleInv, TimerIrqInv, Zenon DEF Next, Halt
  <2> QED
    BY <2>1, <2>4
<1> QED
  BY <1>1, <1>2, PTL DEF Spec

\* scheduler, sched and freeproc: one CPU per kernel stack, and none on a stack
\* that wait has freed.
THEOREM StackAlwaysOwned == Spec => []StackOwned
<1>1. ProcInv => StackOwned
  BY NoneNoSlot DEF ProcInv, TypeOK, OnCpu, StackOwned
<1> QED
  BY <1>1, ProcInvariant, PTL

\* exit, reparent, wait and sleep: the wakeup of a waiting parent is not lost.
THEOREM WakeupNeverLost == Spec => []NoLostWakeup
<1>1. ProcInv => NoLostWakeup
  BY NoneNoSlot DEF ProcInv, ZombiesSeen, NoLostWakeup, Zombies, Children
<1> QED
  BY <1>1, ProcInvariant, PTL

\* reparent: every process has a parent that can still wait for it.
THEOREM ParentAlwaysCanWait == Spec => []ParentCanWait
<1>1. ProcInv => ParentCanWait
  BY DEF ProcInv, ParentsAlive, ParentCanWait, Alive
<1> QED
  BY <1>1, ProcInvariant, PTL
============================================================================
