------------------------------- MODULE Proc -------------------------------
(***************************************************************************)
(* The process table of kernel/proc.c: scheduler, sched, yield, fork,      *)
(* exit, wait, kill, with sleep and wakeup as wait and exit use them.      *)
(*                                                                         *)
(* The actors are the CPUs.  A system call runs with interrupts masked     *)
(* (svcintr never unmasks them), so a CPU leaves a process only in sched.  *)
(* One action is one critical section of a p->lock or a stretch under      *)
(* wait_lock between two acquisitions of p->locks.  A lock's holder is a   *)
(* CPU, as in struct spinlock.  The first process is slot 1.  A process    *)
(* sleeps on its own address in wait, so wakeup(q) reaches q alone.        *)
(***************************************************************************)
EXTENDS Integers, FiniteSets

CONSTANTS
    NPROC,     \* slots of the process table
    CPUs,
    KillArgs,  \* the arguments user programs give to kill
    MaxPid,    \* bound: no fork after this pid has been given out
    None       \* no process, no lock holder

ASSUME NPROCAssumption == NPROC \in Nat \ {0}
ASSUME CPUsAssumption == None \notin CPUs /\ None \notin Nat
ASSUME PidAssumption == MaxPid \in Nat /\ KillArgs \subseteq Nat

VARIABLES
    state,     \* p->state
    pc,        \* where the process is, or where it resumes
    pid, parent, chan, killed,   \* fields of struct proc
    child,     \* np of a fork in progress
    plock,     \* the CPU holding p->lock
    waitLock,  \* the CPU holding wait_lock
    cur,       \* c->proc
    nextpid

vars == <<state, pc, pid, parent, chan, killed, child, plock, waitLock, cur, nextpid>>

Slots == 1 .. NPROC
Initproc == 1

\* userinit has made the first process; every CPU is in scheduler.
Init ==
    /\ state = [p \in Slots |-> IF p = Initproc THEN "RUNNABLE" ELSE "UNUSED"]
    /\ pc = [p \in Slots |-> IF p = Initproc THEN "user" ELSE "unused"]
    /\ pid = [p \in Slots |-> IF p = Initproc THEN 1 ELSE 0]
    /\ parent = [p \in Slots |-> None]
    /\ chan = [p \in Slots |-> None]
    /\ killed = [p \in Slots |-> FALSE]
    /\ child = [p \in Slots |-> None]
    /\ plock = [p \in Slots |-> None]
    /\ waitLock = None
    /\ cur = [c \in CPUs |-> None]
    /\ nextpid = 2

Unlocked(p) == plock[p] = None

\* CPU c executes the process in slot p, which is at l.
At(c, p, l) == cur[c] = p /\ state[p] = "RUNNING" /\ pc[p] = l

Goto(p, l) == pc' = [pc EXCEPT ![p] = l]

(***************************************************************************)
(* scheduler and sched.                                                    *)
(***************************************************************************)
\* scheduler finds p RUNNABLE and switches to it; p releases its lock first
\* thing (in yield, sleep or forkret).  sleep also clears p->chan.
Schedule(c, p) ==
    /\ cur[c] = None
    /\ Unlocked(p) /\ state[p] = "RUNNABLE"
    /\ state' = [state EXCEPT ![p] = "RUNNING"]
    /\ cur' = [cur EXCEPT ![c] = p]
    /\ IF pc[p] = "slept"
       THEN Goto(p, "wait") /\ chan' = [chan EXCEPT ![p] = None]
       ELSE UNCHANGED <<pc, chan>>
    /\ UNCHANGED <<pid, parent, killed, child, plock, waitLock, nextpid>>

\* sched: swtch to scheduler, which forgets the process and releases p->lock.
Swtch(c, p) ==
    /\ cur[c] = p /\ state[p] # "RUNNING"
    /\ cur' = [cur EXCEPT ![c] = None]
    /\ plock' = [plock EXCEPT ![p] = None]
    /\ UNCHANGED <<state, pc, pid, parent, chan, killed, child, waitLock, nextpid>>

\* yield, up to its call of sched.
Yield(c, p) ==
    /\ Unlocked(p)
    /\ plock' = [plock EXCEPT ![p] = c]
    /\ state' = [state EXCEPT ![p] = "RUNNABLE"]
    /\ UNCHANGED <<pid, parent, chan, killed, child, waitLock, cur, nextpid>>

\* A timer interrupt in user mode: irqintr exits a killed process and makes
\* any other yield.
TimerIrq(c, p) ==
    /\ At(c, p, "user")
    /\ IF killed[p]
       THEN /\ Unlocked(p) /\ Goto(p, "exit")
            /\ UNCHANGED <<state, pid, parent, chan, killed, child, plock, waitLock, cur, nextpid>>
       ELSE Yield(c, p) /\ UNCHANGED pc

\* sys_yield: the process resumes at the end of svcintr.
UserYield(c, p) == At(c, p, "user") /\ Yield(c, p) /\ Goto(p, "sysret")

\* The end of svcintr: a killed process does not return to user space.
SysRet(c, p) ==
    /\ At(c, p, "sysret") /\ Unlocked(p)
    /\ Goto(p, IF killed[p] THEN "exit" ELSE "user")
    /\ UNCHANGED <<state, pid, parent, chan, killed, child, plock, waitLock, cur, nextpid>>

(***************************************************************************)
(* fork.                                                                   *)
(***************************************************************************)
\* The next pid is taken; MaxPid bounds how many are.
Allocpid == nextpid <= MaxPid /\ nextpid' = nextpid + 1

\* allocproc and the copying of the parent, all under np->lock.
ForkAlloc(c, p, np) ==
    /\ At(c, p, "user") /\ Allocpid
    /\ state[np] = "UNUSED" /\ Unlocked(np)
    /\ state' = [state EXCEPT ![np] = "USED"]
    /\ pid' = [pid EXCEPT ![np] = nextpid]
    /\ child' = [child EXCEPT ![p] = np]
    /\ Goto(p, "fork_parent")
    /\ UNCHANGED <<parent, chan, killed, plock, waitLock, cur>>

\* kalloc or uvmcopy fails: freeproc puts the slot back, the pid is used up.
ForkFail(c, p, np) ==
    /\ At(c, p, "user") /\ Allocpid
    /\ state[np] = "UNUSED" /\ Unlocked(np)
    /\ killed' = [killed EXCEPT ![np] = FALSE]
    /\ Goto(p, "sysret")
    /\ UNCHANGED <<state, pid, parent, chan, child, plock, waitLock, cur>>

\* The second part, under wait_lock.
ForkParent(c, p) ==
    /\ At(c, p, "fork_parent") /\ waitLock = None
    /\ parent' = [parent EXCEPT ![child[p]] = p]
    /\ Goto(p, "fork_run")
    /\ UNCHANGED <<state, pid, chan, killed, child, plock, waitLock, cur, nextpid>>

\* The third part, under np->lock: the child may run.
ForkRun(c, p) ==
    LET np == child[p] IN
    /\ At(c, p, "fork_run") /\ Unlocked(np)
    /\ state' = [state EXCEPT ![np] = "RUNNABLE"]
    /\ pc' = [pc EXCEPT ![p] = "sysret", ![np] = "user"]
    /\ child' = [child EXCEPT ![p] = None]
    /\ UNCHANGED <<pid, parent, chan, killed, plock, waitLock, cur, nextpid>>

(***************************************************************************)
(* exit.                                                                   *)
(***************************************************************************)
\* The exit system call, or an exception in user mode (defintr).
UserExit(c, p) ==
    /\ At(c, p, "user")
    /\ Goto(p, "exit")
    /\ UNCHANGED <<state, pid, parent, chan, killed, child, plock, waitLock, cur, nextpid>>

\* exit panics for init; anyone else closes its files and takes wait_lock.
ExitBegin(c, p) ==
    /\ At(c, p, "exit")
    /\ IF p = Initproc
       THEN Goto(p, "panic") /\ UNCHANGED waitLock
       ELSE waitLock = None /\ waitLock' = c /\ Goto(p, "reparent")
    /\ UNCHANGED <<state, pid, parent, chan, killed, child, plock, cur, nextpid>>

\* wakeup(q) where q is a process: it can only be asleep in wait.
Wakeup(q) ==
    /\ Unlocked(q)
    /\ state' = [state EXCEPT ![q] = IF @ = "SLEEPING" /\ chan[q] = q THEN "RUNNABLE" ELSE @]

Children(p) == {q \in Slots : parent[q] = p}

\* Fault: only the children that are already zombies are given away.
ReparentZombiesOnly(c, p) ==
    /\ At(c, p, "reparent")
    /\ parent' = [q \in Slots |-> IF parent[q] = p /\ state[q] = "ZOMBIE"
                                 THEN Initproc ELSE parent[q]]
    /\ Wakeup(Initproc)
    /\ Goto(p, "wake_parent")
    /\ UNCHANGED <<pid, chan, killed, child, plock, waitLock, cur, nextpid>>

\* reparent, with its wakeup(initproc) for every child.
Reparent(c, p) ==
    /\ At(c, p, "reparent")
    /\ IF Children(p) = {}
       THEN UNCHANGED <<state, parent>>
       ELSE /\ parent' = [q \in Slots |-> IF parent[q] = p THEN Initproc ELSE parent[q]]
            /\ Wakeup(Initproc)
    /\ Goto(p, "wake_parent")
    /\ UNCHANGED <<pid, chan, killed, child, plock, waitLock, cur, nextpid>>

\* Fault: exit wakes init, not the parent.
WakeParentInit(c, p) ==
    /\ At(c, p, "wake_parent")
    /\ Wakeup(Initproc)
    /\ Goto(p, "zombie")
    /\ UNCHANGED <<pid, parent, chan, killed, child, plock, waitLock, cur, nextpid>>

\* wakeup(p->parent).
WakeParent(c, p) ==
    /\ At(c, p, "wake_parent")
    /\ Wakeup(parent[p])
    /\ Goto(p, "zombie")
    /\ UNCHANGED <<pid, parent, chan, killed, child, plock, waitLock, cur, nextpid>>

\* The end of exit: ZOMBIE under p->lock, then wait_lock is released.
BecomeZombie(c, p) ==
    /\ At(c, p, "zombie") /\ Unlocked(p)
    /\ plock' = [plock EXCEPT ![p] = c]
    /\ state' = [state EXCEPT ![p] = "ZOMBIE"]
    /\ waitLock' = None
    /\ Goto(p, "dead")
    /\ UNCHANGED <<pid, parent, chan, killed, child, cur, nextpid>>

(***************************************************************************)
(* wait.                                                                   *)
(***************************************************************************)
\* The wait system call.
UserWait(c, p) ==
    /\ At(c, p, "user")
    /\ Goto(p, "wait")
    /\ UNCHANGED <<state, pid, parent, chan, killed, child, plock, waitLock, cur, nextpid>>

\* acquire(&wait_lock), at the start of wait or at the end of its sleep.
WaitLock(c, p) ==
    /\ At(c, p, "wait") /\ waitLock = None
    /\ waitLock' = c
    /\ Goto(p, "wait_scan")
    /\ UNCHANGED <<state, pid, parent, chan, killed, child, plock, cur, nextpid>>

Zombies(p) == {q \in Children(p) : state[q] = "ZOMBIE"}

\* The first zombie child in the table.
FirstZombie(p) == CHOOSE q \in Zombies(p) : \A r \in Zombies(p) : q <= r

\* Fault: wait reads the child's state without pp->lock.
ReapUnlocked(c, p) ==
    LET q == FirstZombie(p) IN
    /\ At(c, p, "wait_scan") /\ Zombies(p) # {}
    /\ state' = [state EXCEPT ![q] = "UNUSED"]
    /\ pc' = [pc EXCEPT ![p] = "sysret", ![q] = "unused"]
    /\ pid' = [pid EXCEPT ![q] = 0]
    /\ parent' = [parent EXCEPT ![q] = None]
    /\ chan' = [chan EXCEPT ![q] = None]
    /\ killed' = [killed EXCEPT ![q] = FALSE]
    /\ waitLock' = None
    /\ UNCHANGED <<child, plock, cur, nextpid>>

\* The scan finds a zombie child: freeproc under its lock.
Reap(c, p) ==
    LET q == FirstZombie(p) IN
    /\ At(c, p, "wait_scan") /\ Zombies(p) # {}
    /\ Unlocked(q)
    /\ state' = [state EXCEPT ![q] = "UNUSED"]
    /\ pc' = [pc EXCEPT ![p] = "sysret", ![q] = "unused"]
    /\ pid' = [pid EXCEPT ![q] = 0]
    /\ parent' = [parent EXCEPT ![q] = None]
    /\ chan' = [chan EXCEPT ![q] = None]
    /\ killed' = [killed EXCEPT ![q] = FALSE]
    /\ waitLock' = None
    /\ UNCHANGED <<child, plock, cur, nextpid>>

\* The scan finds a zombie child and copyout of its status fails.
ReapFault(c, p) ==
    /\ At(c, p, "wait_scan") /\ Zombies(p) # {}
    /\ Unlocked(FirstZombie(p))
    /\ waitLock' = None
    /\ Goto(p, "sysret")
    /\ UNCHANGED <<state, pid, parent, chan, killed, child, plock, cur, nextpid>>

\* Fault: wait does not look at killed before it sleeps.
ScanDoneIgnoresKilled(c, p) ==
    /\ At(c, p, "wait_scan") /\ Zombies(p) = {}
    /\ Unlocked(p)
    /\ IF Children(p) = {}
       THEN waitLock' = None /\ Goto(p, "sysret")
       ELSE UNCHANGED waitLock /\ Goto(p, "wait_sleep")
    /\ UNCHANGED <<state, pid, parent, chan, killed, child, plock, cur, nextpid>>

\* The scan finds no zombie: give up, or decide to sleep.
ScanDone(c, p) ==
    /\ At(c, p, "wait_scan") /\ Zombies(p) = {}
    /\ Unlocked(p)
    /\ IF Children(p) = {} \/ killed[p]
       THEN waitLock' = None /\ Goto(p, "sysret")
       ELSE UNCHANGED waitLock /\ Goto(p, "wait_sleep")
    /\ UNCHANGED <<state, pid, parent, chan, killed, child, plock, cur, nextpid>>

\* sleep(p, &wait_lock), up to its call of sched.
Sleep(c, p) ==
    /\ At(c, p, "wait_sleep") /\ Unlocked(p)
    /\ plock' = [plock EXCEPT ![p] = c]
    /\ waitLock' = None
    /\ chan' = [chan EXCEPT ![p] = p]
    /\ state' = [state EXCEPT ![p] = "SLEEPING"]
    /\ Goto(p, "slept")
    /\ UNCHANGED <<pid, parent, killed, child, cur, nextpid>>

(***************************************************************************)
(* kill.                                                                   *)
(***************************************************************************)
\* kill(k) stops at the first slot whose pid is k, whatever its state.
KillTarget(k) == CHOOSE q \in Slots : pid[q] = k /\ \A r \in Slots : pid[r] = k => q <= r

Kill(c, p, k) ==
    /\ At(c, p, "user")
    /\ \E q \in Slots : pid[q] = k
    /\ LET q == KillTarget(k) IN
       /\ Unlocked(q)
       /\ killed' = [killed EXCEPT ![q] = TRUE]
       /\ state' = [state EXCEPT ![q] = IF @ = "SLEEPING" THEN "RUNNABLE" ELSE @]
    /\ Goto(p, "sysret")
    /\ UNCHANGED <<pid, parent, chan, child, plock, waitLock, cur, nextpid>>

\* Any other system call, a fork that finds the table full, a kill that
\* finds no process.
OtherCall(c, p) ==
    /\ At(c, p, "user")
    /\ Goto(p, "sysret")
    /\ UNCHANGED <<state, pid, parent, chan, killed, child, plock, waitLock, cur, nextpid>>

\* What a user program may ask for.
UserStep(c, p) ==
    \/ OtherCall(c, p) \/ UserYield(c, p)
    \/ UserExit(c, p) \/ UserWait(c, p)
    \/ \E k \in KillArgs : Kill(c, p, k)
    \/ \E np \in Slots : ForkAlloc(c, p, np) \/ ForkFail(c, p, np)

\* What the kernel does once it is asked.
KernelStep(c, p) ==
    \/ SysRet(c, p) \/ ForkParent(c, p) \/ ForkRun(c, p)
    \/ ExitBegin(c, p) \/ Reparent(c, p) \/ WakeParent(c, p) \/ BecomeZombie(c, p)
    \/ WaitLock(c, p) \/ Reap(c, p) \/ ReapFault(c, p) \/ ScanDone(c, p) \/ Sleep(c, p)
    \/ Swtch(c, p)

\* panic never returns; the other CPUs go on.
Halt(c, p) == At(c, p, "panic") /\ UNCHANGED vars

Next ==
    \E c \in CPUs, p \in Slots :
        Schedule(c, p) \/ TimerIrq(c, p) \/ UserStep(c, p) \/ KernelStep(c, p) \/ Halt(c, p)

Spec == Init /\ [][Next]_vars
---------------------------------------------------------------------------
\* scheduler, sched and freeproc: no two CPUs are on the stack of one process, and
\* none is on the stack of an UNUSED slot, which is freed (wait takes pp->lock to
\* "make sure the child isn't still in exit() or swtch()").
StackOwned ==
    \A c \in CPUs : cur[c] # None =>
        /\ state[cur[c]] # "UNUSED"
        /\ \A d \in CPUs \ {c} : cur[d] # cur[c]

\* exit, reparent, wait and sleep: whenever wait_lock is free, no process
\* sleeps in wait while it has a zombie child.
NoLostWakeup ==
    waitLock = None =>
        \A p \in Slots : Zombies(p) # {} => ~(state[p] = "SLEEPING" /\ chan[p] = p)

\* reparent: whenever wait_lock is free, the parent of every process is one
\* that can still call wait.
ParentCanWait ==
    waitLock = None =>
        \A p \in Slots :
            /\ parent[p] # None => state[parent[p]] \notin {"UNUSED", "USED", "ZOMBIE"}
            /\ state[p] \in {"SLEEPING", "RUNNABLE", "RUNNING", "ZOMBIE"} /\ p # Initproc
                   => parent[p] # None

(***************************************************************************)
(* Fairness.  A lock is held for a bounded time and every spinning CPU     *)
(* gets it in the end; scheduler walks the whole table again and again;    *)
(* the timer of every CPU interrupts user code for ever; init calls        *)
(* wait(0) for ever (user/init.c), so its copyout cannot fail.             *)
(***************************************************************************)
Fairness ==
    /\ \A c \in CPUs : SF_vars(\E p \in Slots : KernelStep(c, p))
    /\ \A c \in CPUs : SF_vars(\E p \in Slots : TimerIrq(c, p))
    /\ \A p \in Slots : SF_vars(\E c \in CPUs : Schedule(c, p))
    /\ SF_vars(\E c \in CPUs : UserWait(c, Initproc))
    /\ SF_vars(\E c \in CPUs : Reap(c, Initproc))

FairSpec == Spec /\ Fairness

InitRuns == pc[Initproc] \notin {"exit", "panic"}

\* kill: "The victim won't exit until it tries to return to user space": a
\* process killed while it is not about to sleep or asleep in wait gets there
\* and exits (if init does not panic the kernel first).
KilledAwakeExits ==
    \A p \in Slots \ {Initproc} :
        (/\ killed[p] /\ state[p] \notin {"UNUSED", "SLEEPING"}
         /\ pc[p] # "wait_sleep")
            ~> (state[p] \in {"ZOMBIE", "UNUSED"} \/ ~InitRuns)
===========================================================================
