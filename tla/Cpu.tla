-------------------------------- MODULE Cpu --------------------------------
(***************************************************************************)
(* CPUs, spinlocks and interrupts: push_off and pop_off                    *)
(* (kernel/spinlock.c), the entry to and the return from the kernel        *)
(* (kernel/trapasm.S, kernel/trap.c), the interrupt controller             *)
(* (kernel/gic.c), the timer and sys_sleep (kernel/timer.c,                *)
(* kernel/sysproc.c), the switch between threads (kernel/proc.c), and the  *)
(* start of the CPUs (kernel/start.c).                                     *)
(*                                                                         *)
(* A thread is a process in the kernel or the scheduler of a CPU.  Code    *)
(* says which labels of a thread acquire or release a lock; the other      *)
(* labels have an action each.  noff and intena belong to a CPU, and       *)
(* threads move between CPUs with what sched saves.                        *)
(***************************************************************************)
EXTENDS Integers

CONSTANTS
    Procs,
    Cpus,        \* numbers from 0
    TickMod,     \* 2^32
    Sleeps,      \* arguments of sleep, as signed integers
    IRQ_MAX_COUNT,
    First, None

ASSUME CpuAssumption ==
    /\ Cpus \subseteq Nat /\ 0 \in Cpus /\ First \in Procs
    /\ None \notin Procs \cup Cpus /\ {"ticks", "wait", "disk"} \cap Procs = {}
    /\ TickMod \in Nat \ {0} /\ Sleeps \subseteq Int /\ IRQ_MAX_COUNT \in Nat

TIMER == 30       \* PPI2ID(IRQ_TIMER0)
DEVICE == 48      \* SPI2ID(IRQ_MMIO)
SPURIOUS == 1023  \* what GICC_IAR reads when nothing is pending

Sched(c) == <<"scheduler", c>>
Proc(p) == <<"proc", p>>
Threads == {Sched(c) : c \in Cpus} \cup {Proc(p) : p \in Procs}
Locks == Procs \cup {"ticks", "wait", "disk"}   \* p->lock, tickslock, wait_lock, vdisk_lock

VARIABLES
    locks,     \* the CPU that holds each lock
    irq,       \* interrupts enabled (DAIF.I clear)
    noff, intena,
    elr,       \* what ELR_EL1 points to: "user" or "kernel"
    on,        \* the thread that each CPU runs
    th,        \* threads
    state, killed,   \* of processes
    ticks,
    targets,   \* CPUs that the interrupt of a device goes to (GICD_ITARGETSR)
    first,     \* forkret's first
    panic,
    wild       \* a handler was fetched from beyond the table

mask == <<irq, noff, intena>>
procs == <<state, killed>>
vars == <<locks, mask, elr, on, th, procs, ticks, targets, first, panic, wild>>

\* A thread: where it is, whether it spins, the process it has picked, where yield
\* returns to, the label that was interrupted, irqhandle's result, the intena that
\* sched has saved, sys_sleep's locals, whether it has yet to be in user mode, and
\* cpuset's val.
Thread(pc) == [pc |-> pc, spin |-> FALSE, pick |-> None, ret |-> "irq_ret", back |-> "user",
               is_timer |-> FALSE, intena |-> FALSE, ticks0 |-> 0, n |-> 0, new |-> TRUE,
               val |-> {}]

\* Each CPU is about to enter start.
Init ==
    /\ locks = [l \in Locks |-> None]
    /\ irq = [c \in Cpus |-> FALSE] /\ noff = [c \in Cpus |-> 0]
    /\ intena = [c \in Cpus |-> FALSE] /\ elr = [c \in Cpus |-> "kernel"]
    /\ on = [c \in Cpus |-> Sched(c)]
    /\ th = [t \in Threads |-> Thread(IF t[1] = "proc" THEN "forkret" ELSE "boot")]
    /\ state = [p \in Procs |-> "unused"]
    /\ killed = [p \in Procs |-> FALSE]
    /\ ticks = 0 /\ targets = {} /\ first = TRUE
    /\ panic = FALSE /\ wild = FALSE

\* mycpu()->proc, and the label of the thread that CPU c runs.
Myproc(c) == IF on[c][1] = "proc" THEN on[c][2] ELSE None
Pc(c) == th[on[c]].pc
At(c, pc) == ~panic /\ ~wild /\ Pc(c) = pc

\* That thread goes on with record r, or at label pc.
Become(c, r) == th' = [th EXCEPT ![on[c]] = r]
Goto(c, pc) == Become(c, [th[on[c]] EXCEPT !.pc = pc])

(***************************************************************************)
(* Spinlocks.                                                              *)
(***************************************************************************)
Holding(c, l) == locks[l] = c

PushOff(c) ==
    /\ irq' = [irq EXCEPT ![c] = FALSE]
    /\ noff' = [noff EXCEPT ![c] = @ + 1]
    /\ intena' = [intena EXCEPT ![c] = IF noff[c] = 0 THEN irq[c] ELSE @]

PopOff(c) ==
    /\ noff' = [noff EXCEPT ![c] = @ - 1]
    /\ irq' = [irq EXCEPT ![c] = (noff[c] = 1 /\ intena[c])]
    /\ UNCHANGED intena
PopOffPanics(c) == irq[c] \/ noff[c] < 1

\* Labels that acquire or release a lock: own is myproc()->lock, pick the lock of
\* the process that a scheduler looks at.
Steps ==
    [pick    |-> <<"acquire", "pick", "picked">>,   unpick |-> <<"release", "pick", "idle">>,
     forkret |-> <<"release", "own", "f_first">>,
     f_lock  |-> <<"acquire", "disk", "f_test">>,   f_rel  |-> <<"release", "disk", "f_init">>,
     f_own   |-> <<"acquire", "own", "f_drop">>,    f_drop |-> <<"release", "disk", "f_sched">>,
     f_wake  |-> <<"release", "own", "f_again">>,   f_again |-> <<"acquire", "disk", "f_test">>,
     d_lock  |-> <<"acquire", "disk", "d_wake">>,   d_rel  |-> <<"release", "disk", "irq_done">>,
     y_lock  |-> <<"acquire", "own", "y_sched">>,   y_rel  |-> <<"release", "own", "ret">>,
     e_wait  |-> <<"acquire", "wait", "e_lock">>,   e_lock |-> <<"acquire", "own", "e_drop">>,
     e_drop  |-> <<"release", "wait", "e_sched">>,
     t_lock  |-> <<"acquire", "ticks", "t_tick">>,  t_rel  |-> <<"release", "ticks", "irq_done">>,
     s_lock  |-> <<"acquire", "ticks", "s_read">>,  s_rel  |-> <<"release", "ticks", "svc_done">>]

\* Fault: sleep gives up tickslock before it has p->lock.
SleepStepsDrop ==
    [s_own  |-> <<"release", "ticks", "s_drop">>, s_drop  |-> <<"acquire", "own", "s_sched">>,
     s_wake |-> <<"release", "own", "s_again">>,  s_again |-> <<"acquire", "ticks", "s_test">>]

\* Fault: sleep keeps tickslock.
SleepStepsKeep ==
    [s_own  |-> <<"acquire", "own", "s_sched">>,  s_drop  |-> <<"release", "ticks", "s_sched">>,
     s_wake |-> <<"release", "own", "s_test">>,   s_again |-> <<"acquire", "ticks", "s_test">>]

SleepSteps ==
    [s_own  |-> <<"acquire", "own", "s_drop">>,   s_drop  |-> <<"release", "ticks", "s_sched">>,
     s_wake |-> <<"release", "own", "s_again">>,  s_again |-> <<"acquire", "ticks", "s_test">>]

Code == [pc \in DOMAIN Steps \cup DOMAIN SleepSteps |->
            IF pc \in DOMAIN Steps THEN Steps[pc] ELSE SleepSteps[pc]]

Lock(c, name) ==
    CASE name = "own" -> Myproc(c) [] name = "pick" -> th[on[c]].pick [] OTHER -> name

\* The thread that CPU c runs is at a label of Code for operation op.
Does(c, op) == ~panic /\ ~wild /\ Pc(c) \in DOMAIN Code /\ Code[Pc(c)][1] = op

\* acquire: push_off, then spin.
AcquireStart(c) ==
    /\ Does(c, "acquire") /\ ~th[on[c]].spin
    /\ PushOff(c)
    /\ panic' = Holding(c, Lock(c, Code[Pc(c)][2]))
    /\ Become(c, [th[on[c]] EXCEPT !.spin = TRUE])
    /\ UNCHANGED <<locks, elr, on, procs, ticks, targets, first, wild>>

Acquire(c) ==
    LET l == Lock(c, Code[Pc(c)][2]) IN
    /\ Does(c, "acquire") /\ th[on[c]].spin /\ locks[l] = None
    /\ locks' = [locks EXCEPT ![l] = c]
    /\ Become(c, [th[on[c]] EXCEPT !.spin = FALSE, !.pc = Code[@][3]])
    /\ UNCHANGED <<mask, elr, on, procs, ticks, targets, first, panic, wild>>

Release(c) ==
    LET l == Lock(c, Code[Pc(c)][2]) IN
    /\ Does(c, "release")
    /\ locks' = [locks EXCEPT ![l] = None]
    /\ PopOff(c)
    /\ panic' = (~Holding(c, l) \/ PopOffPanics(c))
    /\ Goto(c, IF Code[Pc(c)][3] = "ret" THEN th[on[c]].ret ELSE Code[Pc(c)][3])
    /\ UNCHANGED <<elr, on, procs, ticks, targets, first, wild>>

(***************************************************************************)
(* start: CPU 0 sets the kernel up, the others spin on started.            *)
(***************************************************************************)
Started == th[Sched(0)].pc \notin {"boot", "cpuset", "started"}

\* gichartinit, up to the read of GICD_ITARGETSR in cpuset.  The CPUs that have
\* seen started read and write that register at the same time.
Gichartinit(c) ==
    /\ At(c, "boot") /\ (c # 0 => Started)
    /\ Become(c, [th[on[c]] EXCEPT !.pc = "cpuset", !.val = targets])
    /\ UNCHANGED <<locks, mask, elr, on, procs, ticks, targets, first, panic, wild>>

\* The write: 1 << cpuid() and what was read.
Cpuset(c) ==
    /\ At(c, "cpuset")
    /\ targets' = th[on[c]].val \cup {c}
    /\ Become(c, [th[on[c]] EXCEPT !.pc = IF c = 0 THEN "started" ELSE "idle", !.val = {}])
    /\ UNCHANGED <<locks, mask, elr, on, procs, ticks, first, panic, wild>>

\* CPU 0, after userinit.
Start(c) ==
    /\ At(c, "started")
    /\ state' = [state EXCEPT ![First] = "runnable"]
    /\ Goto(c, "idle")
    /\ UNCHANGED <<locks, mask, elr, on, killed, ticks, targets, first, panic, wild>>

(***************************************************************************)
(* scheduler and sched.                                                    *)
(***************************************************************************)
\* The top of the loop.
IntrOn(c) ==
    /\ At(c, "idle") /\ ~irq[c]
    /\ irq' = [irq EXCEPT ![c] = TRUE]
    /\ UNCHANGED <<locks, noff, intena, elr, on, th, procs, ticks, targets, first, panic, wild>>

\* The next process of the table.
Pick(c, p) ==
    /\ At(c, "idle") /\ state[p] # "unused"
    /\ Become(c, [th[on[c]] EXCEPT !.pc = "pick", !.pick = p])
    /\ UNCHANGED <<locks, mask, elr, on, procs, ticks, targets, first, panic, wild>>

\* Fault: the thread goes on with the intena of the CPU.
ResumeAsIs(c, p) ==
    /\ on' = [on EXCEPT ![c] = Proc(p)]
    /\ UNCHANGED intena

\* swtch to a process: one that has been in sched restores its intena.
Resume(c, p) ==
    /\ on' = [on EXCEPT ![c] = Proc(p)]
    /\ intena' = [intena EXCEPT ![c] = IF th[Proc(p)].pc = "forkret" THEN @ ELSE th[Proc(p)].intena]

Picked(c) ==
    LET p == th[on[c]].pick IN
    /\ At(c, "picked")
    /\ IF state[p] = "runnable"
       THEN /\ state' = [state EXCEPT ![p] = "running"]
            /\ Resume(c, p)
       ELSE UNCHANGED <<state, on, intena>>
    /\ Goto(c, "unpick")
    /\ UNCHANGED <<locks, irq, noff, elr, killed, ticks, targets, first, panic, wild>>

\* sched: back to the scheduler of the CPU, in state st, to go on at label pc.
SchedTo(c, st, pc) ==
    LET p == Myproc(c) IN
    /\ panic' = (~Holding(c, p) \/ noff[c] # 1 \/ irq[c])
    /\ state' = [state EXCEPT ![p] = st]
    /\ Become(c, [th[on[c]] EXCEPT !.pc = pc, !.intena = intena[c]])
    /\ on' = [on EXCEPT ![c] = Sched(c)]
    /\ UNCHANGED <<locks, mask, elr, killed, ticks, targets, first, wild>>

Yield(c) == At(c, "y_sched") /\ state[Myproc(c)] = "running" /\ SchedTo(c, "runnable", "y_rel")
Sleep(c) == At(c, "s_sched") /\ SchedTo(c, "sleeping", "s_wake")

\* exit has given up wait_lock and holds p->lock, under which it has changed its state.
\* Whom it wakes and gives to init is in Proc.
Exit(c) == At(c, "e_sched") /\ SchedTo(c, "zombie", "exited")

(***************************************************************************)
(* forkret, with interrupts on after its release.                          *)
(***************************************************************************)
Forkret(c) ==
    /\ At(c, "f_first")
    /\ first' = FALSE
    /\ Goto(c, IF first THEN "f_init" ELSE "trapret")
    /\ UNCHANGED <<locks, mask, elr, on, procs, ticks, targets, panic, wild>>

\* fsinit: some calls of virtio_disk_rw.  The sections of bcache.lock and of the sleep
\* locks around them do not sleep, since no other process is there yet, and are left
\* out.
Fsinit(c) ==
    /\ At(c, "f_init")
    /\ \E pc \in {"f_lock", "trapret"} : Goto(c, pc)
    /\ UNCHANGED <<locks, mask, elr, on, procs, ticks, targets, first, panic, wild>>

\* virtio_disk_rw finds b->disk 1 or 0, and sleeps until the disk is done.
DiskTest(c) ==
    /\ At(c, "f_test")
    /\ \E pc \in {"f_own", "f_rel"} : Goto(c, pc)
    /\ UNCHANGED <<locks, mask, elr, on, procs, ticks, targets, first, panic, wild>>

DiskSleep(c) == At(c, "f_sched") /\ SchedTo(c, "sleeping", "f_wake")

(***************************************************************************)
(* Interrupts.                                                             *)
(***************************************************************************)
\* The timer or a device interrupts: the CPU masks interrupts and saves where it was
\* in ELR_EL1.  An interrupt that comes while they are masked waits.
Irq(c) ==
    /\ ~panic /\ ~wild /\ irq[c]
    /\ irq' = [irq EXCEPT ![c] = FALSE]
    /\ elr' = [elr EXCEPT ![c] = IF Pc(c) = "user" THEN "user" ELSE "kernel"]
    /\ Become(c, [th[on[c]] EXCEPT !.pc = "irq", !.back = Pc(c), !.ret = "irq_ret"])
    /\ UNCHANGED <<locks, noff, intena, on, procs, ticks, targets, first, panic, wild>>

\* intrs: timerintr, which counts on CPU 0 alone, and virtio_disk_intr.
Handler(c, id) ==
    CASE id = TIMER /\ c = 0 -> "t_lock" [] id = DEVICE -> "d_lock" [] OTHER -> "irq_done"

\* irqhandle, when GICC_IAR reads id: SPURIOUS, when another CPU has taken the
\* interrupt of a device.
Irqhandle(c, id) ==
    /\ At(c, "irq")
    /\ id # TIMER => c \in targets
    /\ id = SPURIOUS => targets # {c}
    /\ wild' = (id >= IRQ_MAX_COUNT)
    /\ Become(c, [th[on[c]] EXCEPT !.is_timer = (id = TIMER), !.pc = Handler(c, id)])
    /\ UNCHANGED <<locks, mask, elr, on, procs, ticks, targets, first, panic>>

\* timerintr.
Tick(c) ==
    /\ At(c, "t_tick")
    /\ ticks' = (ticks + 1) % TickMod
    /\ Goto(c, "t_wake")
    /\ UNCHANGED <<locks, mask, elr, on, procs, targets, first, panic, wild>>

\* wakeup of the others that sleep to go on at label at.
WakeAll(c, at) ==
    /\ \A q \in Procs \ {Myproc(c)} : locks[q] = None
    /\ state' = [q \in Procs |->
                   IF state[q] = "sleeping" /\ q # Myproc(c) /\ th[Proc(q)].pc = at
                   THEN "runnable" ELSE state[q]]
    /\ UNCHANGED <<locks, mask, elr, on, killed, ticks, targets, first, panic, wild>>

Wakeup(c) == At(c, "t_wake") /\ WakeAll(c, "s_wake") /\ Goto(c, "t_rel")

\* virtio_disk_intr, which may find nothing to do.
DiskIntr(c) ==
    /\ At(c, "d_wake")
    /\ Goto(c, "d_rel")
    /\ \/ WakeAll(c, "f_wake")
       \/ UNCHANGED <<locks, mask, elr, on, procs, ticks, targets, first, panic, wild>>

\* irqintr, after irqhandle.  killed takes the lock of the process.
IrqDone(c) ==
    LET p == Myproc(c) IN
    /\ At(c, "irq_done") /\ (p # None => locks[p] = None)
    /\ Goto(c, CASE p # None /\ killed[p] -> "e_wait"
                 [] p # None /\ ~killed[p] /\ th[on[c]].is_timer -> "y_lock"
                 [] OTHER -> "irq_ret")
    /\ UNCHANGED <<locks, mask, elr, on, procs, ticks, targets, first, panic, wild>>

\* Fault: the way back to user mode relies on what the interrupt left in ELR_EL1.
IrqRetNoLoad(c) ==
    /\ At(c, "irq_ret")
    /\ IF th[on[c]].back = "user"
       THEN Goto(c, "eret") /\ UNCHANGED <<elr, irq>>
       ELSE /\ Goto(c, th[on[c]].back)
            /\ elr' = [elr EXCEPT ![c] = "kernel"]
            /\ irq' = [irq EXCEPT ![c] = TRUE]
    /\ UNCHANGED <<locks, noff, intena, on, procs, ticks, targets, first, panic, wild>>

\* To user mode through trapret, else el1_load_trap_frame_and_ret.
IrqRet(c) ==
    /\ At(c, "irq_ret")
    /\ IF th[on[c]].back = "user"
       THEN Goto(c, "trapret") /\ UNCHANGED <<elr, irq>>
       ELSE /\ Goto(c, th[on[c]].back)
            /\ elr' = [elr EXCEPT ![c] = "kernel"]
            /\ irq' = [irq EXCEPT ![c] = TRUE]
    /\ UNCHANGED <<locks, noff, intena, on, procs, ticks, targets, first, panic, wild>>

\* el0_load_trap_frame_and_ret: ELR_EL1 is loaded, then eret goes where it points
\* to.  A thread that was interrupted in between goes back to the eret.
LoadElr(c) ==
    /\ At(c, "trapret")
    /\ elr' = [elr EXCEPT ![c] = "user"]
    /\ Goto(c, "eret")
    /\ UNCHANGED <<locks, mask, on, procs, ticks, targets, first, panic, wild>>

Eret(c) ==
    /\ At(c, "eret") /\ elr[c] = "user"
    /\ irq' = [irq EXCEPT ![c] = TRUE]
    /\ Become(c, [th[on[c]] EXCEPT !.pc = "user", !.new = FALSE])
    /\ UNCHANGED <<locks, noff, intena, elr, on, procs, ticks, targets, first, panic, wild>>

(***************************************************************************)
(* System calls, which run with interrupts off.                            *)
(***************************************************************************)
\* svcintr on behalf of the running process, which goes on with thread record r.
Svc(c, r) ==
    /\ At(c, "user")
    /\ irq' = [irq EXCEPT ![c] = FALSE]
    /\ Become(c, r)
    /\ UNCHANGED <<locks, noff, intena, elr, on, ticks, targets, first, panic, wild>>
Call(c, pc) == [th[on[c]] EXCEPT !.pc = pc, !.ret = "svc_done"]

SysYield(c) == Svc(c, Call(c, "y_lock")) /\ UNCHANGED procs
SysSleep(c, n) == Svc(c, [Call(c, "s_lock") EXCEPT !.n = n % TickMod]) /\ UNCHANGED procs

\* exit, and defintr for a fault.
SysExit(c) == Myproc(c) # First /\ Svc(c, Call(c, "e_wait")) /\ UNCHANGED procs

\* kill, fork and wait hold the lock of q, fork and wait wait_lock too.
SysKill(c, q) ==
    /\ q # First /\ locks[q] = None /\ state[q] # "unused"
    /\ Svc(c, Call(c, "svc_done"))
    /\ killed' = [killed EXCEPT ![q] = TRUE]
    /\ state' = [state EXCEPT ![q] = IF @ = "sleeping" THEN "runnable" ELSE @]

SysFork(c, q) ==
    /\ At(c, "user") /\ state[q] = "unused" /\ locks[q] = None /\ locks["wait"] = None
    /\ irq' = [irq EXCEPT ![c] = FALSE]
    /\ th' = [th EXCEPT ![on[c]] = Call(c, "svc_done"), ![Proc(q)] = Thread("forkret")]
    /\ state' = [state EXCEPT ![q] = "runnable"] /\ killed' = [killed EXCEPT ![q] = FALSE]
    /\ UNCHANGED <<locks, noff, intena, elr, on, ticks, targets, first, panic, wild>>

SysWait(c, q) ==
    /\ state[q] = "zombie" /\ locks[q] = None /\ locks["wait"] = None
    /\ Svc(c, Call(c, "svc_done"))
    /\ state' = [state EXCEPT ![q] = "unused"]
    /\ UNCHANGED killed

\* sys_sleep: both operands of < are unsigned.
SleepRead(c) ==
    /\ At(c, "s_read")
    /\ Become(c, [th[on[c]] EXCEPT !.ticks0 = ticks, !.pc = "s_test"])
    /\ UNCHANGED <<locks, mask, elr, on, procs, ticks, targets, first, panic, wild>>

Due(t) == (ticks - th[t].ticks0) % TickMod >= th[t].n

SleepTest(c) ==
    /\ At(c, "s_test") /\ locks[Myproc(c)] = None
    /\ Goto(c, IF Due(on[c]) \/ killed[Myproc(c)] THEN "s_rel" ELSE "s_own")
    /\ UNCHANGED <<locks, mask, elr, on, procs, ticks, targets, first, panic, wild>>

SvcDone(c) ==
    /\ At(c, "svc_done") /\ locks[Myproc(c)] = None
    /\ Goto(c, IF killed[Myproc(c)] THEN "e_wait" ELSE "trapret")
    /\ UNCHANGED <<locks, mask, elr, on, procs, ticks, targets, first, panic, wild>>

Halted == (panic \/ wild) /\ UNCHANGED vars

Next ==
    \/ \E c \in Cpus :
         \/ Gichartinit(c) \/ Cpuset(c) \/ Start(c)
         \/ AcquireStart(c) \/ Acquire(c) \/ Release(c)
         \/ IntrOn(c) \/ Picked(c) \/ Yield(c) \/ Exit(c) \/ Sleep(c)
         \/ Forkret(c) \/ Fsinit(c) \/ DiskTest(c) \/ DiskSleep(c) \/ DiskIntr(c)
         \/ Irq(c) \/ Tick(c) \/ Wakeup(c) \/ IrqDone(c) \/ IrqRet(c)
         \/ LoadElr(c) \/ Eret(c)
         \/ SysYield(c) \/ SysExit(c) \/ SleepRead(c) \/ SleepTest(c) \/ SvcDone(c)
         \/ \E id \in {TIMER, DEVICE, SPURIOUS} : Irqhandle(c, id)
         \/ \E n \in Sleeps : SysSleep(c, n)
         \/ \E q \in Procs : Pick(c, q) \/ SysKill(c, q) \/ SysFork(c, q) \/ SysWait(c, q)
    \/ Halted

Spec == Init /\ [][Next]_vars
---------------------------------------------------------------------------
\* acquire, release, pop_off and sched: none of their panics happens, whatever
\* CPUs a thread moves between and wherever it is interrupted.
NoPanic == ~panic

\* push_off: interrupts are on in user mode, at the top of the scheduler's loop, and
\* in forkret and the first return of a new process, and never while the CPU holds
\* a spinlock.
MaskedInKernel ==
    \A c \in Cpus : irq[c] =>
        /\ noff[c] = 0 /\ \A l \in Locks : locks[l] # c
        /\ \/ Pc(c) \in {"user", "idle", "pick"}
           \/ /\ th[on[c]].new
              /\ Pc(c) \in {"f_first", "f_init", "f_lock", "f_again", "trapret", "eret"}

\* el0_load_trap_frame_and_ret: the eret after a system call or an interrupt finds
\* in ELR_EL1 what was loaded.
ReturnsIntact ==
    \A c \in Cpus : Pc(c) = "eret" /\ ~th[on[c]].new => elr[c] = "user"

\* sys_sleep and timerintr: nobody sleeps on past its time, unless the handler is
\* about to wake it up.
WokenInTime ==
    \A p \in Procs : state[p] = "sleeping" /\ th[Proc(p)].pc = "s_wake" /\ Due(Proc(p))
                    => \E c \in Cpus : Pc(c) = "t_wake"

\* forkret, "Return" to user space: the first return of a process gets there.
NewReturns ==
    \A c \in Cpus : Pc(c) = "eret" => elr[c] = "user"
===========================================================================
