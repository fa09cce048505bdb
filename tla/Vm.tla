-------------------------------- MODULE Vm --------------------------------
(***************************************************************************)
(* Memory: the page allocator (kernel/kalloc.c), user page tables          *)
(* (kernel/vm.c), fork, growproc, exec and the freeing of a process        *)
(* (kernel/proc.c, kernel/exec.c), and the translations that each CPU      *)
(* caches.  Processes compete for the pages, so any kalloc may fail, and   *)
(* on other CPUs they take them between any two of a loop.                 *)
(*                                                                         *)
(* Sizes are in units of which a page has PG_SIZE.  A page table is a root *)
(* and tables of TabSize leaves each: the levels between are left out.     *)
(* The contents of pages are left out, and so is the order of the free     *)
(* list: kalloc takes the lowest page.                                     *)
(***************************************************************************)
EXTENDS Naturals, Sequences, FiniteSets

CONSTANTS
    Procs, Cpus,
    NPages,       \* pages of memory
    PG_SIZE,
    TabSize,      \* leaves in a table
    MaxSize,      \* bound: largest size of a process
    Segs,         \* the sizes that the segments of a program end at, rising
    Argcs,        \* how many arguments exec may be given
    Steps,        \* by what a process grows and shrinks
    Hot,          \* virtual pages that a program accesses
    First, None

ASSUME SizesAssumption ==
    /\ NPages \in Nat /\ PG_SIZE \in Nat \ {0} /\ TabSize \in Nat \ {0}
    /\ MaxSize \in Nat /\ Argcs \subseteq Nat /\ Steps \subseteq Nat \ {0}
    /\ Segs \in Seq(Nat \ {0}) /\ \A i \in 2 .. Len(Segs) : Segs[i - 1] <= Segs[i]
    /\ First \in Procs /\ None \notin Procs

Pages == 1 .. NPages
Least(S) == CHOOSE x \in S : \A y \in S : x <= y

\* PG_ROUND_UP(size) / PG_SIZE, and the virtual pages of the largest process.
PagesFor(size) == (size + PG_SIZE - 1) \div PG_SIZE
VPages == 0 .. PagesFor(MaxSize) + 3

\* Page tables: of a process, and the one that exec builds or takes down.
Tables == Procs \X {"cur", "new"}
NoTable == [root |-> 0, tabs |-> [x \in 0 .. PagesFor(MaxSize) + 3 |-> 0],
            leaf |-> [v \in VPages |-> 0], guard |-> {}]

Idle == [op |-> "none", t |-> None, a |-> 0, end |-> 0, size |-> 0, seg |-> 0, argv |-> {}]

VARIABLES
    free,          \* kmem.freelist
    pt,            \* page tables
    size, kstack, state,   \* of processes
    reg,           \* what a process does in the kernel
    cpu, ttbr,     \* process and translation table of each CPU
    tlb,           \* translations that it has cached, as <<virtual page, page>>
    stale,         \* those of them that uvmdealloc has made invalid
    panic

procs == <<size, kstack, state>>
mmu == <<cpu, ttbr, tlb, stale>>
vars == <<free, pt, procs, reg, mmu, panic>>

\* userinit: one page of code.
Init ==
    /\ free = 5 .. NPages
    /\ pt = [t \in Tables |-> IF t # <<First, "cur">> THEN NoTable
                ELSE [NoTable EXCEPT !.root = 2, !.tabs[0] = 3, !.leaf[0] = 4]]
    /\ size = [p \in Procs |-> IF p = First THEN PG_SIZE ELSE 0]
    /\ kstack = [p \in Procs |-> IF p = First THEN 1 ELSE 0]
    /\ state = [p \in Procs |-> IF p = First THEN "live" ELSE "unused"]
    /\ reg = [p \in Procs |-> Idle]
    /\ cpu = [c \in Cpus |-> None] /\ ttbr = [c \in Cpus |-> 0]
    /\ tlb = [c \in Cpus |-> {}] /\ stale = [c \in Cpus |-> {}]
    /\ panic = FALSE

\* The page that kalloc takes, and kfree of the pages in S, where 0 is none.
Kalloc == Least(free)
Kfree(S) == (free \cup S) \ {0}

Runs(p) == \E c \in Cpus : cpu[c] = p
At(p, op) == Runs(p) /\ reg[p].op = op
Goto(p, op) == reg' = [reg EXCEPT ![p].op = op]

(***************************************************************************)
(* Page tables.                                                            *)
(***************************************************************************)
Leaves(t, from, to) == {t.leaf[v] : v \in from .. to - 1}
TabPages(t) == {t.tabs[x] : x \in DOMAIN t.tabs} \ {0}

\* uvmunmap of the virtual pages from .. to - 1, which must be mapped.
Unmapped(t, from, to) ==
    [t EXCEPT !.leaf = [v \in VPages |-> IF v \in from .. to - 1 THEN 0 ELSE @[v]],
              !.guard = @ \ (from .. to - 1)]
UnmapPanics(t, from, to) == 0 \in Leaves(t, from, to)

\* Fault: the pages of the tables are not freed.
TablePagesRoot(t, sz) == Leaves(t, 0, PagesFor(sz)) \cup {t.root}

\* uvmfree: the pages that go when a process has size sz.
TablePages(t, sz) == Leaves(t, 0, PagesFor(sz)) \cup TabPages(t) \cup {t.root}

\* What uvmfree must not meet: a page that is not mapped, where uvmunmap panics, and
\* a leaf that is left over.  freewalk has a panic for that, but cannot tell a leaf
\* from a table (MM_TYPE_PAGE is MM_TYPE_TABLE) and would walk the page as a table;
\* both count as a panic here.
FreePanics(t, sz) ==
    \/ UnmapPanics(t, 0, PagesFor(sz))
    \/ \E v \in VPages : v >= PagesFor(sz) /\ t.leaf[v] # 0

\* mappages: a page for virtual page v, and a table when it has none.
NeedsTab(t, v) == t.tabs[v \div TabSize] = 0
WithPage(t, v) ==
    LET tab == Least(free \ {Kalloc}) IN
    [t EXCEPT !.leaf[v] = Kalloc,
              !.tabs[v \div TabSize] = IF NeedsTab(t, v) THEN tab ELSE @]

\* uvmcreate: table t has page g for a root, and nothing mapped.
Uvmcreate(t, g) == [pt EXCEPT ![t].root = g]

\* uvmclear: user code loses page v.
Uvmclear(t, v) == [t EXCEPT !.guard = @ \cup {v}]

\* The translation of virtual page v for user code: none for the guard page.
Walkaddr(t, v) == IF v \in t.guard THEN 0 ELSE t.leaf[v]

(***************************************************************************)
(* uvmalloc and uvmcopy: one page after the other.                         *)
(***************************************************************************)
Loops == {"grow", "fork", "seg", "stack"}

MapPage(p) ==
    LET r == reg[p]
        t == pt[r.t]
    IN
    /\ Runs(p) /\ r.op \in Loops /\ r.a < r.end
    /\ Cardinality(free) >= (IF NeedsTab(t, r.a) THEN 2 ELSE 1)
    /\ panic' = (panic \/ t.leaf[r.a] # 0 \/ (r.op = "fork" /\ pt[<<p, "cur">>].leaf[r.a] = 0))
    /\ pt' = [pt EXCEPT ![r.t] =
                 [WithPage(t, r.a) EXCEPT !.guard =
                     IF r.op = "fork" /\ r.a \in pt[<<p, "cur">>].guard THEN @ \cup {r.a} ELSE @]]
    /\ free' = free \ ({pt'[r.t].leaf[r.a]} \cup TabPages(pt'[r.t]))
    /\ reg' = [reg EXCEPT ![p].a = @ + 1]
    /\ UNCHANGED <<procs, mmu>>

\* kalloc fails, for the page or for a table (the page is then freed): uvmalloc
\* and uvmcopy unmap what they have mapped.
MapFails(p) ==
    LET r == reg[p]
        t == pt[r.t]
        from == IF r.op = "fork" THEN 0 ELSE PagesFor(r.size)
    IN
    /\ Runs(p) /\ r.op \in Loops /\ r.a < r.end
    /\ Cardinality(free) < (IF NeedsTab(t, r.a) THEN 2 ELSE 1)
    /\ pt' = [pt EXCEPT ![r.t] = Unmapped(t, from, r.a)]
    /\ free' = Kfree(Leaves(t, from, r.a))
    /\ panic' = (panic \/ UnmapPanics(t, from, r.a))
    /\ reg' = [reg EXCEPT ![p] =
                 CASE r.op = "grow" -> Idle
                   [] r.op = "fork" -> [r EXCEPT !.op = "fork_bad"]
                   [] OTHER -> [r EXCEPT !.op = "bad"]]
    /\ UNCHANGED <<procs, mmu>>

Mapped(p, op) == At(p, op) /\ reg[p].a = reg[p].end

(***************************************************************************)
(* growproc.                                                               *)
(***************************************************************************)
Cur(p) == <<p, "cur">>
New(p) == <<p, "new">>

Grow(p, n) ==
    /\ At(p, "none") /\ size[p] + n <= MaxSize
    /\ reg' = [reg EXCEPT ![p] = [Idle EXCEPT !.op = "grow", !.t = Cur(p),
                 !.a = PagesFor(size[p]), !.end = PagesFor(size[p] + n), !.size = size[p],
                 !.seg = size[p] + n]]
    /\ UNCHANGED <<free, pt, procs, mmu, panic>>

GrowEnd(p) ==
    /\ Mapped(p, "grow")
    /\ size' = [size EXCEPT ![p] = reg[p].seg]
    /\ reg' = [reg EXCEPT ![p] = Idle]
    /\ UNCHANGED <<free, pt, kstack, state, mmu, panic>>

\* uvmdealloc leaves what the CPU has cached.
Shrink(p, n) ==
    LET from == PagesFor(size[p] - n)
        to == PagesFor(size[p])
        t == pt[Cur(p)]
    IN
    /\ At(p, "none") /\ n <= size[p]
    /\ pt' = [pt EXCEPT ![Cur(p)] = Unmapped(t, from, to)]
    /\ free' = Kfree(Leaves(t, from, to))
    /\ panic' = (panic \/ UnmapPanics(t, from, to))
    /\ size' = [size EXCEPT ![p] = @ - n]
    /\ stale' = [c \in Cpus |-> stale[c] \cup
                    IF cpu[c] = p THEN {e \in tlb[c] : e[1] \in from .. to - 1} ELSE {}]
    /\ UNCHANGED <<kstack, state, reg, cpu, ttbr, tlb>>

SysSbrk(p, n) == Grow(p, n) \/ Shrink(p, n)

(***************************************************************************)
(* fork, exit, wait.                                                       *)
(***************************************************************************)
\* allocproc takes a stack and a root, else fork fails and keeps neither.
Fork(p, q) ==
    /\ At(p, "none") /\ state[q] = "unused" /\ Cardinality(free) >= 2
    /\ state' = [state EXCEPT ![q] = "used"]
    /\ kstack' = [kstack EXCEPT ![q] = Kalloc]
    /\ pt' = Uvmcreate(Cur(q), Least(free \ {Kalloc}))
    /\ free' = free \ {kstack'[q], pt'[Cur(q)].root}
    /\ reg' = [reg EXCEPT ![p] = [Idle EXCEPT !.op = "fork", !.t = Cur(q),
                                              !.end = PagesFor(size[p])]]
    /\ UNCHANGED <<size, mmu, panic>>

ForkEnd(p) ==
    LET q == reg[p].t[1] IN
    /\ Mapped(p, "fork")
    /\ size' = [size EXCEPT ![q] = size[p]]
    /\ state' = [state EXCEPT ![q] = "live"]
    /\ reg' = [reg EXCEPT ![p] = Idle]
    /\ UNCHANGED <<free, pt, kstack, mmu, panic>>

\* Fault: the size stays in the table.
FreeprocKeepsSize(q) ==
    /\ panic' = (panic \/ FreePanics(pt[Cur(q)], size[q]))
    /\ free' = Kfree(TablePages(pt[Cur(q)], size[q]) \cup {kstack[q]})
    /\ pt' = [pt EXCEPT ![Cur(q)] = NoTable]
    /\ kstack' = [kstack EXCEPT ![q] = 0]
    /\ state' = [state EXCEPT ![q] = "unused"]
    /\ UNCHANGED size

Freeproc(q) ==
    /\ panic' = (panic \/ FreePanics(pt[Cur(q)], size[q]))
    /\ free' = Kfree(TablePages(pt[Cur(q)], size[q]) \cup {kstack[q]})
    /\ pt' = [pt EXCEPT ![Cur(q)] = NoTable]
    /\ kstack' = [kstack EXCEPT ![q] = 0]
    /\ size' = [size EXCEPT ![q] = 0]
    /\ state' = [state EXCEPT ![q] = "unused"]

ForkBad(p) ==
    /\ At(p, "fork_bad")
    /\ Freeproc(reg[p].t[1])
    /\ reg' = [reg EXCEPT ![p] = Idle]
    /\ UNCHANGED mmu

\* The CPU keeps the translation table of the zombie.
Exit(c, p) ==
    /\ At(p, "none") /\ p # First /\ cpu[c] = p
    /\ state' = [state EXCEPT ![p] = "zombie"]
    /\ cpu' = [cpu EXCEPT ![c] = None]
    /\ UNCHANGED <<free, pt, size, kstack, reg, ttbr, tlb, stale, panic>>

Wait(p, q) ==
    /\ At(p, "none") /\ state[q] = "zombie"
    /\ Freeproc(q)
    /\ UNCHANGED <<reg, mmu>>

(***************************************************************************)
(* sys_exec and exec.  reg.size is what uvmfree of the new table is given. *)
(***************************************************************************)
LowestPages(n) == {g \in free : Cardinality({h \in free : h <= g}) <= n}

\* A page for each argument, all given back when one cannot be had.
Exec(p, n) ==
    LET args == LowestPages(n) IN
    /\ At(p, "none") /\ n <= Cardinality(free)
    /\ reg' = [reg EXCEPT ![p] = [Idle EXCEPT !.op = "exec", !.t = New(p), !.argv = args]]
    /\ free' = free \ args
    /\ UNCHANGED <<pt, procs, mmu, panic>>

\* The header is read and the table created, or not.
ExecCreate(p) ==
    /\ At(p, "exec") /\ free # {}
    /\ pt' = Uvmcreate(New(p), Kalloc)
    /\ free' = free \ {Kalloc}
    /\ reg' = [reg EXCEPT ![p].op = "seg", ![p].seg = 1, ![p].end = PagesFor(Segs[1])]
    /\ UNCHANGED <<procs, mmu, panic>>

\* The segment is mapped: it is loaded, and the next one or the stack is to come.
ExecSeg(p) ==
    LET r == reg[p] IN
    /\ Mapped(p, "seg")
    /\ reg' = [reg EXCEPT ![p] = [r EXCEPT
                 !.size = Segs[r.seg], !.seg = @ + 1,
                 !.op = IF r.seg = Len(Segs) THEN "stack" ELSE "seg",
                 !.end = IF r.seg = Len(Segs) THEN @ + 2 ELSE PagesFor(Segs[r.seg + 1])]]
    /\ UNCHANGED <<free, pt, procs, mmu, panic>>

\* The first page of the stack is the guard; the arguments are copied.
ExecStack(p) ==
    LET r == reg[p] IN
    /\ Mapped(p, "stack")
    /\ pt' = [pt EXCEPT ![New(p)] = Uvmclear(@, r.end - 2)]
    /\ reg' = [reg EXCEPT ![p].op = "commit", ![p].size = r.end * PG_SIZE]
    /\ UNCHANGED <<free, procs, mmu, panic>>

\* exec is in the file system: it looks the file up, or reads a header or a segment.
Reads(p) ==
    \/ reg[p].op = "exec"
    \/ reg[p].op \in {"seg", "stack"} /\ reg[p].a = PagesFor(reg[p].size)

\* A bad header, a short file, arguments that do not fit.
ExecRefused(p) ==
    /\ Runs(p) /\ (Reads(p) \/ At(p, "commit"))
    /\ Goto(p, "bad")
    /\ UNCHANGED <<free, pt, procs, mmu, panic>>

\* The point of no return, with uvmswitch.
ExecCommit(c, p) ==
    /\ At(p, "commit") /\ cpu[c] = p
    /\ pt' = [pt EXCEPT ![Cur(p)] = pt[New(p)], ![New(p)] = pt[Cur(p)]]
    /\ size' = [size EXCEPT ![p] = reg[p].size]
    /\ ttbr' = [ttbr EXCEPT ![c] = pt[New(p)].root]
    /\ tlb' = [tlb EXCEPT ![c] = {}] /\ stale' = [stale EXCEPT ![c] = {}]
    /\ reg' = [reg EXCEPT ![p].op = "free_old", ![p].size = size[p]]
    /\ UNCHANGED <<free, kstack, state, cpu, panic>>

\* uvmfree of the old table, or of the new one after a failure, and the pages of
\* the arguments.
ExecEnd(p) ==
    LET r == reg[p]
        t == pt[New(p)]
    IN
    /\ At(p, "free_old") \/ At(p, "bad")
    /\ free' = Kfree(r.argv \cup (IF t.root = 0 THEN {} ELSE TablePages(t, r.size)))
    /\ panic' = (panic \/ (t.root # 0 /\ FreePanics(t, r.size)))
    /\ pt' = [pt EXCEPT ![New(p)] = NoTable]
    /\ reg' = [reg EXCEPT ![p] = Idle]
    /\ UNCHANGED <<procs, mmu>>

(***************************************************************************)
(* The CPUs.                                                               *)
(***************************************************************************)
\* Fault: what the CPU has cached for the last process stays.
SwitchKeeps(c, p) ==
    /\ cpu[c] = None /\ state[p] = "live" /\ ~Runs(p)
    /\ cpu' = [cpu EXCEPT ![c] = p]
    /\ ttbr' = [ttbr EXCEPT ![c] = pt[Cur(p)].root]
    /\ UNCHANGED <<free, pt, procs, reg, tlb, stale, panic>>

\* scheduler and uvmswitch: lttbr0 empties the TLB.
Switch(c, p) ==
    /\ cpu[c] = None /\ state[p] = "live" /\ ~Runs(p)
    /\ cpu' = [cpu EXCEPT ![c] = p]
    /\ ttbr' = [ttbr EXCEPT ![c] = pt[Cur(p)].root]
    /\ tlb' = [tlb EXCEPT ![c] = {}] /\ stale' = [stale EXCEPT ![c] = {}]
    /\ UNCHANGED <<free, pt, procs, reg, panic>>

\* The timer preempts user code only: a system call runs with interrupts off, and
\* leaves the CPU where it sleeps, which exec does in namei, readi and end_op.
Leave(c) ==
    LET p == cpu[c] IN
    /\ p # None /\ (reg[p].op = "none" \/ Reads(p))
    /\ cpu' = [cpu EXCEPT ![c] = None]
    /\ UNCHANGED <<free, pt, procs, reg, ttbr, tlb, stale, panic>>

\* The MMU caches a translation of the running program.
Access(c, p, v) ==
    /\ cpu[c] = p /\ reg[p].op = "none" /\ ttbr[c] = pt[Cur(p)].root
    /\ Walkaddr(pt[Cur(p)], v) # 0
    /\ ~\E e \in tlb[c] : e[1] = v
    /\ tlb' = [tlb EXCEPT ![c] = @ \cup {<<v, pt[Cur(p)].leaf[v]>>}]
    /\ UNCHANGED <<free, pt, procs, reg, cpu, ttbr, stale, panic>>

Kernel(p) ==
    \/ MapPage(p) \/ MapFails(p) \/ GrowEnd(p) \/ ForkEnd(p) \/ ForkBad(p)
    \/ ExecCreate(p) \/ ExecSeg(p) \/ ExecStack(p) \/ ExecRefused(p) \/ ExecEnd(p)
    \/ \E n \in Steps : SysSbrk(p, n)
    \/ \E q \in Procs : Fork(p, q) \/ Wait(p, q)

Next ==
    \/ \E p \in Procs : Kernel(p)
    \/ \E p \in Procs, n \in Argcs : Exec(p, n)
    \/ \E c \in Cpus, p \in Procs :
          \/ ExecCommit(c, p) \/ Exit(c, p) \/ Switch(c, p)
          \/ \E v \in Hot : Access(c, p, v)
    \/ \E c \in Cpus : Leave(c)

Spec == Init /\ [][Next]_vars
---------------------------------------------------------------------------
\* kalloc, kfree and every error path of fork, growproc and exec: a page is free,
\* or has exactly one use.
PagesAccounted ==
    \A g \in Pages :
        Cardinality({t \in Tables : pt[t].root = g})
        + Cardinality({<<t, x>> \in Tables \X DOMAIN NoTable.tabs : pt[t].tabs[x] = g})
        + Cardinality({<<t, v>> \in Tables \X VPages : pt[t].leaf[v] = g})
        + Cardinality({p \in Procs : kstack[p] = g})
        + Cardinality({p \in Procs : g \in reg[p].argv})
        + (IF g \in free THEN 1 ELSE 0) = 1

\* uvmunmap and mappages never panic and freewalk never meets a leaf: what a process
\* has mapped is what its size says, however far an operation came before it failed.
NoPanic == ~panic

\* uvmswitch: a CPU translates with the table of the process it runs, and has
\* cached nothing but that, except for what uvmdealloc took from the process
\* since then.
TlbFollows ==
    \A c \in Cpus : cpu[c] # None =>
        /\ ttbr[c] = pt[Cur(cpu[c])].root
        /\ \A e \in tlb[c] : pt[Cur(cpu[c])].leaf[e[1]] = e[2] \/ e \in stale[c]
===========================================================================
