# A TLA+ verification of the xv6 port to ARMv8

The repository is a port of the xv6 teaching kernel to 64-bit ARM (QEMU
`virt`, GICv2, PL011 UART, virtio-mmio disk).  This directory holds TLA+ models
of its parts, the TLC configurations that check them on small instances, and
TLAPS proofs of the properties that matter most.

## 1. The system and its parts

| part | source | state | operations | talks to |
|---|---|---|---|---|
| spinlocks, per-CPU interrupt nesting | `spinlock.c`, `proc.h` | `locked`, `cpu`; `noff`, `intena`, DAIF | `acquire`, `release`, `holding`, `push_off`, `pop_off` | everyone |
| sleep locks | `sleeplock.c` | `locked`, `pid` | `acquiresleep`, `releasesleep`, `holdingsleep` | process table, buffers, inodes |
| process table and scheduler | `proc.c`, `swtch.S`, `sysproc.c` | `proc[]`, `cpus[]`, `wait_lock`, `nextpid` | `fork`, `exit`, `wait`, `kill`, `sleep`, `wakeup`, `yield`, `sched`, `scheduler`, `forkret` | all blocking code |
| traps, system calls, timer | `trap.c`, `trapasm.S`, `syscall.c`, `timer.c` | trap frames, `ticks` | `svcintr`, `irqintr`, `trapret`, `sys_sleep`, `sys_uptime` | process table, drivers |
| GIC | `gic.c` | distributor, handler table | `intrset`, `irqhandle`, `gichartinit` | traps, drivers |
| physical pages | `kalloc.c` | free list | `kalloc`, `kfree` | page tables, processes, pipes |
| page tables, TLB | `vm.c`, `exec.c` | page tables, `p->size`, TTBR0 | `mappages`, `uvmunmap`, `uvmalloc`, `uvmdealloc`, `uvmcopy`, `copyin`, `copyout`, `exec` | pages, processes |
| disk driver | `virtio_disk.c` | descriptor table, avail/used rings, `info[]` | `virtio_disk_rw`, `virtio_disk_intr` | buffers, process table |
| buffer cache | `bio.c` | `bcache` list, `refcnt`, `valid` | `bread`, `bwrite`, `brelse`, `bpin`, `bunpin` | driver, log, file system |
| redo log | `log.c` | `log`, on-disk header and log blocks | `begin_op`, `log_write`, `end_op`, commit, recovery | buffers, file system |
| inodes and directories | `fs.c` | `itable`, on-disk inodes, bitmap | `ialloc`, `iget`, `iput`, `ilock`, `bmap`, `itrunc`, `readi`, `writei`, `dirlookup`, `dirlink`, `namex` | log, buffers |
| file table, file system calls | `file.c`, `sysfile.c` | `ftable`, `ofile[]`, `off` | `open`, `close`, `dup`, `read`, `write`, `link`, `unlink`, ... | inodes, pipes, console |
| pipes | `pipe.c` | ring `data`, `nread`, `nwrite`, open ends | `pipealloc`, `pipewrite`, `piperead`, `pipeclose` | file table, process table |
| UART and console | `uart.c`, `console.c` | transmit ring, `cons` input ring | `uartputc`, `uartstart`, `uartintr`, `consoleintr`, `consoleread`, `consolewrite` | process table, GIC |
| image builder | `mkfs/mkfs.c` | the disk image | `ialloc`, `iappend`, `balloc` | the on-disk format |
| user library and programs | `user/` | the heap of `umalloc.c` | `malloc`, `free`, the programs | system calls |

What is hard about it, and what correct means:

* **Interrupts and CPUs.** System calls run with interrupts masked on up to
  several CPUs; interrupt handlers run on any of them.  A process must never run
  on two CPUs, a kernel stack must not be freed under a running thread, and a
  wakeup that falls between a test and the sleep must not be lost.
* **Crashes.** The machine may stop between any two disk writes, also during
  recovery.  A file system call must be on the disk as a whole or not at all.
* **Limits.** Log space, buffers, descriptors, ring buffers, inode and file
  tables: at the limit the code sleeps, fails or panics, and only the reserve
  that callers keep decides which.
* **Rings with wrapping counters** in pipes, console and UART: bytes come out
  once and in order, and nobody sleeps while there is something for them to do.
* **Failure half-way**: `copyout` after a byte was taken, `fork` without memory,
  a writer killed in the middle of its call.
* **Sharing**: reference counts of buffers, inodes, files and pipe ends.

## 2. Modules

| module | models | abstract specification |
|---|---|---|
| `Log` | `log.c`, with recovery after a crash | `AtomicDisk` |
| `Proc` | `proc.c`: scheduler, `fork`, `exit`, `wait`, `kill`, `sleep`/`wakeup` in `wait` and `exit`; the checks of `trap.c` | |
| `Cpu` | `spinlock.c`, `trapasm.S`, `trap.c`, `gic.c`, `timer.c`, `sys_sleep`, `sched` and `swtch.S`, `start.c` | |
| `Vm` | `kalloc.c`, `vm.c`, `exec.c`, `growproc`, the memory side of `fork`, `exit`, `wait`; the TLBs | |
| `Virtio` | `virtio_disk.c` and the device | |
| `Bio` | `bio.c` and the sleep lock of each buffer (`sleeplock.c`) | |
| `Inodes` | the inode table, directories and path lookup of `fs.c`, `file.c`, the calls of `sysfile.c` | |
| `Blocks` | bitmap, `bmap`, `itrunc`, `readi`, `writei`, `dirlink` of `fs.c`, `filewrite`, the image of `mkfs.c` | |
| `Pipe` | `pipe.c`, with `fileclose` of its ends | `ByteStream` |
| `Uart` | `uart.c` and the PL011 | `ByteStream` |
| `Console` | the input side of `console.c` | `LineInput` |

`MC<name>` instantiates a module for TLC, its `.cfg` files give the constants
their values.  `<name>_proofs` holds the proofs about a module (section 4), and
`RingArith` the arithmetic of ring indices that several of them use.  An action
labelled `Fault` in a comment is not part of any specification: it is a plausible
bug that shows a property would notice it.

### Log

An action is one section of `log.lock` or one disk write, so a crash falls
between any two writes.  `pc` says where each process is between `begin_op` and
`end_op` and in `commit`.  `lh`, `outstanding` and `committing` are the fields of
`log`; `dlh`, `dlog` and `home` are the disk: header, log blocks, home blocks.
The buffer cache is what the log relies on: `cache`, `pin` and the buffer a
process holds (`held`).  `Modify` is the caller's change of a locked buffer and
`LogWrite` its `log_write` and `brelse`.  `ReleaseUnlogged` is `writei` when
`either_copyin` fails half-way (`fs.c:515`): the changed buffer is released
without `log_write`.  `Crash` throws memory away and keeps the disk; only the
first process runs until recovery is over.

`AtomicDisk` has two images of the disk: the durable one and the one the kernel
sees.  Calls change the second; one commit step, while no call is active, makes
it durable; a crash goes back to the durable image.  The mapping takes for the
durable image the home blocks with the committed log laid over them.  For the
other image it takes a buffer while it is locked or in the transaction, and the
home block otherwise: a change that was released unlogged is undone there, like
a second write of the call, although the cache shows it until the buffer is
recycled.

### Proc

The actors are the CPUs.  `plock` and `waitLock` hold the CPU that has the lock,
`cur` is `c->proc`.  A stretch between two acquisitions is an action: `exit`
takes five (`ExitBegin`, `Reparent`, `WakeParent`, `BecomeZombie`, `Swtch`),
`wait` takes `WaitLock`, then `Reap`, `ReapFault` (its `copyout` fails) or
`ScanDone`, then `Sleep`; `fork` takes `ForkAlloc`, `ForkParent` and `ForkRun`,
or `ForkFail` when `uvmcopy` fails.  `Halt` is the panic of `exit` called by
init.  Files and the working directory of a process are in `Inodes`, its memory
in `Vm`, the interrupt mask in `Cpu`.

### Cpu

The actors are CPUs that run threads: a process in the kernel or the scheduler of
a CPU.  `irq` is the interrupt mask, `noff` and `intena` are the fields of `struct
cpu`, `elr` is what `ELR_EL1` points to.  `Code` lists the labels at which a
thread acquires or releases a lock; acquiring takes two steps (`push_off`, then
the exchange), so that others run while a CPU spins.  The locks are `p->lock` of
each process, `tickslock`, the `wait_lock` that `exit` holds when it takes its own
lock, and `vdisk_lock`.  `Irq` may happen whenever interrupts are enabled, and
leads to `timerintr` or to `virtio_disk_intr`.  `Forkret` sends the first process
through `fsinit`, which reads the disk with interrupts on: `Fsinit`, `DiskTest` and
`DiskSleep` are its calls of `virtio_disk_rw`, as often as one likes; what is in
the blocks and when the disk is done is left open.  `Gichartinit`, `Cpuset` and `Start` are `start`: CPU 0
sets up and releases the others, and `cpuset` reads and writes the routing
register without a lock.  The device interrupt is the disk's; the interrupt of
the UART has a routing register that the 64-bit accesses of `GICD_REG` overwrite
whenever a CPU configures its timer.

### Vm

Sizes are in units of which a page has `PG_SIZE`.  A page table is a root, tables
of `TabSize` leaves and the leaves: two levels stand for the four of `walk`.
A loop over pages (`uvmalloc`, `uvmcopy`) takes a step per page, because other
CPUs take pages meanwhile and `kalloc` fails at any of them; `reg` holds what the
process is doing.  `tlb` is what each CPU has cached, and `Access` fills it.
`stale` marks entries that `uvmdealloc` made invalid.

### Virtio

`virtio_disk_rw` is split where the device can see a difference: the
descriptors, the ring entry, the index, the notification.  The device takes
requests when notified, completes them in any order and raises its interrupt;
the handler acknowledges and walks the used ring.  The ring indices wrap at
`IdxMod`, a multiple of `NUM`.

### Inodes

An action is a section of `itable.lock` or `ftable.lock`, or a section of an
inode's sleep lock.  `iput` is five steps, since it gives `itable.lock` up in the
middle.  What a call still has to unlock and put is a list, `later`, done before
the call goes on.  A directory is a function from names to inode numbers, and
entering a name may fail.  Paths start at the root or at the current directory.
The disk starts with the root and the files `Made` by `mkfs`.  When `itable` is full
`iget` panics with `itable.lock` held; the machine then stops (`Stopped`).

### Blocks

A block is `W` words, and a word says what was written.  `Init` is the image that
`mkfs` builds, step by step as `mkfs.c` does.  `filewrite` takes a step per block
and a transaction per chunk; operations on directories hold all the locks they
need and are one step.  `unlogged` collects blocks that changed without a
`log_write`.

### Bio

`list` is the LRU list; `bget` is one section of `bcache.lock` (a hit, a
recycled buffer, or the panic), then the acquisition of the sleep lock, which
may sleep, then the read.  A process has up to two buffers at once (`bmap` with
`balloc`, `itrunc` with `bfree`, `write_log`), so a user in the model is a process
with the first or the second of them; `Held` is how many a process works on.
`brelse` releases the sleep lock and then takes
`bcache.lock`, in two actions.  `latest` is a history variable: what was last
stored for each block.  Callers obey the rule of the log: a changed buffer is
written or pinned before it is released.

### Pipe

Each byte is an action, because `kill` needs no `pi->lock` and can fall between
any two tests of `killed(pr)`.  `nread` and `nwrite` wrap at `Wrap`, a multiple of
`PIPESIZE` as 2^32 is of 512.  `piperead` may lose a byte to a failing `copyout`.
Descriptors are the sets of ends a process holds.  A call may ask for no bytes
(a count of 0 or less).  `mute` remembers that a killed writer returned without
waking the readers (`pipe.c:90`), until somebody wakes them.

### Uart

Writers in `uartputc`, the handler `uartintr` on another CPU, and the device.
The read of `FR` and the write of `DR` are two steps, so the unlocked
`uartputc_sync` of the echo can come between those of `uartstart`.  The device
raises the receive interrupt when the FIFO reaches its trigger level; transmit
interrupts are not enabled by `uartsti`.

### Console

`consoleintr` edits the line between `w` and `e` and publishes it by `w = e`;
`consoleread` takes characters up to `w`.  `LineInput` is a queue of published
characters and the line under edit.

## 3. Runs

| run | instance | shows |
|---|---|---|
| `log` | 2 processes, 3 blocks, room for three blocks, `begin_op` reserves two of four | crashes at every write, absorption, two calls in one transaction: commit runs alone, pins match the log, write-ahead, no panic, sleepers have a waker, refinement of `AtomicDisk` |
| `proc` | 3 slots, 2 CPUs, pids up to 4, `kill(3)` | a kernel stack has one user and is freed after it, `wait`/`exit` without lost wakeup, every child has a parent that can wait; a process killed outside one window exits |
| `cpu_interrupts` | 2 processes, 2 CPUs, ticks modulo 4, `sleep(1)` and `sleep(-2)` | no panic of locks or `sched`, interrupts stay masked in the kernel, `ELR_EL1` survives to the `eret`, sleepers wake in time; `fsinit` with interrupts on included |
| `cpu_first_return` (violated) | the same | the first return of a process: section 6 |
| `vm_pages` | 2 processes, 2 CPUs, 12 pages, programs of two segments | each page has one use, page tables are freed with the right size, no foreign translations |
| `virtio_disk` | 3 processes, 7 descriptors (two requests) | descriptors have one owner, a finished request transferred its block, nobody sleeps on a finished request, each request ends |
| `bio_cache` | 2 processes, one of them with two buffers at once, 3 buffers, 4 blocks, 1 pin | counts, the holder of a buffer sees the latest contents, no panic while the buffers cover the pins and what processes have at once |
| `fs_tree` | 2 processes, 4 inodes, 3 table entries, one open file, names `a`, `b` and `c` from `mkfs` | names lead to inodes, reference counts add up, the table agrees with the disk, no panic but that of `iget` when the table is really in use |
| `fs_blocks` | 2 processes, 16 blocks of 2 words, 4 inodes, 4 calls | no block lost or shared, files read back, what is not logged is file data, transactions fit |
| `pipe` | 2 readers and 1 writer, the writer and one reader may be killed, ring of 2, counters modulo 4 | order, end of file, no sleep without reason unless a killed writer left bytes behind, page freed once |
| `uart_out` | 2 writers, ring and FIFO of 2, 2 characters of input | bytes go out once and in order, one is lost only to an echo, a writer sleeps only on a full ring |
| `console_lines` | 2 readers, ring of 3, indices modulo 6 | refinement of `LineInput`, no sleep on input |

**Bounds.**  Two actors show every race of two critical sections; a third is
there where someone must sleep while two others work (pipes, descriptors).  The
process table has init, a parent and its child; `MaxPid` allows three forks, so
that the last pids come in slots that were used before.  Rings are as small as
can be both full and partly filled, and counters wrap.  Seven descriptors leave
one over after two requests, so that allocation fails half-way.  The log area is
one block smaller than what `begin_op` hands out, as `mkfs` makes it; a call
logs one block (`OpBlocks`) and a transaction up to three, and the theorem
about the refinement covers all values.  In `vm_pages` twelve pages run out in
every loop, and `PG_SIZE` 2 with sizes up to 5 gives partly used pages.  In
`fs_blocks` the longer write is as long as the largest file.  `MaxCalls`, `MaxN`, `MaxWrite` and `Calls` bound what processes ask for.

`fs_tree` gives each process its own list of calls.  All directories there are
children of the root, because of the panic in section 6.  `KillArgs` leaves 0 out
for the reason given there.

**State spaces.**  Symmetry is used in safety runs only, for processes, blocks,
buffers and CPUs that no definition tells apart.  `cpu_interrupts`,
`vm_pages` and `fs_tree` identify states by `Live`, which leaves out what no step
reads before it is written again: a finished call's locals, the registers of an
idle CPU, the fields of an `itable` entry that is not in use or not valid, and the
absolute value of `ticks`.

**Deadlock** is checked except in `pipe` (every end may be closed), `uart_out`
(the writers may all be asleep for ever, see section 6), `fs_blocks` (`MaxCalls`
ends it) and `bio_cache` (the panic stops the machine).

**Fairness.**  Used in `proc` and `virtio_disk`.  Spinlocks are held for a bounded
time and a spinning CPU gets one in the end; the scheduler walks the whole table
for ever; the timer interrupts user code on every CPU.  So every step of a
process inside the kernel is fair: weakly where it stays possible, strongly where
a lock others also take may disable it.  Nothing is assumed of user programs,
except that init calls `wait(0)` for ever (`user/init.c`).  The disk answers each
request it was notified of, and its interrupt is taken.

## 4. Proofs

TLAPS proves the following for every number of actors and every value of the
sizes that the `ASSUME`s of a module allow.  These assumptions say no more than
the code has: finite sets of processes and buffers where they are counted, ring
sizes that divide the width of their counters, markers such as `None` that are
nothing else.  Each proof module defines one inductive invariant, has a lemma per
action that the action keeps it, and derives the properties of the runs from it.
TLC checks the properties themselves on the instances of section 3.

**`Log_proofs`** (`LogInv`).  `Refinement` (log.c implements `AtomicDisk`),
`WriteAheadHolds`, `CommitRunsAlone`, `PinsMatch`, `LogNeverOverruns`,
`TypeCorrect`.  The properties alone are not inductive: that
installing a block keeps the recovered disk needs to know that the log holds what
the cache holds (`PhaseInv`), that no block is in the log twice (`LogInjective`),
that nobody changes a buffer meanwhile (`OneCommitter` with `CountsCalls`, since
`begin_op` and `end_op` look at counters and not at processes), and that recovery
runs alone (`BootAlone`).  `Refinement` goes through the actions once more:
`WriteHead` is the commit of `AtomicDisk`, `Modify` and `ReleaseUnlogged` are its
write, `BeginOpEnter` and `EndOp` its begin and end, `Crash` its crash, and the rest
stutter.
Two more theorems have a hypothesis on the sizes.  `SleepersAlwaysCalled` needs
`MAXOPBLOCKS <= LOGSIZE`, or one call would never fit; it rests on `IdleEmpty`
(between transactions the log is empty).  `NeverPanics` needs `CallsFit`: a call
logs a little less than it reserves, 9 blocks of 10 with the code's values, see
section 6.  Its invariant `Space` counts, in the set `Spare`, the blocks that the
calls in progress may still add.

**`Proc_proofs`** (`ProcInv`).  `StackAlwaysOwned`, `WakeupNeverLost`,
`ParentAlwaysCanWait`.  The invariant says which CPU is on which process while
`p->lock` is held across `swtch` (`OnCpu`), that one process is in a section of
`wait_lock` (`WaitLockHeld`), that a child in the making has one maker
(`ForkChild`), and that who has given its children to init gets no new ones
(`ParentsAlive`).  No lost wakeup follows from `ZombiesSeen`, which covers the
steps of `exit` between its wakeup and the change of its state.

**`Bio_proofs`** (`BioInv`).  `RefsAlwaysCounted`, `HolderAlwaysSeesLatest`,
`BuffersSuffice`, `TwoEachSuffice`.  A valid buffer has what was last stored, and where the disk has
not, a valid buffer that is pinned or in use has (`DataLatest`); recycling keeps
this because `refcnt` counts users and pins exactly, also of who waits for the
sleep lock, and because no block has two buffers (`OneBuffer`).  `bget` panics only
when pins and buffers in use, of which a process has two at most, exceed the cache.

**`Pipe_proofs`** (`PipeInv`) and **`Console_proofs`** (`ConsoleInv`).
`PipeImplementsStream`, `PipeFreedOnce`, `EofAlwaysMeansClosed`;
`ConsoleImplementsLines`, `ReadersAlwaysWoken`.  The rings are related to
sequences by how far one index is ahead of another modulo the width; the lemmas
for that are in **`RingArith`**, which `Virtio_proofs` uses too.
`SleepersAlwaysServed`: nobody sleeps in a pipe that is ready, except readers after
a killed writer has left bytes and no wakeup (section 6).

**`Virtio_proofs`** (`VirtioInv`).  `DescsAlwaysAccounted`, `AlwaysTransferred`,
`NeverSleepOnDone`.  Each request has three descriptors that no other has
(`Chains`), so there are too few requests to overrun a ring of `NUM` entries
(`Counted`); a request is in exactly one place, the available ring, the device or
the used ring (`Stages`), in whatever order the device completes.

**`Cpu_proofs`** (`CpuInv`).  `SpinlocksNeverPanic`, `AlwaysMaskedInKernel`,
`AlwaysReturnsIntact`, `AlwaysWokenInTime`.  The label of a thread decides which
locks its CPU holds, how deep its `push_off`s are nested, and whether interrupts
may be on and `intena` set (`CpuOk`, `Holds`).  Most steps change one CPU and its
thread: `LocalStep` says what such a step must show, and `LocalStepInv` that the
other CPUs follow.  `SchedToInv` and `SwitchOutInv` are the switches, where the
process that leaves must be at a label at which any CPU can resume it
(`ParkedOk`).  `AlwaysReturnsIntact` excepts the first return of a process, where it
is false (section 6); `AlwaysMaskedInKernel` says where interrupts are on from
`forkret` to that return (`Open`): nowhere within a lock, though the `intena` with
which `fsinit` sleeps is set and moves to other CPUs with it.  A sleeper in
`sys_sleep` is protected by `tickslock` first and by `p->lock` then (`SleepOk`).

Only model-checked:

* All liveness (`RequestEnds`, `KilledAwakeExits`): beyond the prover.
* `Uart`: `OutputInOrder` compares with `SelectSeq`, a fold over data;
  `NoSleepOnRoom` has not been proved.
* `Inodes` and `Blocks`: `RefsAccounted` and `BlocksAccounted` are sums over
  tables, open files and lists of what a call still has to do; `ReadsBack` needs
  induction over the blocks of a file.
* `Vm`: not proved.

## 5. Not modelled

* Boot assembly and the constant page tables (`entry.S`, `kstruct.c`): straight
  code that runs once and alone.
* Copies between user and kernel memory (`copyin`, `copyout`, `copyinstr`):
  their failure is a choice in every module that uses them, their bytes are not.
* The fetching of system call arguments and the dispatch table (`syscall.c`).
* Formatting and strings (`printf.c`, `string.c`) and `panic`'s silencing of other
  CPUs.
* Priorities and trigger modes of the interrupt controller; memory barriers: the
  models are sequentially consistent.
* The user library and programs.  They are sequential; `umalloc.c` is the one part
  with a data structure of its own.
* The modules are not composed with each other.  Each takes the others at their
  interface: `Inodes` takes a call as atomic on disk because `Log` refines
  `AtomicDisk`, `Log` takes the buffer cache as `Bio` shows it, and `Bio` takes a
  disk transfer as `Virtio` shows it.

## 6. Where the code and its comments disagree

Shown by a run that TLC finds violated:

* `cpu_first_return`: the scheduler takes `p->lock` with interrupts enabled, so the
  release in `forkret` enables them again and the first return of a process runs
  with them on.  An interrupt between the load of `ELR_EL1` and the `eret`
  overwrites it, and the process does not reach user mode (`proc.c:204-205`:
  "will swtch here. "Return" to user space.").

Met while modelling.  The models contain this behaviour, and the form of the
properties or the choice of the instance leaves it out:

* `wait` tests `killed` and then sleeps (`proc.c:584`, `591`); a `kill` in between
  on another CPU neither stops nor wakes the victim, against the comment at
  `proc.c:647`.  `KilledAwakeExits` excludes the window.
* `kill(0)` matches a free slot (`proc.c:657`), and the next child made there is
  born killed.
* A writer killed after it stored bytes returns without waking the reader
  (`pipe.c:90`).  `NoSleepWhenReady` allows for it with `mute`.
* The receive interrupt is cleared after the receive loop (`uart.c:206`): a
  character that arrives in between stays unread until the next one.  The model
  takes the trigger level of the FIFO to be one byte, as QEMU does.
* Transmit interrupts are never enabled (`uartsti`): a writer asleep on the full
  ring waits for someone to write or type.  The echo writes without
  `uart_tx_lock` and can cost a writer's byte (`LostToEcho`).  Both need a device
  that sends slowly; QEMU's empties its FIFO at once.
* `iput` frees an inode and lowers `ref` in a later section (`fs.c:343`).  In
  between the number can be allocated again, with the same table entry, and
  unlinked; neither `iput` then sees the last reference, and the inode stays
  allocated without links, against the comment at `fs.c:114`.
* `..` keeps no link on a directory whose own parent is removed: with `a/b` as its
  current directory, a process can have `a/b` and then `a` removed, and its next
  lookup of `..` leads to a freed inode, on which `ilock` panics (`fs.c:301`).  A
  file created in a directory that was removed meanwhile leaks its inode.
* `NINODE` is 50 and `NFILE` 100 (`param.h`): open files and current directories
  of different inodes can fill `itable`, and the next `iget` panics (`fs.c:254`)
  instead of failing the call.  `NoPanic` of `Inodes` says that it happens only
  when each entry is in use.
* `MM_TYPE_PAGE` and `MM_TYPE_TABLE` are the same value (`mmu.h:31-32`), so
  `freewalk` takes a leaf for a table and walks the page, instead of the panic
  that is meant for it (`vm.c:130`).  `Vm` counts a leaf that is left over as a panic all the same, and
  shows that there is none.
* `growproc` shrinks without a TLB invalidation (`proc.c:612`): the process can go
  on to use pages it gave back, which `usertests.c:2408-2409` expects to fail.
  `TlbFollows` excludes the entries in `stale`.
* `irqhandle` indexes a table of 64 with the id it read (`gic.c:169`); when two CPUs
  take one device interrupt, the second reads 1023.  `wild` marks it, and `Cpu`
  stops there.
* `syscall` tests `num <= NELEM(syscalls)`, one too many.
* `mkfs` makes the log area `LOGSIZE` blocks long, header included, while
  `begin_op` hands out `LOGSIZE` data blocks.  Calls that use all they reserve
  (`OpBlocks = MAXOPBLOCKS`) reach the panic of `log_write`; those of `fs.c` use
  less, which is what the run `log` assumes.
* `mkfs` rounds the size of the root directory up past its last block when the
  entries fill that block exactly; `ImageAssumption` excludes that image.
* `NBUF` equals `LOGSIZE`: a transaction can pin all but one of the buffers, and
  the next use that needs a new one besides panics the kernel.  `EnoughBuffers`
  says how many would do: the pins and two for each process.
