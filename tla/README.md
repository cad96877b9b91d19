# A verification project for rpi_rtos

rpi_rtos is a bare-metal operating system for the Raspberry Pi 4/5 and QEMU
`virt`: a preemptive kernel on four cores, EL0 processes with address spaces of
their own, FAT32, a network stack with TCP, USB, a GUI. This directory holds TLA+
models of it, the TLC runs that check them, and theorems proved with TLAPS.

    tlasany  Sched.tla                              parse
    tlc -workers 8 -config Sched_life.cfg MC_Sched  check one run
    tlapm    SchedProofs.tla                        check the proofs

`PROJECT.json` lists, machine-readably, the components, the runs, the source
lines behind every definition (`map`), a seeded bug for every property
(`mutants`), what the code gets wrong (`findings`), what is hard to test
(`hazards`) and the theorems.

## 1. Inventory

Every part of the system, its state, and what makes it hard. The last column
names the modules; section 7 says why a part has none.

| Component | State | Operations | What is hard, what must hold | Here |
|---|---|---|---|---|
| Scheduler `kernel/sched.c`, `switch.S` | `tasks[]`, `current[]`, `need_resched[]`, `s_reap[]`, `g_next_pid`, `s_tasklock`, `s_ipclock` | create, schedule, tick, yield, sleep, block, wake, boost, kill, exit, reap | four cores; wakes from other cores; a task dies on the stack it runs on. No two cores on one stack, no lost wake, no leaked slot, equal tasks take turns | Sched |
| IPC `kernel/ipc.c` | counters, owners, original priority, waiters in `tasks[]` | `sem_wait/post`, `mutex_lock/unlock`, each with timeout | timeout against hand-off, barging, priority inheritance | Ipc |
| Wait and kill `sched_wait_pid`, `sched_kill_pid` | `s_exitrec[]`, `kill_pending` | wait, kill, exit | report against block, full record table | ProcWait |
| Processes `kernel/proc.c`, `elf.c` | `procs[]`, `slot_used[]`, the ELF buffer | `proc_exec_as_on`, exit hook | failure half way, one buffer for all cores | AddrSpace |
| MMU `arch/aarch64/mmu.c` | `aspace_used[]`, tables, TTBR0, TLBs | create, map, switch, destroy | broadcast invalidation against a core still on the tables | AddrSpace |
| System calls `kernel/syscall.c` | line editor, history | dispatch, pointer checks | the blocking calls | parts, in Sched, ProcWait, ViPar |
| Parallel-for `kernel/vi_parallel.c` | one semaphore, `g_coargs`, worker count | spawn, join, worker done | a barrier shared by regions | ViPar |
| GUI input `kernel/gui_input.c` | `g_evq`, `g_head`, `g_tail` | tick, push, pop | lock-free between two cores | GuiInput, EventQueue, UsbInput |
| Users `kernel/user.c` | account table, `USERS.DB`, `USERS.BAK` | boot, login, passwd, add, delete | hashing without the lock; file and table must agree; power lost while saving | Users |
| FAT32, VFS `fs/` | FAT copies, FSInfo, directories, the cached FAT sector | write, delete, mkdir, rmdir, mount | a fault between two sector writes; links before data | Fat32, FileStore |
| TCP `net/tcp.c` | control blocks, windows, timers, out-of-order buffer | connect, listen, write, close, input, tick | loss, duplication, reordering, closed windows, both closing | Tcp |
| ARP, IP, UDP, ICMP `net/` | ARP table; the lock of `net.c` | resolve, send, input; `net_enter`, `net_leave` | reentrant lock with one saved interrupt mask | NetLock |
| DHCP, DNS `net/` | client state, timers, transaction numbers | discover, request, renew; resolve | late, repeated and foreign answers, expiring leases | Dhcp, Dns |
| HTTP `net/http*.c` | the request in progress | get, serve | callbacks of an earlier connection | Http |
| Development agent `net/dev_*.c` | the transfer, staging and console rings | file transfer, reboot, keys, screenshots | late packets of an earlier transfer | DevAgent |
| USB `drivers/usb/`, `drivers/pci/pcie.c` | xHCI rings, mass storage tag, report buffers, mouse state | bulk commands, report polling, enumeration | timeouts with a late completion; interrupt between two stores | UsbMsc, UsbInput |
| Network drivers `drivers/net/` | descriptor rings | transmit, poll | wrapping indices shared with a device | VirtioNet |
| SD `drivers/sd/` | card state | read, write block | time limits | none |
| Core bring-up `kernel/smp.c` | spin table, go flag, online flags | start, wait | order of writes before `sev` | none |
| Exceptions, panic `exceptions.c`, `gic.c` | halt request and acknowledgements | IRQ, fault, halt the others | preemption and kill points | parts, in Sched and NetLock |
| Console, video; other drivers; `lib/`; `kmain.c`; EL0 programs | devices, buffers | output, register access, boot | sequential, one caller | none |

How they meet. A timer interrupt enters `c_irq_handler`, calls `sched_tick` and
`schedule()`; a system call enters `syscall_dispatch` with interrupts masked and
calls the components directly; every blocking call ends in `sched_block_on*`,
which gives the core away. Cores influence one another only through shared
memory under `s_tasklock` or `s_ipclock` (and through some accesses under
neither), by `need_resched[]` of another core, and by broadcast TLB
invalidation. There is no message passing inside the kernel and no persistence
outside the file system. The user database is two files of the file system, which
writes sectors of the SD card or of a USB stick; the protocols of `net/` run as callbacks
of one another under the lock of `net.c`, above a driver with two rings.

## 2. The modules

| Module | Models | Proofs | Checked in |
|---|---|---|---|
| `Sched` | the scheduler on N cores | `SchedProofs` | `MC_Sched`, `MC_Kernel` |
| `Ipc` | semaphores and mutexes above it | `IpcProofs` | `MC_Ipc` |
| `ProcWait` | exit records, wait and kill | `ProcWaitProofs` | `MC_ProcWait` |
| `AddrSpace` | process slots, images, address spaces, TLBs | `MachineProofs` | `MC_Machine` |
| `EventQueue` | abstract: a bounded queue | | |
| `GuiInput` | the event ring, implementing `EventQueue` | `KernelProofs` | `MC_Kernel` |
| `UsbInput` | mouse and keyboard from the USB transfer to the reader | `KernelProofs` | `MC_Kernel` |
| `ViPar` | the parallel-for of the VISION build | `KernelProofs` | `MC_Kernel` |
| `FileStore` | abstract: files and directories that change in one step | | |
| `Fat32` | the FAT32 driver as sector writes, implementing `FileStore` | `StorageProofs`, `VolumeProofs` | `MC_Fat32`, `MC_Storage` |
| `Users` | accounts and their two files, above `FileStore`'s promise | `StorageProofs` | `MC_Storage` |
| `UsbMsc` | SCSI commands over bulk transfers that may complete late | `VolumeProofs` | `MC_Storage` |
| `Tcp` | a connection between two ends over a bad network | `NetProofs` | `MC_Net` |
| `Dhcp`, `Dns`, `Http` | the three clients | `NetProofs` | `MC_Net` |
| `NetLock` | the reentrant lock of the network stack | `MachineProofs` | `MC_Machine` |
| `VirtioNet` | two virtqueues, each implementing `EventQueue` | `MachineProofs` | `MC_Machine` |
| `DevAgent` | the file transfer of the development agent and its host | | `MC_Machine` |

`MC_Kernel`, `MC_Storage`, `MC_Net` and `MC_Machine` put several machines that share no
state into one run: the variable `part`, chosen at the start, says which one
moves, so a run explores the sum of their states and not the product, and every
property is checked over every behaviour of its machine. Layers meet through what a
lower one promises: `Users` takes from a file what `FileStore` says and `Fat32` is shown
to do, `Fat32` takes from a sector what `OkMeansDone` of `UsbMsc` says.

The four modules of the scheduler look at the same `tasks[]` at different grain. `Sched` is
the finest: it has every point at which two cores can see each other's writes.
The others take from it what it shows (a task runs on one core, a wake sets
READY and a reschedule follows) and treat the code under one lock as one step.

### Sched

Tasks are slot numbers, cores numbers; the fields of `tasks[]` are functions.
The program counter `pc[c]` names the points of the kernel path of core `c`
where another core may interfere (its header lists them): before publishing a
new task, between the two loops of `pick_next`, between the write of READY and of
`need_resched`, around `sched_kill_pid`'s unlocked accesses, from
the record of an exit to the last switch on the dead task's stack. `ctx[t]` is
the task instance whose frame the saved stack pointer of slot `t` points to,
`stack[c]` the slot whose stack the core is on, and `inst[c]` the instance it
executes: together they tell a resumed task from a stranger's stack. Other tasks
of the system are the constant `Boot`; `Holders` are the kernel tasks for which
another task may raise the priority (`sched_boost_prio`).

No barrier stands between the plain store `need_resched = 0` of `schedule()` and the loads of
`pick_next` (the limit named at sched.c:453-459 and 550-555). So the store is not modelled as
an atomic one: from it on the core is in `clearing`, until a barrier of the core has passed it
(the `dmb` of a switch, sched.c:382, the `dsb` of the EOI, gic.c:111, the `dmb` of a wake or an unlock).
A request of another core in the meantime either comes to stand behind it (`Deliver`) or is
overwritten when it lands (`Swallow`); the loads may be those of before the request in both
cases, because the scan is a step of its own that can come first. `swallowed` remembers the loss.
`BoundedByOneSlice` is what the comment leaves as the promise: the better task waits for a slice at most.

### Ipc

One task per index with a base priority and a core. A task is running, ready, or
waiting for an object, with its deadline. The entry of a blocking call and its
first check are one step, because interrupts are masked and the spinlock is
held; a woken waiter checks again in a step of its own, so others can take the
token first. `mutex_unlock` hands the mutex over, as in the code. Only kernel
tasks use mutexes, one at a time (the code calls its inheritance one-level).
Processes use only semaphores, and a kill wakes them. A recursive lock panics and
an unlock by a task that is not the owner is ignored, so neither is an action.
`sched_tick` compares deadlines as the code does; a deadline here counts down.

### ProcWait

`s_exitrec` with its records in the order of the array, parents and children by
pid, the parent's wait with its loop, the kill flag and who may set it (a parent,
or a process with `USER_CAP_ADMIN`: the constant `Admins`). The question is what a
parent is told about its child: the status, an error, or nothing.

### AddrSpace

A process slot, its tile of memory (what image it holds), its address space, and
for every core the table it walks (TTBR0) and the ASIDs its TLB may still hold.
A core may walk the tables of its TTBR0 at any time, also on its own and behind the
invalidation of an exit hook it is still in, as the architecture allows. That walk can leave a stale
translation for the next process with the ASID (mmu.c:431); `late` records it, and `TranslatesOwn` says that
no stale translation comes from anywhere else. A process slot or address space that was given
back is forgotten (`None`).

### GuiInput and EventQueue

The writer's two stores and the reader's copy and store are separate steps, and
the reader's `g_tail` store may become visible before its copy (there is no
barrier there). `EventQueue` says what the ring promises: accepted events come out
once, in order, and none is accepted beyond the bound. The same shape of ring is
used in `dev_agent.c` for keys and the console.

### UsbInput

`usb_input_loop` keeps one interrupt transfer outstanding per device, takes the next
event of the one event ring, copies the report, and publishes it: a mouse report with
four stores (x, y, buttons, dirty flag), a key into a ring. The reader of the
mouse is the timer interrupt of the same core, so it is one step, between any
two of those stores. `mouse` and `pressed` are what the devices did;
`cursor` and `console` what the readers got.

### ViPar

The caller, its workers, the shared semaphore and `g_coargs`. Callers follow
`vi_parallel.h`: one region at a time. `EndsEarly` lets a caller exit or be
killed between spawn and join.

### Fat32 and FileStore

A call is a record `op` with a program counter that names the next sector write:
the copies of a FAT entry, FSInfo, a data block, the directory entry,
the slots of a long name, a new directory's first sector. A cluster is one
sector and all FAT entries lie in one sector, so the cached FAT sector (`fatbuf`) is one
value, which is `NoCache` after a failed access. Every write may fail, so may the read of the FAT,
and the power may go between any two steps; mounting starts from the sectors and counts in the FAT where
FSInfo has no plausible number. A failing access is taken to have changed nothing. A USB stick may write the sector
and fail behind it (usbmsc.c:96); the driver then frees a chain that the entry on the medium names
(fat32.c:1196), and the volume is not sound.
`FileStore` lets a call change its one path once, from the old to the new contents;
the mapping reads the files off the sectors (`ReadFile`) and the applied flag off `op`.
`GrowthFaults` says whether a fault may hit the growth of a directory: there the code
does not keep its promise, which the run `fat32_growth` shows.

### Users

The table, the two files, the boot with recovery and healing, the saves (backup
first), and two callers that log in, change passwords, add and delete. A call whose
PBKDF2 runs without `s_userlock` is two steps with everything else in between; the
second looks again, as the code does. A file is the set of accounts in it, `Absent`
or `Corrupt`; a failing read, of a directory too, makes it `Corrupt` for that boot. The account of
the first boot is the one with `USER_CAP_ADMIN`. `Tears` says that power lost in a write may leave a torn file,
`HealFails` that the write which heals `USERS.DB` may fail: the code ignores its result, and
then `AlwaysAGoodCopy` does not hold, so the run keeps it FALSE and the hazard says so.

### UsbMsc

A bulk-only command is a CBW, a data phase and a CSW, each one TRB on its ring.
`xfer_wait` takes the next transfer event, whichever TRB it is of, and gives up after
its time; the TRB stays, and the controller may run it later into the same static buffers.
The device answers tags it is sent; the driver believes an answer by signature and tag.

### Tcp

Two ends that both run `tcp.c`, with sequence numbers modulo `SeqMod`, a send and
a receive buffer of `TCP_SNDBUF` and `TCP_RCVBUF` units, the out-of-order buffer, window updates and
probes, retransmission with its limit, and both ways to close. The wire
is a set of segments: they may be reordered at will, and be lost, doubled or sent again too early as one
of `MaxFaults`. Nagle, the congestion window and SACK only choose how much is sent at once, so a sender
may stop after any number of segments. `LateSyn` (FALSE in the run) admits a copy of the first
SYN that arrives when the server has a connection already: the code drops that connection. Where it is
FALSE such a copy vanishes, also one that finds the server in SYN_RCVD still: the code would answer it
with a SYN-ACK again, as the retransmission timer does here.

### Dhcp, Dns, Http

Each handler is one step under the lock of `net.c`. `Dhcp` counts time in
retransmission intervals, against servers that offer, grant, refuse and give
addresses away when the lease they granted is over. A transaction number is `net_now_ms()`: new, or, as one of
`DhcpFaults`, that of the last transaction when it began in the same millisecond. `dhcp_start` is called once
(dhcp.h:6), and a server leaves only while the client has a lease, since one in REQUESTING would ask it for ever. `Dns` draws its transaction number from the clock, so two
queries may have the same. `Http` runs over a pool of TCP control blocks that are
freed and reused behind its back, with callbacks that start the next request at once.

### NetLock

`net_enter` and `net_leave` with the test of the owner before the spinlock, the
depth, and the interrupt mask saved by the outermost caller in the one
`s_net_flags`; interrupts whose handler enters the stack too. `uart_begin` and `uart_end` have
the same shape. Today the stack runs on one core; net.c:11-24 keeps
the lock for when it does not, and so does the model.

### VirtioNet

Driver and device each have an index into a ring of `VNET_QSIZE` buffers; indices count modulo `Wrap` (2^16
in the code). Writing the buffer and publishing its index are separate steps, so are the device's reading and its
completion. The device takes buffers one at a time and in order, as QEMU's does.

### DevAgent

Both sides of a file transfer: `dev_remote.py`, which repeats a packet until it is
acknowledged, and `dev_agent_input`. UDP doubles and delays packets, also beyond the end of
the transfer they belong to; the board may reboot between two packets.

## 3. What the runs check

Runs that must pass:

| Run | Instance | Distinct states | Shows |
|---|---|---|---|
| `sched_life` | 2 cores, 4 slots, up to 6 pids, slice 1 | 2.99 million | stacks stay with their instance; no task without its address space; a zombie stays dead; a wait ends only by a wake |
| `sched_boost` | 2 cores, 5 slots, a mutex holder that is boosted beside a rival, slice 2 | 2.05 million | zombies survive what a boost does inside `pick_next`; a request that meets a clear is late by a slice at most |
| `kernel_parts` | equal tasks with slice 2; a ring of 4; 2 callers with up to 4 workers; a mouse and a keyboard | 184 thousand | nobody starves and every join returns; the ring is a queue; the join is a barrier; input arrives as it was made |
| `ipc` | 3 tasks of 3 priorities on 2 cores, a semaphore, a mutex, timeouts up to 2 | 125 thousand | no lost token or hand-off; a timeout never owns; the best waiter is not kept out; timed calls return |
| `procwait_waits` | 4 pids, 2 records, 2 loaded at a time, a code beyond 8 bits, a child that may kill its parent | 376 thousand | answers are true; eviction order; a wait is answered, a killed process dies |
| `machine` | 3 processes, 2 cores, 2 slots, 2 address spaces; the network lock nested 3 deep; queues of 2; two transfers | 658 thousand | isolation and accounting; the lock excludes and restores masks; virtqueues are queues; OK means written |
| `storage` | 4 clusters, 1 or 2 FATs, a fault; 2 consoles, 2 account slots, 2 faults; 3 bulk calls, a late answer | 504 thousand | the volume is sound and implements `FileStore`; accounts survive power losses; ok means done |
| `net_protocols` | two TCP ends, 3 units of data, a fault; DHCP with 2 servers and 2 faults; 2 DNS queries; 3 HTTP requests over 3 blocks | 402 thousand | streams, leases, addresses and pages are the right ones, and each machine gets done |

The bounds. Two cores are enough for the races of `Sched`: each is between a core
and one other, and no step of the code names a third. Four or five slots allow
two idle tasks, a victim, a killer and a successor in the victim's slot; the pids
allow a slot to be reused twice. `sched_boost` has no semaphores and no sleeps: what its clear can
take is the request of a boost or of a wake alike, and the boost also changes what the scan compares. Its slice is two,
so that a swallowed request finds a slice that has begun and one that has not. Slices and sleeps of length one or
two distinguish "this tick" from "a later tick". `ipc` has the three
parties of an inversion. The record table
of two entries fills after two exits, which is where the eviction rule starts.
`machine` has fewer address spaces than slots and cores together, so
that a call can be refused one; `AspaceLeft` says that this takes more exit hooks at
a time than `MMU_MAX_ASPACE - MAX_USER_PROCS`, and that there is one at most for each
core: with the numbers of the code (8 = 4 + 4) no call is refused. A ring of four has every
relation of head and tail the ring of 64 has, with the wrap; queues of two with indices modulo four likewise.
Four clusters hold a root, a directory that grows, and a file of two blocks; one fault (two for `Users`: a failing
write and then a power loss) is what the code is written against. A wire with one fault
reaches a lost, a doubled, an early and, since it is a set, a reordered segment in every state;
the windows of two units close and open. Two late answers instead of one break `OkMeansDone` (see below).
The pids, regions, instances, calls, queries and requests are counters that the code does not
bound; the guards that stop them are named (`MaxPid`, `MAXPID`, `MaxRegions`, `MaxCalls`, `MaxQueries`, `MaxRequests`, `MaxReports`, ...).

Deadlock is checked in `sched_life` and `sched_boost`, where something can always run. It is off
where the modelled part may stop: all tasks of `Ipc` may block, and the bounded
instances of the others come to an end.

Runs that must find a violation: each states what a comment of the repository
says, and shows what the code does.

| Run | Stated | What happens |
|---|---|---|
| `sched_zombie_runs` | a zombie never runs again | a boost between the two scans of `pick_next` makes its fallback resume the dead task |
| `sched_wrong_kill` | a kill hits the pid it names | the slot is reused between match and kill, under another lock |
| `procwait_lost_kill` | a kill ends its victim | a kill between the safe point and the block is not seen |
| `fat32_growth` | a failed call leaves orphans at most | a directory's new cluster is linked before it is zeroed; after a fault it ends in a stranger's block |

`findings` in `PROJECT.json` quotes the line each of them contradicts. More
disagreements were met on the way and are listed as hazards with a note, without a run:

* the race of `sched_zombie_runs` also ends a sleep or a block early (seen in `WaitIsLeftByWaking` with a boost);
* a second wait for a child that is harvested but not yet ZOMBIE blocks (sched.c:754);
* a core that walks tables on its own can cache a stale translation behind the exit hook's invalidation (mmu.c:431; `late` in `AddrSpace`);
* a caller of a parallel region that ends before its join leaves workers and tokens behind (vi_parallel.c:94);
* the write that heals `USERS.DB` may fail unseen, and power lost in the next save then leaves no readable copy (user.c:401; `HealFails`);
* with two late completions the leftover TRBs keep the USB driver one behind the device and a write reports ok for another's data (xhci.c:341, `MaxUsbFaults = 2`);
* a late FILE_BEGIN of an earlier transfer changes the path of the newer one (dev_agent.c:99): its contents are written, under the wrong name;
* a keepalive probe is never answered by another end that runs this code (tcp.c:1146), FIN_WAIT_1 goes to TIME_WAIT before its own FIN is acknowledged (tcp.c:1096), a late SYN drops a live server connection (tcp.c:777);
* a DHCP client in REQUESTING never goes back to SELECTING (dhcp.c:298);
* the bytes of an arrow key are torn apart by the next key (usbkbd.c:105).

## 4. Fairness

* `Sched!FairSpec`: weak fairness of each core's forced steps (interrupts are
  masked, the code runs straight on, and the spinlocks are held for a few
  instructions) and strong fairness of the tick, which is taken whenever the core
  is back in a task with interrupts enabled: the generic timer is level-triggered
  and stays pending. Nothing is assumed of what tasks do.
* `Ipc!FairSpec`: a task that goes on being the best READY one of its core is run
  (what `Sched` shows), its loop goes round, its critical section ends; a deadline that
  has passed is seen; ticks come. Nothing is assumed of `sem_post` or of new calls.
* `ProcWait!FairSpec`: a running process goes on to the exit it has begun or to
  its next system call, where `kill_pending` is looked at; a process that computes
  in EL0 is brought there by the timer interrupt, which ends in the same safe point.
* `MC_Kernel!KernelSpec`: the fairness of `Sched!FairSpec` for its tasks, and for `ViPar`: a worker that runs reaches `SYS_VI_WORKER_DONE`, which is
  what `vi_worker_entry` does. A worker that faults does not, and its region never ends.
* `MC_Net!NetSpec`: time passes and the poll loop of the stack calls the ticks; a
  segment is delivered or lost in the end; both applications of a connection read, write and close; a DHCP
  server that is asked often enough answers; a connection attempt ends. Loss and delay are
  bounded by `MaxFaults` and `DhcpFaults`, which is the assumption that the network works again some time.

## 5. What is proved

For every number of cores, slots, tasks, records, callers, servers and address spaces:

| Module | Theorems | Statement |
|---|---|---|
| SchedProofs | `TypeCorrect`, `StackSafety`, `ContextSafety`, `Partitioned`, `NoLeak` | no core on a stack whose slot is free or another's; no frame of another instance; a pid and an instance are in one place; a zombie's slot is reaped |
| | `Lives`, `AspaceFirst`, `OneSlice`, `DeadStayDead`, `WokenFirst` | where no mutex is contended: no process runs before its address space is set, a request lost to a late clear delays a better task by a slice at most, a zombie stays dead, a wait ends only by a wake |
| IpcProofs | `TypeCorrect`, `HandoffSafe`, `InheritanceTight`, `WakeupSafe`, `GivenOrGivenUp` | a hand-off reaches its task, owners carry their waiters' priority and give it back, no token waits while a task sleeps, a timeout excludes ownership |
| ProcWaitProofs | `TypeCorrect`, `RecordsCorrect`, `NoLostWakeup`, `AnswersCorrect`, `EvictionOrder` | what a record says is true, nobody sleeps on a status in the table, answers are true, orphans are evicted first |
| KernelProofs | `RingRefines`, `Barrier`, `Settles` | the event ring implements a bounded queue; behind a join no worker is left; mouse and keyboard arrive as they were used |
| MachineProofs | `TypeCorrect`, `Accounting`, `ImageSafety`, `Isolation`, `Refused` | slots, address spaces and images are accounted for; translations are a process' own but for what its core walked behind an exit hook's invalidation; why a call is refused an address space |
| | `OneInTheStack`, `MaskGivenBack`, `RingsRefine` | one core in the network stack, each mask goes back to its core; both virtqueues implement bounded queues |
| | `OkIsWritten` | a file transfer that reports OK has written its own contents |
| NetProofs | `NameIsOwn`, `PageIsOwn`, `LeaseIsTrue` | an address belongs to the name asked for, a page to the request; an address in use is leased, and given to nobody else before its lease ends, less the time its transaction took |
| | `StreamIsTrue` | an application reads what the other end of the connection wrote, up to its end |
| StorageProofs | `AnswersLast`, `ChangesReachTheirOwn`, `OneCopyStands` | what was answered ok survives, a password reaches the account it was checked against, one copy of the database is always readable |
| | `OnlyOrphans`, `CacheShowsTheMedium` | after any faults no chain of clusters is shared, crossed or cut short, and the cached FAT sector shows no file otherwise than the medium |
| VolumeProofs | `NothingLeaks`, `TheVolumeIsAStore` | without faults no cluster leaks and the count of free ones is exact; with them, the sector writes implement `FileStore` |
| | `OkIsDone` | a sector call of the mass storage driver that returns 0 has moved its data, with at most one late answer or error |

What the constants must satisfy is an `ASSUME` in the module that declares them
(`SizesAssumption` and `BootAssumption` of `Sched`, `AddrSpaceAssumption`, `MachineAssumption`, `TransferAssumption`, `FatAssumption`,
`KernelAssumption`, `TcpAssumption`, `NetAssumption`, `StorageAssumption`, `StickAssumption`, ...), evaluated by TLC in every run: that -1 is no core,
that a pool is not empty, that indices wrap at a multiple of the size of their ring, that `Absent` is
no entry, cluster or content and that a file of no block has one content.
Anything beyond that stands in the statement of the theorem:

| Hypothesis | In | Why |
|---|---|---|
| `NoContention`: `Holders = {}` | `Lives`, `AspaceFirst`, `OneSlice`, `DeadStayDead`, `WokenFirst` | where a boost may change a priority between the two scans of `pick_next`, its fallback revives a dead task and ends a sleep: that is the finding `sched_zombie_runs`, so the statements are false without it. `sched_life` is an instance of it. `OneSlice` covers the wakes, kills and new tasks of other cores; `BoundedByOneSlice` is also checked with contention, in `sched_boost` |
| `MaxUsbFaults \in 0 .. 1` | `OkIsDone` | after two late answers the driver is one TRB behind the device, and a write returns 0 for data of an earlier call; `storage` runs with one |
| `~EndsEarly` | `Barrier` | a caller that ends inside its region leaves tokens for the next one (vi_parallel.c:94) |
| `NoWrap`: the receive buffer, and each stream with its SYN and FIN, is shorter than half of the sequence space | `StreamIsTrue` | one comparison of `seq_gt` orders two numbers only within half of the space; up to there the distance from the SYN orders them all. In the code that is 2 GB in a connection; a longer stream would need the numbers in terms of the window |
| `~LateSyn` | `StreamIsTrue` | a copy of the SYN that arrives late makes the server drop its connection and begin another (tcp.c:777) |
| `~GrowthFaults` | `OnlyOrphans`, `CacheShowsTheMedium`, `TheVolumeIsAStore` | a directory's new cluster is linked before it is zeroed (fat32.c:881), so a fault between the two makes a stranger's block part of the directory: the finding `fat32_growth`. Every other access may fail, and the power may go anywhere else, also in the rest of a call that grows a directory. `NothingLeaks` has no hypothesis: it speaks of runs without faults |
| `FilesTell` | the theorems of StorageProofs about `Users` | a file with accounts is told from a missing and an unreadable one: `USERS.DB` has a header and checked lines. It is a set of all tables, too large for TLC to evaluate as an `ASSUME` |
| `ChecksumTells`: no mix of chunks of the files, as long as one of them, has the checksum of a file it is not | `OkIsWritten` | chunks of an earlier transfer may be taken for this one's (dev_remote.c tells them only by their number); a sum can be right by accident, and then the statement is false. `TwoFiles` of the run satisfies it |
| `FewFaults`: `MaxNetFaults` is at most one more than any file has chunks | `OkIsWritten` | with one fault more an earlier transfer leaves a whole file behind, and the agent writes that between its OK and the end of this transfer: TLC shows it for files of one chunk and three faults |
| `HealMatters`: not both `HealFails` and `Tears` | `OneCopyStands` | the write that heals `USERS.DB` may fail unseen (user.c:401), after which a torn backup leaves no copy |

The arguments:

* **Sched.** `StackOwned` is not inductive. Between the exit record and the
  switch, the slot is ZOMBIE, still used, and the core is on its stack; that
  nobody frees it has to come from who may reap what. `Partition` says it:
  `OnCore` (outside the switch, a core's stack is that of its current task),
  `ReapOwn` (the slot a core is to reap is an allocated one of that core and,
  inside `task_exit`, can only be the exiting task's own), `Publishing` (between
  filling a slot and publishing it the creator holds `s_tasklock`, and the slot
  carries a pid and a frame nobody else has), `OwnerKnown`, `PidsUnique`, `ContextOwned`
  and `NoZombieLeak`. `IInv == TypeOK /\ Partition` is inductive, for every
  number of cores and slots.
* **Sched, lives of tasks.** `LifeInv` adds who runs and who asks: a core outside the
  scheduler has its current task RUNNING and no other, idle tasks are never blocked,
  the choice of `pick_next` is still READY or its own when it is taken, a slot that is
  not published is SETUP, and (`AllRequested`) a READY task better than the core's
  choice or current task has `need_resched` set, or a core on its way to set it, or lost the
  request to its core's own clear (`swallowed`). For the bound on the delay, `SliceEnds`: what a core runs
  has a slice left, or `need_resched` is set, and a step that does neither ends nor renews the slice
  keeps it so (`KeepsSlices`). That the fallback of `pick_next` is not reached
  follows from the idle task of the core, whose priority nobody changes under `NoContention`.
* **Ipc.** `IInv == TypeOK /\ MutexInv`. Only kernel tasks wait for a
  mutex, and a woken waiter owns it or has timed out (`Woken`); nobody owns two
  mutexes, or one while waiting for another (`Single`, `InCall`); the saved
  priority is the owner's base (`OrigPrio`); hence `Inheritance` and
  `BoostEnds`. That tokens and waiters balance (`Covered`) is a second induction.
* **ProcWait.** `Births` (a parent is born before its child), `Waiting` (who has
  blocked waits for a child of its own) and `Unreported` (a process that
  reported without leaving a record had no parent left to tell) carry `NoLostAnswer` and `RecordsTrue`.
* **AddrSpace.** `SlotInv`, `AspaceInv`, `CoreInv`, `ImageInv`, and `TlbInv` (a cached
  translation belongs to the process that has the ASID and has not yet flushed it, or its core
  has walked the tables since, which `late` records).
  `Refused` counts: the holders of address spaces are one-to-one with them, those that still build
  have a slot each, and those in an exit hook a core each.
* **GuiInput.** Head, tail and the contents between them determine the queue; the
  refinement mapping is the sequence of slots from tail to head. `NoTornEvent` (writer and
  reader are never in one slot) is what makes the missing barrier harmless.
* **ViPar.** All regions share one semaphore, so the proof counts: `OneRegion` (one caller
  at a time is inside a region), `BusyInside` (a worker that has not reported belongs to it),
  `TokensCount` (tokens posted and taken are the workers that reported).
* **UsbInput.** `OneOutstanding` (a device has one transfer, or one event, or is being
  handled), `MouseInv` and `KeyInv`: what the reader has, plus what is in each stage on the
  way to it, is what the device did, at every one of the four stores.
* **NetLock.** The invariant says who holds the spinlock: a core inside a section
  (then it is the owner, the depth is its nesting, `s_net_flags` its mask, interrupts are
  masked), or one between taking the lock and writing the owner, or between clearing it
  and releasing the lock. That the unlocked test `s_net_owner == me` can be true
  only for the holder follows, and with it `NetExclusive`.
* **VirtioNet.** The two indices of a ring never are more than its size apart, modulo
  `Wrap`; the buffers between them are the queue. A buffer is posted again only
  behind the last use of its frame.
* **DevAgent.** `DevInv` counts packets. A packet is answered by at most one, an answer by at most one packet, so
  but for one of the running transfer each of them is due to a fault (`Travelling`). After the answer OK, what is left in the network
  and what the table has taken since the last FILE_END (`Used`) are no more than the faults (`OkInv`), and another file would
  need all its chunks, FILE_BEGIN and FILE_END of them. `TableInv`: each entry of the table is that chunk of some file; a full one
  is then a file or found by the checksum.
* **Dns, Http, Dhcp.** `DnsActive`: the active query is the last one accepted and its
  callback is still to come, so what passes the test of number and name is its answer.
  `HttpActive`: the same of the request and its control block, and the buffer holds bytes of this request
  only; a freed block belongs to nobody. `DhcpGranted` and `DhcpFresh`: an ACK with the current
  number was granted within the current transaction, so what is gone of that lease is no more than the
  transaction is old, and the client's lease ends before the server's does (up to the time the ACK took). `DhcpAway`: a server that
  has given its address away has no lease of ours to run, so `NotGivenAway` follows from `DhcpFresh`.
* **Tcp.** `TcpInv` says what the two control blocks and every segment on the way, however old, tell of the
  streams. `Off` is the distance of a number from that of the SYN, so byte b has offset b and the FIN the one
  behind the last. `Sender`: the buffer holds the bytes from `snd_una` on, up to the last one written, and the FIN's number is
  behind it. `Receiver`: `rcv_nxt` is one behind the bytes handed over, two behind once a FIN was taken, and that only
  at the end of what the peer wrote; each byte in the out-of-order buffer is under its own number. `Truthful`: a segment carries
  the byte its number says, a FIN only behind all that was written, and its sender will write no more. Nothing is assumed of
  acknowledgements beyond that they lie within half of the space, for a handler takes one only between `snd_una` and `snd_nxt`.
  A handler works on its block in steps (`update_snd_wnd`, the acknowledgement, `reasm_insert`, the FIN,
  `tcp_output`); each is shown to keep `Good`, the two halves and the truth of what was sent so far, and `MoveKeeps`
  carries that over to both ends and the wire. The run that `reasm_insert` hands over ends at the least
  number that is missing (`Least`), which by the pigeonhole principle is no further off than the buffer has bytes.
* **Fat32, chains.** The chain of a cluster is defined by a recursive function, but what the proof
  needs of it is: the path of `fat_next` from a cluster has a least number of steps to the end mark
  (`Least`, by the well-founded order of the naturals), it repeats no cluster before that, and two paths that
  meet go on together. Setting one entry of the FAT turns the paths that pass it and no others.
* **Fat32, the volume.** `FatInv` is the invariant. `Vol`: the first clusters of the root, of every entry and of what the running call
  holds (`Held`: a new chain not linked yet, what is left of an old one) begin chains that end and have no cluster
  in common; a file's is as long as its size says; every entry lies in a directory, none there twice, and
  behind the end mark of a directory is nothing. `OpInv`: at each program counter of the call, how far its chain is
  built and filled and what its directory has. `CacheInv`: the cached sector agrees with the medium on every
  chain that has an owner, which is why a stale one is harmless. Of the second copy of the FAT, which the driver never
  reads, nothing is needed. A fault makes `Held` empty, and what was held is what leaks;
  steps are proved over what they do to the FAT (`VolTake`, `VolLink`, `VolFree`) and to the entries (`VolPut`, `VolUnlink`, `VolMark`, `VolGrow`).
* **Fat32, nothing lost.** `Exact`, while no access has failed: every used cluster is reachable, the
  running call's, or the one it is about to take; every copy of the FAT is the same except between the two writes of one
  entry; `free_count`, plus what the call has given back and not counted, is the number of free clusters plus what
  it has taken and not counted.
* **Fat32 implements FileStore.** `FilesIn` and `DirsIn` read the files off the sectors by owner and
  name instead of by walking, which is the same on a sound volume (`Views`). A step then
  is one of `AsBegin`, `AsApply`, `AsReturn` and `Unseen`. The point at which a call takes effect is the write of the sector with
  its entry (`dir_put_entry`, `dir_update_entry`, `dir_unlink`): all writes before it go to clusters no entry
  has, so nobody sees them, and all behind it free such clusters.
* **UsbMsc.** `UsbInv`: either the driver and the device are in step (`InStep`) or no command passes any more. In step,
  the two rings, the event ring and what the device waits for are in one of the states of `AtRest`, `CbwPhase`, `DataPhase` and
  `CswPhase`: the first line or two of each are those of a driver that has missed nothing (a port event may lie between its
  events), the others those that one late answer, one failing command or one TRB left behind leads to. The three ways out are
  a halted IN ring (`InLost`), a halted OUT ring (`OutLost`) and a driver that sends what the device does not take (`Stuck`).
  `PiecesMoved` ties the data to it: a CSW with the tag of the running command is in `g_csw`, or on its way with status 0,
  only when the piece is the same in the buffer and on the medium, and the pieces before it are. That needs `Unwritten`
  (nothing late is written over the data of a write) and `AtFirst` (a TRB of an earlier call is still there only
  while the running one has moved nothing).
* **Users.** `UFiles` (a readable file is the last saved state or the one being saved,
  according to the stage of the save), `UMemory` (the table is the last saved state when no
  save is under way), `UKnown` (a call that hashes outside `s_userlock` looks again at the account by
  its uid, and no uid is given twice between two boots). `NextUidAbove` (that the boot counts on
  behind the highest uid) needs a greatest element, taken by well-founded
  induction over the naturals (`Least`). `Copies` follows which of the two files may be torn at each stage.

Some of the theorems state properties that no run lists any more, because a stronger or
more telling one took their place there: `ContextOwned` and `Partition` of `Sched`, `Inheritance` of `Ipc`,
`RecordsTrue` and `NoLostAnswer` of `ProcWait`, `ImageOwn` of `AddrSpace`, `NoTornEvent` of
`GuiInput`. TLC agreed with each, and with each inductive invariant, before it was proved.

Only model-checked, and why:

* all liveness (`GetsServed`, `WaitAnswered`, `KilledDies`, `NoUnboundedInversion`,
  `TimedCallReturns`, `GetsDone`): out of the prover's reach;
* `BoundedByOneSlice` with a contended mutex (`sched_boost`);
* `NothingUnacked`, with one end that closes. Where both call `tcp_close`, the code breaks it: FIN_WAIT_1 goes to
  TIME_WAIT with the peer's FIN although its own data may not have arrived (tcp.c:1096).

## 6. Abstractions

* Memory is sequentially consistent, with three exceptions that are modelled: the
  store that clears `need_resched` in `Sched`, the
  reader's stores in `GuiInput` and the TLBs in `AddrSpace`. The kernel's locks
  are `ldaxr/stlr` spinlocks, and lock-free reads in `Sched` are single words.
* `task_exit`, `schedule` and the like run with interrupts masked, so a core's own
  timer does not interrupt them.
* Not modelled in these modules: names, stack canaries, FP registers, statistics,
  the panic paths, the kernel's identity map and GUI window, cache maintenance.
  `elf_load` is one step that copies an image or fails.
* A write of `need_resched` outside the array (owner 0xFF) is no step of the
  model; the race that leads there is finding `sched_wrong_kill`.
* Contents of files, streams, frames and reports are values of small sets; names are
  model values with a flag for long ones. Checksums over them are the real sums only
  in `DevAgent`, where two files may have the same.
* DMA is coherent: cache maintenance is not modelled.

## 7. Not modelled

* **EL0 programs, the Vulkan headers and renderer, inference** (`src/user/`, about half of the
  60 000 lines): single-threaded code between system calls, and generated headers. What the programs may ask of the
  kernel is chosen freely in the models.
* **Test programs and boot** (`kmain.c`, `tcp_looptest.c`, self-tests): they exercise the parts above.
* **Core bring-up, panic**: one pass of writes and barriers each; what could go wrong is a
  barrier, which an interleaving model does not see.
* **SD card, dwc2, GENET, mailbox, GPIO, I2C, SPI, PWM, V3D, PCIe**: register sequences polled to their
  end by one caller.
* **ARP, IP, UDP, ICMP, httpd**: they handle one packet at a time without waiting for anything.
* **Console, framebuffer, font**: output.
* **System call layer**: pointer checks and the line editor; the calls that wait are in the
  modules of their components.

This is why the share of the repository's lines behind the models stays small although the
kernel, the file system and the protocols are covered.

## 8. Plan

Done: all modules of section 2.

1. Proofs: `BoundedByOneSlice` with a contended mutex; streams of `Tcp` beyond half of the sequence space.
2. `Fat32` with two cached sectors instead of one, and `Tcp` with the pool of control blocks and keepalive.
3. A second reader in `GuiInput` and arrow keys in `UsbInput`, once the code says what it wants there.
