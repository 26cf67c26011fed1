# HellfireOS: a verification development in TLA+

HellfireOS is a small real-time operating system for embedded cores (RISC-V, MIPS, ARM).
This directory holds TLA+ models of its kernel, the TLC configurations that check them on
small instances, and TLAPS proofs of what matters for every value of the parameters.
Definitions keep the names of the C functions; `PROJECT.json` maps each one to its lines.

## 1. Inventory of the system

| part | state | operations | what makes it correct |
|---|---|---|---|
| queue library, `sys/lib/queue.c` | ring of `size + 1` cells, `head`, `tail`, redundant `elem` | create, destroy, addtail, remhead, remtail, get, set, swap, count | it is a bounded FIFO; the count agrees with the indices; no cell is read before it is written |
| task management, `sys/kernel/task.c` | `krnl_tcb[]`, `krnl_tasks`, run / RT / delay queue | spawn, kill, delay, block, resume, yield, priorityset, read-only queries | every live task is in exactly one queue; calls on existing tasks return; a new task runs its own thread |
| dispatcher and schedulers, `sys/kernel/scheduler.c` | remaining priorities, capacities, windows, delays | `dispatch_isr` (tick), `sched_rma`, `sched_priorityrr`, `sched_rr`, `sched_lottery` | only runnable tasks run; rate monotonic order; schedulable sets meet deadlines; no starvation; delays end |
| processor control, `sys/kernel/processor.c` | `krnl_schedule` | schedlock, freecpu, cpuload | a locked scheduler does not switch tasks; reported load is right |
| start-up and panic, `main.c`, `panic.c` | | `main`, `idletask`, `panic` | careful clients never bring the system down |
| semaphores, condition variables, mutexes, `sys/sync` | count or lock, queue of waiters | init, destroy, wait, post, signal, broadcast, lock, unlock | no lost wake-up, mutual exclusion, no stale waiter |
| heap, `sys/lib/malloc.c` (four allocators) | chain of blocks, the allocator's lock | malloc, free, calloc, realloc | blocks are disjoint and cover the heap |
| lists, `sys/lib/list.c` | linked nodes | append, insert, remove, get, set, count | they are sequences |
| NoC driver, `drivers/noc` | pool of packets, a queue and a port per task | `ni_isr`, comm create / destroy, send, recv, acknowledged variants | packets are conserved; a message is the packets of one sender |
| UDP endpoints and stack, `net/` | two rings and a pool of buffers per endpoint, ARP cache, one output frame | callback, create, destroy, send, recv, ARP request and answer | what is sent is the caller's; datagrams keep their order; no freed buffer is used |
| file system and block devices, `fs/`, `drivers/block` | cluster map blocks, directory blocks, one block buffer | mkfs, mount, mkdir, create, rmdir, unlink, rename, chmod, opendir, readdir | no block has two owners, whenever the machine stops; names are unique; no space is lost |
| devices, boot code, C library, applications | device registers | | I/O and sequential data conversion |

How they interact. One core runs one thread at a time. A kernel call disables interrupts,
works on the shared control blocks and queues, and enables them again; the timer interrupt runs
the dispatcher, which saves the running thread in its control block, updates delays, real-time
windows and priorities, and restores another thread. Semaphores and condition variables write
task states directly and keep pointers to control blocks in queues of their own; the heap is
called with interrupts disabled from `hf_spawn()`; network interrupts mark a task critical.
The NoC driver's interrupt handler moves packets from a pool shared by the whole core to the
queue of a task; the network stack is a task of its own that calls back into the UDP endpoints, and
shares their queues and the ARP cache with the application tasks without a lock. The file system runs
in the task that calls it, and what it leaves on the disk outlives a crash.

What is hard: steps of several tasks and of the timer in any order between calls; state of a task
changed by another one while it runs, waits or is delayed; control blocks that are freed and reused;
counters of 8, 16 and 32 bits that are decremented before they are compared; three queues rebuilt
by rotation, swapping and moving on every tick; everything that must eventually happen.
The list of hazards, each at its line, is in `PROJECT.json`.

## 2. Modules and how they correspond to the code

| module | models | how |
|---|---|---|
| `Fifo` | what `queue.c` promises | a sequence of at most `Capacity` nodes and the answer of the last call; abstract |
| `Queue` | `sys/lib/queue.c` | the ring itself: `data`, `head`, `tail`, `elem`; one action per function; `ImplementsFifo` maps the cells from `head` to `tail` to the sequence |
| `QueueRemtail` | `hf_queue_remtail()` | kept apart because no kernel code calls it and it is wrong (section 5) |
| `QueueOps` | the kernel's loops over its queues | rotation, search and remove, filter, exchange sort, as functions of a sequence |
| `Kernel` | `sys/kernel/*.c` | the control blocks, the three queues, the lock, the dispatcher with both default schedulers |
| `MCKernel` | | argument sets for the runs of `Kernel` |
| `RateMonotonic` | `app/aula_10` on `Kernel` | the six task sets of the program with the verdicts of its comments |
| `Sync` | `sys/sync/*.c` | semaphores, condition variables, both mutexes; tasks reduced to blocked or not |
| `SyncApps` | the example programs of the primitives on `Sync` | one pc per task over a small program; the statements between two calls are steps |
| `Heap`, `MCHeap` | `sys/lib/malloc.c` | the four allocators on one memory of block headers |
| `Noc`, `MCNoc` | `drivers/noc/noc.c`, `ni_hermes.c` | several cores, their pools and queues, the packets on the way |
| `Uhfs`, `MCUhfs` | `fs/uhfs.c` on `drivers/block/ramdisk.c` | the cluster maps and directories on disk, one step per write, crashes |
| `Net`, `MCNet` | `net/uudp/uudp.c`, `net/ustack/*.c` | the service task, an endpoint's owner and senders, one shared access per step |
| `QueueProof`, `QueueOpsProof`, `KernelProof`, `SchedulerProof`, `NocProof`, `NetProof`, `EndpointProof`, `SyncProof` | | theorems and proofs (section 6) |

`Kernel` uses queues as sequences. That is what `Queue` is shown to implement, by TLC and, for
every capacity, by `QueueImplementsFifo`.

**State of `Kernel`.** `krnl_tcb`, `krnl_tasks`, `krnl_current_task`, `krnl_schedule` and the three
queues are the C variables of `sys/include/kernel.h`. A control block has the fields that control
depends on; the entry pointer is the Boolean `ptask` (the code only asks whether it is NULL), and names,
stack sizes and job counters are left out. Fields of 8 and 16 bits keep their width (`uint8`, `uint16`).
Five more variables stand for what the C variables do not show: `up` (the idle task has unlocked the
scheduler), `halted` (the cause of a panic, or the dereference of a NULL task), `cpu` and `context`
(whose thread the registers, on the processor or saved in a control block, belong to: `"own"` for the
thread that `hf_spawn()` made for the task, `"dead"` for the thread of a task that was killed), and
`pending` (see below).

**Atomicity.** There is one core. A call runs between `_di()` and `_ei()`, or between masking and
restoring the interrupt mask, so it is one action; the dispatcher is one action too. Between any two
of them anything may happen: the calling task may be preempted, and another task may call. The
parameter tests of `hf_spawn()` and `hf_delay()` that come before `_di()` read only the call's arguments,
so they are guards, and `hf_schedlock()` is a single store. The exception is `hf_priorityset()`, which
disables nothing: its checks are one step and each of its two assignments (`AssignPriority`) another, and in
between the task it names may be dispatched, killed, or its control block given to a new task. The
variable `pending` holds, for each task, the call it is in the middle of. A call that only returns an error
code changes nothing and is no step. `hf_spawn()` may fail to get memory (`mem = FALSE`); it then leaves
what it wrote in the control block except for the entry.

**Start-up.** `Init` is `main()` up to `app_main()`. `app_main()` is whatever calls happen before the action
`idletask`; it does not yield and does not touch the scheduler lock, as there is no task yet.

**Clients.** `Calls` lists the calls of a scenario, and the careful client respects four rules that the
code needs and the documentation does not state. Each is lifted by a member of `Liberties`:
`kill_self` (a task may kill itself), `touch_delayed` (a task in the delay queue may be killed or delayed),
`idle_priority` (the idle task's priority may be set), `yield_locked` (yield with the scheduler locked).

**What an action leaves out.** `hf_kill()` writes to `krnl_tcb[65535]`, since it uses the 16-bit id after
overwriting it with -1: the memory hit is not part of the model; that the right entry is *not* cleared is. The test
of a stack's magic word reads freed memory when the current task was killed, so `StackOverflow`
may or may not happen then. Ticks, jobs, and the fields printed by the logs are left out.

**`Sync`.** The scheduler is reduced to what `Kernel` shows: any unblocked task may be next
(`DispatchesRunnable`) and each of them is, again and again (`NoStarvation`). A primitive's masked section
is one action. The yield after `_ei()` and the lock that `hf_condwait()` takes again are actions of their own, so
that posts, signals and ticks come in between. A turn of a spin loop changes nothing, so a spinning task takes its
step when the lock is free. The filter lock is modelled one access of `level[]` or `waiting[]` at a time. A
queue that could not be created is `NULL`, a destroyed one `FREED`. `masked` is the task that runs with
interrupts disabled across several steps: `hf_spawn()`, `hf_seminit()` and `hf_condinit()` call `hf_malloc()`,
whose lock is a mutex. `SyncApps` runs `sem_test1`, `cond_test1`, `cond_test2`, `readers_writers`, `mutex_test1`
(with either mutex) and a program that only creates and spawns; one `hf_resume()` may hit any waiter.
`waiting[]` of the filter lock has the entries the code gives it, one fewer than the levels: at the last level the write leaves the
lock alone and a read may find anything.

**`Heap`.** Addresses are words. `mem` holds a header wherever one was written, and a
client overwrites every header inside the block it is given, so an allocator that trusted a stale header would be seen. `krnl_free` is kept
for `MEM_ALLOC` 2 and 3 only.
Sizes wrap like `size_t`. Every call holds the heap's lock throughout and is one action; `hf_realloc()` is a
`hf_malloc()` and later a `hf_free()`. The loops are walks along the chain, as recursive functions.

**`Noc`.** A buffer is counted, its contents are the packet in it: source, port, channel, sequence number,
number of packets, and which message it belongs to (which the code cannot see, and the properties ask about).
The network keeps the order between two cores and may deliver a packet of the wrong length. `PacketsArg` is the queue size each
task asks `hf_comm_create()` for, and `QueueSlots` what it gets; `ni_isr()` drops a packet for a full queue. Each masked section of
`hf_send()`, `hf_recv()`, `hf_sendack()`, `hf_recvack()`, `hf_comm_create()` and `hf_comm_destroy()` is a step, and so
is `ni_isr()`. `incidents` records why something was lost: a full pool or queue, a missing port, a time-out, a
receiver that gave up, a queue that was destroyed under the handler.

**`Uhfs`.** The disk is two functions: `cmap`, the entries of all cluster map blocks, and `dirs`, every other block read
as directory entries (of which name, directory bit, free bit and first block are kept). Every write to the
device is one step and `Crash` may come between any two; reads belong to the step that uses them, since one task uses the
disk. `hf_mkfs()` writes the super block first and then block after block, and `hf_mount()` looks
at the super block only, so a volume that was cut short in the making can be mounted.
`searchdirectory()` is translated with its habit of looking up the next block in the cluster map block of the
*parent*; a chain that leads to no block of the disk sends the driver into its endless loop (`Halted`); `desc.buffer` is the single block buffer, which an open directory shares with every other call.
`Careful` makes the caller avoid what the calls do not check and the caller can know: no call while a directory is open, no `hf_rmdir()` of the
root, no new name for `hf_rename()` that a search finds (section 4). `intact` is no state of the code: it says that `hf_mkfs()` completed and that
`hf_rename()` has hidden no entry behind a freed one of its name, which a caller cannot know.

**`Net`.** The two rings of an endpoint are filled by the service task and emptied by the owner with no lock, so
`hf_queue_addtail()` and `hf_queue_remhead()` are cut at every load and store of shared memory; the update of the element
count is a load and a store. The output frame is protected by `uudplock`; the ARP cache is not protected. Creation and
destruction of an endpoint are cut into the steps the callback can observe. `wild` records the use of a missing queue, a
null pointer or a freed buffer; the model stops there.

## 3. Runs

| run | property kinds | bounds | states | shows |
|---|---|---|---|---|
| `queue` | 3 invariants, refinement | 3 nodes, 2 values | all | indices, count and cells agree through wrap-around, destruction and re-creation; each call answers as the FIFO |
| `kernel_tasks` | 5 invariants, action property | 3 control blocks, best effort and RT tasks (2,1,2) and (3,1,3), delays 0 and 2, all liberties but `idle_priority` | 133 161 | no task lost or doubled, count right, windows open, shortest period first |
| `kernel_calls` | 2 invariants, 2 action properties | 3 control blocks, every call but `hf_schedlock()`, priorities 64 and 128 | 516 045 | careful clients never halt the system; one RUNNING task; only runnable tasks dispatched; no wrap for runnable tasks |
| `kernel_live` | 2 liveness | 3 control blocks, best effort tasks of one priority, RT task (3,1,3), delay 2, no kill | all | no starvation, delays end |
| `rate_monotonic` | 2 invariants | the six sets, whole hyperperiods | 33 575 | the sets the program calls schedulable lose no deadline; `hf_freecpu()` reports what it states |
| `sync` | 3 invariants, action property, 2 liveness | idle task and 3 tasks, buffer of 2 cells, 1 `hf_resume()` | 59 717 | no lost wake-up, one queue per waiter, mutual exclusion, buffers intact, programs go on for ever |
| `heap` | 4 invariants | 14 words, requests of 3 and 8 bytes, an array of 2 x 5, 1 `hf_realloc()` at a time | 286 797 | blocks disjoint, chain whole, free memory counted, everything comes together again |
| `noc` | 4 invariants, liveness | 3 cores, 2 senders (2 messages and 1, of 2 packets), 5 buffers per core, a receiver's queue of 4 places, 1 malformed packet, 1 sender that may time out, a receiver that may destroy its queue | 279 059 | buffers conserved, messages not mixed, acknowledgements belong to their message, no drop for want of room, all messages arrive |
| `uhfs` | 4 invariants | 9 blocks in two regions, 2 entries per directory block, 1 `hf_mkfs()`, 1 crash | 1 250 376 | no block with two owners and no entry with a free block at any crash point after `hf_mkfs()`, no space lost, unique names where the search is right, complete listings |
| `net` | 3 invariants | 2 buffers, 2 ARP entries, 3 senders to 3 hosts, 1 retry, 4 datagrams | 406 074 | order kept and queue ends sound without a lock; what is sent is the payload and IP address of one call |
| `kill_self_spawn`, `mixed_message` | one each | smallest that shows it | | the disagreements of section 5 |

Why the bounds are enough to be interesting.

* Kernel: three control blocks are the idle task and two others, which suffice for: a call on the caller, on another task
  and on a freed control block; a control block reused while its old thread is on the processor; both RT periods present,
  in both orders of arrival; two tasks expiring in the same tick. Priorities 64 and 128 make the 8-bit arithmetic visit few
  values and still subtract, reach zero and wrap for blocked tasks. `MaxMisses` bounds the count of misses (only "some
  miss" matters). The proofs of section 6 remove the bounds for most safety properties.
* Queue: a ring of four cells with two values wraps, fills and tells reordering apart.
* Sync: three tasks are the least with two waiters of one queue and a third party that posts; with two cells the buffer is
  full, empty and half full. Two levels of the filter lock are passed by three tasks.
* Heap: fourteen words hold three blocks with their headers, so a freed block can have free or used neighbours on either
  side; the request sizes leave remainders too small to split and just large enough. Requests of 3 bytes are rounded up.
* Noc: two packets per message and two senders are what mixing needs; the receiver's queue of four places is one message of each sender, the
  premise of `FlowControlled` with nothing to spare, and smaller than its pool of five, so that the handler does find it full after a time-out (with
  three places TLC finds `FlowControlled` violated); two messages let a late acknowledgement meet the next send.
  `TurnsPerSlot` is 1 instead of 8: `hf_recv()` gives up earlier, which only adds behaviours.
* Uhfs: six data blocks in two regions let a directory of two entries per block extend itself into the other region, begin there, be removed as a
  chain, and find the disk full in the middle of a call, also after an extension. One `hf_mkfs()` is enough, since one that
  completes overwrites every block. Names in directories that the search reaches with the wrong cluster map block are left to `TwoRegions.cfg`.
* Net: with two buffers both rings wrap while the service and the owner are in the middle of an operation; three hosts over two
  ARP entries make answers evict each other. `OneWay` follows a behaviour until it has both received and sent, since
  the two directions share only the service task, which handles one frame at a time.

Deadlock is not checked in `KernelTasks.cfg` (a panicked system stops), `Noc.cfg` (a sender that was not told of a lost packet, or a
receiver of one, waits for ever by design), `Uhfs.cfg` (a driver that was sent out of the disk loops for ever) and `Net.cfg` (the model stops when everything was sent, or at a wild access).

**Fairness.** `kernel_live` assumes weak fairness of `dispatch_isr` (the timer keeps interrupting;
with the scheduler locked the action is not enabled, and the run's clients do not lock it) and of `idletask`
(`main()` does reach it once `app_main()` returns). No fairness is assumed of any call. `sync` assumes weak fairness of
each task's steps: an unblocked task is dispatched again and again (`NoStarvation`), and it keeps executing its loop when
it is. Nothing is assumed about who wins a spin lock. `noc` assumes weak fairness of each task and of the interrupt
handler on each link: cores run in parallel and the network delivers.

Every property of a passing run has a mutation, listed in `PROJECT.json` and written beside the
definition it changes, under which TLC finds it violated.

## 4. Observations without a run

Kernel
* The context of a killed task is not cleared: `hf_kill()` uses the id after overwriting it with -1 (`task.c:447`, `:450`), so it
  writes to `krnl_tcb[65535]`, far behind the table. The next spawn overwrites the context.
* A task that leaves the delay queue keeps the state `TASK_DELAYED` until it is first dispatched.
* A task that kills itself keeps running until the next tick (see `kill_self_spawn` for the consequence).
* With `idle_priority`, priority 255 for the idle task makes the best effort scan end with a NULL task
  when nothing else is runnable: 255 is never below the initial `highestp`.
* `hf_cpuload()` divides by zero before the first dispatch (`processor.c:97`).

Synchronization
* The filter lock has `MAX_TASKS - 1` entries in `waiting[]` and is indexed up to `MAX_TASKS - 1`: one entry short. Its exclusion does not depend on
  the missing one; what the write hits is up to the linker.
* After `hf_resume()` or `hf_kill()` of a waiter the waiter stays in the semaphore's queue and takes a later post for itself.
  `WaitersAreQueued` says what is left after one `hf_resume()`: counts and queues agree, no panic. More of them can fill the queue and panic
  (section 6). `QueuedOnce` and `Exclusion` are about behaviours without `hf_resume()`.

Heap
* `align4(size)` and `size + 8` wrap for requests near 2^32.
* `hf_realloc()` copies the new size out of the old block, which may be shorter.
* `MEM_ALLOC 0`: after an exact fit, `free->size` is read through a null pointer. `MEM_ALLOC 1`: `hf_free()` does not give
  its bytes back to `krnl_free`. `MEM_ALLOC 2`: a request of 0 bytes on a full heap follows a null pointer.

NoC
* An acknowledgement that comes after its `hf_sendack()` timed out satisfies the next one.
* `hf_sendack()` looks at the head of its queue only, so two tasks that send to each other with acknowledgement both time out.
* After `hf_comm_destroy()` the task can never create its queue again, and `ni_isr()` may still append to the freed one.
* Two tasks may claim one port: the check and the assignment are not one masked section.

File system
* `hf_rmdir()` of a path whose last name does not exist removes the directory before it; the root too (`RootKept.cfg`).
* `hf_unlink("/file/x")` removes `/file`. A removal, renaming or change of mode updates the first entry of the name in the block, a freed one
  included (`StaleName.cfg`).
* `hf_rename()` does not look for the new name and does not rename directories; `hf_chmod()` ors the mode into the attributes,
  the directory and free bits included.
* Entries are cleared before the blocks of a removal are freed, so a crash leaks blocks and never gives one away twice. The documentation has it
  the other way round (`RemovalOrder.cfg`), and that order would not survive a crash. It also says that an emptied block of a
  directory is taken out of its chain, which no code does.
* `hf_mount()` accepts a volume whose `hf_mkfs()` did not complete (`HalfMade.cfg`).
* `hf_setlabel()` is never written to disk; `hf_malloc(strlen(path))` is one byte short for the terminator; `hf_mkdir()`
  leaks its copy of the path on one return (`uhfs.c:420`); the block buffer is shared with `hf_readdir()`; no lock guards it against
  other tasks. The RAM disk compares a sector number with a length in bytes.

Network
* The element counts of the two rings are updated by two tasks and drift. A receive then gets a null pointer or leaves a
  datagram for later; destruction counts with them as well.
* Creation and destruction of an endpoint leave windows in which the callback finds a missing queue; a failed creation leaves its node
  in the list. An oversized datagram's buffer is lost.
* The address that `netif_send()` reads from the ARP cache may be of the host that is just evicting the one it
  wants (`MacOfDestination`). A gateway of 0.0.0.0 matches an empty entry, an ARP request is sent 14 bytes too
  long, and the limit on a datagram's length forgets the IP header (`uudp.c:172`).
* The service answers through the same output routine as the senders, without their lock.

Lists: `hf_list_insert()` counts after moving on and never matches position 0 (`list.c:93`).

## 5. Disagreements between code and documentation

Two are runs of `PROJECT.json`:

1. `kill_self_spawn`: the yield at the end of a self-kill is never reached; the dead thread may spawn a task
   into its own control block, and that task never starts at its entry.
2. `mixed_message`: `hf_recv()` that gives up waiting takes whatever packet heads its queue and compares the sequence number
   only; it returns `ERR_OK` for a message put together from two senders, where `ERR_SEQ_ERROR` is documented.

The others can be reproduced with the configuration named (`tlc -config <file> <module>`):

| configuration, module | property | what the code does |
|---|---|---|
| `QueueRemtail.cfg`, `QueueRemtail` | `RemtailReturnsNewest` | `hf_queue_remtail()` returns the free cell behind the newest node, and computes a negative index when the tail is 0 |
| `KillDelayed.cfg`, `MCKernel` | `CallsOnTasksReturn` | `hf_kill()` and `hf_delay()` of a task in the delay queue panic, although they document an error code |
| `YieldLocked.cfg`, `MCKernel` | `LockDisablesScheduling` | `hf_yield()` switches tasks while the scheduler is locked, and no tick switches back |
| `ShortDeadline.cfg`, `MCKernel` | `WindowsWithinDeadline` | from its second period on a real-time task gets its period as deadline |
| `MaskedSpin.cfg`, `SyncApps` | `MaskedCallsReturn` | a call that allocates with interrupts masked spins for ever when a preempted task holds the heap's lock |
| `FirstFit.cfg`, `MCHeap` | `FirstFit` | `MEM_ALLOC 3` refuses a request that a block before `last_free` could serve, where `malloc.c:350` says that areas are searched "from the beginning of the heap" |
| `TwoRegions.cfg`, `MCUhfs` | `UniqueNames` | a directory whose blocks are in another region than its parent's is searched through the wrong cluster map block: a repeated name is not found, where `uhfs.txt` says to "check the current directory for a repeated name [...] and abort"; the volume of `app/ramdisk` has two regions |
| `StaleName.cfg`, `MCUhfs` | `EntriesAllocated` | `hf_rename()` to the name of a freed entry of the block, then `hf_unlink()`: the freed entry is marked again and the blocks of the other are freed, which stays in the directory (`uhfs.txt`: "deallocate the directory entry") |
| `RemovalOrder.cfg`, `MCUhfs` | `BlocksThenEntry` | entries are freed before their blocks, where `uhfs.txt:158` says "remove file blocks in the chain on the cluster map THEN the dir entry"; the code's order is the one that survives a crash |
| `HalfMade.cfg`, `MCUhfs` | `RootKept` | a crash in `hf_mkfs()` after the super block leaves a volume that `hf_mount()` accepts and that has no root directory |
| `RootKept.cfg`, `MCUhfs` | `RootKept` | `hf_rmdir()` removes the root directory, which "should always be" there |
| `LockFree.cfg`, `MCNet` | `LockFreeReceive` | `uudp.c:135-136` says "we can do this without locks": the rings' ends stay sound, their counts do not |

## 6. What is proved

All theorems hold for every value of the constants that satisfies the named assumptions (`Kernel`:
at least one and at most 65535 control blocks; call arguments in the ranges of their C types; `Queue`:
a capacity of at least one). Nothing is assumed of the clients, `Calls` and `Liberties` are arbitrary, except in the theorems
that state a hypothesis of their own: three of `SchedulerProof`, and `NocFlowControlled` (the pools and queues have room
for what may be on its way).

* **`QueueProof`**: the ring's type invariant, `CountIsDistance`, `NodesInitialised`, and the refinement
  `QueueImplementsFifo`. The inductive invariant `IndInv` ties the redundant count to the two indices
  modulo the size; without it neither the full test nor the empty test (which use different
  variables) can be related to the contents.
* **`QueueOpsProof`**: rotation, append, concatenation, removal, filter and the exchange sort each keep a
  queue of distinct tasks and change its set of members exactly as intended. The loops are recursive
  functions; their existence and their effect are proved by induction over a set of naturals
  (`NatSetInduction`), which needs no operator parameter. `SortSorts` shows in the same way that the exchange sort sorts: the loop
  over pairs of places is one count of turns, whose quotient is the outer and whose remainder the inner index; after the turns of a row
  its place holds the smallest key of what follows (`ExchangeSorts`, `RowDone`).
* **`KernelProof`**: `KernelInvariant` shows `IInv` inductive, and from it follow `KernelTypeOK`,
  `KernelQueuePartition`, `KernelTaskCount`, `KernelRunningIsCurrent`, `KernelDelaysPending` and the
  action property `KernelDispatchesRunnable`.

Why `IInv` is what it is. `TypeOK` needs `DelaysPending` (a delay is decremented before it is
compared) and needs that capacity is charged only to a task that has some: `sched_rma()` answers
0 for "none", so the idle task must never be in the RT queue, which follows from `IdleLives`
(control block 0 is live and best effort) and `QueuePartition`. The dispatcher writes `krnl_current_task`
from the `id` field of the chosen control block, so `RunningIsCurrent` needs `KnowsItsPlace`: every live
control block holds its own index. `QueuePartition` needs that the chosen and the freed control
blocks are exactly those in the queues, and `TaskCount` counts the same set.
The proof has one lemma per action; the dispatcher is cut at its intermediate control blocks
(`Preempted`, `Counted`, `RtTcb`, `BeTcb`), each shown to keep task identity (`Kept`), the queue
relation (`Placed`) and blocked states (`StaysBlocked`).

* **`SchedulerProof`**: what the schedulers do with budgets, on top of `IInv`.
  * `KernelRemainingNeverGrows`, for any clients: `sched_priorityrr()` subtracts from every runnable task the remaining priority of the one it chose,
    and no runnable task has less (`BeTaskLowest`, from the minimality of the chosen place), so the subtraction in eight bits does not wrap.
  * `KernelWindowOpen`, if every real-time task is spawned with a deadline (`DeadlinesGiven`; `hf_spawn()` does not check it): `WindowOpen` speaks
    of the queued tasks only, so `WindowsStand` adds the delayed ones, whose windows wait in the control block.
  * `KernelShortestPeriodFirst`, for any clients: the RT queue after a tick is the sorted one (`SortSorts`), awakened tasks included, and the scan
    stops at the first ready task; the charging of capacity in the same tick changes no period.
  * `KernelNeverHalts`, for `CarefulClients` (no self-kill, no kill or second delay of a delayed task, the idle task's priority left alone,
    `SpawnPriority` below 255). `CarefulInv` adds that a live task is on the processor and that the idle task is always a candidate: neither delayed nor
    blocked, both priorities below 255, and no `hf_priorityset()` on it half done (`IdleSpared`). No queue is ever full because its members are
    distinct control blocks and the one about to be added is not among them (`QueueLength`). No part of the hypothesis is
    idle: with any one of the three liberties in `KernelCalls.cfg` (and 255 among the `Priorities` for the idle task's), or a `SpawnPriority` of 255, TLC
    finds a halt within a few hundred states. `hf_spawn()` itself gives 100.
  * `KernelOwnContext`, if no task kills itself: `OwnInv` adds that every live task's saved context is its own. It is the complement of
    the run `kill_self_spawn`, which violates `OwnContext` with that liberty alone.

  TLC checked `CarefulInv` on the constants of `KernelCalls.cfg` (516 045 states) and with real-time tasks (26 905 states) before the proof.

* **`NetProof`**: `NetOutputSound` shows `OutputSound`: whatever the number of senders, hosts, ARP entries, retries and
  datagrams, what goes out is the payload and the destination of one call of `hf_uudp_send()`, and the ARP cache holds no host
  twice and no wrong address outside the entry being rewritten. `SendsOwnPayload` is not inductive: `LockInv` adds
  that every task inside the call holds the lock, so there is one, and that the frame is its own from the copy to the wire.
  `ArpSound` needs the shapes of the records (`OutputType`, `ServiceShape`) and that no step but `arp_mac` ends the rewriting of an
  entry; the steps of the endpoint are shown once to leave all of this alone (`EndpointApart`).
  It assumes `NetAssumption` (the service is no sender and not the owner).

* **`EndpointProof`**: `NetEndpointSafe` and `NetInOrder` show `EndpointSafe` and `InOrder` for any number of buffers, datagrams
  and retries, from `NetAssumption` alone. The argument is the one behind "we can do this without locks" in `uudp.c`:
  each queue has one task that adds to it and one that takes from it (`Roles`), so the tail has one writer and the head another;
  what a ring holds is a sequence (`Line`) to which `add_tail` appends and from which `rem_head` takes, whatever the element count
  says (`RingWrite`, `RingAdd`, `RingRem`). That a full queue never refuses a buffer is a pigeonhole argument (`NotFull`): all buffers
  made so far are in different places (`OnePlace`), so a task with a buffer in hand leaves a free cell in the other `QSize`. Ordered arrival
  (`Ordered`) follows a datagram's number from `udp_in` through both tasks' hands to `hf_uudp_recv()`. None of this survives destruction,
  so the invariant is conditional on `Live` (created or in use, nothing wild so far), and `Filling` shows that no step brings
  an endpoint back to life. Only the null pointer of an element count that drifted remains possible while the endpoint is in use;
  that is the disagreement `LockFree.cfg` shows.

* **`NocProof`**: `NocBuffersConserved` shows `BuffersConserved`. The count is not inductive alone: what a step gives back or takes depends on where the
  task is in its call, so `Shape` says for each place what the task holds there (one buffer at the copy, none elsewhere; a queue
  while it serves one, none before). The sum over the tasks of a core is the cardinality of a set of numbered buffers (`HeldOn`), so that no
  induction is needed. Once a buffer went into a queue that was freed under the handler the equality becomes an inequality.

  In the same module, `NocMessageIntact` and `NocAckIsForThisMessage`. `RouteInv` says that packets are only where their addresses take
  them and what a receiver has copied so far; `TokenInv` says that of the n-th packets of a sender at most one exists on the links, in queues, in
  buffers and among the copied ones, none while the acknowledgement is on its way back, and that all belong to the message the sender is at:
  a sender that waits for its acknowledgement passes a token to the receiver and back. A time-out drops the token, so both properties exclude it.

  `NocFlowControlled` shows `FlowControlled` for pools and queues of any size with `PoolsSuffice` (at each core, room for one message of every sender to it and one
  acknowledgement for every sender on it) and `QueuesSuffice` (the queue a task asked `hf_comm_create()` for has room for one message of every sender to it). The tokens
  bound each packet of each sender while nothing gives up; `FlowControlled` does not exclude a receiver that
  gave up waiting and completed a message with the packets of another sender, so `FlowInv` counts by groups of receivers: until a time-out, the packets that a
  group has or that are on links to it, and a whole message for every acknowledgement on its way back, are at most what the
  senders to the group have sent of the messages they are at (`Counted`). Sending adds one to both sides, receiving moves one on the left, an acknowledgement replaces
  the packets of the message it is for, and a sender that starts its next message has no acknowledgement left. The receivers of a core are the group that shares its
  pool, so the handler finds a buffer (`PoolLasts`, with `BuffersConserved` for what a pool has lent); each receiver alone is the group of its queue,
  so that is not full (`QueueLasts`).
  TLC checked `FlowInv` on the constants of `Noc.cfg` (279 059 states), whose queue satisfies `QueuesSuffice` with nothing to spare; with one place fewer it finds
  `FlowControlled` violated.

The assumptions of `Noc` are `SizesAssumption` and `RolesAssumption` (sizes, and one role per task), `AddressesAssumption` (the tasks of a core have
different ports, the senders to a task have different channels, none the acknowledgements' channel: the code leaves both to its users and checks
only the ports) and `NoQueueAssumption` (the two pointers that are no queue differ from every queue).

* **`SyncProof`**: the semaphores, condition variables and both mutexes under the programs of `SyncApps`, for any number of tasks, any split of them into
  roles and any size of the buffer.
  * `SyncInvariant` shows `IInv` inductive. It speaks of the queues of all semaphores and condition variables at once, as one function from objects to
    lines of waiters: `Sound` says that every blocked task has a place in a line, that a place belongs to a blocked task, and that no task has two.
    `hf_resume()` breaks the second and third for one place, which stays behind as a stale one until a post takes it, so `Sound` names at most
    one stale place and says nothing of its task. `Counted` ties the count of a semaphore to the length of its line, and `Settled` says that nothing waits
    before `app_main()` has spawned the tasks, which is what makes a creation or a destruction of an object harmless.
  * `SyncWaitersAreQueued`, for any number of resumes; what it says of blocked tasks and of the panics is for states in which at most one waiter was resumed. The panic
    for a full queue is then excluded by a pigeonhole argument (`LineBound`): the caller is not in a line, so with one stale place there is room. The limit is
    needed in some form: with four tasks, two resumed waiters do no harm and TLC finds that three overflow the queue and reach `PANIC_NUTS_SEM`.
  * `SyncQueuedOnce`, about states in which nothing was resumed: a task is blocked exactly when it is in the queue of an object, of one object only, and once.
  * `SyncExclusion` shows mutual exclusion for all eight programs. `EInv` adds to `IInv`, until something was resumed or stopped, what each application's lock
    means. `Parked`: a task in a semaphore's queue has just executed the wait for it. For a semaphore created with 1, the tasks between wait
    and post that are not parked on it are at most one, and none when the count is 1 (`Binary`). The database of `readers_writers` has the readers together as one
    holder of `w_db`: `rc` is the number of readers between their two updates of it, and a reader that is parked on `w_db` is the only one inside
    (`LoneReader`). For the spin lock a task inside `hf_condwait()` is no holder until it has locked again. For the filter lock, `level[]` tells how far a task has
    got (`LevelsTell`), the last task to arrive at a level has seen every task it tested below it (`TestsTell`), and it is still there unless it passed alone
    (`VictimStays`); so each level stops one task, at most `MAX_TASKS - l` arrive at level l (`LevelsThin`, by induction) and one holds the lock. The entry that
    `waiting[]` lacks is the last level's, where no second task arrives.
  * `SyncBufferIntact` shows the action property `BufferIntact` for both bounded buffers. `BInv` says which cells hold an item: `n` of them from `out` on, around
    the ring, and `in` is behind the last, up to the statement that a task between its two updates has still to execute (`Ring`). In `app/sem_test1` the
    number `n` is held by no variable: it is the count of `full` and the tasks that have put and not yet posted, or waited and not yet taken
    (`Items`). These, the count of `empty` and the tasks between their wait for it and their put, or between their take and their post, add up to at
    most `N` (`SlotsCounted`). A negative count has as many parked tasks, which are among those counted, so a producer that was let through
    leaves `n < N` (`OneLeft`, `BufferRoom`). In `app/cond_test1`, `n` is `items`, corrected for the statement between, and the test of the `while` still holds at the
    put or take that follows it (`ItemsHeld`).

  The assumptions are `SyncTasksAssumption` (two control blocks or more), `NoQueueAssumption`, `BufferAssumption` and `AppsAssumption` (the applications are among
  the eight, and their objects exist). TLC checked `EInv` on the constants of `Sync.cfg` with the program `spawn_malloc` added (59 749 states) and `BInv` on it and on buffers of one to three
  cells before the proof.

Only model-checked: liveness (`NoStarvation`, `DelayEnds`, `EveryTaskProceeds`, `SystemProceeds`, `SendsComplete`), which the
proof system does not reach; the verdicts of `RateMonotonic`, which concern particular task sets; the invariants of `Heap` and `Uhfs`. What the walks of `Heap` and `Uhfs` compute needs induction over
data for every input, so their proofs would have to start from invariants that speak of one link at a time.

## 7. Not modelled, and the plan

Left out for good:

* Linked lists (`list.c`): sequential code under masked interrupts; of the list of UDP endpoints, `Net` has the membership.
* `kprintf` and the C library: sequential data conversion, better tested.
* Device table, serial devices, SD card, boot code, register headers: I/O whose state is in the hardware.
* `sched_rr`, `sched_lottery` (installed by no platform) and `hf_cpuload()` (job counters and a percentage).
* The file system's calls from `hf_touch()` on, which are empty in the source (reading and writing of files among them).
* The byte layout on the wire and on the disk, checksums, ICMP echo.
* Example applications other than the six that `RateMonotonic` and `SyncApps` run.

By lines, most of the repository is none of this: the MIPS back end of GCC (`usr/tools`, 19 141 lines), image
data in a header, PIC32 register definitions, simulators, floating point and string routines. They hold no logic of the
operating system, and the share of lines that `PROJECT.json` maps is small for that reason; of the kernel, the
synchronization primitives, the heap, the NoC driver, the endpoints and the file system it covers nearly all.

What a next proof would take up: disjointness of the blocks of `Heap` as an invariant over neighbours in the chain, and soundness of the chains of `Uhfs`, link by link.
