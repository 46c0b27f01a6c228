# FeatherOS: a verification development

FeatherOS (`src/FeatherOS`) is a small x86-64 kernel in C. This directory holds
TLA+ modules that model most of its stateful parts, TLC configurations that check them on small
instances, and TLAPS proofs of the properties that matter most for instances of
every size. `PROJECT.json` gives, for every definition, the source lines it
stands for.

## 1. Inventory

| Component | State | Operations | What is hard | What makes it correct |
|---|---|---|---|---|
| Spinlock, atomics (`kernel/sync/sync.c`) | a word | lock, trylock, unlock | interleaved accesses | one holder |
| Read-write lock | embedded spinlock, `readers`, `writers` | lock, trylock, unlock, both sides | tests repeated after the spinlock was dropped | a writer excludes everyone; the count is exact; somebody gets in |
| Mutex | `locked`, `owner` | lock, trylock, unlock | two stores per operation | one holder, marker not wiped |
| Semaphore | `count` | wait, trywait, post | stale count between read and swap | units are conserved |
| Condition variable | `signaled`, spinlock | wait, signal, broadcast | one flag for many waiters | a signal is consumed once; a broadcast reaches all waiters |
| Page allocator (`kernel/mm/memory.c`) | bitmap, statistics | init, alloc, free, reserve, unreserve | padding bits, page 0, overlapping ranges | no page has two owners; counts follow bits |
| Slab allocator (`kernel/mm/slab.c`) | three lists per cache, free lists, counts | alloc, free, shrink, reap, by cache or by size | list transitions, exhaustion of pages or descriptors | an object has one owner, a page under a live object stays in use |
| `kmalloc` heap (`kernel/lib/datastructures.c`) | pointer, bytes left | kmalloc; kfree does nothing | the place of the heap | the heap overlaps nothing else |
| Timer wheel (`kernel/drivers/timer.c`) | `jiffies`, three levels of buckets, per-timer fields | add, delete, tick with cascade, `run_timers` | stale slot, periodic re-adding, cascade | never early, on time, always found by `del_timer` |
| Task table, PIDs, wait queues (`kernel/sched/task.c`) | PID bitmap, table, task states, queues | `kernel_thread`, `copy_process`, `remove_task`, `do_exit`, `add_to_wait_queue`, `wake_up` | limits, wrap, failure and exit paths, stale entries | a PID has one task; none leaks; a blocked task can be found and woken |
| CFS scheduler (`kernel/sched/schedule.c`) | run-queue tree, vruntime, clock | enqueue, dequeue, `schedule`, tick, yield, sleep, wake, nice, fork, exit | tree surgery, key changed before the search, a task made runnable twice | no runnable task is lost; `nr_running` is right |
| User processes (`kernel/process.c`) | table of 32, PIDs | spawn, exit | PIDs never freed | as the task table |
| Paging (`kernel/mm/paging_impl.c`) | four levels of tables, the vmalloc pointer | map, unmap, translate, vmalloc, page fault | memory that runs out half-way down, flags in the entries | an address translates to the page mapped last |
| Virtual memory areas (`kernel/mm/vma.c`) | red-black tree | insert, erase, find, mmap, munmap | rotations, successor walk while erasing | the tree is a balanced search tree; an unmap spares the others |
| VFS (`kernel/fs/vfs.c`) | mounts, dentries, vnodes, files, descriptors | register, mount, lookup, open, close, read, write, seek | reference counts, stale dentries, failure paths | no vnode or file in use is freed, none leaks |
| RAM disks, tmpfs, FIFOs (`kernel/fs/ramdisk.c`) | device table, inodes, rings | create, delete, read, write | holes in the table; close against blocked readers and writers | the table leads to live devices; bytes in order, once; waiters end after close |
| Link layer (`kernel/net/network.c`) | two queues, ARP cache, devices | enqueue, poll, ARP, loopback | limits, who frees a buffer | a buffer has one owner and is freed once |
| Sockets and routes (`kernel/net/tcpip.c`) | sockets, buffers, route table | bind, listen, connect, receive, close, route lookup | segments in any state, lengths computed unchecked | the stream is in order; the longest route wins |
| Block layer (`kernel/drivers/ata.c`) | buffer cache, request queue | bread, getblk, brelse, bwrite, sync, requests | recycled buffers in hash chains | a held buffer keeps its sector; requests in order |
| Keyboard and mouse (`kernel/drivers/keyboard.c`) | two rings, modifiers, packet | interrupt handlers, readers, clear | handler against reader without a lock | items in order, once |
| System calls (`kernel/syscall_impl.c`) | stdin ring, descriptors | read, open, close, exit | `keyboard_count--` against the interrupt | characters in order, once, as long as no increment is lost |
| Containers (`kernel/lib/datastructures.c`) | vector, list, ring, hash tables | insert, remove, find | tombstones, growth, wrap | they agree with sequences and maps |
| Console, framebuffer, printk, AHCI, boot code, userland | | | output, hardware, assembly | not modelled |

How they interact: the slab allocator takes its pages from the page allocator and
its descriptors from the `kmalloc` heap; paging takes pages too, and the areas stand on
the page tables. The timer wheel, the file systems, the network and the block layer use
spinlocks. Several links that one would expect are missing at this commit: nothing
registers a file system with the VFS, `eth_rx` frees IP packets instead of calling
`ip_rx`, the keyboard driver does not fill the buffer of `sys_read`, and nothing above
the block layer uses it. At this
commit `main.c` does not start the scheduler, so that the allocators run without
preemption; the locks are written for several tasks or CPUs, and are modelled so.

## 2. Modules

* `Atomic`: compare-and-swap, increment, and the two spinlock operations, as
  operators on a memory word; the constant `Tasks`.
* `SpinLock`, `RWLock`, `Mutex`, `Semaphore`, `CondVar`: one primitive each. A
  program counter per task names its next access to shared memory, and each action
  is the set of steps of one C function. Accesses interleave freely and take effect
  in program order: the code runs on x86, its words are volatile and its locked
  instructions and barriers order the rest. A failed attempt changes nothing but
  statistics, so it is a stuttering step.
* `Sync` puts the five side by side. They share no memory, so the tasks turn to
  another primitive together, when nobody uses the first one.
* `PhysMem`: the page allocator. `bitmap` is the set of set bits, including those
  beyond the last page; `held` and `reserved` record what callers were given and
  reserved. A page stands for its address, hence page 0 for the address 0.
* `Slab` extends `PhysMem`: the three lists of each cache are sequences of pages;
  `free_list` and `num_free` are those of the slab on a page. `live` are the objects
  callers hold. `slab_alloc` includes its recursive retry and `slab_create`.
* `Timer`: the wheel. A bucket is a set of timers. `run_timers` is two steps, because
  it computes its slot before it takes the lock; everything else is under the lock.
  `ran` and `in_time` are history: what ran last, and which timers were added in time.
* `TaskTable`: the PID allocator, the process table and the wait queues of `task.c`,
  and the user process table of `process.c`. The PID bitmap is the set of its bits; a
  wait queue is the sequence of its entries. Creation is one action with its failure
  paths: a PID is taken, then a slot, and without a slot the PID is freed.
* `Fifo`: the named pipes. What runs under the lock of a FIFO is one step; the tests of
  `closed` before the lock and the parts of `fifo_delete` are steps of their own.
  `ByteQueue` is what a closable bounded queue promises; `Fifo` instantiates it
  (`FifoQueues`) with the `data_len` bytes of the ring from `read_pos` on for its
  content, and the calls that passed their test of `closed` for its puts under way.
* `RamDisk`: the device table, whose count is also the next free index, transfers with
  their bounds, and the position of `/dev/random`. `Tmpfs`: inodes in linked lists of
  children and data that grows; `tmpRef` is the history of what was written.
* `Vfs`: mounts, dentry cache, lookup, files and one descriptor table. `vheld` and
  `fheldv` count the references that callers hold.
* `FileSystems` composes these four, as parts that share no state.
* `Sched`: the run queue as the tree the tasks form, with every call of `schedule.c`
  that changes it, for every task and in every order, and with the exits of `task.c` and
  `process.c`. A division by zero or an endless walk is the outcome `fault`. `again` is
  history: how often `set_task_state` or `wake_up_process` entered a task that was in the
  queue.
* `Paging`: the tables by page number, with `ref`, the entry mapped last at an address. An
  entry is a page number and the bit NX (`make_pte`), a number above all pages; the walk
  returns it as `paging_virt_to_phys` does, with NX.
* `Vma`: the red-black tree with its rotations, insertion fixup and erasure, `vma_mmap`,
  `vma_munmap`. Left and right are one definition with a side as its parameter. User space
  starts at 0, as in the code; the areas of boot lie anywhere up to `AddrBound`.
* `Net`: the two queues as linked lists of buffers, the ARP cache, the loopback device;
  each turn of a poll loop is a step. `order` and `arpRef` are history. `lo_list` says
  whether the list of devices has the loopback device, or leads to it without end, as
  after a second `netdev_register`.
* `Sockets`: sockets with their TCP state and buffers, and the routing table. Received
  bytes are numbered, so that the buffer shows whether one was lost or moved. Segments
  have every length that `tcp_rx` and `udp_rx` compute, those that wrapped included, and
  the test for room is made modulo `LenWords` (2^32); a copy that runs over the buffer
  sets `overrun`, and the behaviour ends there.
* `BlockIO`: buffer heads with their hash chains, the sectors of a device, and the
  request queue. A chain that became a cycle leaves the cache `locked`.
* `Input`: the PS/2 devices, both interrupt handlers, and the readers of the rings, one
  memory access at a time.
* `Syscalls`: `sys_read` access by access beside `keyboard_buffer_put`; descriptors.
  `taken` is history: the characters are numbered as they are put, and it has the number of
  the one in each slot and the increments of `keyboard_count` that were lost.
* `Containers`: vector, list, ring and hash tables, each beside the sequence or the map
  it stands for. `mapref` also has the keys that a put entered a second time and the places
  that `str_hash_remove` cleared, which are the two ways in which the tables go wrong.
* `Machine` composes these nine, from `Sched` to `Containers`, as parts that share no
  state: a behaviour exercises one part and the others keep their initial state. The
  one exception is that areas stand on page tables, which `Vma` takes for a set of mapped
  pages; `TranslatesAsMapped` is what allows it.
* `SeqFilter` and `LinkedList` are two small vocabularies: the entries of a sequence at
  given positions, in order (lists from which entries are unlinked), and a doubly linked
  list that stands for a sequence.
* `SyncProofs`, `MemoryProofs`, `TaskTableProofs`, `TimerProofs`, `FileProofs`,
  `MachineProofs`, `AddressProofs`: theorems. `BaseLemmas` has what several of them need.
* `MCSync`, `MCMemory`, `MCTaskTable`, `MCTimer`, `MCFileSystems`, `MCVma`,
  `MCMachine`: what TLC runs.

Definitions whose comment starts with "Mutant" are plausible bugs of the definition
after them. They are not used by any specification; replacing the definition by the
mutant makes the property that PROJECT.json names fail.

## 3. Runs

| Run | What it shows | Bounds |
|---|---|---|
| `sync` | exclusion, exact counts, conservation, single consumption of signals, progress | 3 tasks (two readers beside a writer, a holder beside two competitors), 2 semaphore units (so that three tasks compete) |
| `memory` | no page and no object has two owners, lists and counters are right | 6 pages, one hole, one bitmap page and two padding bits; two caches (3 and 1 objects per slab), so that slabs pass through all lists; 3 descriptors, so that pages and descriptors both run out; blocks of up to 2 pages; 1 reservation |
| `tasks` | a PID has one task, none leaks, `alloc_pid` finds the last free one, the table has room for it, no blocked task is missing from its queue | 4 tasks over 3 PIDs, so that PIDs run out and are used again; user table of 1 slot, so that a process is in no table; 2 waiters, 2 queues of 2 entries, so that entries of earlier waits are left in both |
| `timer` | never early, low timers on time, every pending timer found | 2 timers, 4 slots per level, 18 ticks: more than one turn of the second level, all three levels used; one-shot and two periodic timers |
| `condvar_broadcast` | violation: a broadcast wakes one of two waiters | 3 tasks |
| `timer_cascade` | violation: a timer due at tick 4 (256 in the code) is never run | 1 timer |
| `alloc_zero` | violation: the first allocation fails while pages are free | as `memory` |
| `slab_overrun` | violation: a 4096-byte object ends outside its page | caches of 2048 and 4096 bytes |
| `files` | the RAM disk table leads to live devices, tmpfs keeps its children and its data, references are counted, FIFOs implement byte queues, a close ends every wait | 2 tasks; FIFOs of 2 bytes and writes of 2, so that the ring wraps and a write is partial; 4 RAM disks for 3 slots, so that slots are used again; 3 inodes (2 of them with data, at offsets 0 and 1, limit 4 bytes); one file system with a directory and a file, 4 vnodes, 2 descriptors, 1 open file, a dentry cache of 1 |
| `machine` | the invariants of the link layer, sockets, routes, scheduler, areas, page tables, block layer, input, system calls and containers | see below |
| `sched_starvation` | violation: a ready task is dropped from the run-queue tree | idle and 2 tasks, 3 ticks, 3 other calls |
| `vma_unmap` | violation: `vma_munmap` erases an area outside the range | the 3 areas of boot, up to 4 more, 1 unmap |

The six violations are disagreements between the code and what its comments or the
Makefile say; `PROJECT.json` quotes both under "findings". The other runs are about what
the code gets right beside them. Thus `memory` keeps the heap, the bitmap and the slabs
apart, as if objects did not run over their pages; `machine` shows for the scheduler only
that the count is right, and for the areas that the tree is right before something is
removed.

The bounds of `machine`, part by part: link layer: 3 buffers, queues of 2, so that a queue
overflows while a buffer is still with its caller; 5 frames, with contradicting ARP
packets for one address; 2 ARP entries for 3 addresses. Sockets: 2, receive buffers of 2
bytes and segments of 1 and 2, so that a segment does not fit, and of -1 and -2 modulo `LenWords` (16),
which pass the test for room or fail it with what the buffer holds. Routes: all tables of up to
3 routes over 5 networks and 5 masks of 3 bits, the empty mask and one that is no prefix
among them. Scheduler: idle and 2 tasks, 2 ticks
(`MaxClock`) and 3 calls that leave the clock alone (`MaxCalls`). Areas: user space from 0 to 9, 3 areas
at boot, one of them above it, below `AddrBound` (12); up to 9, so that all
cases of the insertion fixup occur; 1 unmap. Block cache: 2 buffers for 3 sectors in 2
chains, transfers that fail; one value for the contents of a sector, on which no guard
depends. Request queue: 3 requests. Keyboard ring of 3 and mouse ring
of 2, so that both fill up; shift, caps lock and a letter. Standard input: a ring of 2, 6
characters, so that increments are lost and characters overwritten. Containers: capacities 1 (growing), 3 and 4
with two colliding keys. Paging: 2 entries per table (`PTE_COUNT`), 6 pages of memory, so that memory runs
out at every level; calls at two addresses (`MapAddrs`), one of them in the vmalloc region of 3 pages; mappings with
and without NX (`PTE_NX` is 100, above all page numbers).

`MCTimer` uses the symmetry of the timers, `MCTaskTable` those of the tasks and queues;
all their properties are invariants. Deadlock
is checked in `sync`, `memory`, `timer` and `tasks`: those systems never stop. It is not in
`files`, `machine` and the violations about the scheduler and the areas: parts of them
come to an end, at a bound (clock, unmaps, characters typed), with every FIFO deleted, or
where the code does (`fault`, `stuck`, `locked`).

The C constants scale down: a wheel of 4 slots instead of 256, 6 pages instead of
130975. The slab geometry is not scaled: `calc_num_objs` computes with the real sizes.
The limit of four slabs per `slab_shrink` is in the model and not reached at these
bounds.

### Fairness

`WaitersProgress` and `RWProgress` assume that a task goes on with a call it has
started and returns what it took (weak fairness per task: every task keeps getting
time), and that a task that tries the embedded spinlock of the read-write lock again
and again while it is free again and again gets it (strong fairness on that
acquisition). The code has no queue, so the second assumption is about the machine: a
compare-and-swap that is repeated does not fail forever. Both properties promise that
some waiter gets in. That every waiter does is not promised by the code: writers can
be starved by readers. `CVSpec` makes the same two assumptions for the condition
variable, so the broadcast violation is not a matter of a task that stopped.

`CloseReleases` assumes that a task inside `fifo_read`, `fifo_write` or `fifo_delete` runs
on (`FSFairness`, weak, per task): `delay_ms` returns, and the lock of a FIFO is held for a
bounded copy only. It does not assume that anybody reads, writes or closes.

## 4. Proofs

All for every value of the constants under the named assumptions.

* `SyncProofs!RWInvariant`, `RWExclusionHolds`, `ReadersCountedHolds`, for every
  finite set of tasks (`TasksFinite`). Exclusion is not inductive: a task between its
  test and its store is not yet inside. `RWInv` adds who owns the embedded spinlock
  and what a task inside it knows: after the test of `writers` the flag is still 0,
  the register equals `readers` between load and store, and so on. One lemma per
  operation, one step per label of it.
* The rest of `SyncProofs`, for every finite set of tasks: `SpinExclusionHolds`, `MutexIsOwned`,
  `SemConservation` (also for every initial count, `SemInitAssumption`),
  `SignalIsConsumedOnce`. Each conjunct of `SyncInv` says what a task between two accesses
  knows: a free word means that nobody is inside (`SLInv`, `MXInv`), a task about to swap
  read a positive count (`SemInv`), at most one task is between lock and unlock of the
  condition variable and the flag is still set when a waiter is about to clear it (`CVInv`).
* `MemoryProofs!PagesAreExclusive`, `FreePagesAreTracked`, for every memory size and
  map (`PhysMemAssumption`), with the slab allocator as a caller and without. The scan of `find_first_free` reads past the last managed
  page. The proof shows why this is harmless: the first bit beyond it is set at boot
  and nothing clears it, so a run that crosses the end is never free. This needs
  `MaxPages < BitmapBits`, which the padding of the bitmap gives with the memory map of
  `memory_detect_e820`; for a map whose pages fill the bitmap exactly the scan would
  leave the bitmap. `PhysInv` also records that bits outside `FreeAtBoot` stay set,
  that reserved pages stay marked, and that blocks are disjoint.
* `MemoryProofs!SlabsAlwaysSorted`, `ObjectsAreExclusive`, `SlabPagesAreExclusive`, for
  every set of cache sizes and every size of the descriptor heap (`SlabAssumption`). The
  three need each other: `slab_free` finds the slab of an object only because the slab is
  on a list of its cache, and `slab_shrink` may give a page back only because a full
  free list leaves no object to a caller (`AllListed`, by counting). `SlabInv` joins them
  and takes the lists as sets. Each branch of `slab_alloc` and `slab_free` touches one slab
  (`OneSlab`), for which the invariant is shown once. `num_objs_free` is a sum over the
  slabs of a cache; the sums of `BaseLemmas` say how it changes.
* `TaskTableProofs!PidsAreOwned`, `AllocPidIsComplete`, `TableAlwaysHasRoom`,
  `BlockedIsAlwaysQueued`, for every number of PIDs, slots, tasks and queues
  (`TaskTableAssumption`). That PIDs have one owner is not inductive:
  `remove_task` frees a PID, and a task in two slots, or one in the table without a
  PID, would free the PID of somebody else. `PidInv` adds that tasks of the table have
  a PID and one slot each. The loop of `alloc_pid` is described by the position of
  `next_pid` after k turns; `CursorTurns` shows that it meets every PID before it is
  back where it started, so that its two ways to end cover everything. There is room in
  the table by counting: the slots in use map one to one to PIDs in use (`SlotInv`).
  `WaitInv` keeps an entry for each blocked task through `wake_up`, which unlinks the
  entries of exactly those it makes ready.
* `TimerProofs!TimersNeverEarly`, `TimersArePlaced`, `LowTimersAreOnTime`, for every wheel
  size and set of timers (`TimerAssumption`). `TimerInv` adds that the slot of a delayed
  `run_timers` is not ahead of `jiffies`, and gives the bucket of every linked timer. A
  late slot then holds only timers that are due: a bucket of the first level has only timers
  whose absolute expiry is the number of the slot, later ones are in the upper levels, so that
  `run_timer_list` may run all of it without a look at the expiry. The proof of the cascade shows the other side of the
  finding about it: it puts every timer back where it was.
* `FileProofs`. `FifosAreByteQueues`: `FSSpec => FifoImplements`, the refinement, for every
  capacity, set of tasks and set of FIFOs. `FifoInv` is the type invariant and
  `write_pos = read_pos + data_len` on the ring; each step of `Fifo` is shown to put the
  bytes behind the content, to take them from its front, or to change neither.
  `RamdiskTableHolds`: the table beside the count that is also the next index.
  `TmpfsChildrenLinked`: linked lists of children are right forwards and backwards. Its
  invariant `TmpInv` adds that parents were live once and that `prev` leads to inodes of
  the same directory, which the unlinking of a middle child needs. `TmpfsDataIsKept`:
  `BytesInPlace` says where each written byte lies, `SpaceCounted` that `used_size` is the
  sum of the sizes, for a finite set of inodes; `SumMoves` is that sum when an inode enters,
  leaves or changes its size. `ReferencesAreCounted`, for a finite set of files and paths
  that are sequences (`VfsAssumption`): the dentry cache holds vnodes without a reference, and
  `dentry_release` puts the vnode of an entry that it removes, which nobody would have counted.
  `NamesKept`, a part of `VfsInv`, shows that this never happens: every entry keeps a reference of
  its own beside those of the callers, so a release does not find the last one, and
  `dentry_prune` finds nothing to remove (`PruneKeeps`): although
  `vfs.c:812` says "Prune if too large", the cache grows past `MAX_DENTRY_CACHE`. `Closing` is described once (`ClosingCounts`), for
  `vfs_close`, `fd_table_free` and each turn of the loop of `fd_table_destroy`.
* `MachineProofs`. `MachineParts` shows that a step of `Machine` is a step of each part or
  leaves it alone; each part then has its own invariant, and its theorem is about
  `MachineSpec`, for every value of the constants under the parts' assumptions.
  - `StdinStaysInOrder`: `RingCounts` says that the indices are the numbers of puts and gets
    round the ring, and that the count differs from their difference by the increments
    lost; `SlotsHold` that each slot has the last character of its own. While nothing is
    lost the count keeps the interrupt from going more than a turn ahead, so that the slot at the
    head has the character whose turn it is. `StdinInv` adds what the loaded count of a
    reader between its two accesses can be.
  - `RunnableIsCounted`: `Sound` relates the count, the tasks in the queue and `again`, and adds
    that a task in the queue was created, so that `sched_fork` does not enter it again. `MayEnter`
    is the state in which a call of `cfs_enqueue` makes the count right, for each caller and
    whatever a search in the tree finds. It holds while no step faulted.
  - `InputStaysInOrder`: `RingInv` says what a ring holds from its tail on, and what a
    reader between test, read and update knows while the handler goes on filling.
  - `ArpAlwaysKnowsLast`: the valid slots have different addresses and are as many as
    the addresses known, so a cache that is full is full of other addresses.
  - `BuffersStayOwned`, `RequestsStayInOrder`: the linked queues are the sequences they
    stand for (`LinkedAs`), no node is on a queue twice, and a node on a queue is marked so.
    Lemmas `ListPut`, `ListTake` and `ListSame` are the three things that happen to a list.
  - `HeldBuffersAlwaysStay`: a buffer with references is not recycled. The chains may be
    damaged; the proof only needs that a walk ends at a buffer or nowhere.
  - `StreamsStayInOrder`: bytes are numbered modulo the size of the buffer plus one;
    `SockInv` also says that the list of sockets names live ones only, so that a
    segment never reaches a closed socket. It holds until a copy runs over a buffer.
  - `RoutesAreLongest`: after i turns of the loop, `Longest` holds of the first i routes.
  - `TablesAlwaysFind`: `TabInv` says that a live entry of a key lies before every place on
    its way that was never used. Removal keeps this because it leaves a mark, insertion
    because it fills the first place that is free or marked. A key has one live entry
    (`HasOne`) unless a put met a mark before its entry and entered it a second time. The
    table of strings leaves no mark: its `StrInv` says that what lies free on the way of a key
    was cleared by a removal, so that a key is found unless the search stops at such a
    place. Assumed: the value for nothing (`NoItem`) is neither an item, nor a key, nor a place.
  - `SequencesAlwaysAgree`: `VecInv` has the capacity that doubling makes, `ListInv` the
    sequence of nodes that `LinkedAs` speaks of and that the used nodes are exactly these,
    so that a list below its bound has a fresh node (by counting), `RBufInv` the tail as
    head plus size and `full` exactly at the capacity. `ListInsert` and `ListRemove` are
    about any position; the ends and the middle of the list are instances of them.
* `AddressProofs`, also about `MachineSpec`.
  - `PagingAlwaysTranslates`, for every number of entries per table and every pool
    (`PagingAssumption`). That addresses translate as mapped is not inductive: a table
    reached by two ways, or a free page that is still in an entry, would change the
    translation of an address that nobody touched. `PagingOk` gives each table its level
    (`Levelled`) and says that a page is in one entry at most and a free one in none
    (`UsedOnce`, in which `PageOf` takes NX off the entry). `AllocWays` is the step that matters: a new table, cleared, changes no way
    that was complete, also when the next level then finds no memory.
  - `VmaAlwaysBalanced`, `VmaAlwaysFinds`, for every address space, list of areas at boot
    with different starts, hint and length (`VmaAssumption`, which the constants of the code
    meet: user space from 0, the area of the kernel near the end of the space). `VmaInv` says that, as long as
    nothing has been removed, there are bounds `bd` for each node (`Shape`: the root has the
    whole space, a child has the part of its parent's bounds on its side) and black heights
    `bh` (`Blacks`), and that no red node is the root or has a red parent (`Coloured`).
    Inside `vma_rb_insert_fixup` one node may break the last (`RedTree`). `RotateShape`
    and `RotateBlacks` say what a rotation does to both, for either side; `OuterTurn`,
    `InnerTurn` and `UncleTurn` are the three cases of a turn. Every loop ends because the
    bounds narrow on the way down and widen on the way up: this is why the model
    may cut every walk at `Steps`, the number of keys, without cutting a real one.
    `VmaAlwaysFinds` rests on `WalkMeets`: a walk that turns towards m at every node meets
    every node whose bounds contain m; that the search for an address turns towards the start of
    the area that contains it needs that areas do not overlap. After a removal nothing
    of this holds (run `vma_unmap`).

How the proofs deal with recursion and loops: the prover has no induction over data, but
`LeastElement` of `BaseLemmas` gives the least counterexample of a set of numbers, `UpTo`
turns it into induction up to a bound, and `IterateExists` shows that a function that
the model defines by recursion exists. With the three, `Lookup`, `route_lookup`,
`list_at`, `alloc_pid`, `vfs_find_mount`, `fd_table_destroy`, `paging_map_range`, `vma_rb_find` and
`vma_rb_insert_fixup` are proved about for tables and trees of every size.

The inductive invariants (`RWInv`, `SyncInv`, `PhysInv`, `SlabInv`, `TaskInv`, `TimerInv`, `FifoInv`,
`RamInv`, `TmpInv`, `VfsInv`, `VmaInv`, `PagingOk` and those of `MachineProofs`) are not listed by runs, since the theorems
say more.

Only model-checked: liveness (`WaitersProgress`, `RWProgress`, `CloseReleases`), which is out of
the prover's reach. Every invariant that a passing run checks has its theorem.

## 5. What the models leave out

* Contention and usage statistics, except the counters a property speaks about.
* Interrupt flags: the `irqsave` variants, and `timer_tick` interrupting a holder of
  `timer_lock`. Timer functions are taken not to call back into the wheel.
* Concurrent calls of the page and slab allocators: they take no lock, and nothing
  preempts them at this commit.
* Misuse: callers free what they were given once, reserve only pages nobody was given,
  unlock what they locked, post only units they took, and change a timer only while it
  is not in the wheel. `TIMER_FLAGS_EXPIRED` is kept, and a caller may or may not call
  `init_timer` before adding a timer again.
* `kmalloc` takes its heap at the address where the page bitmap starts; both are
  constants of the code, and the models keep the two apart.
* The device of a cached block: `bread` and `getblk` look a sector up without a look at the device,
  so that a cache that several devices share would mix their sectors. The model has one device.
* Run-time `slab_cache_create` and `slab_cache_destroy`, constructors, `memory_test`.
* `TaskTable` models `wake_up_process` and `do_exit` without their part in the run queue,
  and `Sched` models the run queue without PIDs and wait queues. At this
  commit nothing assigns `current_task` after `process_init`, so what exits is always the
  idle task.
* Memory of tasks and wait queue entries is never reused, because `kfree` does nothing;
  `TaskTable` relies on this when a stale entry still names its task.
* `physical_unreserve` is modelled as it is: it frees nothing.
* `max_count` of the semaphore, which no code reads.

* Concurrent calls of RAM disks, tmpfs, VFS, sockets, block layer and containers: each is
  one step. Interleaved are the FIFOs, the rings of the input drivers, `sys_read` and the
  poll loops of the network.
* The contents of packets: checksums, header construction, windows and sequence numbers
  (written, never read), `ip_tx` and `udp_sendto`. No other modelled code uses the
  buffer of the last one.
* The direct map at `KERNEL_VIRT_BASE`, through which the code reaches the tables, and which
  is also `VMALLOC_START`: nothing loads these tables into CR3 at this commit, so that mapping
  there does not change how they are reached.
* Page table flags other than PRESENT and NX, the TLB, and merging of areas, which has no caller.
* The port protocols of disks, keyboard and mouse: a model has their answers. The disk
  device table and detection are left out.
* The wheel of the mouse: `mouse_packet` has three bytes and the fourth one of a packet is
  written behind it (`keyboard.c:398`), which in the build is `mouse_packet_idx`. The
  model has the outcome: the packet ends all the same, and the wheel movement reads as 0.

### Defects beside the findings

The six violation runs show disagreements with a comment or the Makefile. These defects were met
beside them; where a model has the behaviour, its property says what still holds:

* `paging_impl.c:195` masks the offset out of an entry and nothing else. For a page mapped with NX
  (`vmalloc_map`, `page_fault_handler`) `paging_virt_to_phys` returns an address with bit 63 set, where
  `paging.h:192` says "Translate virtual address to physical". `TranslatesAsMapped` has NX in the result.
* `tcpip.c:322` and `:476` compute the length of the data without a check, and the tests for room at 357
  and 492 wrap: a length that came out negative passes, and the copy runs over `recv_buf`.
  `StreamInOrder` holds until then.
* `udp_sendto` frees its buffer twice when the transmission fails (`tcpip.c:429` and `:437`). Not modelled.
* `set_task_state` and `wake_up_process` enter a task into the run queue without a test whether it is
  there (`schedule.c:376`, `:387`): it loses its subtrees and is counted twice for ever. `RunnableCounted`
  counts these calls. `wake_up` of `task.c` does not enter the task at all.
* `syscall_impl.c:36`: the decrement of `keyboard_count` may write over the increment of an interrupt.
  From then on a full ring takes characters over unread ones, and a reader may get one twice and
  another never. `StdinInOrder` promises order and single delivery up to the first loss.
* `hash_put` (`datastructures.c:264`) takes the place of a deleted entry before it has seen whether the key
  lives behind it, and so enters the key a second time; a removal takes one of the two, and the old
  value comes back. `TablesFind` excepts removed keys that were entered twice.
* `str_hash_remove` (`datastructures.c:382`) leaves no tombstone: keys that were entered past the cleared
  place are not found any more. `TablesFind` excepts searches that stop at such a place.
* `bread` (`ata.c:463`) recycles a buffer without taking it off its old hash chain: a chain may lead to
  itself, and is then walked without end with `buffer_lock` held (`locked` in the model), and a sector
  may get two buffers. `HeldBuffersStay` is about the buffers that callers hold.
* `vma_mmap` may place an area over others: it takes a hint without a test, and its search for a free
  region compares with one node at a time. `FindsTheArea` is about areas that do not overlap. An area
  placed at address 0 is returned as the value that means failure.
* `ramdisk_create` after a deletion may take the slot of a live device (create A, create B, delete A,
  create C: B is live and in no slot). `RamdiskTable` says that slots lead to live devices only.
* A second `netdev_register` of a device makes the list of devices lead to itself.

### Not modelled

Console, serial, VGA, framebuffer and printk (output and formatting), AHCI (register
accesses), boot code and context switch (assembly), PIT, TSC, delays and wall clock
(hardware counters), per-CPU data (one CPU, no interleaving), kernel main, exec and userland
(start-up and demonstration programs, no shared state of their own).

## 6. Plan

Every invariant of the passing runs is proved. What could follow:

1. `Vma` on the page tables of `Paging` instead of a set of mapped pages, now that both are
   proved about apart.
2. The framebuffer, the AHCI driver and the rest of TCP/IP, as far as they keep state.
3. Once `vma_munmap`, `cfs_dequeue` of the scheduler or the cascade are changed: the theorems
   about them without their present restrictions (`unmaps = 0`, the count only, the first level only).
