# A TLA+ model of SimpleOS

This directory models the operating-system simulation in `src/`: the timer, the
multi-level queue scheduler, the CPU and loader threads, paging memory and the
system calls. TLC
checks every module on small instances; TLAPS proves the safety properties of
every part for any number of threads, processes, priorities, slots, pages and
frames. File names below are those of the repository
(`src/timer.c`, `include/mm.h`, ...). The build is the one `include/os-cfg.h`
selects: `MLQ_SCHED`, `MM_PAGING`, `MM_FIXED_MEMSZ`, `MM64`, with the Makefile's
flags (no optimisation).

## 1. Inventory

| Component | State | Operations | Meets others through |
|---|---|---|---|
| Timer (`timer.c`) | `_time`, `timer_started`, `timer_stop`, `dev_list` with flags `done`, `fsh`, two locks and two condition variables per device | `attach_event`, `start_timer`, `timer_routine`, `next_slot`, `detach_event`, `stop_timer`, `current_time` | one `timer_id_t` per thread |
| Queue (`queue.c`) | array of pcb pointers, `size` | `empty`, `enqueue`, `dequeue`, `purgequeue` | called by the scheduler, no lock of its own |
| Scheduler (`sched.c`) | `mlq_ready_queue[MAX_PRIO]`, `running_list`, `mlq_lock`, `queue_lock` | `get_proc`, `put_proc`, `add_proc` | called by every CPU thread and the loader |
| CPUs, loader, main (`os.c`, `cpu.c`) | per CPU `proc`, `time_left`; the loader's `i`; the flag `done`; `pc` per process | `cpu_routine`, `ld_routine`, `main`, `run` | scheduler, timer, memory |
| Paging memory (`libmem.c`, `mm-vm.c`, `mm64.c`) | per process: region table, `sbrk`, `vm_end`, 5-level tables; shared: the RAM and its free-frame list | `liballoc`, `libfree`, `libread`, `libwrite`, `pg_getpage`, `pte_set_fpn`, `inc_vma_limit`, `vmap_pgd_memset` | all processes share one RAM |
| Physical memory (`mm-memphy.c`) | free list, bytes | `MEMPHY_*` | the source file is empty in this commit; modelled as external |
| System calls (`syscall.c`, `libstd.c`, `sys_*.c`) | none of their own | `memmap`, `listsyscall`, `mmstats` | `running_list`, page tables |
| Loader of programs (`loader.c`) | `avail_pid` | `load` | parsing |
| Segmentation memory (`mem.c`, `paging.c`), 32-bit tables (`mm.c`) | | | not part of the configured build |

What is hard in it, and what correctness means:

* **Timer.** `done` is written under `event_lock` by the device and under
  `timer_lock` by the timer. No wakeup may be lost, the clock may not move while
  a device works, the timer may not leave before the last device.
* **Scheduler.** `get` runs under `mlq_lock`, `put` and `add` under
  `queue_lock`: they interleave on the same arrays, down to the load and the
  store of `size++`. A process must be in one place, in the order of its
  priority.
* **CPUs and loader.** Threads leave one by one while the loader still adds
  processes; `done` is read without a lock. No work may be left behind, a
  process must get its slice and one instruction per slot, and everything must
  come to an end.
* **System calls.** `memmap` and `mmstats` search `running_list` with no lock
  while other CPUs append to it and remove from it. They must find the process
  they were called for, no null pointer and no other process, and free nothing
  that runs.
* **Memory.** Every faulting CPU pops the free-frame list without a lock; a
  fault takes up to five frames and may fail after any of them; frame 0, page
  numbers and 64-bit sums have edges; `memmap` writes page-table entries and
  physical bytes under the program's feet. A frame must have one user, and a
  process must read what it wrote.

`PROJECT.json` lists these hazards at their lines, with the properties that
would catch each of them going wrong.

## 2. Modules

| Module | Models | Composes |
|---|---|---|
| `SlotBarrier` | what the timer promises: a reusable barrier (abstract) | |
| `Timer` | `timer.c` and the part of `main` that drives it | refines `SlotBarrier` |
| `TimerProofs` | theorems about `Timer` | |
| `Queue` | `queue.c`, as operators on `queue_t` | |
| `QueueProofs` | theorems about `Queue` | |
| `Mlq` | what the scheduler promises: one FIFO per priority, indivisible operations (abstract) | |
| `Sched` | `sched.c` over `queue.c`, in steps another thread can interleave with | `Queue`; refines `Mlq` while sections do not overlap |
| `SchedProofs` | theorems about `Sched` that hold in every race | extends `QueueProofs` |
| `MlqProofs` | theorems about `Sched` while sections do not overlap, the refinement of `Mlq` among them | extends `SchedProofs` |
| `Os` | `cpu_routine`, `ld_routine` | `Sched`, `SlotBarrier` |
| `OsProofs` | theorems about `Os` | instantiates `MlqProofs` |
| `Syscall` | `libstd.c`, `syscall.c`, the searches of `sys_mem.c` and `sys_mmstats.c` | `Sched` |
| `SyscallProofs` | theorems about `Syscall` | instantiates `MlqProofs` |
| `Mem` | `libmem.c`, `mm-vm.c`, `mm64.c` and the operations of `sys_mem.c` for several processes | |
| `MemProofs` | theorems about `Mem`: regions, tables, frames | |
| `ReadBackProofs` | theorem about `Mem`: the bytes | extends `MemProofs` |
| `MC*` | instances for TLC | |

Operators whose comment begins with "Variant" are plausible mistakes in the
definition that follows them. They are used by no specification; substituting
one must make TLC report the property named in `PROJECT.json`.

### Timer

One action per critical section. Each section touches the shared flags once, so
finer steps cannot be told apart, and the two locks of a device do not exclude
each other, nor do the actions. `pthread_cond_wait` ends an action in
"blocked"; a signal or a spurious wakeup leads back to the loop's test.
`attach_event` pushes on the head of `dev_list`, so device `N` is polled first.
`TimerThread` is `timer_routine`, `NextSlotDone`/`NextSlotWait` the two halves
of `next_slot`. `MaxTime` bounds how long a device keeps asking for slots.

### Queue and Sched

`shift` and `store` are the parts of the queue operations between two accesses
to `size`. In `Sched` a thread's place `at[t]` says where in a call it is; a
lock is held iff some thread is at a place of its section. `x.size++` is a load
(`...Load`) and a store (`...Size`). `PurgeClear` reads `size` anew, as
`queue.c:56` does, and overwrites `size` itself when that is one past the array.
`proc[t]` is the variable `proc` of the calling thread. The history variable
`overlap` records that sections of the two locks were ever open together: what
holds only without such an overlap says so. Once two CPUs have the same pcb, or
one has a freed pcb (`Clash`), what happens depends on the allocator and the
model stops.

The locals `current_prio` and `current_slot` and the array `slot[]` are written
and never read, and are left out.

### Os

`cpuPc` is the place in the loop of `cpu_routine`: "top", "first" (after
`get_proc` of os.c:60), "reload"/"again" (before and after the `get_proc` of
os.c:70 and 77), "off". Calls go through the micro-steps of `Sched`; `next_slot`
and `detach_event` are the barrier's `Arrive`, `Resume` and `Leave`, which
`Timer` is proved to implement. `run` is reduced to `pc`, `load` to the start of a
program and its length, `read_config` to the choice of `time_slot` from
`TimeSlots`: nothing checks the number, and a 0 makes `time_left` negative, so that
a process keeps its CPU until it ends. The history variable `burst` counts the
slots a CPU has given its present process. The clock is compared
with start times only, so it stops counting at the last of them; behaviours stay
infinite where the program's are.

### Syscall

The unoptimised loops read `running_list->size` and the slot anew at every use, so
each such read is an action: `Test` (the loop's condition), `Look` (the NULL test
only `mmstats` has), `Read` (the comparison of the pid), `Take` (the assignment to
`caller`). `memmap` goes through its loop twice (`walk` is "first", then "second"),
`mmstats` once ("stats"), for any pid. The other threads take every step of `Sched`
meanwhile; a CPU in a system call takes none. The pid in a freed pcb may be anything.
Dereferencing an empty slot sets `crashed` and the model stops. The history variable
`purged[c]` says that an entry was being removed while CPU `c` was in its call: that
is when a walk can go wrong without any overlap of the scheduler's two sections.

### Mem

An instruction that does not fault is one action, since everything it touches is
its process's own or a byte of its own page. A fault is a series of actions: each
`MEMPHY_get_freefp`/`put_freefp` reads the list head and stores a new one, with no
lock. Page numbers are below 2^10, so of the five levels only the PMD index
varies: `tab[p]` has one frame for each of the three upper tables and one for each
page table. `Wrap`, `PAGESZ`, `MAX_PGN`, `PT_ENTRIES`, `InitEnd` and `DefaultSize`
stand for 2^64, 4096, 1024, 512, 0x100000 and 100. A register is 0 or not, all
`libfree` asks. `load` leaves registers as malloc returned them, so both initial
values are tried. Dead state is left out: `fifo_pgn` and `vm_freerg_list` are
written and never read by these instructions, and `vm_map_ram` maps nothing (its
frame list is NULL). After a race for the list has given one frame two users the
model stops.

`memmap` acts on its own caller (what `Syscall` says of its search). MAP
(`vmap_pgd_memset`) goes from page to page through the same steps as a fault, without
a data frame: it sets the entry to `Pattern` plus the page's index, as many bits as an
entry holds (`FpnRange`, 2^13), and goes on after a page it could not map. These
frames are nobody's and in the repository's 1 MB RAM do not exist; the devices check
no bounds, so an access through such an entry sets `wild` and the model stops, as
it does after an IO_WRITE, or a WRITE through an entry of MAP, onto a page table. INC
moves the limit of the one area for every area number up to 0, since `get_vma_by_num`
takes an `int` and goes no step then. SWP copies a frame to a device nothing reads and
IO_READ returns its value in a copy of the registers: both only take their time slot,
unless the frame or the address is beyond the device, which is a wild access too
(`SysOther`). `Regions` are the ids 0 to 9, which name a region and a register. An id
of 30 or more is refused with the effect of a FREE of an empty entry; an id from 10 to
29 has a region and no register. Histories: `mapped` and
`overlaid` (what MAP has set and what it has displaced), `raw` (bytes IO_WRITE has set),
`wraps` (which of `sbrk` and `vm_end` have gone past 2^64).

## 3. Runs

Passing:

| Run | Instance | What it shows |
|---|---|---|
| `timer` | 3 devices, 3 slots | no lost wakeup, timer exits last, stable clock, refinement of the barrier; every `next_slot` returns and the program ends |
| `sched` | 2 CPUs, loader, 3 processes, 2 levels | without overlap: every process in one place, listed while it runs, refinement of `Mlq`; in every race: no NULL from a non-empty queue, and on every queue a race leaves the array operations are those of sequences |
| `sched_full` | 4 processes, queues of 2, one priority without a queue | sizes stay in range in every race; processes are in one place or dropped |
| `os` | 2 CPUs, 4 processes of which one may come when the others have ended, slices of 2 and of 0 | no work left behind, whole slices, one instruction per slot; every process ends, every slot comes |
| `mem_scarce` | 2 processes, 10 frames: one page each fits, two do not; regions come from accesses only; behaviours are followed up to the first race for the free list | every frame in one place through failed faults and put-backs; pages reachable; each process finds what it wrote |
| `mem_regions` | 1 process, 2 regions, 8 frames, 4 instructions among ALLOC, FREE, READ, WRITE and memmap's; sizes for which `vm_end` wraps and for which `sbrk` wraps | regions disjoint until `sbrk` wraps, even after `vm_end` has; frames accounted for and pages reachable through MAPs that fail half-way; read-back over several pages and page tables |
| `syscall` | 3 CPUs, loader, 3 processes, one call; behaviours are followed up to the first overlap of the scheduler's sections | a walk keeps its index in the list, meets no null pointer and ends at its process while others append, and while nobody removes |

Why the bounds are enough for what is asked: two threads in one list or two
sections at once already give every pairwise race; three devices give a first, a
middle and a last in the timer's two loops; queues of two or three slots have
an empty, a part-filled and a full state, and a shift that moves more than one
entry; two pages per page table make a second table happen. One system call at a
time is enough for `syscall`, since calls write nothing other calls read (but for the
`free` that `syscall_frees` shows); what
follows an overlap is excluded from its properties anyway, which is why the run does
not explore it. A MAP of three pages crosses a page table and, with eight frames, runs
out of them. `Pattern` is larger than `FpnRange`, so that the entries MAP sets hold only
part of it, as with 0xdeadbeef, and the part is no frame of the RAM. `IncAreas` has a
number below 0 and `IoAddrs` one address beyond the RAM.

What the properties do not count as wrong, although the code has it: a process dropped
by a full or missing queue has ended (`OnePlace`, `NothingLeftBehind`); `HeldIsListed`
and `ServesTheCaller` hold while `running_list` has a slot for every process, and
`WalkSeesProcesses` and `ServesTheCaller` while no entry is removed during the call;
`FrameAccounting` counts a frame that MAP has displaced as accounted for, though nothing
gives it back; `ReadBack` ends at the bus width and `RegionsDisjoint` at the wrap of
`sbrk`. The notes of the hazards say where each bites.

Runs that show a disagreement between the code and what a comment or the
repository's README says of it (details under "findings" in `PROJECT.json`):

| Run | Says | Does |
|---|---|---|
| `os_ends` | "Wait for CPU and loader finishing" (os.c:282) | an idle CPU never tests `done` and never exits |
| `sched_lost` | "It worth to protect by a mechanism" (sched.c:108) | two locks that do not exclude each other lose a process |
| `syscall_frees` | "If process not found, free dummy and return error" (sys_mem.c:64) | there is no dummy: when the second search misses what the first one found, the running process is freed |
| `mem_race` | "isolates process spaces" (README.md:20) | two faults take the same frame |
| `mem_tables` | "Ensure all page table levels are allocated" (mm64.c:244) | a table in frame 0 is not linked |

More statements of the repository that the code plainly does not implement need no
run: the quota `slot = (MAX_PRIO - prio)` (README.md:17) is
computed and never read; no page is ever moved to SWAP (README.md:24), since
`find_victim_page` has no caller and `pg_getpage` fails without a free frame; the
"64-bit" page number (README.md:21) is cut to the 22 bits of `mm.h:8`; FREE
(README.md:54) resets the region entry and returns no frame; "put running proc to
running_list" (sched.c:107) fails once as many processes have finished as the list
has slots, since `cpu_routine` frees them without purging them and `enqueue` drops
the next; and `mmstats` returns the number of entries of the top table it finds, not
"the number of pages in RAM" (sys_mmstats.c:160).

**Fairness.** `Timer` and `Os` assume weak fairness of each thread: a thread that
stays able to move eventually moves, which is what the host's scheduler gives
pthreads. Spurious wakeups are possible and never assumed to happen. A thread
waiting for a mutex needs no more: between two slots every thread makes a
bounded number of calls, so a lock becomes and stays free. `Sched`, `Syscall` and `Mem` are
checked for safety only. Deadlock is checked in every run; `Finished` and `Stop`
are the states where the program has really ended or the model stops.

## 4. Proofs

Every theorem is proved for all values of the constants, from the assumptions the
modules name (each is true of the program's constants, and TLC evaluates them on
every run). Invariants that are not inductive are strengthened; each strengthening
also passes TLC on the instance of its component's run. Where a property is subject
to a history variable (`overlap`, `purged`, `raced`, `wraps`), that proviso is part of
the property the theorem states; for the first three `sched_lost`, `syscall_frees` and
`mem_race` show that it cannot be dropped.

### Timer (`TimerProofs`)

From `TimerAssumption` (`N > 0`):

* `TypeCorrect`: `Spec => []TypeOK`;
* `WakeupsAreKept`: `Spec => []NoLostWakeup`;
* `TimerExitsLast`: `Spec => []ExitsLast`;
* `ClockIsStable`: `Spec => TimeIsStable`;
* `TimerImplementsBarrier`: `Spec => ImplementsBarrier`, the refinement.

They rest on one inductive invariant, `IInv`. `NoLostWakeup` and `ExitsLast` are not
inductive: that the timer ticks only when nobody works has to be carried from the
poll of the first device to that of the last. `IInv` adds

* `MainInv`: which devices exist, by main's place, and when `timer_stop` is set;
* `FlagInv`: what `done` and `fsh` say about each device's place (a device that
  works has `done = 0`, one that has gone has `fsh = 1`, and so on);
* `CursorInv`: the cursor is a device in both loops;
* `ReportedInv`: the devices the first loop has passed have reported and stay so
  until the second loop reaches them;
* `CountInv`: `nfsh = nevent` at the end of the first loop only if every device has
  detached.

`InitInv`, `NextInv` and `Invariance` establish it, action by action. `QuietAtTick`
draws from it that nobody works at a tick; `ClockIsStable` and the step `Tick` of
the refinement follow. In the refinement `Tick` is the barrier's `Advance`,
`NextSlotDone`, `detach_event` and the returning `NextSlotWait` are `Arrive`,
`Leave` and `Resume`, and everything else stutters; `ReleaseDevice` does because a
device counts as released from the tick on.

### Queue (`QueueProofs`)

From `QueueAssumption` (at least one slot; `NULL` is no process): `EnqueueAppends`
and `DequeueTakesFirst` say that `enqueue` and `dequeue` are `Append`, `Head` and
`Tail` of the sequence of the slots below `size`, on any `queue_t` at all;
`PurgeRemovesFirst` says that `purgequeue` is `RemoveFirst` of that sequence: the
entries after the first one found move down by one. The lemmas say what `store`,
`shift` and `find` do slot by slot; every later proof about the scheduler uses these.

### Scheduler (`SchedProofs`, `MlqProofs`)

From `QueueAssumption` and `SchedAssumption` (at least one level; priorities are
natural numbers; the loader is not a CPU). Three results hold in every race:

* `SizesStayInRange`: `Spec => []TypeOK`. No size leaves `0..MAX_QUEUE_SIZE`, and
  the store of `queue.c:56` stays in its array;
* `NeverHandsOutNull`: `Spec => []ReadySlotsFilled`;
* `QueuesAreSequences`: `Spec => []QueueIsSequence`, from the first and the theorems
  of `QueueProofs`: whatever queue a race leaves behind, with duplicates and stale
  slots, the operations are those of sequences on it.

A size in range is not inductive: a stale copy could be written back. `RaceInv` adds
that each lock admits one thread (`Exclusive`), what pointer and level a thread has
at each place (`PlaceInv`, `LoaderInv`), that a size a section has tested, or the
copy it has loaded of it, still leaves room for the section's own step (`SizeInv`),
and that the slots below every size a section may still write hold processes
(`FilledInv`). The argument: each lock leaves at most one `size--` and one `size++`
open on a ready queue, and each of them can only move the size away from the limit
the other has tested.

The rest holds while no get section has overlapped a put or add section:

* `SchedImplementsMlq`: `Spec => ImplementsMlq`. Under `SerialInv` (one thread in a
  section, the levels passed by the scan are empty, a loaded size is the present
  size) the store of a size is the step of `Mlq` and all other steps stutter;
* `NoProcessLost`: `Spec => []OnePlace`. `OwnerInv` says it of `Mlq`'s sequences: a
  live process is with one thread or in one place of one sequence. Its preservation
  is proved once for the abstract steps (`OneOwner`) and carried over by the
  refinement;
* `CallerIsListed`: `ListIsLargeEnough => (Spec => []HeldIsListed)`. The hypothesis,
  that `running_list` has a slot for every process, is needed: `cpu_routine` frees
  processes without purging them, so with more processes the list fills up and
  `enqueue` drops the next one. `RunInv` says which entries `running_list` has at
  each point of an append or a purge, `FreshInv` that only the loader knows a
  process before it is enqueued.

`RunInv` and `FreshInv` are proved without `OwnerInv`: `Syscall` frees a running
process when its second search fails, after which `OwnerInv` is false and the other
two still hold.

### CPUs and loader (`OsProofs`)

From `QueueAssumption` and `OsAssumption` (what `SchedAssumption` says; at least one
CPU; the workload lists every process, with a start time and a length; one start
time is the last).

* `OsUsesSched`: `Spec => S!Spec`. The threads of `os.c` call the scheduler only as
  `Sched` allows (`put_proc` and `free` with a process in hand, and so on), so all
  theorems on the scheduler hold in the composed system. The scheduler's invariants
  are used through it;
* `OsTyped`, `SlicesAreWhole`: `Spec => []TypeOK` and `Spec => []WholeSlice`.
  `OsInv` ties a CPU's place in its loop to its place in the scheduler, its phase in
  the time slot, its process and its slice (`CpuAt`), and the same for the loader
  (`LoaderAt`, `LoadedInv`);
* `OneStepPerSlot`: `Spec => OneInstructionPerSlot`, from `RanInv`: a process that
  has run in this slot is with a CPU that waits for the next one;
* `NoWorkLeft`: `Spec => []NothingLeftBehind`. The difficult case is a CPU that
  found the queues empty and reads `done` later. `WorkInv` says that when the last
  process was loaded in an earlier slot and every CPU is idle, all queues are empty:
  `done` is set one slot after the last `add_proc`, and a CPU that looked before the
  process was added has gone on to the next slot by then.

### Memory (`MemProofs`, `ReadBackProofs`)

From `MemAssumption` (page, table and address sizes are positive; the first area is
at least a page and does not reach the end of the address type; a PTE can hold every
frame number). Four layers, each inductive given those before it:

* `AreaInv` gives `RegionsStayDisjoint`: `Spec => []RegionsDisjoint`. The regions
  lie in disjoint spans between the first page and `sbrk` until `sbrk` wraps, and
  `sbrk` lies within `vm_end` until that wraps;
* `FaultInv`: what a process in the middle of a fault or a MAP has in its hands;
* `TableInv` gives `PagesAreReachable`: `Spec => []PagesHaveTables`, in every race
  for the free list and although a table in frame 0 is never linked; with the layers
  before it, `MemTyped`: `Spec => []TypeOK`;
* `FrameInv` gives `FramesAccountedFor`: `Spec => []FrameAccounting`. The uses of
  frames are a set of (kind, process, index, frame) tuples and `OneUser` says that
  no two have the same frame and none is on the free list; it is preserved by
  taking, handing on and giving back one frame, which is what each step of a fault
  does. Until the list is raced for, the head a thread has read is the present one
  (`ListOK`).

`ReadsWhatItWrote`: `PatternOutside => (Spec => []ReadBack)`, in `ReadBackProofs`, is
about the bytes. `ReadBack` is not inductive: a page that a fault adds shows what its
frame held before, and a write reaches only the page it is meant for if no other page
has the frame. `ReadInv` adds to the layers above

* `AccessInv`: the address of an access that faulted lies below `sbrk`, so that two
  addresses of a process below the bus width with the same page and offset are the
  same (`CellsUnique`), and a MAP has not gone past the pages it was asked for;
* `MappedInv`: the pages MAP has set lead out of the RAM;
* `BytesInv`: the frames on the free list and in the hands of a fault hold zeros but
  for raw bytes, a process has written nothing to a page it does not have, and every
  byte of a page it has is what it wrote.

`PagesApart` draws from `FrameInv` that no two pages share a frame and that no page
has an unused one. The four ways the bytes change are lemmas on any page table
(`WriteKeeps`, `ZeroKeeps` for a new table, `IoWriteKeeps`, `NewPageKeeps`), and every
step of a fault is one of them, or two: `MapPage` adds a page and then makes the
access. The hypothesis says that the frame numbers MAP writes are none of the RAM's.
It is needed, since a MAP into the RAM would let a process write another's page, and
true of the program's constants: 0xdeadbeef leaves 7919 of the 8192 numbers an entry
holds and the default RAM has 256 frames, so it holds for MAPs of at most 273 pages.
TLC checks `ReadInv` on the instances of `mem_scarce` and `mem_regions`, which satisfy
the hypothesis.

### System calls (`SyscallProofs`)

From `QueueAssumption` and `SyscallAssumption` (what `SchedAssumption` says; a bound
on the number of calls):

* `IndexStaysInList`: `Spec => []TypeOK`;
* `WalksMeetProcesses`: `Spec => []WalkSeesProcesses`;
* `CallersAreServed`: `ListIsLargeEnough => (Spec => []ServesTheCaller)`, with the
  hypothesis explained above.

`SysInv` adds to these the scheduler's invariants that survive the `free` of a
missed process (`SchedInv`), that a CPU in a call is outside the scheduler and has a
process, with its index that of a slot where it reads one (`CallInv`), and what a
search has established (`WalkInv`): as long as no entry is being removed, the slot
it looks at is counted, the slot it takes has the process looked for or a freed one,
and the second loop of `memmap` still has its process before it.

### Only model-checked

Liveness under fairness: `NextSlotReturns`, `TimerTerminates`, `EveryProcessEnds` and
`SlotsGoOn` are out of the prover's reach. Every other property of a passing run is
stated by a theorem.

## 5. Not modelled

* What `listsyscall` and `mmstats` print; the contents of the swap devices, which
  nothing reads.
* Parsing in `read_config` and `load`, printing, and the generation of the system
  call table: input and output only.
* Code outside the configured build: the single-queue scheduler, `mm.c`, the
  segmentation memory of `mem.c`, `paging.c`; and functions nothing calls
  (`find_victim_page`, `get_free_vmrg_area`, `alloc_pages_range`, `queue_empty`).
* The address of a pcb: that `malloc` may give a new process the address of a finished
  one, which `running_list` still holds, so that its entry is there twice. Regions 10
  to 29, whose register lies beyond `regs[10]` (common.h:106, libmem.c:137), where
  ALLOC overwrites `pc` and what follows it.
* What happens after undefined behaviour: a wild access, a null pointer, a pcb used
  after `free` (the models stop there).

## 6. Plan

1. Done: `SlotBarrier`, `Timer`, `TimerProofs`; `Queue`, `Mlq`, `Sched`; `Os`;
   `Mem` with the operations of `memmap`; `Syscall`. What is left of the source is
   output, parsing, code outside the build and functions without a caller.
2. Done: proofs of all safety properties of `Timer`, `Queue`, `Sched`, `Os`, `Syscall`
   and `Mem`, and of the refinements of `SlotBarrier` and `Mlq`.
3. Left to TLC: the liveness properties.
