# A TLA+ model of hltOS

hltOS is a small x86_64 operating system in C++23: one CPU, a preemptive
round-robin scheduler, system calls for processes, files and memory, and a
console with a keyboard. This directory holds TLA+ modules translated from the
kernel's source, the TLC configurations that check them on small instances, and
theorems about them whose proofs TLAPS checks.

## The system

| part | state | operations | interacts with |
|---|---|---|---|
| scheduler mechanism | process list, sleepers heap, current process, saved stack pointers | tick/preempt, yield_*, wake_*, reap, add_process | everything that blocks |
| scheduler policy | round-robin queue | enqueue, pick_next, should_preempt | mechanism |
| process | state, wait reason, wake time, quantum, parent, address space, descriptors | fork, exec, wake, resume, pause, kill, zombify, wait_for, sleep_for | scheduler, vmm, fs |
| kmutex, spinlocks | owner flag, saved RFLAGS, preemption count | lock, unlock | scheduler |
| timer | TSC deadline | timer interrupt, arming | scheduler |
| interrupt routing | I/O APICs, overrides of the MADT | parse, look up, route | keyboard |
| trap entry | IF, GS, stack | system call entry and exit, interrupt entry and exit | all of the kernel |
| keyboard, tty | controller, event buffer, modifiers, line buffer, history | init, interrupt, poll, read, write | scheduler, console |
| physical and virtual memory | frame bitmap, page tables, heap cursor | alloc/free, map/unmap, clone, brk | process, slab |
| slab, kmalloc | slab lists | alloc, free | all of the kernel |
| vfs and file systems | mounts, inodes, descriptors | open, read, write, lseek, mkdir, chdir, ... | process |
| console, framebuffer | cursor, text buffer, back buffer, dirty flag | put, scroll, redraw thread | tty, scheduler |
| containers, text | blocks, links, counts | kstring, kvector, klist, heaps, kshared_ptr, split, format, parse | all of the kernel |

What makes it hard to test: an interrupt can strike between any two
instructions once IF is set; SYSCALL clears IF but every context switch sets
it, so the same kernel code runs sometimes with and sometimes without
interrupts; a process is named by several structures at once (the list, the
queue, the heap, `percpu->process`, the stack the CPU is on, its children's
`parent`) that change in different steps; and exit, wait4 and the reaper hand a
process from one to the other.

## Modules

`Scheduler` models `lib/scheduler`, the state changes of `Process`, the process
system calls, `context_switch.s`, the reaper, and the timer and keyboard
interrupts as far as they reach the scheduler.

* **State.** `pcb` holds each process's state, wait reason, awaited pid and the
  time left until `wake_time_ns`; `listed` is `g_processes` (pids grow along
  the list, so a set is enough); `ready` is the policy's queue; `sleepers` is
  `g_sleepers`; `cpu` is `percpu->process`. `stk` is the thread whose kernel
  stack the CPU is on and `saved` says whose parked frame each
  `kernel_rsp_saved` points to: the two are what a stack switch can get wrong.
  `irq_on` is IF. `call`, `at`, `child_pid` and `next` are where each thread is
  inside a blocking operation, and its locals.
* **Steps.** A section under `g_processes_lock` runs with IF=0 and preemption
  disabled on the only CPU, so it is one step. Between sections a thread stands
  at a point `at`, where an interrupt may strike when IF is set.
* **Narrow points.** Three of these points are only a few instructions wide:
  `marked` (after `sleep_for()`, before `yield_blocked()` takes the lock),
  `polled` (the tty saw an empty buffer, before it blocks) and `window` (after
  `unlock()`, before `context_switch()`). The constant `OpenPoints` says at
  which of them interrupts are considered. `sched_family` has all of them open.
  The theorems hold for every choice, but for `FramesAreOwn`, which has `window`
  closed; so has `sched_live`, and `sched_window` shows what goes wrong otherwise.
* **Time.** Deadlines are kept relative (`wake_in`, `ran`), so the state space
  is finite while behaviours are not bounded in time.
* **Undefined behaviour.** `find_child()` reads `p->parent->pid` after the
  parent may have been deleted; the model lets that read match or not
  (`Dangling`, `misread`).

`MCScheduler` instantiates it. The proofs are in two modules: `SchedulerInvariant`
(the invariant, the facts about queues and choices, and a lemma per action) and
`SchedulerProofs` (the theorems, and what the frames and the sleepers need on top
of that invariant).

`Kmutex` models `kmutex` and the scheduler operations its users sleep and wake
through (`yield_mutex`, `yield_blocked`, `wake_mutex`, `preempt`). Its users are
kernel threads that run with IF set, so a tick may fall between any two of the
steps of `lock()` and `unlock()`. The history `missed` names the threads that a
tick has caught between the failed exchange and the block. `Mutex` is what a
mutex promises (one owner at a time) and `Kmutex` is shown to implement it with
the mapping `owner`. `MCKmutex` instantiates it, `KernelProofs` holds the proofs.

`Pmm` models `pmm.cpp` and the regions of the memory map that boot hands it:
the bitmap (`used`), the cursor and end of the newest region (`start`, `end`),
the two counters, and as history the frames that callers hold (`taken`) and those
of the newest region that nobody was ever given (`unserved`). Every function runs
under a spinlock with interrupts masked and is one step. `FrameAllocator` is what
an allocator promises (a frame of the promised memory that nobody holds, and never
frame 0); `Pmm` is shown to implement it, `Promised` being the usable memory or,
for a map that reaches the limit of the bitmap, all frames below it. `MCMemory`
instantiates it, `KernelProofs` holds the proofs.

`Vmm` models address spaces: `vmm.cpp`, what fork, exec, exit, brk and mmap do
to them, and the page side of the kernel heap. Physical memory is one record:
the entries of each PML4, the pages of each table, what each page holds, the
next frame to hand out (the cursor of `Pmm` never moves back) and those given back.
Two levels of tables stand for four, and a PML4 has an entry for the program, its
break and its stack, one for the mmap area and one for the kernel's half. System
calls run with interrupts off until they block, so each is one step; exec is split
where it exchanges the tables in cr3. A break is counted in half pages, so that it
can lie inside a page. A program is the sequence of its segments, each a set of
pages, which `LoadImage` maps one after the other: two segments may meet in a page.
The stack is a page above the program, and nothing keeps the break below it. A
kernel stack and the block exec reads the file into are one page each. `MCMemory`
instantiates it.

`Slab` models `slab.cpp` and `kmalloc()`/`kfree()`: the slab lists and free
lists of each size class, the pages behind them and the threads inside an
operation. Nothing locks these lists, so an operation is split where a thread
can be preempted between two reads or writes of them. The history `raced` becomes
true when a thread enters a size class that another one is in; the properties
speak of the heap until then. `HeapBlocks` is what a heap promises (blocks that
somebody holds never overlap), and `Slab` is shown to implement it up to a race,
`held` counting how many callers have each block. `SlabInvariant`, `SlabAlloc`,
`SlabFree` and `SlabProofs` hold the proofs. `MCSlab` instantiates it for the race
itself, `MCMemory` for the rest.

`MCMemory` checks `Pmm`, `Vmm` and `Slab` in one run: they share no state, and
`part` is the one that moves.

`Keyboard` models scancodes, modifiers and the event buffer, `Console` the text
buffer, the cursor, the view and what is drawn of them into the back buffer, and
`Tty` composes both with the line editor of `dev_tty.cpp`, its history, the
blocking loop of `read()`, `write()` and the compositor's thread. Console
operations are functions from one console record to the next; the actions of
`Tty` are the keyboard interrupt, poll(), one event handled by read(), the block,
a write() and a flush; an event is handled in one step, so that two threads
drawing at the same instant are left out. Characters are drawn by cells. The cursor
is drawn by inverting pixels, and `inverted` is a set of pixels of the back buffer:
`invert_rec()` does not clip, so a cursor right of the last column reaches into the
next row of pixels or behind the buffer (`smeared` keeps what such a one hit). The
line is a kstring with the block it lies in (`capacity`, and `overrun` once an
insert moved its end past the block). A behaviour belongs to
a scenario `sc` of `MCTty`: the keys, the readers and whether interrupts may fall into the gap
between the last poll() and the block.

`Vfs` models mounting, path resolution, and the four file systems' directories as
functions of a tree; `Files` adds descriptors, the processes' directories and the
system calls on both, with faults (`Fault`) where the code follows a null or
uninitialised pointer. A path is a flag and a sequence of names, a file's content
a sequence of bytes that name their writer. With CR4.SMAP set and no stac() in
tmpfs, a read or write that moves bytes to or from a process's buffer faults, except
in readv(), which has set AC; the kernel's own buffers (`KernelIo`, as in its tests)
work.

`Kstring`, `Kvector`, `Klist`, `Kheap` and `Kshared` model the containers at the
level of blocks, indices, links and counts; `Containers` makes one machine of
each. The first three are shown to implement `SeqContainer`, a plain sequence.
`Strings` holds the algorithms on text (`algo.cpp`, `fmt.hpp`, `ansi.cpp`) as
operators, which a run compares with reference definitions on every short input.

`Trap` models the ways into and out of the kernel: `syscall_entry.s`, `isr.s`,
`context_switch.s`, the copies from and to user memory, and what they do to IF,
GS, AC, the stack and the vector in service. Which process is picked is left
open. `ApicTimer` models the deadline timer, its conversions and the sleepers it
must wake; `Ps2` the steps of the keyboard controller's set-up against a
controller that may time out and a user who may press keys; `Madt` the records
of that table and the routing of the keyboard's IRQ. They share no state, and
`MCInterrupts` checks them in one run, `part` being the one that moves. The
proofs about `Trap` and `Ps2` are in `InterruptProofs`, those about the timer and
the routing in `KernelProofs`.

## Runs

| run | what it shows |
|---|---|
| `sched_family` | reaper, init and two forked processes, interrupts anywhere: queue, sleepers, exit, wait4 and reaping are consistent, and only the child of a freed parent can be collected by another |
| `sched_live` | a second kthread that may return, `window` and `polled` closed: every switch uses the right frame, every queued process, every process in the sleepers heap and every waiting parent proceeds, and the dead are freed unless the reaper itself was preempted at `marked` |
| `sched_window` | violation: a tick in the window continues a process from a frame that is not its latest |
| `kmutex_live` | ticks anywhere: kmutex implements the abstract mutex, a wake-up is lost only for a thread preempted between its failed exchange and its block, every other blocked thread runs again |
| `memory` | frames, for every map of up to two regions, those that reach the limit included: pmm implements the abstract allocator and panics only when the newest region is used up; two processes that fork, execute, exit and grow: every frame in one place or free, no address space sees another's stores, mapped pages stay and frames are not lost but in the cases named, the right tables in cr3, and these map the kernel except inside exec; two threads preempted anywhere inside kmalloc() and kfree(): free lists and slab lists stay exact, no page in use is unmapped and no two blocks overlap, until both are in one size class |
| `pmm_full` | violation: alloc_frame() panics with free frames left, those given back behind the cursor |
| `slab_race` | violation: two threads in one size class are given the same chunk |
| `tty_lines` | ten scenarios of typing: the screen shows the line, each stroke becomes one event and is acted on once and in the end. Named exceptions: a line that wraps, a cursor drawn right of the last column (its pixels stay inverted elsewhere), output into the line or text behind the prompt, a view scrolled away from the cursor, an insertion into a line that fills its block |
| `tty_bottom` | violation: a character in the last row or column fails the assertion of draw_char() where the screen is a multiple of the font |
| `files` | eight scenarios of calls: paths and getcwd agree across mount points, getdents64 gives each entry once, a tmpfs file holds what was written and a read gives it back wherever the call does not fault on the process's buffer, null pointers are followed only after a close() |
| `containers` | any sequence of calls: kstring, kvector and klist implement a sequence but at the places `StraysOnlyThere`, `LosesTerminator` and `DropsOnlyErased` name; heaps give the best key; algorithms agree with their references |
| `interrupts` | GS, IF and AC stay paired over every entry, exit and switch, interrupts are ended, sleepers are late by less than a tick and the hold, the keyboard is set up or fails for a named reason, its IRQ goes where the tables say |

Several properties are conjunctions of facts that make sense only together, each
a definition with its own comment: `SleepersExact`, `NobodyStarves`,
`TablesInUse`, `MemoryIsKept`, `HeapConsistent`, `StrokesInOrder`,
`EditingIsSound`, `ScreenIsCurrent`, `PathsAgree`, `ListingsAgree`,
`DeviatesOnlyThere`, `LinksAndCounts`, `AlgorithmsAgree`, `FlagsMatchCode`,
`TimerInTime`, `InitReportsTruth`. The type invariants of the larger modules are
among their conjuncts. Where the code does something a reader would not expect, a
property says that it happens only in the cases it names (`LostOnlyAfterSwitch`,
`FaultsOnlyAfterClose`, `DeviatesOnlyThere`, `EditingIsSafe`, `FramesAreNotLost`, ...),
or speaks of behaviours up to it (`missed`, `raced`).

### Bounds

`MaxPid` bounds fork (g_pid): four processes give a reaper, a parent and two
children or a grandchild, which is what the parent-child and freed-parent cases
need, or a second kthread with init and a child. `Slice` and `MaxSleep` of 1
tell "not yet" from "due" and "quantum used up"; `MaxKeys` of 1 tells an empty
buffer from one with input left. Three threads on a kmutex give a holder, a
thread in the gap and a third that wakes or overtakes it.
In `Pmm`, `Top` (8) bounds the map and `MAX_NUM_FRAMES` (6) is the size of the
bitmap: all maps of two regions with or without a gap, below the limit, across it
and beyond it; `pmm_full` needs one region below it. In `Vmm` a behaviour has one
of three sets of bounds (`MCLimits`): programs of one or two segments with 21
frames, enough for a few forks, executions and exits in any order; a program whose
break grows through a free page and over its stack (15 frames); programs with two
pages of mmap (16 frames). An operation starts only while there are the frames it
takes: what happens without is `Pmm`'s panic. In `Slab` a page holds two chunks of
the smaller class or one of the larger, so that slabs fill, empty and are destroyed
within four pages (five in `slab_race`), and requests cover both classes, size 0
and one larger than a slab. The threads of `Slab` are interchangeable, so `memory`
uses their symmetry. The terminal has four
columns and two rows of two by two pixels and is one pixel larger than that each
way, so that lines wrap and the view scrolls after few keys; the block of a line
begins with `INITIAL_CAPACITY` 4 and doubles, so that a line fills it;
`strokes` and `writes` of a scenario bound its length, `ahead` the keys typed
before the reader gets to them. `INT_RANGE`, `UINT32`, `HeapCells` and `Width`
are small stand-ins for the ranges of int and uint32_t, the size of the kernel
heap and the width of a number. `MaxLen`, `MaxHeap` and `MaxText` let a
container grow twice past its initial capacity and a heap have three levels.
In `Trap`, three nested frames hold an interrupt of a system call, one of its
exit and one of that one's exit. In `ApicTimer` the frequency (6) and the
nanoseconds of a second (4) divide neither way, so that both conversions round;
`MaxTsc` covers the catching up after boot and several ticks after it. Three
records give two I/O APICs and an override in every order, a fourth one a
second override.

Deadlock is checked in `sched_live` and `kmutex_live`. In the other runs a bound,
a panic or a fault of the kernel stops the model.

### Fairness

In `sched_live`: the clock advances (WF); a pending timer interrupt is
kept by the local APIC until IF is set (SF of `tick`); a thread that gets the
CPU again and again gets its kernel code done, a quantum being very many
instructions long (SF of its kernel steps). User code may compute for ever, so
no system call is fair. In `kmutex_live` the same two assumptions: the tick
comes (WF), and a thread given the CPU again and again leaves its critical
section (SF); whether it calls lock() again is its own choice. In `tty_lines`:
a reader that can run does not stay at one point for ever (the scheduler's
`QueuedRuns`), and a byte the controller holds is delivered once interrupts are
on. A program calls read() again after it got a line; nobody has to press a key.

## Theorems

`SchedulerProofs` proves, for every number of processes and kthreads, every
quantum and sleep bound and every set of open points: `TypeOK`,
`RunQueueExact`, `SleepersAsleep`, `FreedIsUnreachable`, `NoMissedExit` and the
action property `ExitIsKept`. The inductive invariant `IInv` adds two facts to
them: `CpuConsistent` (the current process is listed or idle, RUNNING, not in
the heap, and is the owner of the stack in use except in the window, where it
is the one about to be switched to) and `FramesConsistent` (a process parked on
its own frame is not in the window, so after a sound switch the thread that
continues is not in it either). Without them `RunQueueExact` is not inductive:
a tick could put a process in the queue that is there already. The argument is
that every enqueue is preceded by a change of the state from one that is not
runnable, made in the same locked section; `PickResult` and `AppendLists` carry
it through pick_next and enqueue, and each action has a lemma of its own.
`CollectedByParent` follows from `IInv` as well (`ParentsCollect`): a child is
collected by the process its `parent` points to, or through a pointer to a
deleted process. The only assumption is `ConstantsAssumption` (at least the
reaper and init).

`SleepersAreExact` proves `SleepersExact` for every set of open points as well: a
SLEEPING process is in the heap, or stands between `sleep_for()` and the insertion
in `yield_blocked()`, on the CPU or preempted there for good. `MarkedStay` is the
argument: only the process's own step takes it on from that point.

One property holds only while a narrow point is closed, and its theorem says so.
`FramesAreOwn` proves `SwitchesToOwnFrame` where `window` is closed: `FrameInv`
adds `Parked`, that every process that can run again, but the one on whose stack
the CPU is, is parked in its own `kernel_rsp_saved`. With the point open the
property fails, as `sched_window` shows.

`KernelProofs` proves, for any number of threads and with ticks anywhere, that
`Kmutex` implements `Mutex` (`KmutexIsMutex`); the invariant is `HeldByOne` (a
thread inside holds the only 0 of `_lock`). It also proves `BlockedHasWaker`
(`NoLostWakeup`) from `GapInv`: whoever is between the failed test and the block
is on the CPU, and what it saw still holds because no other thread can have run,
or a tick took the CPU from it there and it is in `missed`.

`KernelProofs` also proves, for every memory map and every size of the bitmap, that
alloc_frame() panics only when the newest region is used up
(`PmmServesLastRegion`): `ServedInv` says that what nobody was given yet is free
and ahead of the cursor. It proves that `Pmm` implements `FrameAllocator`
(`PmmIsFrameAllocator`). `CursorInv` supplies that frame 0 stays used, that frames
callers hold have their bit set, that nothing is handed out while regions are being
added, and that the search ends within the bitmap; `UsableInv` that, for a map below
the limit, the frames from the cursor to the end of the search are usable. A region
cut at the limit can have its cursor rounded down by the bit written behind the
bitmap, which is why `Promised` is larger there.

`InterruptProofs` proves, for any number of processes and any depth of nested
interrupts, `FlagsMatchCode` (`FlagsAlwaysMatch`) and `LostOnlyAfterSwitch`
(`LossNeedsSwitch`) of `Trap`. The inductive invariant `TrapInv` adds what is not
visible in the registers: `Parked` (a process that does not run stands at a point
where a switch may leave it, none of them on the user's GS or between stac() and
a copy), `FramesFit` (the flags in an interrupt frame fit the code the frame goes
back to, and only the handler that is about to fault was entered from the exit
path), `IsrHasFrame` and `Uninterrupted` (a process that has not been switched to
since it entered the kernel runs with interrupts off and on top of user code
only). `FramesFit` is what makes the return from a nested interrupt sound;
`Uninterrupted` is why a loss needs a switch. `LocalStep` and `SwitchStep` carry
the steps of one process and the switches; entry and exit of an interrupt have
lemmas of their own. The only assumption is that `MaxDepth` is a number.

It also proves `InitReportsTruth` of `Ps2` (`Ps2InitIsTruthful`), for any number
of keys and of waits that time out. `Ps2Inv` says what the controller is like
before each of the 24 entries of `Program`: `AsExpected` (as long as nothing was
overlooked or misread, the configuration, the output buffer and the command that
waits for its data byte are the ones of `Expected`), `NothingMissed` (without a
timeout and a misread byte nothing is overlooked and nothing fails) and
`QuietSoFar` (without a timeout nothing is misread up to the self-test). A read
relies on the command that was sent some entries earlier and on what keys may have
put in the buffer since, so no smaller statement is kept by every step.
`SendStep`, `DataStep`, `ReadStep`, `Ps2LocalStep` and `KeyStep` take `Expected`
from one entry to the next. `Ps2Assumption` says that the two bounds are numbers.

`SlabProofs` proves, for any number of threads, size classes, chunks per slab and
pages, `HeapConsistent` (`HeapIsConsistent`) and that `Slab` implements `HeapBlocks`
(`HeapIsRefined`), both up to the first race for a size class. `HeapInvariant` is
`raced \/ SlabInv`: a race is never undone (`RaceStays`), and before it every thread
inside a size class is there alone. `HeapConsistent` speaks of lists by walking
them, and of a class only while nobody is in it; neither is inductive. The
invariant `SlabInv` names the lists instead: `FreeExact` (there is a sequence of
different chunks, linked from the head to null through the chunks' own bytes,
which holds exactly the chunks that nobody has and that are not on their way
back) and `ListExact` (the same for the slabs of a class, linked both ways).
`OpsApart` says what a thread between its two steps relies on: the chunk that
alloc() found is still the head, and the one that free() linked still points to
it. `HeldOnce` and `PagesApart` say that blocks are handed out once and that
slabs and large blocks lie in pages of their own; `NotSpare` that a slab beside
another one is in use. `PopFree`, `PushFree`, `PushSlab` and `RemoveSlab` are the
list operations; `FreeWalk` and `SlabWalk` take the named lists back to the
walks; `CountChunks` makes "all chunks are free" and `used_chunks() == 0` the same.
`SlabInvariant` has the invariant and the steps of large blocks, `SlabAlloc` and
`SlabFree` the steps of `alloc()` and `free()`, each with a lemma of its own.
`SlabAssumption` says that the sizes grow and that a chunk fits in a page behind
the header, as `SIZE_32` to `SIZE_1024` do.

`KernelProofs` has `TimerInTime` (`TimerIsInTime`) for every frequency, tick,
longest time with interrupts off and bound of the clock, and `RoutedAsTabled`
(`RoutingIsAsTabled`) for every table. For the timer, `TimerInv` adds that the
armed deadline is the stored one and less than a tick ahead, and `DeadlineAhead`
for each sleeper; the conversions between nanoseconds and the TSC round, and the
lemmas about them bound by how much. `TickAssumption` says that a tick is more
than one count of the TSC, as any interval the kernel uses is. For the routing, `MadtInv`
says that an IRQ has at most one override and that every redirection written so
far is the one the tables ask for; `MadtAssumption` gives the records their types.

Only model-checked: liveness; everything about `Vmm`, the terminal, files and
containers. Liveness is out of the prover's reach, as
is what the folds and recursive operators of `Vmm`, `Strings`, `Console` and `Vfs`
compute for every input. Of the heap nothing is claimed after a race; `slab_race`
shows why.

## What the models show of the code beyond the findings

Scheduler and kmutex
* A process preempted at `marked` (SLEEPING, not yet in `g_sleepers`) never wakes.
  `SleepersAreInHeap` says that no other sleeper is missing from the heap; if it is
  the reaper, nothing is freed any more (`ReaperIsLost`).
* `find_child()` reads the pid of a freed parent; `CollectedByParent` says that
  this is the only way a process can collect a child that is not its own.
* A collected child stays listed as DEAD until the reaper's next turn, and
  wait4() blocks for it, although a comment has it "return early if a parent
  calls wake() but has no children to wait on" (scheduler_mechanism.cpp:425).
* A tick between the failed exchange of lock() and the block lets `wake_mutex()`
  come too early, `yield_blocked()` overwrites the state it set, and the thread
  sleeps on a free mutex (`missed`; `BlockedHasWaker` says that no other thread does). The same gap in the tty's read() is
  `sc.gap`: the key wakes nobody and waits for the next one.

Memory
* The cursor only searches the region that was added last, and never a frame behind
  it: `alloc_frame()` panics with frames of other regions free or frames given back
  (`pmm_full`).
* `set_addr_free()` includes the frame behind a region, so a region cut at the
  limit clears a bit behind the bitmap (`AddRegion`).
* brk() from a break inside a page maps that page again: its data is gone and its
  frame is lost. So does a brk() that reaches the stack's page, and so do two
  segments of a program that meet in a page. `PagesStay` and `FramesAreNotLost` say
  that nothing else does this.
* Between `free_user_pml4()` and the switch, exec runs on a PML4 that was zeroed,
  the kernel's half included; `KernelStaysMapped` says that this is the only time.
* The block that sys_execve() reads the file into is never freed (`exec_free`).
* Two threads in one size class can be given the same chunk (`slab_race`).

Interrupts
* Interrupts are off through boot. Once a process was switched away inside the
  kernel it comes back with IF set, and neither syscall_exit nor the end of
  isr_common clears it: an interrupt between `pop %rsp` and sysretq runs on the
  user's stack, one between swapgs and iretq with the user's GS. A forked child
  leaves the kernel this way the first time. `LostOnlyAfterSwitch` says that
  there is no other way to lose the CPU.
* AC is neither cleared by an interrupt gate nor switched: sys_readv() can come
  back from a blocking read without it. The clac() at the end of
  `map_heap_pages()` is harmless inside a copy only because unlock() restores
  all of RFLAGS (`CopyKeepsAC`).
* `timer_init()` starts the deadline from a duration, so the first ticks follow
  each other at once until they have caught up. A sleeper that goes to sleep after the
  timer was armed is not what it is armed for (`ArmedForEarliest`) but wakes less
  than a tick late (`WokenInTime`).
* A key pressed between the enabling of port 1 and the reset makes ps2::init()
  fail, which is a panic; the last read's failure is overlooked. A self-test or port
  test that fails ends init() the way a timeout of its answer does, and is counted
  as one.

Files
* alloc_fd() and terminate() follow the null pointer that close() leaves.
* The root's `mounted_on` is never initialised (scenario `garbage`).
* getdents64 resolves a relative path again after chdir(): `PathStillNames`
  states for which descriptors the path still names the inode.
* mkdir of "/" takes the last of no tokens; "." and ".." can be made as
  directories; mkdir in devfs and procfs reports success and makes nothing.
* A process's write(), writev() or read() that moves bytes of a tmpfs file faults
  under SMAP; readv() does not, because sys_readv() sets AC around its loop.
* A read of initramfs ignores the offset; lseek() of tmpfs returns 0 and narrows
  its argument to int; a write of length zero past the end extends the file.

Terminal
* The cursor's column wraps below zero when editing goes back over a wrapped line
  or over another process's output, and the console then asks the heap for a
  buffer it does not have (`EditingIsSafe` names the cases).
* A newline before anything was put indexes an empty buffer; after a scrolling
  newline the cursor is not drawn (`OneCursor`). When a line fills its row the cursor
  is drawn right of the last column: its pixels land in the next row of pixels, and
  stay inverted when the line wraps.
* An insert in the middle of a line that fills its block moves the '\0' behind the
  block (`LineInBlock`).
* Releasing one of two Ctrl or Shift keys held together clears the flag
  (`NoStuckModifier` is about the other direction).
* read() returns the length of the line, not what was copied (dev_tty.cpp:392).

Containers and text
* kstring::insert() into a full block writes behind it; kvector::push_back() of
  an element of the vector reads it after it was freed; kvector::erase() leaves
  the last object undestructed; copy assignment of kshared_ptr loses the old
  object, and two threads that let go together can delete it twice. (Only the
  kernel's tests use kshared_ptr.)
* put(kstring) does not end on an unterminated escape sequence; parse_uint()
  misreads hexadecimal letters; padding puts zeros where the sign is.

## Not modelled

* Boot, ACPI discovery, GDT, IDT, TLS, PIC, PIT and serial set-up, and the
  calibration of the TSC: registers and tables written once, without a decision
  that depends on another part. Their effect is in the initial states.
* gfx, glyphs and colours, the table from scancodes to characters, logging and
  the wording of messages: pure output or pure tables.
* The ELF parser and the layout of the user's stack: a program is an entry point
  and an image. kunique_ptr and the trim functions of kstring have no user among
  the modelled code.
* Page flags and the two middle levels of page tables; the four levels are walked
  by the same code.
* stat, fcntl and ioctl, which answer without changing state; the bytes of
  initramfs files.
* User programs: any sequence of system calls is considered instead.
