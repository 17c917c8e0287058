---------------------------------- MODULE Vmm ----------------------------------
(***************************************************************************)
(* Address spaces: arch/x64/memory/vmm.cpp with its users fork(), exec(),  *)
(* terminate(), brk(), mmap() and the kernel heap, over a physical memory  *)
(* manager that never hands out a frame twice (see Pmm).                   *)
(*                                                                         *)
(* The three levels below a PML4 are one level here: a PML4 entry leads to *)
(* a table of pages.  The entries of a PML4 are the part of the address    *)
(* space with the program, the break behind it and the stack at a fixed    *)
(* page above, the part that mmap() fills, and the kernel's half.          *)
(*                                                                         *)
(* A system call runs with interrupts off, and page tables change under    *)
(* g_vmm_lock, so brk(), mmap() and fork() are one step each.  exec() is   *)
(* shown in its steps, since it exchanges the tables the CPU is using.     *)
(***************************************************************************)
EXTENDS Integers, FiniteSets, SequencesExt

CONSTANTS Procs,  \* Process objects
          First,  \* the one userspace::init() makes
          Limits  \* bounds, of which a behaviour has one: the frames of the
                  \* machine, how far the break (in half pages) and mmap()
                  \* get, the pages of the kernel heap; and the stack's page
                  \* and the programs, each the pages of its segments

ASSUME VmmAssumption ==
    /\ First \in Procs
    /\ Limits \subseteq [frames : Nat, break : Nat \ {0}, mmap : Nat, kernel : Nat \ {0},
                         stack : Nat \ {0}, programs : SUBSET Seq(SUBSET Nat)]

Frames == 1..Max({l.frames : l \in Limits})
PageIndex == 0..Max({Max({(l.break - 1) \div 2, l.stack, l.mmap - 1, l.kernel - 1}) : l \in Limits})
UserSlots == {"image", "mmap"}
Slots == UserSlots \cup {"kernel"}
None == 0
Kernel == "kernel"      \* on the CPU: a kernel thread
KernelRoot == 1
KernelTable == 2

VARIABLES
    mem,         \* physical memory: [root, table, data, next, freed]
    pml4,        \* Process::pml4
    program,     \* the segments of the program the process was started with
    heap_break,  \* Process::heap_break in half pages
    uheap,       \* Process::uheap: the next page mmap() maps
    kstack,      \* Process::kernel_stack: a page of the kernel heap
    kheap,       \* the next page of the kernel heap
    blocks,      \* pages alloc_kernel() returned to other callers
    raw,         \* pages alloc_kernel_page() returned
    stage,       \* where each process is
    cpu,         \* percpu->process
    cr3,
    limit        \* the bounds, never changed

procVars == <<pml4, program, heap_break, uheap, kstack>>
heapVars == <<kheap, blocks, raw>>
cpuVars == <<cpu, cr3>>
vmmVars == <<mem, procVars, heapVars, stage, cpuVars, limit>>

Stages == {"none", "user", "exec_freed", "exec_mapping", "exec_built", "exited"}

-----------------------------------------------------------------------------
(* Page tables.  An operator returns the memory after the function.        *)

NoEntries == [s \in Slots |-> None]
NoPages == [i \in PageIndex |-> None]

\* A frame that becomes a table is zeroed.
ensure_present(m, root, slot) ==
    IF m.root[root][slot] # None THEN m
    ELSE [m EXCEPT !.root[root][slot] = m.next,
                   !.table[m.next] = NoPages,
                   !.next = @ + 1]

map_page_to_frame(m, root, slot, i, f) ==
    LET w == ensure_present(m, root, slot)
    IN  [w EXCEPT !.table[w.root[root][slot]][i] = f]

\* A frame for every page, whether or not the page is mapped.
map_pages(m, root, slot, pages) ==
    FoldSet(LAMBDA i, w : map_page_to_frame([w EXCEPT !.next = @ + 1], root, slot, i, w.next),
            m, pages)

\* find_pte(): the frame of a page, if it is mapped.
FrameAt(m, root, slot, i) ==
    IF m.root[root][slot] = None THEN None ELSE m.table[m.root[root][slot]][i]

\* A store through the tables in cr3.
Store(m, current, slot, i, v) == [m EXCEPT !.data[FrameAt(m, current, slot, i)] = v]

\* n pages from the page `at' of a heap, the number in the first of them.
map_heap_pages(m, root, current, slot, at, n) ==
    Store(map_pages(m, root, slot, at..(at + n - 1)), current, slot, at, n)

unmap_page(m, i) ==
    IF m.table[KernelTable][i] = None THEN m
    ELSE [m EXCEPT !.freed = @ \cup {m.table[KernelTable][i]}, !.table[KernelTable][i] = None]

\* Mutant: the loop over the entries stops at the HHDM's.
Bug_user_half_only(m, like) == [m EXCEPT !.root[m.next] = NoEntries, !.next = @ + 1]

\* The kernel's half of the new PML4 is that of another one.
NewRoot(m, like) ==
    [m EXCEPT !.root[m.next] = [NoEntries EXCEPT !["kernel"] = m.root[like]["kernel"]],
              !.next = @ + 1]

create_user_pml4(m) == NewRoot(m, KernelRoot)

Tables(m, root) == {m.root[root][s] : s \in UserSlots} \ {None}

PagesOf(m, root) == {m.table[t][i] : t \in Tables(m, root), i \in PageIndex} \ {None}

\* Mutant: the tables are not given back.
Bug_keep_tables(m, root) ==
    IF root = KernelRoot THEN m
    ELSE [m EXCEPT !.freed = @ \cup PagesOf(m, root) \cup {root}, !.root[root] = NoEntries]

\* The pages, the tables and the zeroed PML4 are given back.
free_user_pml4(m, root) ==
    IF root = KernelRoot THEN m
    ELSE [m EXCEPT !.freed = @ \cup PagesOf(m, root) \cup Tables(m, root) \cup {root},
                   !.table = [t \in Frames |-> IF t \in Tables(m, root) THEN NoPages ELSE @[t]],
                   !.root[root] = NoEntries]

\* Mutant: the entry is copied with its frame.
Bug_share_page(m, to, s, i, from) ==
    [m EXCEPT !.table[m.root[to][s]][i] = m.table[m.root[from][s]][i]]

\* Mutant: the page is not copied.
Bug_no_copy(m, to, s, i, from) ==
    [m EXCEPT !.table[m.root[to][s]][i] = m.next, !.next = @ + 1]

\* The page of `to' is a new frame with a copy of the page of `from'.
ClonePage(m, to, s, i, from) ==
    [m EXCEPT !.table[m.root[to][s]][i] = m.next,
              !.data[m.next] = m.data[m.table[m.root[from][s]][i]],
              !.next = @ + 1]

clone_user_pml4(m, from) ==
    LET to == m.next
        Mapped(s) == {i \in PageIndex : m.table[m.root[from][s]][i] # None}
        CloneTable(s, w) ==
            FoldSet(LAMBDA i, v : ClonePage(v, to, s, i, from),
                    ensure_present(w, to, s), Mapped(s))
    IN  FoldSet(CloneTable, NewRoot(m, from), {s \in UserSlots : m.root[from][s] # None})

\* Fresh pages and what is written to them, a whole segment or the stack.
Fill(m, root, current, pages) ==
    FoldSet(LAMBDA i, w : Store(w, current, "image", i, 0),
            map_pages(m, root, "image", pages), pages)

\* map_elf64_header() for every segment, and build_user_stack(): USER_STACK_BASE
\* is the same for all programs.
LoadImage(m, root, current, segments, stack) ==
    FoldLeft(LAMBDA w, pages : Fill(w, root, current, pages), m, Append(segments, {stack}))

\* The break map_elf64_header() leaves: the end of the last segment, rounded up.
BreakAfter(segments) == 2 * (1 + Max(UNION Range(segments)))

-----------------------------------------------------------------------------

\* After vmm::init().
KernelMemory ==
    [root |-> [f \in Frames |-> IF f = KernelRoot THEN [NoEntries EXCEPT !["kernel"] = KernelTable]
                                ELSE NoEntries],
     table |-> [f \in Frames |-> NoPages],
     data |-> [f \in Frames |-> 0],
     next |-> 3,
     freed |-> {}]

\* After userspace::init(): the first process waits for the CPU.  The block its
\* file was read into, which boot keeps, is left out.
VmmInit ==
    LET k == map_heap_pages(KernelMemory, KernelRoot, KernelRoot, "kernel", 0, 1)
        r == k.next
        m == ensure_present(create_user_pml4(k), r, "mmap")
    IN  /\ limit \in Limits
        /\ \E file \in limit.programs :
              /\ mem = LoadImage(m, r, r, file, limit.stack)
              /\ program = [p \in Procs |-> IF p = First THEN file ELSE <<>>]
              /\ heap_break = [p \in Procs |-> IF p = First THEN BreakAfter(file) ELSE 0]
        /\ pml4 = [p \in Procs |-> IF p = First THEN r ELSE None]
        /\ uheap = [p \in Procs |-> 0]
        /\ kstack = [p \in Procs |-> 0]
        /\ kheap = 1 /\ blocks = {} /\ raw = {}
        /\ stage = [p \in Procs |-> IF p = First THEN "user" ELSE "none"]
        /\ cpu = Kernel /\ cr3 = KernelRoot

\* Bound: an operation starts while there are the frames it takes.
\* (alloc_frame() panics when there is none, see Pmm.)
Enough(n) == mem.next + n <= limit.frames + 1

-----------------------------------------------------------------------------
(* The CPU.                                                                *)

activate_process(c) ==
    /\ cpu' = c
    /\ cr3' = IF c = Kernel THEN KernelRoot ELSE pml4[c]

Runnable == {p \in Procs : stage[p] = "user"} \cup {Kernel}

\* preempt(), or a system call that blocks.
switch ==
    /\ cpu \in Runnable
    /\ \E c \in Runnable \ {cpu} : activate_process(c)
    /\ UNCHANGED <<mem, procVars, heapVars, stage>>

\* A store of the program: 3 is what no image, page count or fresh frame holds.
Write(p, s, i) ==
    /\ cpu = p /\ stage[p] = "user"
    /\ FrameAt(mem, cr3, s, i) # None
    /\ mem' = Store(mem, cr3, s, i, 3)
    /\ UNCHANGED <<procVars, heapVars, stage, cpuVars>>

-----------------------------------------------------------------------------
(* System calls.                                                           *)

\* The pages that a break moving up to `to' maps: from the page the old break is
\* in, whatever is mapped there, the stack's included.
PagesToBreak(p, to) == (heap_break[p] \div 2)..((to - 1) \div 2)

sys_brk(p, to) ==
    /\ cpu = p /\ stage[p] = "user" /\ to > heap_break[p]
    /\ Enough(Cardinality(PagesToBreak(p, to)))
    /\ mem' = map_pages(mem, pml4[p], "image", PagesToBreak(p, to))
    /\ heap_break' = [heap_break EXCEPT ![p] = to]
    /\ UNCHANGED <<pml4, program, uheap, kstack, heapVars, stage, cpuVars>>

sys_mmap(p, n) ==
    /\ cpu = p /\ stage[p] = "user" /\ uheap[p] + n <= limit.mmap
    /\ Enough(n)
    /\ mem' = map_heap_pages(mem, pml4[p], cr3, "mmap", uheap[p], n)
    /\ uheap' = [uheap EXCEPT ![p] = @ + n]
    /\ UNCHANGED <<pml4, program, heap_break, kstack, heapVars, stage, cpuVars>>

\* sys_fork(): cr3 holds the clone while the child is built.
sys_fork(p, q) ==
    /\ cpu = p /\ stage[p] = "user" /\ stage[q] = "none" /\ kheap < limit.kernel
    /\ Enough(4 + Cardinality(PagesOf(mem, pml4[p])))
    /\ stage' = [stage EXCEPT ![q] = "user"]
    /\ LET clone == clone_user_pml4(mem, pml4[p])
           m == map_heap_pages(clone, KernelRoot, mem.next, "kernel", kheap, 1)
       IN  mem' = ensure_present(m, mem.next, "mmap")
    /\ pml4' = [pml4 EXCEPT ![q] = mem.next]
    /\ kstack' = [kstack EXCEPT ![q] = kheap]
    /\ kheap' = kheap + 1
    /\ program' = [program EXCEPT ![q] = program[p]]
    /\ heap_break' = [heap_break EXCEPT ![q] = heap_break[p]]
    /\ uheap' = [uheap EXCEPT ![q] = uheap[p]]
    /\ cr3' = pml4[p]
    /\ UNCHANGED <<blocks, raw, cpu>>

\* sys_execve(): the file is read into a block that nothing frees, and
\* exec_elf64() frees the address space that is in cr3.
exec_free(p, file) ==
    /\ cpu = p /\ stage[p] = "user" /\ kheap < limit.kernel
    /\ Enough(5 + Len(file))
    /\ program' = [program EXCEPT ![p] = file]
    /\ stage' = [stage EXCEPT ![p] = "exec_freed"]
    /\ mem' = free_user_pml4(map_heap_pages(mem, KernelRoot, cr3, "kernel", kheap, 1), pml4[p])
    /\ kheap' = kheap + 1
    /\ UNCHANGED <<pml4, heap_break, uheap, kstack, blocks, raw, cpuVars>>

\* create_user_pml4(), switch_pml4(), create_user_heap()
exec_create(p) ==
    /\ stage[p] = "exec_freed"
    /\ stage' = [stage EXCEPT ![p] = "exec_mapping"]
    /\ mem' = ensure_present(create_user_pml4(mem), mem.next, "mmap")
    /\ pml4' = [pml4 EXCEPT ![p] = mem.next]
    /\ cr3' = mem.next
    /\ heap_break' = [heap_break EXCEPT ![p] = 0]
    /\ uheap' = [uheap EXCEPT ![p] = 0]
    /\ UNCHANGED <<program, kstack, heapVars, cpu>>

\* The image and the stack, then switch_kernel_pml4().
exec_map(p) ==
    /\ stage[p] = "exec_mapping"
    /\ stage' = [stage EXCEPT ![p] = "exec_built"]
    /\ mem' = LoadImage(mem, pml4[p], cr3, program[p], limit.stack)
    /\ heap_break' = [heap_break EXCEPT ![p] = BreakAfter(program[p])]
    /\ cr3' = KernelRoot
    /\ UNCHANGED <<pml4, program, uheap, kstack, heapVars, cpu>>

\* yield_new_process(): the new program starts when it is next given the CPU.
yield_new_process(p) ==
    /\ stage[p] = "exec_built"
    /\ stage' = [stage EXCEPT ![p] = "user"]
    /\ \E c \in Runnable : activate_process(c)
    /\ UNCHANGED <<mem, procVars, heapVars>>

\* sys_exit(): yield_zombie()
sys_exit(p) ==
    /\ cpu = p /\ stage[p] = "user"
    /\ stage' = [stage EXCEPT ![p] = "exited"]
    /\ \E c \in Runnable \ {p} : activate_process(c)
    /\ UNCHANGED <<mem, procVars, heapVars>>

\* free_kernel(): as many pages as the first of them says.
free_kernel(m, i) ==
    LET n == m.data[m.table[KernelTable][i]]
    IN  FoldSet(LAMBDA j, w : unmap_page(w, j), m, i..(i + n - 1))

\* The reaper deletes an exited process.
terminate(p) ==
    /\ cpu = Kernel /\ stage[p] = "exited"
    /\ stage' = [stage EXCEPT ![p] = "none"]
    /\ mem' = free_kernel(free_user_pml4(mem, pml4[p]), kstack[p])
    /\ pml4' = [pml4 EXCEPT ![p] = None]
    /\ program' = [program EXCEPT ![p] = <<>>]
    /\ heap_break' = [heap_break EXCEPT ![p] = 0]
    /\ uheap' = [uheap EXCEPT ![p] = 0]
    /\ kstack' = [kstack EXCEPT ![p] = 0]
    /\ UNCHANGED <<heapVars, cpuVars>>

-----------------------------------------------------------------------------
(* The kernel heap, for whoever is on the CPU.                             *)

alloc_kernel(n) ==
    /\ cpu \in Runnable /\ kheap + n <= limit.kernel
    /\ Enough(n)
    /\ mem' = map_heap_pages(mem, KernelRoot, cr3, "kernel", kheap, n)
    /\ kheap' = kheap + n
    /\ blocks' = blocks \cup {kheap}
    /\ UNCHANGED <<procVars, raw, stage, cpuVars>>

alloc_kernel_page ==
    /\ cpu \in Runnable /\ kheap < limit.kernel
    /\ Enough(1)
    /\ mem' = map_pages(mem, KernelRoot, "kernel", {kheap})
    /\ kheap' = kheap + 1
    /\ raw' = raw \cup {kheap}
    /\ UNCHANGED <<procVars, blocks, stage, cpuVars>>

free_block(i) ==
    /\ cpu \in Runnable /\ i \in blocks
    /\ mem' = free_kernel(mem, i)
    /\ blocks' = blocks \ {i}
    /\ UNCHANGED <<procVars, kheap, raw, stage, cpuVars>>

free_kernel_page(i) ==
    /\ cpu \in Runnable /\ i \in raw
    /\ mem' = unmap_page(mem, i)
    /\ raw' = raw \ {i}
    /\ UNCHANGED <<procVars, kheap, blocks, stage, cpuVars>>

ProcStep(p) ==
    \/ \E s \in UserSlots, i \in PageIndex : Write(p, s, i)
    \/ \E to \in 1..limit.break : sys_brk(p, to)
    \/ \E n \in 1..2 : sys_mmap(p, n)
    \/ \E q \in Procs : sys_fork(p, q)
    \/ \E file \in limit.programs : exec_free(p, file)
    \/ exec_create(p) \/ exec_map(p) \/ yield_new_process(p)
    \/ sys_exit(p) \/ terminate(p)

HeapStep ==
    \/ \E n \in 1..2 : alloc_kernel(n)
    \/ alloc_kernel_page
    \/ \E i \in PageIndex : free_block(i) \/ free_kernel_page(i)

VmmNext ==
    /\ switch \/ HeapStep \/ \E p \in Procs : ProcStep(p)
    /\ UNCHANGED limit

VmmSpec == VmmInit /\ [][VmmNext]_vmmVars

-----------------------------------------------------------------------------
(* Properties.                                                             *)

\* The types of the state.
VmmTypeOK ==
    /\ mem.root \in [Frames -> [Slots -> Frames \cup {None}]]
    /\ mem.table \in [Frames -> [PageIndex -> Frames \cup {None}]]
    /\ mem.data \in [Frames -> 0..3]
    /\ mem.next \in 3..(limit.frames + 1) /\ mem.freed \subseteq Frames
    /\ pml4 \in [Procs -> Frames \cup {None}] /\ program \in [Procs -> limit.programs \cup {<<>>}]
    /\ heap_break \in [Procs -> 0..limit.break]
    /\ uheap \in [Procs -> 0..limit.mmap] /\ kstack \in [Procs -> PageIndex]
    /\ kheap \in 0..limit.kernel /\ blocks \subseteq PageIndex /\ raw \subseteq PageIndex
    /\ stage \in [Procs -> Stages] /\ cpu \in Procs \cup {Kernel} /\ cr3 \in Frames
    /\ limit \in Limits

\* The PML4s that Process objects refer to, without the one exec() has freed.
UserRoots == {pml4[p] : p \in {q \in Procs : stage[q] # "exec_freed"}} \ {None}

\* Where frames are referred to: by a Process or the kernel as a PML4, by an
\* entry of a PML4, by an entry of a table.
References ==
    {x \in {<<"root", r, 0, r>> : r \in UserRoots \cup {KernelRoot}}
           \cup {<<s, r, 0, mem.root[r][s]>> : r \in UserRoots, s \in UserSlots}
           \cup {<<"kernel", KernelRoot, 0, KernelTable>>}
           \cup {<<"page", t, i, mem.table[t][i]>> :
                     t \in UNION {Tables(mem, r) : r \in UserRoots} \cup {KernelTable}, i \in PageIndex} :
        x[4] # None}

Referenced == {x[4] : x \in References}

\* A frame is in one place of one address space only (nothing stays shared
\* after fork()), and one that was given back is in none: free_user_pml4() and
\* free_kernel() leave no entry that leads to a frame they freed.
FramesInOnePlace ==
    /\ \A x, y \in References : x[4] = y[4] => x = y
    /\ Referenced \cap mem.freed = {}

Lost == (1..(mem.next - 1)) \ (Referenced \cup mem.freed)

\* The pages of p that a step maps although they are mapped: brk() starts in the
\* page the break is in, and does not stop below the stack.
Remapped(p) ==
    {i \in PagesToBreak(p, heap_break'[p]) :
        /\ stage[p] = "user" /\ heap_break'[p] > heap_break[p]
        /\ i = limit.stack \/ (i = heap_break[p] \div 2 /\ heap_break[p] % 2 = 1)}

\* exec() of a program with segments that share a page.
MeetInPage(segments) ==
    \E i, j \in DOMAIN segments : i # j /\ segments[i] \cap segments[j] # {}

\* exec(), exit and fork() lose no frame: one that was handed out is referred to
\* or is given back.  Three operations map a page over a mapped one, whose frame
\* is lost: brk() from a break inside a page, brk() past the stack, and exec() of
\* a program whose segments meet inside a page.
FramesAreNotLost ==
    [][Lost' \subseteq Lost
       \/ \E p \in Procs :
             \/ Remapped(p) # {}
             \/ stage[p] = "exec_mapping" /\ MeetInPage(program[p])]_vmmVars

\* What a process finds at a page.
Seen(m, root, s, i) ==
    IF FrameAt(m, root, s, i) = None THEN -1 ELSE m.data[FrameAt(m, root, s, i)]

\* "fork() with true address-space cloning": the child starts with what its
\* parent sees, and from then on nothing a process or the kernel does changes
\* what another process sees.
ViewsAreSeparate ==
    [][\A p \in Procs, s \in UserSlots, i \in PageIndex :
          /\ (pml4[p] # None /\ cpu # p /\ pml4'[p] = pml4[p]) =>
                Seen(mem', pml4[p], s, i) = Seen(mem, pml4[p], s, i)
          /\ (pml4[p] = None /\ pml4'[p] # None) =>
                Seen(mem', pml4'[p], s, i) = Seen(mem, pml4[cpu], s, i)]_vmmVars

\* A mapped page stays, on its frame, until exec() or exit, but for the page the
\* break is in and the stack's when brk() reaches them: brk() and mmap() map
\* no other page that is mapped.
PagesStay ==
    [][\A p \in Procs, s \in UserSlots, i \in PageIndex :
          (pml4[p] # None /\ stage'[p] \notin {"none", "exec_freed"} /\ pml4'[p] = pml4[p]
             /\ FrameAt(mem, pml4[p], s, i) # None) =>
          \/ FrameAt(mem', pml4[p], s, i) = FrameAt(mem, pml4[p], s, i)
          \/ s = "image" /\ i \in Remapped(p)]_vmmVars

\* The program on the CPU runs on its own tables, exec() on the new ones while
\* it stores through them, a kernel thread on the kernel's.
OwnTablesInUse ==
    /\ cpu = Kernel => cr3 = KernelRoot
    /\ \A p \in Procs : (cpu = p /\ stage[p] \in {"user", "exec_mapping"}) => cr3 = pml4[p]

\* "copies the kernel's higher-half mappings (from HHDM index onwards) so the
\* kernel is accessible from user space": the PML4 in cr3 has them, but for the
\* instructions of exec_elf64() between freeing the old tables, which are the
\* ones in cr3, and switching to the new ones.
KernelStaysMapped ==
    mem.root[cr3]["kernel"] = None => \E p \in Procs : cpu = p /\ stage[p] = "exec_freed"

\* The CPU never runs on tables that are not meant for what it executes: the
\* process's own, and with the kernel in them (switch_pml4() in the scheduler,
\* exec_elf64() and exit).
TablesInUse == VmmTypeOK /\ OwnTablesInUse /\ KernelStaysMapped

\* No operation takes memory away from a process or from the system, but the
\* three that map a page over a mapped one: brk() from inside a page, brk() past
\* the stack, and exec() of segments that meet in a page.
MemoryIsKept == PagesStay /\ FramesAreNotLost

=============================================================================
