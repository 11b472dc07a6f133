# DragonHeartOS in TLA+

TLA+ models of the Katline microkernel and of the programs that bring
DragonHeartOS up, with TLC runs on small instances and TLAPS proofs for all
instances. Paths below are relative to the repository (`src/`).

```
tlc -config SchedulerBoot.cfg MCScheduler.tla    # one run of the table in section 4
tlapm KernelObjects_proof.tla                    # one proof module
```

## 1. The system

Katline is an x86-64 microkernel written in C++ modules. User programs make
system calls, exchange fixed-size messages through per-process mailboxes and share memory
objects through handles. The kernel runs with interrupts masked from entry to
exit (`Syscalls/SyscallABI.cppm:41-43`); CPUs exclude each other with spin
locks only. Application processors adopt a boot thread and halt
(`Runtime.cppm:780-813`): their scheduler state is online and their timer
fires, but as built only the boot processor runs user threads.

| component | state it keeps | operations | interacts with |
|---|---|---|---|
| thread scheduler (`Arch/Scheduler.cppm`, `Thread.cppm`, `CPU.cppm`) | per CPU: ready queue, current, handoff, `in_schedule`; per thread: state, saved context, slice, home | yield, exit, timer interrupt, create, start, steal | every syscall that blocks nobody; the timer; other CPUs' queues |
| handles (`HandleManager.cppm`) | handle table, next id | open, duplicate, close, resolve | counts in processes, threads and memory objects |
| processes and capabilities (`Syscalls/Process*.cppm`, `Thread*.cppm`) | parent, capabilities, threads | create, current, grant | handles, scheduler |
| memory objects and mappings (`Memory/MemoryObject.cppm`, `ProcessMappings.cppm`, `Syscalls/*Memory*.cppm`) | reference count, pages; mapping list per process | create, map, map into another process, unmap | handles, page tables, frame allocator |
| frame allocator (`Memory/FrameAllocator.cppm`) | bitmap, search hint | init, reserve, allocate, free | memory objects, page tables, boot |
| heap (`Memory/Heap.cppm`, `MemoryManager.cppm`, `NewDelete.cpp`) | rings of chunks, a free list per size class, tags of aligned blocks | add region, malloc, aligned allocation, free | every `new` in the kernel |
| page tables (`Arch/Paging.cppm`) | four-level trees | map, unmap, query, clone, new address space | frame allocator |
| message passing (`API/IPC.cppm`, `Syscalls/IPC*.cppm`) | a mailbox of 256 per process, an id counter | send, receive | scheduler (process lookup) |
| kernel boot services (`Runtime.cppm`) | boot data, the boot-info object | answers to five message types | message passing, handles, memory objects |
| Bootstrap (`Applications/Bootstrap`) | its place in `_start`, a cookie counter | asks the kernel, builds Loader, asks Loader | kernel, Loader |
| Loader (`Applications/Loader`) | cached boot data, the request it serves; while it loads an image, its handles and mappings | announces itself, serves load requests, builds and starts processes | kernel, Bootstrap, its clients |
| user runtime (`Libraries/LibRuntime`) | per block of `new`: a memory object, a handle, a mapping, a header | `_start`, `new`, `delete` | kernel: every program |
| system call entry (`Syscalls/SyscallABI.cppm`) | per CPU: GS bases, kernel stack, saved user stack pointer | enter, leave | scheduler, which switches threads in between |
| ProcessManager | none | yields for ever | scheduler |
| kernel log (`DebugImpl.cppm`) | a queue of 256 entries | push (blocking), drain | everything that prints |

What is hard here: the scheduler gives up its lock between choosing, committing
and switching; one field of the saved context (the code selector) decides who is
preferred and who is requeued; reference counts are changed by handles, by
mappings and by failed calls; a search hint must never be ahead of a free frame;
heap chunks are merged by what their neighbours'
headers say, and aligned blocks are told from plain ones by the word before
them; the entry from user mode trusts per-CPU state that a thread switch changes
under it; segments of an image share pages; a load has some twenty system calls,
each of which can fail; a page table is shared by pages with different permissions;
programs match replies to requests by a cookie alone and poll a mailbox that
others fill. What makes each component correct is stated as properties in
section 4, and `PROJECT.json` lists every hazard with its line. There are no
unit tests in the repository.

## 2. Modules and how they correspond to the code

**Scheduler**, **MCScheduler** - `tstate`, `cs`, `slice`, `home` are fields of `Thread`; `queue`,
`current`, `handoff`, `inSchedule` fields of `CPUState`. `pc`, `next`, `scan`
stand for where a CPU is inside `schedule()` or `on_timer_interrupt()` and its
local variables; `live` is the thread whose registers the CPU holds. Every
critical section of a queue lock is one action: `ScheduleEnter` (used by
`Yield`, `Exit`, `BootYield`), `Steal` (one victim per step), `Commit`,
`Switch`; `Preempt` and `IrqSwitch` for the timer, `TimerNoSwitch` for its early
returns; `CreateThread`. `start_thread` reads the state of the thread without a
lock, so it is three steps between which other CPUs may act: `StartThread` is the
test, `StartReady` the write, `StartEnqueue` the queue under its lock. The
constant `Starts` says who may create and start whom; MCScheduler has two values
for it. The ready array with
its head index and null slots is the sequence of entries not yet consumed.
What the entry from user mode trusts is part of the state: `gs` (the base in use
and the one `swapgs` brings in), `kernelStack` (TSS and `KernelCpuData`), the slot
`userRsp`, and per thread `rsp`, the owner of the stack its user code is on.
`EnterSyscall` is the head of `syscall_entry`, `LeaveSyscall` its tail,
`LoadSelector` the `movw %gs` of `switch_to`, `PreparedGs` and
`KernelStackOfNext` what `schedule` prepares. A fault in the kernel is the location "panic".

**KernelObjects** - the handle table, capabilities, counts, mapping lists and the
page-table entries of user pages. One action per system call and per kind of
kernel reply, with the case where the mailbox is full (`...Dropped`). Calls that
fail before they change anything are stuttering steps. `FailMap` is
`map_memory_object` failing after its first page, and is enabled by the constant
`LateFailures`; `MemoryMapped` and `MemoryMapFailed` are the two ways `sys_memory_map` can go
on once its arguments are accepted, and likewise for `ProcessMemoryMap`. Retained as in the code: a handle is a reference, a mapping is a
reference, the kernel keeps one on the boot-info object; only memory objects are
ever deleted. Identifiers of processes, threads and objects are used once. The
bootstrap image and stack, which the kernel maps before the process has a mapping
list, lie outside the modelled pages.

**FrameSet** and **FrameAllocator** - FrameSet is what callers rely on: a set of
available frames. FrameAllocator is the bitmap and the hint; it also holds the
order in which `katline_main` gives ranges to this allocator and to the heap.
`Abstract == INSTANCE FrameSet WITH ...` maps the clear bits to the available set.

**Blocks**, **Heap**, **MCHeap** - Blocks is what callers of `new` rely on. Heap
has the code's chunk headers at their byte addresses (`chunk`, the `all` list),
the free lists as sequences, and `tag`, the words in which `free` looks for an
`AllocationHeader`. `live` is what callers own. `AddRegion` is one entry of
`MemoryManager::init`, `Allocate` and `AllocateAligned` are `operator new` down
to `mrvn_malloc`, `Free` is `operator delete` down to `mrvn_free` with both
merges. A failed allocation changes nothing and is a stuttering step. `Abstract`
maps the owned pointers to blocks.

**AddressSpaces**, **Paging**, **MCPaging** - AddressSpaces is a map from pages
to frames and access rights per process. Paging has the tables as partial
functions from indices to entries, with table and leaf flags. `Path` and
`StopLevel` are `walk`; `CreatedPath` and `TableEntry` are `walk` with
`create`, including the walk that runs out of memory half way; `CloneCurrent`
is the deep copy `katline_main` boots into, `CreateAddressSpace` is
`clone_kernel_address_space`. `Span` is the number of pages below an entry, the shift of
`table_index` and `level_page_size`. `Seen` is the processor's walk, written
independently of the kernel's; the refinement mapping is what the processor sees.

**ElfLoad**, **UserRuntime**, **MCUserRuntime** - ElfLoad extends KernelObjects with
Loader: `step` is how far it is, `releases` the unmaps and closes a way out has still
to make, `code` the status it will reply. Every system call of the load is the
action of KernelObjects for it, or `Refused`, which changes nothing; a mapping may also fail
half way. The operators under "The layout of an image" are the
arithmetic on program headers, `bytes` the image object's contents and `window`
what the child's pages show of it. A segment is known by its place in the header table, and
`ImageAfter(file)[n]` is the image once the loop has seen the first n headers. Header fields are
natural numbers: sums that wrap around a machine word are left out. UserRuntime adds the program: `_start`, then
`new` and `delete` in any order, interleaved with Loader. `blocks` is what the
program owns, `wanted` the call in progress. Sizes and addresses are counted in words of 8
bytes, the unit `align_up` rounds to; a header is 4 words, the default alignment 2.
A fault of the program is the place "fault", after which nothing runs.

**IPC** - mailboxes, send, receive and the kernel's synchronous answers.
`MailSpec` allows arbitrary programs. **BootProtocol** extends it with the
programs: a place per process, the cookie counters, what Bootstrap and Loader
remember. Each system call that touches a mailbox is a step, so the two programs
interleave at every send and receive. Loader begins in the `_start` of LibRuntime
(`LoaderRuntime`), which may end the program before `dhos_main`; Bootstrap has a
`_start` of its own. A fault there stops the whole machine in the code and only Loader in the
model: the difference is when the others stop, which no property counts on. Sequences of system calls that build or map
objects are one step that may fail, which stands for all their error paths.
Process 3 is the client the notes describe for ProcessManager (`notes.md:140`);
the program in the repository only yields, so its three actions are marked external.

Operators named `...Fault` are not part of any specification. Each is a
plausible slip in the operator it precedes, kept to show that a property can fail.

## 3. Fairness

`Scheduler!FairSpec` assumes weak fairness of each CPU's timer (interrupts are
enabled whenever `pc = "run"`, and the LAPIC timer is periodic), of a CPU's
steps inside the kernel (masked code runs on), and of the boot processor's one
`yield()` at the end of bring-up (`Runtime.cppm:766`). User threads are not assumed to do
anything, nor is a second processor's boot thread.

`FairUserSpec` assumes weak fairness of Loader's steps until the machine stops, for the
same reason as below; nothing is assumed of the program it starts.

`BootProtocol!FairSpec` assumes weak fairness of Bootstrap's steps and of
Loader's. Both are preempted threads that never yield while they have something
to do, and `EveryThreadRuns` in the SchedulerSmp run is the reason such threads
keep running. Nothing is assumed of the client.

## 4. Runs

| run | instance | shows |
|---|---|---|
| SchedulerBoot | 2 CPUs, 3 user threads that yield, exit, create and start each other, anyone anyone; slice of 2 ticks | `QueueDiscipline`, `EntryStateOwn`, `WaitingNeverLost` |
| SchedulerSmp | the same, both CPUs may enter the scheduler, threads are only preempted, each has one starter; slice of 1 | `ExclusiveExecution`, `EveryThreadRuns` |
| SchedulerPM | Bootstrap, Loader, ProcessManager as they behave | **violated**: `EveryThreadRuns` |
| KernelObjects | 3 processes, 3 capabilities, 2 allocated objects and 1 device object of 2 pages, 3 pages of address space, 3 handles | counts, liveness of objects, mappings, page tables, `CapabilitiesConfined` |
| KernelObjectsRollback | as KernelObjects, mappings may fail late | **violated**: `FreedFramesUnmapped` |
| FrameAllocator | 11 frames in words of 4, three usable entries | `HintSound`, `FramesAccounted`, `ImplementsFrameSet` |
| FrameAllocatorHeap | the same | **violated**: `HeapFramesKept` |
| BootProtocol | up to 6 processes, 3 client requests, mailboxes of 4 | delivery, answers, requests, `BootEnds` |
| BootServices | the same | **violated**: `AllRequestsSurvive` |
| Heap | regions of 244 and 128 bytes and two that are skipped, 7 size classes; sizes 0, 45 and 100, aligned requests 16, 8 and one that is refused | `HeapSound` (rings, free lists, merging), `NothingLeaked`, `MetadataApart`, `ImplementsBlocks` |
| Paging | 4 levels of 2 entries, 2 processes, 3 user pages, 14 table frames | `TablesSound`, `QueryTruthful`, `ImplementsAddressSpaces` |
| UserRuntime | 67 images of up to two of 11 segments, a malformed and a missing one; pages of 4 words, 13 pages; two blocks, sizes 0 and 3, alignments 2, 3 and 8; any call may fail, a mapping also half way | `RunsWhatWasLoaded`, `LoaderReleases`, `BlocksExact`, `MappingsPresent`, `LoadAnswered` |

Why the bounds are enough. Three user threads are the least for which a queue has
a middle and a thread can be passed over twice; two CPUs the least for stealing.
In SchedulerSmp each thread is started by the one before it, as Bootstrap starts Loader
and Loader starts ProcessManager: a handle to a thread stays in the process that made
it. Section 4 says what two starters on two CPUs would do.
Slices of 1 and 2 separate a tick that preempts from one that does not. Two-page
objects in three pages make every way two mappings can overlap or touch, and
three handles let a handle, its duplicate and a process handle coexist. Words of
4 bits give the bitmap a full word, a straddling entry and a short last word.
The first heap region holds five of the smallest chunks, so merges with either neighbour, with both
and with none occur, and its size needs the clamp of the last class; the second is too small for the
larger requests. Pages 0, 1 and 6 share a leaf table, or only the two upper levels;
after the boot copy and two roots there are five frames left for tables, half of
what both processes need. Two entries per table make the upper entry the kernel half.
The third process of KernelObjects exists for capabilities alone: the constraint
`ThirdProcessBound` keeps objects and mappings out of the states with it.
The images of UserRuntime start in the middle of pages, share pages between segments
with different rights, leave a page between them out, end in zeros, are empty, overlap,
reach past the file or start in page 0; the image and a block may take up to four pages,
more than one run of pages with the same rights. `MaxHandles` 9 is enough for every path;
a call fails by choice (`Refused`, or late), not for want of bounds. A mapping that fails late
leaves any of the pages it had reached, which lie before, between or after pages in use.
`Capacity` 4 exceeds what the client keeps in flight (three requests and an
answer), as 256 does; hence a reply dropped by a full mailbox does not occur in
that run. With five or more requests in flight the cookies of the client and of
Loader, which start from the same base, meet, and Loader would take a request for the kernel's
answer: `AnswersAuthentic` and `RequestsSurvive` are therefore claimed only for
clients that wait (`~pipelined`).

In KernelObjects, that no page table maps a frame of a freed object (`FreedFramesUnmapped`) is not
checked a second time: it follows from `PagesMatchMappings` and `LiveWhileReferenced`, as
section 5 shows. UserRuntime checks what is left of it when mappings fail late, `MappingsPresent`.

Deadlock is not checked where the system may really stop: programs end or wait
for work (BootProtocol), fault or exit (UserRuntime), and bounded supplies of handles and objects run out
(KernelObjects).

### What the violated runs mean

* **SchedulerPM.** `switch_to` saves a yielding thread with a kernel selector;
  the selection takes any thread with a user selector first. Loader polls and is
  only preempted, so it is always preferred. `notes.md:152` gives ProcessManager
  the role of orchestrator.
* **KernelObjectsRollback.** The guard that rolls a mapping back is declared
  before the list of mapped pages, so it runs after the list is destroyed
  (`MemoryMapHelpers.cppm:193, 217`). Reading a dead object is modelled as a
  choice of which pages stay mapped.
* **FrameAllocatorHeap.** The heap receives the same usable entries the frame
  bitmap shows as free (`Runtime.cppm:715, 741`). In the run two allocations return frames
  the heap has no part of, the third one a frame of the heap.
* **BootServices.** While Loader waits for the kernel it discards every other
  message (`Loader/main.cpp:107`), so a second load request is lost.

Met while modelling, without a run of its own: `walk` reports a large page one
level too low, so `translate` loses address bits (`Paging.cppm:195`; only the
lookup of the boot stack meets a large page, and those frames are not USABLE);
`FrameAllocator::init` reserves the
first megabyte and then frees usable entries below it; the first message ever
sent has id 0, so its answer has `reply_to` 0, which `API/IPC.cppm:14` reads as
"not a reply"; a solitary thread that yields is left Ready and is not preempted
afterwards (`Scheduler.cppm:488`); a thread that yields twice without being
preempted in between is not requeued and is lost, which is why
`EveryThreadRuns` is claimed for threads that do not yield; with yields on
two CPUs a kernel-mode candidate could be stolen while it is about to run
(`Scheduler.cppm:457`), which needs a second scheduling CPU the code does not have.
Two CPUs that start one thread can both find it `Created` (`Scheduler.cppm:398`); the
second write of `Ready` may come when the thread runs already, and it is queued and run a second time. With
`BootYielders = {bsp, ap}` and two starters of a thread (`Starts` = {<<t1, t2>>, <<t1, t3>>, <<t2, t3>>} in
SchedulerSmp) TLC finds both `QueueDiscipline` and `ExclusiveExecution` violated,
`ExclusiveExecution` by a behaviour of 24 states. It takes a second scheduling CPU and a thread handle in two
hands, neither of which the code has, so no run claims it.
Bootstrap polls for Loader's announcement without a way out (`Bootstrap/main.cpp:567-575`):
if Loader ends in its `_start` (`RT.cpp:23, 34, 39, 51`, or the fault at 55), boot stops
there, and `BootEnds` has that as its one exception.

From the entry state: `movw %gs` in `switch_to` (`CPU.cppm:305`) sets GS base to 0, and
nothing runs `swapgs` or `prepare_gs_for_user_entry` for a thread that resumes inside
a system call (`Scheduler.cppm:518`). A user thread that yielded and was switched away
therefore faults at `movq %gs:8, %rsp` (`SyscallABI.cppm:81`) when it is resumed, and
the kernel panics. It never comes back on a foreign stack, which is what
`EntryStateOwn` states. The boot sequence hides it: the thread that yields is the one
that is never run again (SchedulerPM).

From the user runtime and Loader: `release_block` reads the handle it has to close from the
page it has just unmapped (`OperatorNewDelete.cpp:77-78`), so `delete` of any block
faults; `_start` does not test the result of `new` (`RT.cpp:55`); an image
linked at address 0, as an `ET_DYN` image is, asks for its first page at address 0, which the kernel reads as
"anywhere" (`MemoryMapHelpers.cppm:203`), so its parts are torn apart; a page that code and
data share is mapped with `NoExecute` because flags are united (`Loader/main.cpp:218`), and
`RunsWhatWasLoaded` says so; the returns 8, 11, 12 and 16 to 18 of
`load_elf_into_new_process` keep the handle of the new process, 8 also the image and its
mapping, and success keeps the thread's handle: `LoaderReleases` is exact about it. A
client cannot tell Loader's own codes 1 to 3 from those of a malformed file.

## 5. Proofs

All proofs are for arbitrary values of the constants, under the assumptions the modules
name (`...Assumption`, `HeapConstants`, `PowersAreNumbers`), which TLC evaluates in
every run. What a theorem assumes beyond them is in its statement and below.

* **KernelObjects_proof** - `TypeCorrect`; `CapabilitiesStayConfined`, inductive
  together with the fact that a process that does not exist has no capability and no
  child (a child's set grows only through its parent, and a parent never loses
  one); `MappingsStayDisjoint` from the free-region test.
  `RefcountsStayExact` and `LiveExactlyWhileReferenced`: neither is inductive alone, since
  closing the last handle frees an object only if the count is exact, and counts are exact
  only if a freed object has no handle left. The invariant joins exact counts, liveness,
  types and freshness of handle ids (a new handle is a new element of the table, so
  the cardinality grows by one).
  `MappingsStayPresent` (`MappingsPresent`) holds whichever mappings fail half way: a new mapping
  and one that fails write entries of pages no mapping has, and an unmapping clears its own.
  It is what makes every unmapping succeed, since `unmap_memory_object` stops at the first
  page that is missing. The converse, that a page is mapped *only* where a mapping is, needs
  `LateFailures = FALSE`: so do `PageTablesMatch` and `FreedFramesStayUnmapped`, of which the
  second follows from the first and liveness, and the run KernelObjectsRollback shows the
  assumption cannot be dropped.
* **Heap_proof** - `HeapStaysSound`, `NothingLeaks`, `MetadataStaysApart`, `TypeCorrect`
  and `Refinement` (`ImplementsBlocks`). The invariant `HeapInv` has two halves. `Sound` is
  about chunks: the rings are linked both ways, tile their regions and close at their ends
  (`Rings`), the lists hold the unused chunks and nothing else (`Filed`), and no
  two of those are neighbours. `Blocked` ties callers to chunks: a block lies behind the
  header and the tag of a chunk in use that no other block has. Each surgery on a ring
  (insert, unlink, mark, join a new region) is a lemma that keeps `Rings` of any
  ring, and `mrvn_malloc` and `mrvn_free` compose them. A chunk keeps its place on a list
  while it keeps its size (`SameFiled`), which is why `mrvn_free` must take the previous
  chunk off its list before it grows, and why `Slot` need only be monotone.
  A stale tag is harmless because `p - 24` of a tagged block is never a chunk
  (`TakeKeeps`). Assumed: usable entries of the memory map do not overlap
  (`MapAssumption`; the boot protocol promises it), alignments below 8 divide 8, and that powers of two are
  numbers, which the provers do not know.
* **Scheduler_proof** - `EntryStateStaysOwn`: `EntryInv` says what a CPU has at
  each location inside the kernel: which thread entered, whether its bases are
  exchanged, what the slot holds, and that `next` is `current` while registers
  are switched. It is local to a CPU but for the thread's own stack pointer, so a step of another
  CPU, a thief's included, cannot disturb it.
  `QueuesStayDisciplined` and `UserCodeStaysExclusive` add to it that queues
  are apart and free of duplicates, that a context saved from user mode has one owner (a queue,
  a CPU's `current`, or the local `next` between `Steal` and `Commit`), and that a thread not started
  is nowhere (`SchedInv`). These need `StartsApart`: a thread has one starter, or one processor schedules.
  Then whoever is between the test and the enqueueing in `start_thread` is the only one for its thread,
  since the starter is that CPU's current thread, or the only CPU there is; without the condition the
  theorems are false, as section 4 describes. `TypeCorrect` and `EntryStateStaysOwn` need no condition: whoever starts
  whom and however often, what is made current is a thread. That a *thread* executes once at most needs more (`NoYieldInv`), and
  is true only if the code that yields in the kernel does not do so on two CPUs:
  `ThreadsStayExclusive` has the hypothesis `(NoYields /\ SingleStarter) \/ OneScheduler`, which the
  repository meets because no CPU but the first reaches the scheduler; with yields on two CPUs TLC finds a
  counterexample. `NonYieldersStayExclusive` is what stays true of the other threads then.
  `WaitingStaysReachable` (`WaitingNeverLost`) assumes also `RoomForSkipped`: at most as many
  threads yield as fit the 16 slots for candidates set aside. With one slot and
  three such threads TLC finds one that is dropped.
* **BootProtocol_proof** - `MailInOrder` is `DeliveredInOrder` under `MailSpec`, that is for
  arbitrary programs, and `ImplementsMail` that Bootstrap, Loader and the client are such
  programs. `AnswersStayAuthentic`, `RequestsStayCounted`, `RepliesStayTruthful`: the invariant
  `BootInv` names six stages of the boot (`Alone` to `Up`) and says for each where the two programs can be
  and which messages and replies are in which mailbox; each step stays in its stage
  or goes to the next. A Loader that ended early leaves the boot in `Announcing`. `AnswersWait` (`AnswerWaiting`) covers the client that
  sends ahead, if its requests fit a mailbox (`RoomForAnswers`).
* **UserRuntime_proof** - `ImplementsKernelObjects`: every step of Loader and of the
  program is a step of KernelObjects or leaves its state alone. What has to be shown is that
  each call is made with arguments KernelObjects quantifies over; a request's
  capabilities are, because the request never changes. `ObjectsStaySound` carries the theorems of
  KernelObjects over. `BlockFits` is the arithmetic of `new` for every size,
  alignment and start; it assumes no wrap-around of the machine word.
  `BlocksStayExact` (`BlocksExact`): in the invariant `HeapInv`
  each block has one handle to and one mapping of an object no other block has, and a
  call in progress has at most one handle more, to an object no block has. That its header and
  words are mapped to that object is `MappingsPresent`.
* **ElfLoad_proof** - `LoaderAlwaysReleases` (`LoaderReleases`). The invariant `LoadInv` is a
  ledger: at each step Loader holds
  what `Kept` says for that step, plus what `releases` still lists, each once and no
  handle twice. A return is right when what it lists and what its code forgets make up
  what was kept; the program cannot disturb the ledger, for it acts on its own handles and
  mappings only; a mapping that fails half way is not in the list of mappings, and an
  unmap succeeds by `MappingsPresent`.
  `RunsTheImage` (`RunsWhatWasLoaded`), for any number of segments in any order, overlapping or
  not, and any page size, provided the first page of the image is not page 0. It takes induction over data, which starts from
  one fact of the library, that a non-empty set of numbers has a least element
  (`LeastNumber`). With it `Min` and `Max` of a set of numbers are what their names say
  (`LeastIsMin`), a fact that a step of a loop keeps holds after the loop (`UpTo`), and the
  copy loop leaves in each word what the last segment that covers it says, or zero
  (`CopyLoop`, `CopiedImage`). `RunEnd` is the end of the longest run of pages with equal
  flags (`RunOfPages`). The invariant `FoundInv` says which module Loader has found and that
  the image is the copy of it; `ImageInv` that, once the copy is done, the child's pages below
  `pageIndex` show exactly their pages of the image (`ShownBelow`) and no other page shows it, and that pages that show
  the image or the stack lie in mappings of it (`Backed`). The last part is why a mapping that
  fails half way elsewhere, Loader's or the program's, cannot touch them. When Loader has
  passed the last page, all that is left is arithmetic: the word at an address of the program
  lies in the page it should (`WordOfPage`), and the flags of a page unite those of the
  segments on it (`FlagsAsAsked`).
  `TypesOfProgram` (`UserTypeOK`): each word of the image is zero or a word inside the file; the
  tests on a segment's file part, which stop the copy at the first bad segment, are what
  keeps it there.
* **FrameAllocator_proof** - `BitmapCorrect` (types, `HintSound`,
  `FramesAccounted`; `TypeCorrect` and `HintStaysSound` state the first two alone) and `Refinement`: by `HintSound` the two passes together
  see every free frame, so a failed search means there is none.

* **Paging_proof** - `TypeCorrect`, `TablesStaySound`, `QueriesTruthful` and `Refinement`
  (`ImplementsAddressSpaces`). That a table is in one tree only cannot be seen at the table, so
  the invariant `IInv` says there is an assignment of places, to each table the level
  and range of pages it serves and the space it belongs to (`None` for what all
  spaces share), such that entries lead to tables in the place they should (`Descends`), one entry
  leads to every table that is not a root (`Linked`), all roots have the same kernel half
  (`KernelShared`), and an entry of a process's own tables grants what the entries below it
  grant (`Grants`). A place determines the indices on the way to it, so a walk finds
  the one table in a place or none (`PathPlaces`), with which soundness follows.
  Each operation extends the assignment: `map` down one path, also when it stops half way,
  the deep copy by that of the tables it copies. `Grants` is why `query`, which reads the last
  entry alone, tells what the processor finds.
  For the refinement, pages of other spaces and of the kernel are reached through tables the step
  leaves alone (`SeenElsewhere`), and two pages of a process differ in the place of their last
  table or in their index there (`SamePage`). The walk of a copy is matched with
  that of the original table by table (`SameSeen`).
  Assumed: the boot loader's tables are a tree (`BootAssumption`; the recursive copy makes a tree of
  them in any case, the model copies each table once), frames of tables and of
  pages are different ones, and callers map user pages of processes and no large
  pages (`CallerAssumption`: `MemoryMapHelpers.cppm` refuses other addresses and never
  asks for `PageSize`).

Only model-checked: all liveness, `EveryThreadRuns`, `NoEndlessWait`, `BootEnds`, `RequestsAnswered` and
`LoadAnswered` (weak fairness and leads-to are out of the provers' reach). Every safety
property of the passing runs is stated by a theorem.

## 6. Not modelled

`block_current`, `unblock`, `on_timer_tick`, `pick_next_thread`,
`release_owned_handles` and `resolve_any` have no callers; `reap_zombies`
frees nothing. ACPI, most of GDT/IDT, APIC set-up, panic output, fonts, serial I/O and
build scripts are device or host code; `limine.h` is the boot loader's header.
The kernel log's queue is left out: it changes no other state, and its one hazard
(`DebugImpl.cppm:281`, a blocking push with interrupts masked) needs 256 messages between
two drains. LibC's string functions and `RuntimeStubs.cpp` compute and keep no state.
CommonLib (containers, `MpscQueue`) is a
submodule that is not in the tree; its queues are modelled by how they are used.
What callers do when the kernel heap is exhausted is not modelled, nor TLBs (one CPU
runs user code), nor the byte layout of the boot-info blob, nor sizes near the
end of the machine word.

## 7. Plan

1. *Done:* scheduler with the entry state, kernel objects, frame allocator, message
   passing, boot protocol, heap, page tables, image loading and the user runtime; proofs
   of every safety property.
2. The kernel log queue with its blocking push.
