------------------------------ MODULE ElfLoad ------------------------------
(***************************************************************************)
(* Loader serving one request to start a boot module: the lookup of the    *)
(* module, load_elf_into_new_process and the syscalls it makes             *)
(* (Applications/Loader/main.cpp).  Every step that is a syscall is an     *)
(* action of KernelObjects, on its state; a call that fails changes none   *)
(* of it, but for a mapping that fails late.                               *)
(*                                                                         *)
(* Memory is counted in words of 8 bytes.  A word of the file is known by  *)
(* its place in it, and the checks of the ELF header are one bit.          *)
(***************************************************************************)
EXTENDS KernelObjects, Integers, Sequences, FiniteSetsExt

CONSTANTS
  BootModules,         \* the ELF files of the boot module list
  RequestedIds,        \* ids a client asks for, of modules or not
  RequestedCaps,       \* capabilities a client asks for on behalf of the child
  PageSize,            \* words in a page
  StackPage,           \* the page below k_user_stack_top
  File, Image, Stack,  \* memory objects: the module, the image, the stack
  Child, ChildThread   \* the new process and its thread

\* The first process of KernelObjects.  Like Bootstrap, Loader holds every
\* capability and was started by somebody else.
Loader == Bootstrap

\* What Loader reads of a program header.
ProgramHeaders ==
  [type : STRING, vaddr : Nat, memsz : Nat, filesz : Nat, offset : Nat,
   flags : SUBSET {"R", "W", "X"}]

ASSUME LoadAssumption ==
  /\ {File, Image, Stack} \subseteq Allocated \ {BootInfo}
  /\ File # Image /\ File # Stack /\ Image # Stack
  /\ Child \in Processes \ {Loader} /\ ChildThread \in Threads \ {FirstThread}
  /\ RequestedCaps \subseteq SUBSET Capabilities
  /\ PageSize \in Nat \ {0} /\ StackPage \in Pages
  /\ \A m \in BootModules : m.size \in Nat \ {0} /\ m.headers \in Seq(ProgramHeaders)

VARIABLES
  step,       \* how far Loader is
  request,    \* what the client asked for
  elf,        \* the module found, or None
  bytes,      \* the words of the image object
  pageIndex,  \* page_index of the loop over the image's pages
  window,     \* of a page of the child: which page of the image it shows, and
              \* with what access; None when it shows none
  releases,   \* unmaps and closes still to be made, in order
  code,       \* what load_elf_into_new_process returned
  started     \* whether the child's thread was started

loader == <<step, request, elf, bytes, pageIndex, window, releases, code, started>>

\* The status of the reply: what load_elf_into_new_process returns, where 2
\* stands for the five codes 1 to 5 of a malformed file; and 20 more than what
\* its caller puts there, 1 to 3, which the client cannot tell from those.
NoCode == 99
Codes == {0, 2} \cup 6 .. 8 \cup 11 .. 18 \cup 21 .. 23 \cup {NoCode}

LoadInit ==
  /\ Init
  /\ step = "find"
  /\ request \in [id : RequestedIds, caps : RequestedCaps]
  /\ elf = None
  /\ bytes = <<>>
  /\ pageIndex = 0
  /\ window = [page \in Pages |-> None]
  /\ releases = <<>>
  /\ code = NoCode
  /\ started = FALSE

-----------------------------------------------------------------------------
(* The layout of an image *)

AlignDown(n) == n - (n % PageSize)
AlignUp(n) == AlignDown(n + PageSize - 1)

\* The program headers with p_type PT_LOAD: where they are, and the headers.
Segments(file) == {i \in DOMAIN file.headers : file.headers[i].type = "load"}
SegmentSet(file) == {file.headers[i] : i \in Segments(file)}

SegmentEnd(h) == h.vaddr + h.memsz
MinVaddr(file) == Min({h.vaddr : h \in SegmentSet(file)})
MaxVaddr(file) == Max({SegmentEnd(h) : h \in SegmentSet(file)})

FoundLoad(file) == SegmentSet(file) # {} /\ MaxVaddr(file) > MinVaddr(file)

LoadBase(file) == AlignDown(MinVaddr(file))

SpanOnlyFault(file) == AlignUp(MaxVaddr(file) - MinVaddr(file))

TotalSize(file) == AlignUp(MaxVaddr(file) - LoadBase(file))

PageCount(file) == TotalSize(file) \div PageSize

\* elf_segment_flags
ElfSegmentFlags(h) ==
  (IF "W" \in h.flags THEN {"Writable"} ELSE {})
    \cup (IF "X" \in h.flags THEN {} ELSE {"NoExecute"})

\* The segments page_flags_for_loaded_image finds on the page at `base`.
Overlapping(file, base) ==
  {h \in SegmentSet(file) :
     /\ h.memsz # 0
     /\ base < SegmentEnd(h)
     /\ base + PageSize > h.vaddr}

FirstSegmentFault(file, base) ==
  LET on == Overlapping(file, base)
  IN ElfSegmentFlags(CHOOSE h \in on : \A g \in on : h.vaddr <= g.vaddr)

\* The flags page_flags_for_loaded_image gives the page.
PageFlags(file, base) == UNION {ElfSegmentFlags(h) : h \in Overlapping(file, base)}

ImagePage(file, i) == LoadBase(file) + i * PageSize

\* Page i holds something, and needs the same flags as page j.
Occupied(file, i) == i < PageCount(file) /\ Overlapping(file, ImagePage(file, i)) # {}
SameRun(file, i, j) ==
  /\ Occupied(file, i)
  /\ PageFlags(file, ImagePage(file, i)) = PageFlags(file, ImagePage(file, j))

\* Where the run of pages that starts at page i ends.
RunEnd(file, i) ==
  Min({j \in i + 1 .. PageCount(file) : ~SameRun(file, j, i)})

FileWord(n) == n + 1  \* the n-th word of the file; 0 is a word of zeros

\* memcpy and memset of one segment into the image.
CopySegment(file, mem, h) ==
  [w \in DOMAIN mem |->
     LET k == w + LoadBase(file) - h.vaddr
     IN IF k \in 0 .. h.filesz - 1 THEN FileWord(h.offset + k)
        ELSE IF k \in h.filesz .. h.memsz - 1 THEN 0
        ELSE mem[w]]

FileEndFault(file, h) == h.filesz > h.memsz

\* A segment the copy loop refuses.
BadSegment(file, h) == h.filesz > h.memsz \/ h.offset + h.filesz > file.size

\* The segments copied before the loop ends or meets a bad one.
Copied(file) ==
  {i \in Segments(file) :
     \A j \in Segments(file) : j <= i => ~BadSegment(file, file.headers[j])}

Zeros(n) == [w \in 0 .. n - 1 |-> 0]

\* The image after each number of program headers.
ImageAfter(file) ==
  LET after[i \in 0 .. Len(file.headers)] ==
        IF i = 0 THEN Zeros(TotalSize(file))
        ELSE IF i \in Copied(file) THEN CopySegment(file, after[i - 1], file.headers[i])
        ELSE after[i - 1]
  IN after

CopyAll(file) == ImageAfter(file)[Len(file.headers)]

-----------------------------------------------------------------------------
(* The steps *)

\* Handles of Loader to x, and its mappings of x.
Held(x) == {h \in handles : h.owner = Loader /\ h.object = x}
Mapped(x) == {m \in mappings : m.process = Loader /\ m.object = x}

At(place) == step = place /\ releases = <<>>
Goto(place) == step' = place /\ UNCHANGED <<releases, code>>

\* The end of the request: what is given back, and the answer.
Answer(result, returned) ==
  /\ step' = "answer"
  /\ code' = result
  /\ releases' = returned

\* What the caller gives back once load_elf_into_new_process is done.
Caller == <<[op |-> "unmap", of |-> File], [op |-> "close", of |-> File]>>

KeptMappedFault == <<>>

Close(x) == <<[op |-> "close", of |-> x]>>
UnmapImage == <<[op |-> "unmap", of |-> Image]>>

\* A return from load_elf_into_new_process.
Return(result, returned) == Answer(result, returned \o Caller)

Refused == UNCHANGED vars
Layout == <<bytes, pageIndex, window>>
Asked == <<request, elf>>

\* find_boot_module_by_id
FindBootModuleById ==
  /\ At("find")
  /\ UNCHANGED vars
  /\ \/ /\ \E m \in BootModules : m.id = request.id /\ elf' = m
        /\ Goto("fetch")
     \/ /\ \A m \in BootModules : m.id # request.id
        /\ elf' = elf
        /\ Answer(21, <<>>)
  /\ UNCHANGED <<Layout, request, started>>

\* GetBootModuleMemoryObjectById
FetchModule ==
  /\ At("fetch")
  /\ \/ BootObjectReply(Loader, File) /\ Goto("mapModule")
     \/ Refused /\ Answer(22, <<>>)
  /\ UNCHANGED <<Layout, Asked, started>>

MapModule ==
  /\ At("mapModule")
  /\ LET count == AlignUp(elf.size) \div PageSize
     IN \/ /\ \E h \in Held(File) : MemoryMapped(Loader, h, count)
           /\ Goto("check")
        \/ /\ Refused \/ \E h \in Held(File) : MemoryMapFailed(Loader, h, count)
           /\ Answer(23, Close(File))
  /\ UNCHANGED <<Layout, Asked, started>>

CheckHeader ==
  /\ At("check")
  /\ UNCHANGED vars
  /\ IF elf.wellFormed THEN Goto("create") ELSE Return(2, <<>>)
  /\ UNCHANGED <<Layout, Asked, started>>

CreateProcess ==
  /\ At("create")
  /\ \/ ProcessCreate(Loader, Child) /\ Goto("grant")
     \/ Refused /\ Return(6, <<>>)
  /\ UNCHANGED <<Layout, Asked, started>>

\* Only when the client asked for any capability.
GrantCapabilities ==
  /\ At("grant")
  /\ \/ /\ IF request.caps = {} THEN UNCHANGED vars
           ELSE \E h \in Held(Child) :
                  ProcessGrantCapabilities(Loader, h, request.caps)
        /\ Goto("layout")
     \/ /\ request.caps # {}
        /\ Refused /\ Return(7, Close(Child))
  /\ UNCHANGED <<Layout, Asked, started>>

CreateImage ==
  /\ At("layout")
  /\ IF ~FoundLoad(elf)
     THEN UNCHANGED vars /\ Return(16, <<>>)
     ELSE \/ MemoryCreate(Loader, Image) /\ Goto("mapImage")
          \/ Refused /\ Return(17, <<>>)
  /\ UNCHANGED <<Layout, Asked, started>>

MapImage ==
  /\ At("mapImage")
  /\ \/ /\ \E h \in Held(Image) : MemoryMapped(Loader, h, PageCount(elf))
        /\ Goto("copy")
     \/ /\ Refused \/ \E h \in Held(Image) : MemoryMapFailed(Loader, h, PageCount(elf))
        /\ Return(18, Close(Image))
  /\ UNCHANGED <<Layout, Asked, started>>

\* The copy loop.  A bad segment ends it, with the image still mapped.
CopySegments ==
  /\ At("copy")
  /\ UNCHANGED vars
  /\ bytes' = CopyAll(elf)
  /\ IF \E h \in SegmentSet(elf) : BadSegment(elf, h)
     THEN Return(8, <<>>) ELSE Goto("pages")
  /\ UNCHANGED <<pageIndex, window, Asked, started>>

StuckFault == pageIndex
NextPage == pageIndex + 1

\* A page no segment is on.
SkipPage ==
  /\ At("pages")
  /\ pageIndex < PageCount(elf) /\ ~Occupied(elf, pageIndex)
  /\ pageIndex' = NextPage
  /\ UNCHANGED <<vars, step, releases, code, bytes, window, Asked, started>>

OffsetLostFault(first, base, count) ==
  [page \in Pages |->
     IF page \in Span(base, count)
     THEN [index |-> page - base, flags |-> PageFlags(elf, ImagePage(elf, first))]
     ELSE window[page]]

\* The child's pages after `count` pages of the image, from page `first` on,
\* are mapped at `base`.
WindowAfter(first, base, count) ==
  [page \in Pages |->
     IF page \in Span(base, count)
     THEN [index |-> first + (page - base),
           flags |-> PageFlags(elf, ImagePage(elf, first))]
     ELSE window[page]]

\* Where the kernel puts what is requested at an address: at the lowest free
\* place when the address is 0.
PlacedAt(address, count) == ChosenBase(Child, count, address \div PageSize)

\* raw_process_memory_map of one run of pages.
MapRun ==
  /\ At("pages")
  /\ Occupied(elf, pageIndex)
  /\ LET end == RunEnd(elf, pageIndex)
         count == end - pageIndex
         address == ImagePage(elf, pageIndex)
     IN \/ /\ \E g \in Held(Child), h \in Held(Image) :
                ProcessMemoryMapped(Loader, g, h, count, address \div PageSize)
           /\ \E base \in PlacedAt(address, count) :
                window' = WindowAfter(pageIndex, base, count)
           /\ pageIndex' = end
           /\ Goto("pages")
        \/ /\ \/ Refused
              \/ \E g \in Held(Child), h \in Held(Image) :
                   ProcessMemoryMapFailed(Loader, g, h, count, address \div PageSize)
           /\ Return(11, UnmapImage \o Close(Image))
           /\ UNCHANGED <<pageIndex, window>>
  /\ UNCHANGED <<bytes, Asked, started>>

\* The end of the loop: the local mapping and the handle of the image go.
ImageDone ==
  /\ At("pages") /\ pageIndex = PageCount(elf)
  /\ step' = "stack"
  /\ releases' = UnmapImage \o Close(Image)
  /\ UNCHANGED <<vars, code, Layout, Asked, started>>

CreateStack ==
  /\ At("stack")
  /\ \/ MemoryCreate(Loader, Stack) /\ Goto("mapStack")
     \/ Refused /\ Return(12, <<>>)
  /\ UNCHANGED <<Layout, Asked, started>>

MapStack ==
  /\ At("mapStack")
  /\ \/ /\ \E g \in Held(Child), h \in Held(Stack) :
             ProcessMemoryMapped(Loader, g, h, 1, StackPage)
        /\ step' = "thread" /\ releases' = Close(Stack) /\ UNCHANGED code
     \/ /\ \/ Refused
           \/ \E g \in Held(Child), h \in Held(Stack) :
                ProcessMemoryMapFailed(Loader, g, h, 1, StackPage)
        /\ Return(13, Close(Stack) \o Close(Child))
  /\ UNCHANGED <<Layout, Asked, started>>

CreateThread ==
  /\ At("thread")
  /\ \/ /\ \E g \in Held(Child) : ThreadCreate(Loader, g, ChildThread)
        /\ Goto("start")
     \/ Refused /\ Return(14, Close(Child))
  /\ UNCHANGED <<Layout, Asked, started>>

StartThread ==
  /\ At("start")
  /\ UNCHANGED vars
  /\ \/ started' = TRUE /\ Return(0, Close(Child))
     \/ started' = started /\ Return(15, Close(ChildThread) \o Close(Child))
  /\ UNCHANGED <<Layout, Asked>>

\* One unmap or close of those a path has to make.
ReleaseNext ==
  /\ releases # <<>>
  /\ releases' = Tail(releases)
  /\ LET next == Head(releases)
     IN IF next.op = "unmap"
        THEN \E m \in Mapped(next.of) : MemoryUnmap(Loader, m)
        ELSE \E h \in Held(next.of) : HandleClose(Loader, h)
  /\ UNCHANGED <<step, code, Layout, Asked, started>>

\* The reply, sent when all is released.
SendReply ==
  /\ At("answer")
  /\ Goto("done")
  /\ UNCHANGED <<vars, Layout, Asked, started>>

LoadStep ==
  \/ FindBootModuleById \/ FetchModule \/ MapModule \/ CheckHeader
  \/ CreateProcess \/ GrantCapabilities \/ CreateImage \/ MapImage
  \/ CopySegments \/ SkipPage \/ MapRun \/ ImageDone
  \/ CreateStack \/ MapStack \/ CreateThread \/ StartThread
  \/ ReleaseNext \/ SendReply

-----------------------------------------------------------------------------
(* Properties *)

\* What the word at an address of the program should hold: the last segment
\* that covers it says so.
WordAt(file, address) ==
  LET covers == {i \in Segments(file) :
                   address \in file.headers[i].vaddr
                                 .. SegmentEnd(file.headers[i]) - 1}
      h == file.headers[Max(covers)]
  IN IF covers = {} \/ address >= h.vaddr + h.filesz THEN 0
     ELSE FileWord(h.offset + (address - h.vaddr))

\* The addresses of a page.
Words(page) == page * PageSize .. page * PageSize + PageSize - 1

\* A thread is started only in a process that holds its image entirely: each
\* page some segment needs is there, backed by the image's frames, shows the
\* words the file has for its addresses and zeros elsewhere, is writable if a
\* segment on it is and executable if all of them are; no other page shows the
\* image; and the stack is in place.  An image whose first page is page 0 is
\* exempt: the kernel takes address 0 for no address and puts it elsewhere.
RunsWhatWasLoaded ==
  started /\ LoadBase(elf) # 0 =>
    /\ pte[<<Child, StackPage>>] = Stack
    /\ \A page \in Pages :
         LET on == {h \in SegmentSet(elf) :
                      \E a \in Words(page) : a \in h.vaddr .. SegmentEnd(h) - 1}
             shown == window[page]
         IN /\ pte[<<Child, page>>] = Image <=> on # {}
            /\ on # {} =>
                 /\ "Writable" \in shown.flags <=> \E h \in on : "W" \in h.flags
                 /\ "NoExecute" \notin shown.flags <=> \A h \in on : "X" \in h.flags
                 /\ \A a \in Words(page) :
                      bytes[shown.index * PageSize + (a % PageSize)] = WordAt(elf, a)

\* The ways out of load_elf_into_new_process that forget the new process.
ForgetsProcess == {8, 11, 12, 16, 17, 18}

\* On every way out Loader gives back what it took, but for the handles its
\* error paths forget, and the thread's on success.  Once the child runs,
\* Loader has no access to its image and stack any more.
LoaderReleases ==
  /\ step = "done" =>
       /\ \A x \in {File, Image, Stack} :
            Held(x) \cup Mapped(x) # {} <=> x = Image /\ code = 8
       /\ Held(Child) # {} <=> code \in ForgetsProcess
       /\ Held(ChildThread) # {} <=> code = 0
  /\ started => \A x \in {Image, Stack} : Held(x) \cup Mapped(x) = {}
=============================================================================
