------------------------- MODULE UserRuntime_proof -------------------------
(***************************************************************************)
(* Whatever Loader and the program it starts do, they do to the kernel's   *)
(* objects what syscalls do: UserRuntime implements KernelObjects, and the *)
(* theorems about KernelObjects hold of it.  And what new and delete make  *)
(* of their calls: every block has its own object, handle and mapping.     *)
(***************************************************************************)
EXTENDS UserRuntime, KernelObjects_proof

LEMMA Names ==
  /\ Loader \in Processes /\ Child \in Processes /\ ChildThread \in Threads
  /\ {File, Image, Stack} \subseteq Objects /\ HeapObjects \subseteq Objects
BY IdentityAssumption, LoadAssumption, RuntimeAssumption DEF Loader, Objects

\* A mapping that succeeds or fails late is for a number of pages and an
\* address that Next quantifies over.
LEMMA MapIsNext ==
  ASSUME NEW p \in Processes, NEW h \in handles, NEW n, MemoryMap(p, h, n)
  PROVE  Next
<1>1. n \in 1 .. ObjectPages
  BY DEF MemoryMap, MemoryMapped, MemoryMapFailed, Map, FailMap, MapAllowed
<1>2. QED BY <1>1 DEF Next

LEMMA ProcessMapIsNext ==
  ASSUME NEW p \in Processes, NEW g \in handles, NEW h \in handles, NEW n, NEW b,
         ProcessMemoryMap(p, g, h, n, b)
  PROVE  Next
<1>1. n \in 1 .. ObjectPages
  BY DEF ProcessMemoryMap, ProcessMemoryMapped, ProcessMemoryMapFailed,
         Map, FailMap, MapAllowed
<1>2. \E base \in Pages : base \in ChosenBase(g.object, n, b)
  BY DEF ProcessMemoryMap, ProcessMemoryMapped, ProcessMemoryMapFailed,
         Map, FailMap, ChosenBase, UsableBases
<1>3. b \in 0 .. LastPage
  BY <1>2, BoundAssumption DEF ChosenBase, UsableBases, Pages
<1>4. QED BY <1>1, <1>3 DEF Next

\* What a client asks for is among what it can ask for, and does not change.
Request == request \in [id : RequestedIds, caps : RequestedCaps]

LEMMA LoadKeepsRequest == LoadStep => UNCHANGED request
BY DEF LoadStep, Asked, FindBootModuleById, FetchModule, MapModule, CheckHeader,
       CreateProcess, GrantCapabilities, CreateImage, MapImage, CopySegments,
       SkipPage, MapRun, ImageDone, CreateStack, MapStack, CreateThread,
       StartThread, ReleaseNext, SendReply

LEMMA AlwaysRequest == UserSpec => []Request
<1>1. UserInit => Request
  BY DEF UserInit, LoadInit, Request
<1>2. Request /\ [UserNext]_userVars => Request'
  BY LoadKeepsRequest
  DEF Request, UserNext, LoaderStep, ProgramStep, userVars, loader
<1>3. QED BY <1>1, <1>2, PTL DEF UserSpec

LEMMA LoadIsNext == Request /\ LoadStep => Next \/ UNCHANGED vars
<1> SUFFICES ASSUME Request, LoadStep PROVE Next \/ UNCHANGED vars
  OBVIOUS
<1>1. CASE FindBootModuleById \/ CheckHeader \/ CopySegments \/ SkipPage
           \/ ImageDone \/ StartThread \/ SendReply
  BY <1>1 DEF FindBootModuleById, CheckHeader, CopySegments, SkipPage,
              ImageDone, StartThread, SendReply
<1>2. CASE FetchModule
  BY <1>2, Names DEF FetchModule, Refused, Next
<1>3. CASE MapModule
  BY <1>3, Names, MapIsNext DEF MapModule, Refused, Held, MemoryMap
<1>4. CASE CreateProcess
  BY <1>4, Names DEF CreateProcess, Refused, Next
<1>5. CASE GrantCapabilities
  <2>1. ASSUME NEW h \in Held(Child), ProcessGrantCapabilities(Loader, h, request.caps)
        PROVE  Next
    <3>1. request.caps \in SUBSET Capabilities
      BY LoadAssumption DEF Request
    <3>2. QED BY <2>1, <3>1, Names DEF Next, Held
  <2>2. QED BY <1>5, <2>1 DEF GrantCapabilities, Refused
<1>6. CASE CreateImage \/ CreateStack
  BY <1>6, Names DEF CreateImage, CreateStack, Refused, Next
<1>7. CASE MapImage
  BY <1>7, Names, MapIsNext DEF MapImage, Refused, Held, MemoryMap
<1>8. CASE MapRun
  BY <1>8, Names, ProcessMapIsNext DEF MapRun, Refused, Held, ProcessMemoryMap
<1>9. CASE MapStack
  BY <1>9, Names, ProcessMapIsNext DEF MapStack, Refused, Held, ProcessMemoryMap
<1>10. CASE CreateThread
  BY <1>10, Names DEF CreateThread, Refused, Held, Next
<1>11. CASE ReleaseNext
  BY <1>11, Names DEF ReleaseNext, Held, Mapped, Next
<1>12. QED
  BY <1>1, <1>2, <1>3, <1>4, <1>5, <1>6, <1>7, <1>8, <1>9, <1>10, <1>11
  DEF LoadStep

LEMMA ProgramIsNext == RuntimeStep => Next \/ UNCHANGED vars
<1> SUFFICES ASSUME RuntimeStep PROVE Next \/ UNCHANGED vars
  OBVIOUS
<1>1. CASE GetInfo \/ Exit \/ \E size \in Sizes, alignment \in Alignments :
                                New(size, alignment)
  BY <1>1 DEF GetInfo, Exit, New
<1>2. CASE GetProcess
  BY <1>2, Names DEF GetProcess, Next
<1>3. CASE CreateBlock
  BY <1>3, Names DEF CreateBlock, Next
<1>4. CASE MapBlock
  BY <1>4, Names, MapIsNext DEF MapBlock, ChildHeld, MemoryMap
<1>5. CASE GiveUp
  BY <1>5, Names DEF GiveUp, GiveBack, ChildHeld, Next
<1>6. CASE \E block \in blocks : Delete(block)
  BY <1>6, Names DEF Delete, ChildMapped, Next
<1>7. CASE CloseBlock
  BY <1>7, Names DEF CloseBlock, ChildHeld, Next
<1>8. QED
  BY <1>1, <1>2, <1>3, <1>4, <1>5, <1>6, <1>7 DEF RuntimeStep

\* Every behaviour of Loader and the program is one of KernelObjects: each of
\* their steps is a syscall, a reply of the kernel, or no concern of its.
THEOREM ImplementsKernelObjects == UserSpec => Spec
<1>1. UserInit => Init
  BY DEF UserInit, LoadInit
<1>2. Request /\ [UserNext]_userVars => [Next]_vars
  BY LoadIsNext, ProgramIsNext DEF UserNext, LoaderStep, ProgramStep, userVars
<1>3. QED BY <1>1, <1>2, AlwaysRequest, PTL DEF UserSpec, Spec

\* Whatever Loader and the program do, in whatever order, and whichever of their
\* calls fail: no memory object is freed while either of them has a handle to
\* it or maps it, and none is kept longer; counts stay exact, mappings apart.
THEOREM ObjectsStaySound ==
  UserSpec => []RefcountExact /\ []LiveWhileReferenced /\ []MappingsDisjoint
BY ImplementsKernelObjects, RefcountsStayExact, LiveExactlyWhileReferenced,
   MappingsStayDisjoint

-----------------------------------------------------------------------------
(* Blocks                                                                  *)

\* Rounding up goes to a multiple, and by less than the alignment.
LEMMA RoundedUp ==
  ASSUME NEW n \in Nat, NEW a \in Nat \ {0}
  PROVE  /\ RoundTo(n, a) \in Nat
         /\ n <= RoundTo(n, a) /\ RoundTo(n, a) <= n + a - 1
         /\ RoundTo(n, a) % a = 0
<1> DEFINE q == (n + a - 1) \div a
<1>1. q \in Nat /\ n + a - 1 = a * q + ((n + a - 1) % a)
  OBVIOUS
<1>2. (n + a - 1) % a \in 0 .. a - 1
  OBVIOUS
<1>3. RoundTo(n, a) = q * a
  BY DEF RoundTo
<1>4. q * a \in Nat /\ q * a = a * q
  BY <1>1
<1>5. (q * a) % a = 0
  BY <1>1
<1>6. QED BY <1>1, <1>2, <1>3, <1>4, <1>5

\* Pages are enough for the words asked for.
LEMMA PagesSuffice ==
  ASSUME NEW n \in Nat
  PROVE  n <= (AlignUp(n) \div PageSize) * PageSize
<1>1. PageSize \in Nat \ {0}
  BY LoadAssumption
<1> DEFINE m == n + PageSize - 1
<1>2. m \in Nat /\ m = PageSize * (m \div PageSize) + (m % PageSize)
  BY <1>1
<1>3. m % PageSize \in 0 .. PageSize - 1 /\ m \div PageSize \in Nat
  BY <1>1, <1>2
<1>4. AlignUp(n) = PageSize * (m \div PageSize)
  BY <1>1, <1>2, <1>3 DEF AlignUp, AlignDown
<1>5. (PageSize * (m \div PageSize)) \div PageSize = m \div PageSize
  BY <1>1, <1>3
<1>6. (m \div PageSize) * PageSize = PageSize * (m \div PageSize)
  BY <1>1, <1>3
<1>7. QED BY <1>1, <1>2, <1>3, <1>4, <1>5, <1>6

\* For every size and alignment and wherever the kernel puts the object: the
\* header and the block lie in the pages that new asked for, and the block is
\* aligned.
THEOREM BlockFits ==
  ASSUME NEW raw \in Nat, NEW size \in Nat, NEW alignment \in Nat \ {0}
  PROVE  LET user == UserAddress(raw, alignment)
         IN /\ raw <= user - HeaderSize
            /\ user + NonZero(size) <= raw + PagesFor(size, alignment) * PageSize
            /\ PowerOfTwo(alignment) => user % alignment = 0
<1> DEFINE a == AllocationAlignment(alignment)
           user == UserAddress(raw, alignment)
<1>1. a \in Nat \ {0} /\ HeaderSize \in Nat \ {0}
  BY RuntimeAssumption DEF AllocationAlignment
<1>2. NonZero(size) \in Nat /\ TotalFor(size, alignment) \in Nat
  BY <1>1 DEF TotalFor, NonZero
<1>3. /\ raw + HeaderSize <= user /\ user <= raw + HeaderSize + a - 1
      /\ user \in Nat /\ user % a = 0
  <2>1. raw + HeaderSize \in Nat /\ user = RoundTo(raw + HeaderSize, a)
    BY <1>1 DEF UserAddress
  <2> HIDE DEF a, user
  <2>2. QED BY <1>1, <2>1, RoundedUp
<1>4. user + NonZero(size) <= raw + TotalFor(size, alignment)
  BY <1>1, <1>2, <1>3 DEF TotalFor
<1>5. TotalFor(size, alignment) <= PagesFor(size, alignment) * PageSize
  BY <1>2, PagesSuffice DEF PagesFor
<1>6. PagesFor(size, alignment) * PageSize \in Int
  <2> DEFINE m == TotalFor(size, alignment) + PageSize - 1
  <2>1. PageSize \in Nat \ {0} /\ m \in Nat
    BY <1>2, LoadAssumption
  <2>2. m - (m % PageSize) \in Int
    BY <2>1
  <2>3. (m - (m % PageSize)) \div PageSize \in Int
    BY <2>1, <2>2
  <2>4. QED BY <2>1, <2>3 DEF PagesFor, AlignUp, AlignDown
<1>7. PowerOfTwo(alignment) => a = alignment
  BY DEF AllocationAlignment
<1>8. QED BY <1>1, <1>2, <1>3, <1>4, <1>5, <1>6, <1>7

-----------------------------------------------------------------------------
(* What the program has                                                    *)

\* The block and its header lie in the pages of mapping m, aligned as asked.
Within(block, m) ==
  /\ m.base * PageSize <= block.user - HeaderSize
  /\ block.user + NonZero(block.size) <= m.base * PageSize + m.count * PageSize
  /\ PowerOfTwo(block.alignment) => block.user % block.alignment = 0

IsOfBlock(o) == \E block \in blocks : block.object = o

\* The object of the call of new or delete that is in progress.
InCall(o) == place \in {"map", "giveUp", "close"} /\ wanted.object = o

Calls ==
  [size : Nat, alignment : Nat \ {0}, object : HeapObjects \cup {None},
   caller : {"start", "main"}]

\* Each block has a handle and a mapping of its own object; a call in progress
\* has a handle more, to an object no block has.
HeapInv ==
  /\ blocks \subseteq BlockRecords
  /\ wanted \in Calls
  /\ place \in {"map", "giveUp", "close"} =>
       wanted.object \in HeapObjects /\ ~IsOfBlock(wanted.object)
  /\ \A block \in blocks : \E m \in ChildMapped(block.object) : Within(block, m)
  /\ \A b, c \in blocks : b.object = c.object => b = c
  /\ \A o \in HeapObjects :
       /\ \A g, h \in ChildHeld(o) : g = h
       /\ \A m, n \in ChildMapped(o) : m = n
       /\ ChildMapped(o) # {} => IsOfBlock(o)
       /\ place # "fault" => (ChildHeld(o) # {} <=> IsOfBlock(o) \/ InCall(o))

LEMMA HeapObjectsDiffer ==
  /\ \A o \in HeapObjects :
       o \in Objects /\ o \in Allocated /\ o \notin {BootInfo, File, Image, Stack}
       /\ o \notin Processes /\ o \notin Threads
  /\ Child # Loader /\ Child \in Processes
BY IdentityAssumption, LoadAssumption, RuntimeAssumption DEF Objects, Loader

LEMMA InitHeap == UserInit => HeapInv
BY DEF Calls, UserInit, LoadInit, Init, HeapInv, NoCall, ChildHeld, ChildMapped,
       IsOfBlock, InCall

\* The handles and mappings the program has to the objects of its heap.
SameHeap ==
  \A o \in HeapObjects :
    ChildHeld(o)' = ChildHeld(o) /\ ChildMapped(o)' = ChildMapped(o)

LEMMA SameRecordsSameHeap == UNCHANGED <<handles, mappings>> => SameHeap
BY DEF SameHeap, ChildHeld, ChildMapped

\* Loader neither has nor takes anything of the program's heap.
LEMMA LoaderKeepsHeap == LoadStep => SameHeap
<1> SUFFICES ASSUME LoadStep PROVE SameHeap
  OBVIOUS
<1>1. CASE UNCHANGED vars
  BY <1>1, SameRecordsSameHeap DEF vars
<1>2. ASSUME NEW x, Open(Loader, x), UNCHANGED mappings PROVE SameHeap
  BY <1>2, HeapObjectsDiffer DEF Open, SameHeap, ChildHeld, ChildMapped
<1>3. ASSUME NEW h, HandleClose(Loader, h) PROVE SameHeap
  BY <1>3, HeapObjectsDiffer DEF HandleClose, Owns, SameHeap, ChildHeld, ChildMapped
<1>4. ASSUME NEW m, MemoryUnmap(Loader, m) PROVE SameHeap
  BY <1>4, HeapObjectsDiffer DEF MemoryUnmap, Unmap, SameHeap, ChildHeld, ChildMapped
<1>5. ASSUME NEW h, NEW n, MemoryMap(Loader, h, n) PROVE SameHeap
  <2>1. CASE MemoryMapped(Loader, h, n)
    BY <2>1, HeapObjectsDiffer DEF MemoryMapped, Map, SameHeap, ChildHeld, ChildMapped
  <2>2. CASE MemoryMapFailed(Loader, h, n)
    BY <2>2, SameRecordsSameHeap DEF MemoryMapFailed, FailMap
  <2>3. QED BY <1>5, <2>1, <2>2 DEF MemoryMap
<1>6. ASSUME NEW g, NEW h, h.object \in {Image, Stack}, NEW n, NEW b,
             ProcessMemoryMap(Loader, g, h, n, b)
      PROVE  SameHeap
  <2>1. CASE ProcessMemoryMapped(Loader, g, h, n, b)
    BY <1>6, <2>1, HeapObjectsDiffer
    DEF ProcessMemoryMapped, Map, SameHeap, ChildHeld, ChildMapped
  <2>2. CASE ProcessMemoryMapFailed(Loader, g, h, n, b)
    BY <2>2, SameRecordsSameHeap DEF ProcessMemoryMapFailed, FailMap
  <2>3. QED BY <1>6, <2>1, <2>2 DEF ProcessMemoryMap
<1>7. CASE FindBootModuleById \/ CheckHeader \/ CopySegments \/ SkipPage
           \/ ImageDone \/ StartThread \/ SendReply
  BY <1>1, <1>7 DEF FindBootModuleById, CheckHeader, CopySegments, SkipPage,
              ImageDone, StartThread, SendReply
<1>8. CASE FetchModule
  BY <1>1, <1>2, <1>8 DEF FetchModule, Refused, BootObjectReply
<1>9. CASE MapModule \/ MapImage
  BY <1>1, <1>5, <1>9 DEF MapModule, MapImage, Refused, MemoryMap
<1>10. CASE CreateProcess
  BY <1>1, <1>2, <1>10 DEF CreateProcess, Refused, ProcessCreate
<1>11. CASE GrantCapabilities
  BY <1>1, <1>11, SameRecordsSameHeap
  DEF GrantCapabilities, Refused, ProcessGrantCapabilities
<1>12. CASE CreateImage \/ CreateStack
  BY <1>1, <1>2, <1>12 DEF CreateImage, CreateStack, Refused, MemoryCreate
<1>13. CASE MapRun
  BY <1>1, <1>6, <1>13 DEF MapRun, Refused, Held, ProcessMemoryMap
<1>14. CASE MapStack
  BY <1>1, <1>6, <1>14 DEF MapStack, Refused, Held, ProcessMemoryMap
<1>15. CASE CreateThread
  BY <1>1, <1>2, <1>15 DEF CreateThread, Refused, ThreadCreate
<1>16. CASE ReleaseNext
  BY <1>3, <1>4, <1>16 DEF ReleaseNext
<1>17. QED
  BY <1>7, <1>8, <1>9, <1>10, <1>11, <1>12, <1>13, <1>14, <1>15, <1>16 DEF LoadStep

\* A step that leaves the records, the blocks and the object of the call alone.
LEMMA HeapStays ==
  ASSUME HeapInv, SameHeap, blocks' = blocks, place # "fault",
         wanted' \in Calls,
         \/ place' = place /\ wanted' = wanted
         \/ place \notin {"map", "giveUp", "close"} /\ place' \notin {"map", "giveUp", "close"}
         \/ place = "map" /\ place' = "giveUp" /\ wanted' = wanted
         \/ place = "close" /\ place' = "fault"
  PROVE  HeapInv'
<1>1. \A o : IsOfBlock(o)' <=> IsOfBlock(o)
  BY DEF IsOfBlock
<1>2. place' # "fault" => \A o : InCall(o)' <=> InCall(o)
  BY DEF InCall
<1>3. \A block \in blocks : block.object \in HeapObjects
  BY DEF HeapInv, BlockRecords
<1>4. \A block \in blocks : \E m \in ChildMapped(block.object)' : Within(block, m)
  BY <1>3 DEF HeapInv, SameHeap
<1>5. \A o \in HeapObjects :
       /\ \A g, h \in ChildHeld(o)' : g = h
       /\ \A m, n \in ChildMapped(o)' : m = n
       /\ ChildMapped(o)' # {} => IsOfBlock(o)'
       /\ place' # "fault" => (ChildHeld(o)' # {} <=> IsOfBlock(o)' \/ InCall(o)')
  BY <1>1, <1>2 DEF HeapInv, SameHeap
<1>6. place' \in {"map", "giveUp", "close"} =>
        wanted'.object \in HeapObjects /\ ~IsOfBlock(wanted'.object)
  BY DEF HeapInv
<1>7. QED BY <1>1, <1>4, <1>5, <1>6 DEF HeapInv, Within

-----------------------------------------------------------------------------
(* The steps of new and delete                                             *)

LEMMA CreateBlockHeap ==
  ASSUME IInv, HeapInv, CreateBlock
  PROVE  HeapInv'
<1>1. place = "create" /\ blocks' = blocks
  BY DEF CreateBlock
<1>2. CASE UNCHANGED vars /\ NullReturned
  <2>1. SameHeap
    BY <1>2, SameRecordsSameHeap DEF vars
  <2>2. wanted' \in Calls
    BY <1>2 DEF NullReturned, NoCall, Calls
  <2>3. place' \in {"fault", "main"}
    BY <1>2 DEF NullReturned
  <2>4. QED BY <1>1, <2>1, <2>2, <2>3, HeapStays
<1>3. ASSUME NEW o \in HeapObjects, MemoryCreate(Child, o),
             wanted' = [wanted EXCEPT !.object = o], place' = "map"
      PROVE  HeapInv'
  <2> DEFINE new == [id |-> nextHandle, owner |-> Child, object |-> o]
  <2>1. /\ handles' = handles \cup {new} /\ mappings' = mappings
        /\ status[o] = "unused"
    BY <1>3 DEF MemoryCreate, Open
  <2>2. new.owner = Child /\ new.object = o
    OBVIOUS
  <2> HIDE DEF new
  <2>3. To(handles, o) = {} /\ To(mappings, o) = {}
    BY <2>1, HeapObjectsDiffer, HandledIsLive, MappedIsCounted
    DEF To, IInv, Counted, LiveCounted
  <2>4. ChildHeld(o) = {} /\ ChildMapped(o) = {}
    BY <2>3 DEF To, ChildHeld, ChildMapped
  <2>5. /\ ChildHeld(o)' = {new} /\ ChildMapped(o)' = {}
        /\ \A x \in HeapObjects : x # o => ChildHeld(x)' = ChildHeld(x)
        /\ \A x \in HeapObjects : ChildMapped(x)' = ChildMapped(x)
    BY <2>1, <2>2, <2>4 DEF ChildHeld, ChildMapped
  <2>6. ~IsOfBlock(o)
    BY <1>1, <2>4 DEF HeapInv
  <2>7. \A x : IsOfBlock(x)' <=> IsOfBlock(x)
    BY <1>1 DEF IsOfBlock
  <2>8. \A x \in HeapObjects : (InCall(x)' <=> x = o) /\ ~InCall(x)
    BY <1>1, <1>3 DEF InCall
  <2>9. wanted'.object = o /\ wanted' \in Calls
    BY <1>3 DEF HeapInv, Calls
  <2>10. \A x \in HeapObjects :
          /\ \A g, h \in ChildHeld(x)' : g = h
          /\ \A m, n \in ChildMapped(x)' : m = n
          /\ ChildMapped(x)' # {} => IsOfBlock(x)'
          /\ (ChildHeld(x)' # {} <=> IsOfBlock(x)' \/ InCall(x)')
    <3> SUFFICES ASSUME NEW x \in HeapObjects
                 PROVE  /\ \A g, h \in ChildHeld(x)' : g = h
                        /\ \A m, n \in ChildMapped(x)' : m = n
                        /\ ChildMapped(x)' # {} => IsOfBlock(x)'
                        /\ (ChildHeld(x)' # {} <=> IsOfBlock(x)' \/ InCall(x)')
      OBVIOUS
    <3>1. CASE x = o
      BY <3>1, <2>5, <2>6, <2>7, <2>8
    <3>2. CASE x # o
      BY <3>2, <1>1, <2>5, <2>7, <2>8 DEF HeapInv
    <3>3. QED BY <3>1, <3>2
  <2>11. \A block \in blocks : \E m \in ChildMapped(block.object)' : Within(block, m)
    BY <2>5 DEF HeapInv, BlockRecords
  <2>12. ~IsOfBlock(o)'
    BY <2>6, <2>7
  <2>13. QED BY <1>1, <2>9, <2>10, <2>11, <2>12 DEF HeapInv, Within
<1>4. QED BY <1>2, <1>3 DEF CreateBlock

\* The lowest free place is one place, and the block that new makes of it lies
\* in the pages of the mapping.
LEMMA UserIsNat ==
  ASSUME NEW raw \in Nat, NEW alignment \in Nat \ {0}
  PROVE  UserAddress(raw, alignment) \in Nat
<1>1. AllocationAlignment(alignment) \in Nat \ {0} /\ raw + HeaderSize \in Nat
  BY RuntimeAssumption DEF AllocationAlignment
<1>2. QED BY <1>1, RoundedUp DEF UserAddress

LEMMA MapBlockHeap ==
  ASSUME TypeOK, HeapInv, MapBlock
  PROVE  HeapInv'
<1> DEFINE count == PagesFor(wanted.size, wanted.alignment)
<1>0. PICK o : o = wanted.object
  OBVIOUS
<1>1. /\ place = "map" /\ o \in HeapObjects /\ ~IsOfBlock(o)
      /\ wanted.size \in Nat /\ wanted.alignment \in Nat \ {0}
  BY <1>0 DEF MapBlock, HeapInv, Calls
<1>2. CASE /\ UNCHANGED vars \/ \E h \in ChildHeld(wanted.object) :
                                 MemoryMapFailed(Child, h, count)
           /\ place' = "giveUp" /\ UNCHANGED <<blocks, wanted>>
  <2>1. SameHeap
    BY <1>2, SameRecordsSameHeap DEF vars, MemoryMapFailed, FailMap
  <2>2. wanted' \in Calls
    BY <1>2 DEF HeapInv
  <2>3. QED BY <1>1, <1>2, <2>1, <2>2, HeapStays
<1>3. ASSUME NEW h \in ChildHeld(wanted.object), MemoryMapped(Child, h, count),
             NEW base \in ChosenBase(Child, count, 0),
             blocks' = blocks \cup {BlockAt(base)},
             place' = "main", wanted' = NoCall
      PROVE  HeapInv'
  <2> DEFINE new == [process |-> Child, base |-> base, count |-> count, object |-> o]
             block == [object |-> o, size |-> wanted.size, alignment |-> wanted.alignment,
                       user |-> UserAddress(base * PageSize, wanted.alignment)]
  <2>1. h.object = o /\ Map(Child, Child, o, count, 0)
    BY <1>0, <1>3 DEF MemoryMapped, ChildHeld
  <2>2. PICK low \in ChosenBase(Child, count, 0) :
          mappings' = mappings \cup
            {[process |-> Child, base |-> low, count |-> count, object |-> o]}
    BY <2>1 DEF Map
  <2>3. low = base /\ base \in Nat
    BY <1>3, <2>2 DEF ChosenBase, UsableBases, Pages
  <2>4. count \in Nat
    BY <2>1 DEF Map, MapAllowed
  <2>5. mappings' = mappings \cup {new} /\ handles' = handles
    BY <2>1, <2>2, <2>3 DEF Map
  <2>6. /\ block.object = o /\ block.size = wanted.size
        /\ block.alignment = wanted.alignment
        /\ block.user = UserAddress(base * PageSize, wanted.alignment)
    OBVIOUS
  <2>7. base * PageSize \in Nat
    BY <2>3, LoadAssumption
  <2>8. /\ base * PageSize <= block.user - HeaderSize
        /\ block.user + NonZero(block.size) <= base * PageSize + count * PageSize
        /\ PowerOfTwo(block.alignment) => block.user % block.alignment = 0
    BY <1>1, <2>6, <2>7, BlockFits
  <2>9. Within(block, new)
    BY <2>8 DEF Within
  <2>10. block \in BlockRecords
    BY <1>1, <2>7, UserIsNat DEF BlockRecords
  <2>11. new.process = Child /\ new.object = o
    OBVIOUS
  <2> HIDE DEF new, block
  <2>12. /\ ChildMapped(o)' = ChildMapped(o) \cup {new}
         /\ \A x : x # o => ChildMapped(x)' = ChildMapped(x)
         /\ \A x : ChildHeld(x)' = ChildHeld(x)
    BY <2>5, <2>11 DEF ChildMapped, ChildHeld
  <2>13. ChildMapped(o)' = {new} /\ ChildMapped(o) = {}
    BY <1>1, <2>12 DEF HeapInv
  <2>14. blocks' = blocks \cup {block}
    BY <1>0, <1>3 DEF block, BlockAt
  <2>15. \A x : IsOfBlock(x)' <=> IsOfBlock(x) \/ x = o
    BY <2>6, <2>14 DEF IsOfBlock
  <2>16. (\A x : InCall(x) <=> x = o) /\ (\A x : ~InCall(x)')
    BY <1>0, <1>1, <1>3 DEF InCall
  <2>17. \A b \in blocks' : \E m \in ChildMapped(b.object)' : Within(b, m)
    <3> SUFFICES ASSUME NEW b \in blocks'
                 PROVE  \E m \in ChildMapped(b.object)' : Within(b, m)
      OBVIOUS
    <3>1. CASE b = block
      BY <3>1, <2>6, <2>9, <2>13
    <3>2. CASE b \in blocks
      <4>1. b.object # o
        BY <1>1, <3>2 DEF IsOfBlock
      <4>2. QED BY <3>2, <4>1, <2>12 DEF HeapInv
    <3>3. QED BY <3>1, <3>2, <2>14
  <2>18. \A b, c \in blocks' : b.object = c.object => b = c
    BY <1>1, <2>6, <2>14 DEF HeapInv, IsOfBlock
  <2>19. \A x \in HeapObjects :
          /\ \A f, g \in ChildHeld(x)' : f = g
          /\ \A m, n \in ChildMapped(x)' : m = n
          /\ ChildMapped(x)' # {} => IsOfBlock(x)'
          /\ (ChildHeld(x)' # {} <=> IsOfBlock(x)' \/ InCall(x)')
    <3> SUFFICES ASSUME NEW x \in HeapObjects
                 PROVE  /\ \A f, g \in ChildHeld(x)' : f = g
                        /\ \A m, n \in ChildMapped(x)' : m = n
                        /\ ChildMapped(x)' # {} => IsOfBlock(x)'
                        /\ (ChildHeld(x)' # {} <=> IsOfBlock(x)' \/ InCall(x)')
      OBVIOUS
    <3>1. \A f, g \in ChildHeld(x) : f = g
      BY DEF HeapInv
    <3>2. ChildHeld(x) # {} <=> IsOfBlock(x) \/ InCall(x)
      BY <1>1 DEF HeapInv
    <3>3. CASE x = o
      BY <3>1, <3>2, <3>3, <2>12, <2>13, <2>15, <2>16
    <3>4. CASE x # o
      <4>1. ChildMapped(x)' = ChildMapped(x)
        BY <3>4, <2>12
      <4>2. (\A m, n \in ChildMapped(x) : m = n) /\ (ChildMapped(x) # {} => IsOfBlock(x))
        BY DEF HeapInv
      <4>3. QED BY <3>1, <3>2, <3>4, <4>1, <4>2, <2>12, <2>15, <2>16
    <3>5. QED BY <3>3, <3>4
  <2>20. blocks' \subseteq BlockRecords /\ wanted' \in Calls
    BY <1>3, <2>10, <2>14 DEF HeapInv, NoCall, Calls
  <2>21. QED
    BY <1>3, <2>17, <2>18, <2>19, <2>20 DEF HeapInv, Within
<1>4. QED BY <1>2, <1>3 DEF MapBlock

LEMMA GiveUpHeap ==
  ASSUME HeapInv, GiveUp
  PROVE  HeapInv'
<1>0. PICK o : o = wanted.object
  OBVIOUS
<1>1. place = "giveUp" /\ o \in HeapObjects /\ ~IsOfBlock(o) /\ blocks' = blocks
  BY <1>0 DEF GiveUp, HeapInv
<1>2. PICK h \in ChildHeld(o) : HandleClose(Child, h)
  BY <1>0 DEF GiveUp, GiveBack
<1>3. handles' = handles \ {h} /\ mappings' = mappings
  BY <1>2 DEF HandleClose
<1>4. ChildHeld(o) = {h} /\ h.object = o
  BY <1>1, <1>2 DEF HeapInv, ChildHeld
<1>5. /\ ChildHeld(o)' = {}
      /\ \A x : x # o => ChildHeld(x)' = ChildHeld(x)
      /\ \A x : ChildMapped(x)' = ChildMapped(x)
  BY <1>3, <1>4 DEF ChildHeld, ChildMapped
<1>6. wanted' \in Calls /\ place' \in {"main", "fault"}
  BY DEF GiveUp, NullReturned, NoCall, Calls
<1>7. \A x : IsOfBlock(x)' <=> IsOfBlock(x)
  BY <1>1 DEF IsOfBlock
<1>8. (\A x : InCall(x) <=> x = o) /\ (\A x : ~InCall(x)')
  BY <1>0, <1>1, <1>6 DEF InCall
<1>9. \A x \in HeapObjects :
        /\ \A f, g \in ChildHeld(x)' : f = g
        /\ \A m, n \in ChildMapped(x)' : m = n
        /\ ChildMapped(x)' # {} => IsOfBlock(x)'
        /\ (ChildHeld(x)' # {} <=> IsOfBlock(x)' \/ InCall(x)')
  <2> SUFFICES ASSUME NEW x \in HeapObjects
               PROVE  /\ \A f, g \in ChildHeld(x)' : f = g
                      /\ \A m, n \in ChildMapped(x)' : m = n
                      /\ ChildMapped(x)' # {} => IsOfBlock(x)'
                      /\ (ChildHeld(x)' # {} <=> IsOfBlock(x)' \/ InCall(x)')
    OBVIOUS
  <2>1. /\ \A f, g \in ChildHeld(x) : f = g
        /\ \A m, n \in ChildMapped(x) : m = n
        /\ ChildMapped(x) # {} => IsOfBlock(x)
        /\ (ChildHeld(x) # {} <=> IsOfBlock(x) \/ InCall(x))
    BY <1>1 DEF HeapInv
  <2>2. CASE x = o
    BY <1>1, <1>5, <1>7, <1>8, <2>1, <2>2
  <2>3. CASE x # o
    BY <1>5, <1>7, <1>8, <2>1, <2>3
  <2>4. QED BY <2>2, <2>3
<1>10. \A b \in blocks : \E m \in ChildMapped(b.object)' : Within(b, m)
  BY <1>5 DEF HeapInv
<1>11. QED BY <1>1, <1>6, <1>9, <1>10 DEF HeapInv, Within

LEMMA DeleteHeap ==
  ASSUME PresentInv, HeapInv, NEW block \in blocks, Delete(block)
  PROVE  HeapInv'
<1> DEFINE o == block.object
<1>1. place = "main" /\ o \in HeapObjects /\ IsOfBlock(o) /\ place' = "close"
  BY DEF Delete, HeapInv, BlockRecords, IsOfBlock
<1>2. PICK m \in ChildMapped(o) : MemoryUnmap(Child, m)
  BY DEF Delete
<1>3. mappings' = mappings \ {m} /\ handles' = handles
  BY <1>2, UnmapForgets DEF MemoryUnmap, ChildMapped
<1>4. ChildMapped(o) = {m} /\ m.object = o
  BY <1>1, <1>2 DEF HeapInv, ChildMapped
<1>5. /\ ChildMapped(o)' = {}
      /\ \A x : x # o => ChildMapped(x)' = ChildMapped(x)
      /\ \A x : ChildHeld(x)' = ChildHeld(x)
  BY <1>3, <1>4 DEF ChildHeld, ChildMapped
<1>6. wanted' \in Calls /\ wanted'.object = o /\ blocks' = blocks \ {block}
  BY <1>1 DEF Delete, NoCall, Calls
<1>7. \A x : IsOfBlock(x)' <=> IsOfBlock(x) /\ x # o
  BY <1>6 DEF IsOfBlock, HeapInv
<1>8. (\A x : ~InCall(x)) /\ (\A x : InCall(x)' <=> x = o)
  BY <1>1, <1>6 DEF InCall
<1>9. \A x \in HeapObjects :
        /\ \A f, g \in ChildHeld(x)' : f = g
        /\ \A n, k \in ChildMapped(x)' : n = k
        /\ ChildMapped(x)' # {} => IsOfBlock(x)'
        /\ (ChildHeld(x)' # {} <=> IsOfBlock(x)' \/ InCall(x)')
  <2> SUFFICES ASSUME NEW x \in HeapObjects
               PROVE  /\ \A f, g \in ChildHeld(x)' : f = g
                      /\ \A n, k \in ChildMapped(x)' : n = k
                      /\ ChildMapped(x)' # {} => IsOfBlock(x)'
                      /\ (ChildHeld(x)' # {} <=> IsOfBlock(x)' \/ InCall(x)')
    OBVIOUS
  <2>1. /\ \A f, g \in ChildHeld(x) : f = g
        /\ \A n, k \in ChildMapped(x) : n = k
        /\ ChildMapped(x) # {} => IsOfBlock(x)
        /\ (ChildHeld(x) # {} <=> IsOfBlock(x) \/ InCall(x))
    BY <1>1 DEF HeapInv
  <2>2. CASE x = o
    BY <1>1, <1>5, <1>7, <1>8, <2>1, <2>2
  <2>3. CASE x # o
    BY <1>5, <1>7, <1>8, <2>1, <2>3
  <2>4. QED BY <2>2, <2>3
<1>10. \A b \in blocks' : \E n \in ChildMapped(b.object)' : Within(b, n)
  <2> SUFFICES ASSUME NEW b \in blocks'
               PROVE  \E n \in ChildMapped(b.object)' : Within(b, n)
    OBVIOUS
  <2>1. b \in blocks /\ b.object # o
    BY <1>6 DEF HeapInv
  <2>2. QED BY <1>5, <2>1 DEF HeapInv
<1>11. ~IsOfBlock(o)'
  BY <1>7
<1>12. blocks' \subseteq BlockRecords /\ \A b, c \in blocks' : b.object = c.object => b = c
  BY <1>6 DEF HeapInv
<1>13. QED
  BY <1>1, <1>6, <1>9, <1>10, <1>11, <1>12 DEF HeapInv, Within

\* Steps that leave the program's objects and mappings alone.
LEMMA QuietHeap ==
  ASSUME HeapInv, place # "fault",
         \/ GetProcess \/ GetInfo \/ CloseBlock \/ Exit
         \/ \E size \in Sizes, alignment \in Alignments : New(size, alignment)
  PROVE  HeapInv'
<1>1. CASE GetProcess
  <2>1. SameHeap
    <3>1. CASE ProcessCurrent(Child)
      BY <3>1, HeapObjectsDiffer
      DEF ProcessCurrent, Open, SameHeap, ChildHeld, ChildMapped
    <3>2. CASE UNCHANGED vars
      BY <3>2, SameRecordsSameHeap DEF vars
    <3>3. QED BY <1>1, <3>1, <3>2 DEF GetProcess
  <2>2. /\ place = "start" /\ place' \in {"info", "exited"}
        /\ blocks' = blocks /\ wanted' = wanted
    BY <1>1 DEF GetProcess
  <2>3. wanted' \in Calls
    BY <2>2 DEF HeapInv
  <2>4. QED BY <2>1, <2>2, <2>3, HeapStays
<1>2. CASE GetInfo
  <2>1. SameHeap
    BY <1>2, SameRecordsSameHeap DEF GetInfo, vars
  <2>2. place = "info" /\ place' \in {"create", "exited"} /\ blocks' = blocks
    BY <1>2 DEF GetInfo, Call
  <2>3. wanted' \in Calls
    <3>1. CASE Call(NameLength, DefaultAlignment, "start")
      BY <3>1, RuntimeAssumption DEF Call, Calls
    <3>2. CASE UNCHANGED wanted
      BY <3>2 DEF HeapInv
    <3>3. QED BY <1>2, <3>1, <3>2 DEF GetInfo
  <2>4. QED BY <2>1, <2>2, <2>3, HeapStays
<1>3. CASE \E size \in Sizes, alignment \in Alignments : New(size, alignment)
  <2>1. PICK size \in Sizes, alignment \in Alignments : New(size, alignment)
    BY <1>3
  <2>2. SameHeap
    BY <2>1, SameRecordsSameHeap DEF New, vars
  <2>3. place = "main" /\ place' = "create" /\ blocks' = blocks
    BY <2>1 DEF New, Call
  <2>4. wanted' \in Calls
    BY <2>1, RuntimeAssumption DEF New, Call, Calls
  <2>5. QED BY <2>2, <2>3, <2>4, HeapStays
<1>4. CASE CloseBlock
  <2>1. place = "close" /\ blocks' = blocks /\ wanted' \in Calls
    BY <1>4 DEF CloseBlock, NoCall, Calls
  <2>2. ChildMapped(wanted.object) = {}
    BY <2>1 DEF HeapInv
  <2>3. place' = "fault" /\ SameHeap
    BY <1>4, <2>2, SameRecordsSameHeap DEF CloseBlock, vars
  <2>4. QED BY <2>1, <2>3, HeapStays
<1>5. CASE Exit
  <2>1. SameHeap
    BY <1>5, SameRecordsSameHeap DEF Exit, vars
  <2>2. /\ place = "main" /\ place' = "exited"
        /\ blocks' = blocks /\ wanted' = wanted
    BY <1>5 DEF Exit
  <2>3. wanted' \in Calls
    BY <2>2 DEF HeapInv
  <2>4. QED BY <2>1, <2>2, <2>3, HeapStays
<1>6. QED BY <1>1, <1>2, <1>3, <1>4, <1>5

LEMMA NextHeap ==
  ASSUME IInv, PresentInv, HeapInv, [UserNext]_userVars
  PROVE  HeapInv'
<1>1. CASE UNCHANGED userVars
  <2>1. /\ UNCHANGED <<handles, mappings, place, blocks, wanted>>
    BY <1>1 DEF userVars, vars, runtime
  <2>2. QED BY <2>1 DEF HeapInv, ChildHeld, ChildMapped, IsOfBlock, InCall, Within
<1>2. CASE LoaderStep
  <2>1. SameHeap /\ place # "fault"
    BY <1>2, LoaderKeepsHeap DEF LoaderStep
  <2>2. place' = place /\ blocks' = blocks /\ wanted' = wanted /\ wanted' \in Calls
    BY <1>2 DEF LoaderStep, runtime, HeapInv
  <2>3. QED BY <2>1, <2>2, HeapStays
<1>3. CASE ProgramStep
  <2>1. RuntimeStep /\ place # "fault" /\ TypeOK
    BY <1>3 DEF ProgramStep, PresentInv
  <2>2. QED
    BY <2>1, CreateBlockHeap, MapBlockHeap, GiveUpHeap, DeleteHeap, QuietHeap
    DEF RuntimeStep
<1>4. QED BY <1>1, <1>2, <1>3 DEF UserNext

\* The page of a word that lies in the pages of a mapping is one of these.
LEMMA PageInSpan ==
  ASSUME NEW base \in Nat, NEW count \in Nat, NEW a \in Int,
         base * PageSize <= a, a < base * PageSize + count * PageSize
  PROVE  PageOf(a) \in Span(base, count)
<1>1. PageSize \in Nat \ {0}
  BY LoadAssumption
<1> DEFINE p == a \div PageSize
           r == a % PageSize
<1>2. p \in Int /\ r \in 0 .. PageSize - 1 /\ a = PageSize * p + r
  BY <1>1
<1> HIDE DEF p, r
<1>3. base <= p
  <2> SUFFICES ASSUME p <= base - 1 PROVE FALSE
    BY <1>2
  <2>1. PageSize * p <= PageSize * (base - 1)
    BY <1>1, <1>2
  <2>2. QED BY <1>1, <1>2, <2>1
<1>4. p <= base + count - 1
  <2> SUFFICES ASSUME base + count <= p PROVE FALSE
    BY <1>2
  <2>1. PageSize * (base + count) <= PageSize * p
    BY <1>1, <1>2
  <2>2. QED BY <1>1, <1>2, <2>1
<1>5. QED BY <1>2, <1>3, <1>4 DEF PageOf, Span, p

LEMMA HeapIsExact == PresentInv /\ HeapInv => BlocksExact
<1> SUFFICES ASSUME PresentInv, HeapInv PROVE BlocksExact
  OBVIOUS
<1>1. ASSUME NEW b \in blocks, NEW a \in Extent(b)
      PROVE  pte[<<Child, PageOf(a)>>] = b.object
  <2>1. b \in BlockRecords /\ b.object \in HeapObjects
    BY DEF HeapInv, BlockRecords
  <2>2. PICK m \in ChildMapped(b.object) : Within(b, m)
    BY DEF HeapInv
  <2>3. /\ m \in mappings /\ m.process = Child /\ m.object = b.object
        /\ m.base \in Nat /\ m.count \in Nat
    BY <2>2 DEF ChildMapped, PresentInv, TypeOK, MappingRecords, Pages
  <2>4. a \in Int /\ b.user - HeaderSize <= a /\ a <= b.user + NonZero(b.size) - 1
    BY <2>1, RuntimeAssumption DEF Extent, NonZero, BlockRecords
  <2>5. /\ m.base * PageSize <= b.user - HeaderSize
        /\ b.user + NonZero(b.size) <= m.base * PageSize + m.count * PageSize
    BY <2>2 DEF Within
  <2>6. /\ m.base * PageSize \in Int /\ m.count * PageSize \in Int
        /\ b.user \in Nat /\ NonZero(b.size) \in Nat /\ HeaderSize \in Nat
    BY <2>1, <2>3, LoadAssumption, RuntimeAssumption DEF NonZero, BlockRecords
  <2>7. m.base * PageSize <= a /\ a < m.base * PageSize + m.count * PageSize
    BY <2>4, <2>5, <2>6
  <2>8. PageOf(a) \in MappingSpan(m)
    BY <2>3, <2>4, <2>7, PageInSpan DEF MappingSpan
  <2>9. PageOf(a) \in Pages
    BY <2>3, <2>8 DEF PresentInv, MappingsInRange
  <2>10. QED
    BY <2>1, <2>3, <2>8, <2>9, HeapObjectsDiffer DEF PresentInv, MappingsPresent
<1>2. \A b \in blocks : PowerOfTwo(b.alignment) => b.user % b.alignment = 0
  BY DEF HeapInv, Within
<1>3. ASSUME place = "main", NEW o \in HeapObjects
      PROVE  /\ ChildHeld(o) # {} <=> \E b \in blocks : b.object = o
             /\ ChildMapped(o) # {} <=> \E b \in blocks : b.object = o
  <2>1. ChildHeld(o) # {} <=> IsOfBlock(o)
    BY <1>3 DEF HeapInv, InCall
  <2>2. ChildMapped(o) # {} => IsOfBlock(o)
    BY DEF HeapInv
  <2>3. IsOfBlock(o) => ChildMapped(o) # {}
    BY DEF HeapInv, IsOfBlock
  <2>4. QED BY <2>1, <2>2, <2>3 DEF IsOfBlock
<1>4. \A b, c \in blocks : b.object = c.object => b = c
  BY DEF HeapInv
<1>5. QED BY <1>1, <1>2, <1>3, <1>4 DEF BlocksExact

\* For every sequence of calls of new and delete, with Loader at work meanwhile
\* and any of the calls failing, early or late: a block is aligned, its words and its header's
\* are mapped to an object of its own, and what failed half way kept nothing.
THEOREM BlocksStayExact == UserSpec => []BlocksExact
<1>1. IInv /\ PresentInv /\ HeapInv /\ [UserNext]_userVars => HeapInv'
  BY NextHeap
<1>2. UserSpec => []IInv
  BY ImplementsKernelObjects, AlwaysIInv, PTL
<1>3. UserSpec => []PresentInv
  BY ImplementsKernelObjects, AlwaysPresentInv, PTL
<1>4. QED BY <1>1, <1>2, <1>3, InitHeap, HeapIsExact, PTL DEF UserSpec
=============================================================================
