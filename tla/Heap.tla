-------------------------------- MODULE Heap --------------------------------
(***************************************************************************)
(* The kernel heap (Memory/Heap.cppm) and its front end MemoryManager: a   *)
(* boundary-tag allocator.  Every region of memory is a ring of chunks, in *)
(* address order, between two sentinels; the unused chunks are also on the *)
(* free list of their size class.  allocate_aligned over-allocates and     *)
(* leaves a tag before the pointer it returns, from which free recovers    *)
(* the block.                                                              *)
(*                                                                         *)
(* g_heap_lock is held, with interrupts off, from the first to the last    *)
(* statement of every mrvn_ call, so a call is one step on any processor.  *)
(* The tag is written and read outside the lock, but inside a block only   *)
(* the caller has; HeapSound and ImplementsBlocks are what makes that      *)
(* safe.                                                                   *)
(*                                                                         *)
(* Addresses and sizes are bytes, with the code's layout.  A free list is  *)
(* a sequence, its head first.  Left out: the mem_ counters, which nothing *)
(* reads, and sizes near the end of the machine word.                      *)
(***************************************************************************)
EXTENDS Integers, Sequences, SequencesExt

CONSTANTS
  NUM_SIZES,  \* the number of size classes (32 in the code)
  MemoryMap,  \* the entries [base, size, usable] MemoryManager::init is given
  Sizes,      \* the sizes asked for without an alignment
  Aligned     \* the pairs <<size, alignment>> asked for with one

HEADER_SIZE == 24       \* offset of Chunk::data
CHUNK_SIZE == 40        \* sizeof(Chunk)
MIN_SIZE == 16          \* sizeof(DList)
ALIGN == 4
ALIGNED_HEADER == 16    \* sizeof(AllocationHeader)
NULL == 0
MaxExponent == 30       \* bound: TLC's integers; sizes are below 2^31

ASSUME HeapConstants ==
  /\ NUM_SIZES \in Nat \ {0}
  /\ MemoryMap \in Seq([base : Nat \ {0}, size : Nat, usable : BOOLEAN])
  /\ Sizes \subseteq Nat
  /\ Aligned \subseteq Nat \X (Nat \ {0})

\* An std::align_val_t that is smaller than a pointer's alignment divides it.
ASSUME AlignmentAssumption ==
  \A r \in Aligned : r[2] < 8 => r[2] \in {1, 2, 4}

\* Usable entries do not overlap: the boot protocol guarantees it.
ASSUME MapAssumption ==
  \A i, j \in DOMAIN MemoryMap :
    LET m == MemoryMap[i]
        k == MemoryMap[j]
    IN  i < j /\ m.usable /\ k.usable /\ m.size # 0 /\ k.size # 0
          => m.base + m.size <= k.base \/ k.base + k.size <= m.base

\* Arithmetic that TLC evaluates and the provers do not know.
ASSUME PowersAreNumbers == 2 ^ 0 = 1 /\ \A n \in 0 .. MaxExponent : 2 ^ n \in Nat

VARIABLES
  entry,       \* the memory-map entry MemoryManager::init looks at next
  chunk,       \* the chunk headers: address -> [next, prev, used]
  free_chunk,  \* the free list of each size class
  tag,         \* the AllocationHeaders in memory: pointer -> raw
  live         \* pointers callers own: pointer -> <<size, alignment>>

vars == <<entry, chunk, free_chunk, tag, live>>

Slots == 0 .. (NUM_SIZES - 1)

\* operator new asks for one byte when it is asked for none.
Bytes(size) == IF size = 0 THEN 1 ELSE size

Requests == {<<Bytes(size), ALIGN>> : size \in Sizes}
              \cup {<<Bytes(r[1]), r[2]>> : r \in Aligned}

RoundUp(n, alignment) == ((n + alignment - 1) \div alignment) * alignment

TypeOK ==
  /\ entry \in 1 .. Len(MemoryMap) + 1
  /\ \A a \in DOMAIN chunk :
       /\ a \in Nat \ {NULL}
       /\ chunk[a] \in [next : DOMAIN chunk, prev : DOMAIN chunk, used : BOOLEAN]
  /\ \A n \in Slots : ToSet(free_chunk[n]) \subseteq DOMAIN chunk
  /\ \A p \in DOMAIN live : live[p] \in Requests

-----------------------------------------------------------------------------
(* Chunks and rings.  Operators named ...Fault are plausible slips in the  *)
(* definition they precede.                                                *)

\* What a caller or a tag finds in f once y is written at x.
With(f, x, y) == [z \in DOMAIN f \cup {x} |-> IF z = x THEN y ELSE f[z]]

\* memory_chunk_init: a chunk alone in its ring.
Alone(a) == [next |-> a, prev |-> a, used |-> FALSE]

\* dlist_insert_after for a ring and a chunk that is alone.
InsertAfter(c, a, b) ==
  LET n == c[a].next
  IN  [With(c, b, [next |-> n, prev |-> a, used |-> FALSE]) EXCEPT ![a].next = b, ![n].prev = b]

HalfUnlinkFault(c, a) ==
  [b \in DOMAIN c \ {a} |-> IF c[b].next = a THEN [c[b] EXCEPT !.next = c[a].next]
                                             ELSE c[b]]

\* dlist_remove; the header of a chunk that left its ring means nothing.
Unlink(c, a) ==
  LET d == [c EXCEPT ![c[a].prev].next = c[a].next, ![c[a].next].prev = c[a].prev]
  IN  [b \in DOMAIN c \ {a} |-> d[b]]

\* memory_chunk_size
ChunkSize(c, a) == c[a].next - a - HEADER_SIZE

\* memory_chunk_slot: the position of the highest bit, -1 when there is none.
Slot(size) == Cardinality({n \in 0 .. MaxExponent : 2 ^ n <= size}) - 1

\* memory_chunk_bucket: the list of an unused chunk of this size.
Bucket(size) ==
  LET n == Slot(size)
  IN  IF n < 0 THEN 0 ELSE IF n >= NUM_SIZES THEN NUM_SIZES - 1 ELSE n

\* push_free and remove_free: DLIST_PUSH and DLIST_REMOVE_FROM.
PushFree(lists, c, a) ==
  [lists EXCEPT ![Bucket(ChunkSize(c, a))] = <<a>> \o @]
RemoveFree(lists, c, a) ==
  [lists EXCEPT ![Bucket(ChunkSize(c, a))] = RemoveFirst(@, a)]

-----------------------------------------------------------------------------
(* MemoryManager::init, an entry at a time                                 *)

Init ==
  /\ entry = 1
  /\ chunk = <<>>
  /\ free_chunk = [n \in Slots |-> <<>>]
  /\ tag = <<>>
  /\ live = <<>>

RegionFirst(m) == RoundUp(m.base, ALIGN)
RegionEnd(m) == ((m.base + m.size) \div ALIGN) * ALIGN

\* memory_add_region's checks.
RegionFits(m) ==
  /\ RegionEnd(m) - RegionFirst(m) >= 3 * CHUNK_SIZE
  /\ RegionFirst(m) + CHUNK_SIZE < RegionEnd(m) - CHUNK_SIZE

Ring(m) ==
  LET a == RegionFirst(m)
      b == a + CHUNK_SIZE
      z == RegionEnd(m) - CHUNK_SIZE
  IN  [InsertAfter(InsertAfter([x \in {a} |-> Alone(x)], a, b), b, z)
         EXCEPT ![a].used = TRUE, ![z].used = TRUE]

AddRegion ==
  /\ entry <= Len(MemoryMap)
  /\ entry' = entry + 1
  /\ LET m == MemoryMap[entry]
     IN  IF m.usable /\ m.size # 0 /\ RegionFits(m)
           THEN /\ chunk' = [a \in DOMAIN Ring(m) \cup DOMAIN chunk |->
                                IF a \in DOMAIN Ring(m) THEN Ring(m)[a] ELSE chunk[a]]
                /\ free_chunk' =
                     PushFree(free_chunk, chunk', RegionFirst(m) + CHUNK_SIZE)
           ELSE UNCHANGED <<chunk, free_chunk>>
  /\ UNCHANGED <<tag, live>>

-----------------------------------------------------------------------------
(* mrvn_malloc                                                             *)

Needed(size) == LET n == RoundUp(size, ALIGN) IN IF n < MIN_SIZE THEN MIN_SIZE ELSE n

OwnBucketFault(size) ==
  {n \in Slots : n >= Bucket(Needed(size)) /\ free_chunk[n] # <<>>}

\* The classes whose every chunk is large enough, when they have one.
Fitting(size) ==
  {n \in Slots : n > Slot(Needed(size) - 1) /\ free_chunk[n] # <<>>}

CutTooSmallFault(size, found) == Needed(size) <= found

\* The remainder must hold a chunk of its own.
Splits(size, found) == Needed(size) + CHUNK_SIZE <= found

Split(c, a, size) == InsertAfter(c, a, a + HEADER_SIZE + Needed(size))

StaleTagFault(addresses) == tag

\* memory_chunk_init and "used = 1" write the word in which free looks for the
\* tag of a pointer to the chunk's data.
TagsAfterHeaders(addresses) ==
  [p \in {q \in DOMAIN tag : q - HEADER_SIZE \notin addresses} |-> tag[p]]

\* The head of the first class that has one.  Without one the answer is nullptr
\* and nothing changes.
Found(size) == {Head(free_chunk[n]) : n \in
                 {n \in Fitting(size) : \A m \in Fitting(size) : n <= m}}

Malloc(size, a) ==
  LET popped == RemoveFree(free_chunk, chunk, a)
      rest == a + HEADER_SIZE + Needed(size)
      c == Split(chunk, a, size)
  IN  IF Splits(size, ChunkSize(chunk, a))
        THEN /\ chunk' = [c EXCEPT ![a].used = TRUE]
             /\ free_chunk' = PushFree(popped, c, rest)
        ELSE /\ chunk' = [chunk EXCEPT ![a].used = TRUE]
             /\ free_chunk' = popped

\* The headers Malloc writes.
Written(a) == {a} \cup (DOMAIN chunk' \ DOMAIN chunk)

Booted == entry > Len(MemoryMap)

\* operator new and MemoryManager::allocate
Allocate(size) ==
  /\ Booted
  /\ \E a \in Found(Bytes(size)) :
       /\ Malloc(Bytes(size), a)
       /\ tag' = TagsAfterHeaders(Written(a))
       /\ live' = With(live, a + HEADER_SIZE, <<Bytes(size), ALIGN>>)
  /\ UNCHANGED entry

-----------------------------------------------------------------------------
(* MemoryManager::allocate_aligned                                         *)

PowerOfTwo(n) == \E k \in 0 .. MaxExponent : n = 2 ^ k

\* No alignment is smaller than a pointer.
Alignment(n) == IF n < 8 THEN 8 ELSE n

\* Room for the tag and for the worst start of the block.
Total(size, alignment) == size + alignment - 1 + ALIGNED_HEADER

AllocateAligned(size, asked) ==
  LET alignment == Alignment(asked)
      total == Total(Bytes(size), alignment)
  IN  /\ Booted
      /\ PowerOfTwo(alignment)
      /\ \E a \in Found(total) :
           LET raw == a + HEADER_SIZE
               aligned == RoundUp(raw + ALIGNED_HEADER, alignment)
           IN  /\ Malloc(total, a)
               /\ tag' = With(TagsAfterHeaders(Written(a)), aligned, raw)
               /\ live' = With(live, aligned, <<Bytes(size), asked>>)
      /\ UNCHANGED entry

-----------------------------------------------------------------------------
(* MemoryManager::free and mrvn_free                                       *)

\* The pointer mrvn_malloc returned for p.
Raw(p) == IF p \in DOMAIN tag THEN tag[p] ELSE p

NextKeptFault(a) == <<chunk, free_chunk>>

\* The chunk after an unused one is merged into it: the ring and the lists then.
AfterNext(a) ==
  LET n == chunk[a].next
  IN  IF chunk[n].used THEN <<chunk, free_chunk>>
      ELSE <<Unlink(chunk, n), RemoveFree(free_chunk, chunk, n)>>

StaleBucketFault(c, lists, a) ==
  LET p == c[a].prev
  IN  IF c[p].used
        THEN <<[c EXCEPT ![a].used = FALSE], PushFree(lists, c, a)>>
        ELSE <<Unlink(c, a), lists>>

\* Then the chunk is merged into an unused one before it, or put on a list.
AfterPrev(c, lists, a) ==
  LET p == c[a].prev
  IN  IF c[p].used
        THEN <<[c EXCEPT ![a].used = FALSE], PushFree(lists, c, a)>>
        ELSE <<Unlink(c, a), PushFree(RemoveFree(lists, c, p), Unlink(c, a), p)>>

\* operator delete: callers give back what they were given, once.
Free(p) ==
  LET a == Raw(p) - HEADER_SIZE
      merged == AfterNext(a)
      freed == AfterPrev(merged[1], merged[2], a)
  IN  /\ p \in DOMAIN live
      /\ chunk' = freed[1]
      /\ free_chunk' = freed[2]
      /\ live' = [q \in DOMAIN live \ {p} |-> live[q]]
      /\ UNCHANGED <<entry, tag>>

Next ==
  \/ AddRegion
  \/ \E size \in Sizes : Allocate(size)
  \/ \E r \in Aligned : AllocateAligned(r[1], r[2])
  \/ \E p \in DOMAIN live : Free(p)

Spec == Init /\ [][Next]_vars

-----------------------------------------------------------------------------
(* Properties *)

Regions == {MemoryMap[i] : i \in {j \in 1 .. entry - 1 :
              MemoryMap[j].usable /\ MemoryMap[j].size # 0 /\ RegionFits(MemoryMap[j])}}
Ends == {RegionEnd(m) - CHUNK_SIZE : m \in Regions}
Sentinels == {RegionFirst(m) : m \in Regions} \cup Ends

\* The rings tile the regions: next and prev undo each other, no chunk is too
\* small for its free-list links, no ring skips over another chunk, and each ring closes
\* at the end of its region.  Splitting and both merges cut and join the rings.
RingsSound ==
  \A a \in DOMAIN chunk :
    /\ chunk[chunk[a].next].prev = a
    /\ chunk[chunk[a].prev].next = a
    /\ IF a \in Ends
         THEN \E m \in Regions :
                a = RegionEnd(m) - CHUNK_SIZE /\ chunk[a].next = RegionFirst(m)
         ELSE /\ ChunkSize(chunk, a) >= MIN_SIZE
              /\ \A b \in DOMAIN chunk : ~(a < b /\ b < chunk[a].next)

\* A chunk is unused exactly when it is on a list, and then once and on the
\* list mrvn_free will remove it from, whatever its size was when it was put
\* there.  A chunk on another list would be handed out twice.
FreeListsExact ==
  \A a \in DOMAIN chunk : \A n \in Slots :
    Cardinality({i \in DOMAIN free_chunk[n] : free_chunk[n][i] = a})
      = IF ~chunk[a].used /\ n = Bucket(ChunkSize(chunk, a)) THEN 1 ELSE 0

\* Two unused chunks are never neighbours, whatever order blocks are freed in:
\* memory does not stay fragmented.
Coalesced == \A a \in DOMAIN chunk : chunk[a].used \/ chunk[chunk[a].next].used

\* The chunk structure as a whole: what every mrvn_ call needs and leaves.
HeapSound == RingsSound /\ FreeListsExact /\ Coalesced

\* The chunks in use are the sentinels and, one for one, the blocks callers own:
\* free finds the block of every pointer, tagged or not, and no chunk leaks.
NothingLeaked ==
  /\ {a \in DOMAIN chunk : chunk[a].used}
       = Sentinels \cup {Raw(p) - HEADER_SIZE : p \in DOMAIN live}
  /\ \A p, q \in DOMAIN live : Raw(p) = Raw(q) => p = q

\* No byte the allocator writes is in a block: not a header, not the links of an
\* unused chunk, not the tag of an aligned block.
MetadataApart ==
  \A p \in DOMAIN live :
    LET Outside(base, size) == base + size <= p \/ p + live[p][1] <= base
    IN  /\ \A a \in DOMAIN chunk :
             Outside(a, IF chunk[a].used THEN HEADER_SIZE ELSE CHUNK_SIZE)
        /\ \A q \in DOMAIN live \cap DOMAIN tag :
             Outside(q - ALIGNED_HEADER, ALIGNED_HEADER)

\* The heap implements Blocks: what callers get is inside a usable region,
\* aligned, and apart from everything still in use.
Abstract == INSTANCE Blocks WITH
  Extents <- {MemoryMap[i] : i \in {j \in DOMAIN MemoryMap : MemoryMap[j].usable}},
  blocks <- {[base |-> p, size |-> live[p][1], alignment |-> live[p][2]] :
              p \in DOMAIN live}
ImplementsBlocks == Abstract!Spec
=============================================================================
