---------------------------- MODULE KernelObjects ----------------------------
(***************************************************************************)
(* The objects behind Katline's syscalls: processes and their capabilities *)
(* (Syscalls/Process*.cppm), the handle table (HandleManager.cppm),        *)
(* reference-counted memory objects (Memory/MemoryObject.cppm), and the    *)
(* mappings and page-table entries that refer to them                      *)
(* (Syscalls/MemoryMapHelpers.cppm).                                       *)
(*                                                                         *)
(* A syscall runs with interrupts masked, and only the boot processor runs *)
(* user threads, so each syscall is one step.  A call that fails before it *)
(* changes anything is a stuttering step and has no action; a mapping that *)
(* fails half way is one (FailMap).                                        *)
(*                                                                         *)
(* Abstracted: an address is a page number, 0 is the null address; a       *)
(* page-table entry says which memory object's frame it maps; an           *)
(* identifier of a process, thread or memory object is used once.          *)
(***************************************************************************)
EXTENDS Naturals, FiniteSets

CONSTANTS
  Processes,     \* processes create_user_process can produce
  Bootstrap,     \* the first one, launched by the kernel with every capability
  Kernel,        \* k_process
  Threads,       \* threads of the user processes
  FirstThread,   \* the bootstrap thread
  Allocated,     \* memory objects backed by allocated frames
  MMIO,          \* memory objects backed by a device range
  BootInfo,      \* the boot-info blob, retained by the kernel itself
  None,          \* a null pointer, an empty page-table entry
  Capabilities,  \* the capabilities a process may hold
  ObjectPages,   \* pages in a memory object
  LastPage,      \* the last page below k_user_space_limit
  SearchStart,   \* the page find_free_user_region starts from
  MaxHandles,    \* bound on the handles opened in a behaviour
  LateFailures   \* whether a mapping may fail after its first page is mapped

Objects == Allocated \cup MMIO
Referents == Processes \cup Threads \cup Objects

ASSUME IdentityAssumption ==
  /\ Bootstrap \in Processes /\ Kernel \notin Processes
  /\ FirstThread \in Threads
  /\ BootInfo \in Allocated
  /\ Allocated \cap MMIO = {}
  /\ Processes \cap Threads = {}
  /\ Processes \cap Objects = {}
  /\ Threads \cap Objects = {}
  /\ None \notin Referents \cup {Kernel}
ASSUME BoundAssumption ==
  /\ ObjectPages \in Nat \ {0} /\ LastPage \in Nat
  /\ SearchStart \in Nat \ {0} /\ MaxHandles \in Nat
  /\ LateFailures \in BOOLEAN

VARIABLES
  parent,      \* Process::parent; None until the process is created
  caps,        \* Process::capabilities
  owner,       \* Thread::process; None until the thread is created
  handles,     \* HandleManager::m_entries
  nextHandle,  \* HandleManager::m_next_handle_id
  status,      \* of a memory object: unused, live, freed
  refs,        \* MemoryObject::ref_count, Process:: and Thread::handle_count
  mappings,    \* Process::mappings of all processes
  pte          \* the user page-table entries of all processes

vars == <<parent, caps, owner, handles, nextHandle, status, refs, mappings, pte>>

HandleRecords ==
  [id : Nat \ {0}, owner : Processes, object : Referents]
Pages == 1 .. LastPage
MappingRecords ==
  [process : Processes, base : Pages, count : Nat \ {0}, object : Objects]

TypeOK ==
  /\ parent \in [Processes -> Processes \cup {Kernel, None}]
  /\ caps \in [Processes -> SUBSET Capabilities]
  /\ owner \in [Threads -> Processes \cup {None}]
  /\ handles \subseteq HandleRecords /\ IsFiniteSet(handles)
  /\ nextHandle \in Nat \ {0}
  /\ status \in [Objects -> {"unused", "live", "freed"}]
  /\ refs \in [Referents -> Nat]
  /\ mappings \subseteq MappingRecords /\ IsFiniteSet(mappings)
  /\ pte \in [Processes \X Pages -> Objects \cup {None}]

\* katline_main up to launch_bootstrap_process: the boot-info object is built
\* and retained, and the bootstrap process has one thread and no handle.
Init ==
  /\ parent = [p \in Processes |-> IF p = Bootstrap THEN Kernel ELSE None]
  /\ caps = [p \in Processes |-> IF p = Bootstrap THEN Capabilities ELSE {}]
  /\ owner = [t \in Threads |-> IF t = FirstThread THEN Bootstrap ELSE None]
  /\ handles = {}
  /\ nextHandle = 1
  /\ status = [o \in Objects |-> IF o = BootInfo THEN "live" ELSE "unused"]
  /\ refs = [x \in Referents |-> IF x = BootInfo THEN 1 ELSE 0]
  /\ mappings = {}
  /\ pte = [e \in Processes \X Pages |-> None]

-----------------------------------------------------------------------------
(* Operators named ...Fault are plausible slips in the definition they     *)
(* precede; replacing that definition by the fault must break the property *)
(* it protects.                                                            *)

\* A process makes syscalls once it owns a thread.
Runs(p) == \E t \in Threads : owner[t] = p

\* find_entry: a handle is good only for the process that owns it.
Owns(p, h) == h \in handles /\ h.owner = p

SwappedDeltaFault(x) == [refs EXCEPT ![x] = @ - 1]

\* retain_object
Retain(x) == [refs EXCEPT ![x] = @ + 1]

\* release_object, release_memory_object
Release(x) == [refs EXCEPT ![x] = IF @ = 0 THEN 0 ELSE @ - 1]

FreesEarlyFault(o) ==
  IF o \in Objects /\ refs[o] <= 2 THEN [status EXCEPT ![o] = "freed"] ELSE status

\* What a release of the last reference does to a memory object: it is deleted
\* and its frames go back to the frame allocator.
StatusAfterRelease(o) ==
  IF o \in Objects /\ refs[o] = 1 THEN [status EXCEPT ![o] = "freed"] ELSE status

\* HandleManager::open, with the counts it leaves.
Open(p, x) ==
  /\ nextHandle <= MaxHandles
  /\ handles' = handles \cup {[id |-> nextHandle, owner |-> p, object |-> x]}
  /\ nextHandle' = nextHandle + 1
  /\ refs' = Retain(x)

-----------------------------------------------------------------------------
(* Processes, threads and capabilities *)

ProcessCreate(p, q) ==
  /\ Runs(p) /\ "ManageProcesses" \in caps[p]
  /\ parent[q] = None
  /\ parent' = [parent EXCEPT ![q] = p]
  /\ Open(p, q)
  /\ UNCHANGED <<caps, owner, status, mappings, pte>>

ProcessCurrent(p) ==
  /\ Runs(p)
  /\ Open(p, p)
  /\ UNCHANGED <<parent, caps, owner, status, mappings, pte>>

ThreadCreate(p, h, t) ==
  /\ Runs(p) /\ Owns(p, h) /\ h.object \in Processes
  /\ owner[t] = None
  /\ owner' = [owner EXCEPT ![t] = h.object]
  /\ Open(p, t)
  /\ UNCHANGED <<parent, caps, status, mappings, pte>>

ThreadCurrent(p, t) ==
  /\ owner[t] = p
  /\ Open(p, t)
  /\ UNCHANGED <<parent, caps, owner, status, mappings, pte>>

NotHeldFault(p, q, granted) == "ManageCaps" \in caps[p] /\ parent[q] = p

\* A grant goes from a parent to its child, out of the parent's own set.
MayGrant(p, q, granted) ==
  /\ "ManageCaps" \in caps[p]
  /\ parent[q] = p
  /\ granted \subseteq caps[p]

ProcessGrantCapabilities(p, h, granted) ==
  /\ Runs(p) /\ Owns(p, h) /\ h.object \in Processes
  /\ MayGrant(p, h.object, granted)
  /\ caps' = [caps EXCEPT ![h.object] = @ \cup granted]
  /\ UNCHANGED <<parent, owner, handles, nextHandle, status, refs, mappings, pte>>

-----------------------------------------------------------------------------
(* Handles *)

HandleDuplicate(p, h) ==
  /\ Runs(p) /\ Owns(p, h)
  /\ Open(p, h.object)
  /\ UNCHANGED <<parent, caps, owner, status, mappings, pte>>

HandleClose(p, h) ==
  /\ Runs(p) /\ Owns(p, h)
  /\ handles' = handles \ {h}
  /\ refs' = Release(h.object)
  /\ status' = StatusAfterRelease(h.object)
  /\ UNCHANGED <<parent, caps, owner, nextHandle, mappings, pte>>

-----------------------------------------------------------------------------
(* Memory objects *)

\* sys_memory_create
MemoryCreate(p, o) ==
  /\ Runs(p)
  /\ o \in Allocated /\ status[o] = "unused"
  /\ status' = [status EXCEPT ![o] = "live"]
  /\ Open(p, o)
  /\ UNCHANGED <<parent, caps, owner, mappings, pte>>

\* The kernel's answer to GetBootInfo: one more handle to the blob it keeps.
BootInfoReply(p) ==
  /\ Runs(p)
  /\ Open(p, BootInfo)
  /\ UNCHANGED <<parent, caps, owner, status, mappings, pte>>

\* The same with the sender's mailbox full: the handle is closed again.
BootInfoReplyDropped(p) ==
  /\ Runs(p)
  /\ nextHandle <= MaxHandles
  /\ nextHandle' = nextHandle + 1
  /\ UNCHANGED <<parent, caps, owner, handles, status, refs, mappings, pte>>

\* The answers to GetBootModule..., GetCmdline... and GetFramebuffer...: a new
\* object, with a handle for the sender.
BootObjectReply(p, o) ==
  /\ Runs(p)
  /\ status[o] = "unused"
  /\ status' = [status EXCEPT ![o] = "live"]
  /\ Open(p, o)
  /\ UNCHANGED <<parent, caps, owner, mappings, pte>>

\* The same with the mailbox full: closing the handle deletes the object.
BootObjectReplyDropped(p, o) ==
  /\ Runs(p)
  /\ status[o] = "unused"
  /\ nextHandle <= MaxHandles
  /\ nextHandle' = nextHandle + 1
  /\ status' = [status EXCEPT ![o] = "freed"]
  /\ UNCHANGED <<parent, caps, owner, handles, refs, mappings, pte>>

-----------------------------------------------------------------------------
(* Mappings *)

Span(base, count) == base .. (base + count - 1)
MappingSpan(m) == Span(m.base, m.count)

LastPageOpenFault(q, base, count) ==
  \A m \in mappings :
    m.process = q =>
      Span(m.base, m.count - 1) \cap Span(base, count) = {}

\* range_overlaps against every mapping of the process.
RegionFree(q, base, count) ==
  \A m \in mappings :
    m.process = q => MappingSpan(m) \cap Span(base, count) = {}

\* Bases a mapping of `count` pages may use: can_use_requested_base for an
\* address the caller asks for, find_free_user_region (the lowest free region
\* from SearchStart on) when it asks for none.
UsableBases(q, count) ==
  {b \in Pages : b + count - 1 <= LastPage /\ RegionFree(q, b, count)}

ChosenBase(q, count, requested) ==
  LET free == {b \in UsableBases(q, count) : b >= SearchStart}
  IN IF requested # 0
     THEN {b \in UsableBases(q, count) : b = requested}
     ELSE {b \in free : \A c \in free : b <= c}

\* What map_memory_object tests before it retains the object: caller p, target
\* process q.  The capability of the caller counts, not that of the target.
MapAllowed(p, o, count) ==
  /\ o \in Objects
  /\ count \in 1 .. ObjectPages
  /\ o \in MMIO => "MapMMIO" \in caps[p]

WrongRootFault(q, pages, value) ==
  [e \in DOMAIN pte |-> IF e[2] \in pages THEN value ELSE pte[e]]

\* The page tables after `pages` of process q are all set to `value`.
SetPages(q, pages, value) ==
  [e \in DOMAIN pte |-> IF e[1] = q /\ e[2] \in pages THEN value ELSE pte[e]]

NoRetainFault(o) == refs

\* The reference a mapping keeps on its object.
RefsAfterMap(o) == Retain(o)

\* map_memory_object as far as it can succeed.
Map(p, q, o, count, requested) ==
  /\ MapAllowed(p, o, count)
  /\ \E base \in ChosenBase(q, count, requested) :
       /\ pte' = SetPages(q, Span(base, count), o)
       /\ mappings' = mappings \cup
            {[process |-> q, base |-> base, count |-> count, object |-> o]}
  /\ refs' = RefsAfterMap(o)
  /\ UNCHANGED <<parent, caps, owner, handles, nextHandle, status>>

\* A failed mapping gives its reference back; the handle's one remains.
RefsAfterFailedMap(o) == refs

\* The same call failing once `done` pages are mapped: no frame for a page
\* table, or an out pointer copy_out refuses.  The Cleanup guard is declared
\* before the list of mapped pages and so runs after that list is destroyed:
\* rollback_mappings reads a dead object, and any of the pages may stay.
FailMap(p, q, o, count, requested) ==
  /\ LateFailures
  /\ MapAllowed(p, o, count)
  /\ \E base \in ChosenBase(q, count, requested), done \in 1 .. count :
       \E kept \in SUBSET Span(base, done) :
         pte' = [e \in DOMAIN pte |->
                   IF e[1] # q \/ e[2] \notin Span(base, done) THEN pte[e]
                   ELSE IF e[2] \in kept THEN o ELSE None]
  /\ refs' = RefsAfterFailedMap(o)
  /\ UNCHANGED <<parent, caps, owner, handles, nextHandle, status, mappings>>

\* sys_memory_map, as it succeeds and as it fails late.
MemoryMapped(p, h, count) ==
  Runs(p) /\ Owns(p, h) /\ Map(p, p, h.object, count, 0)

MemoryMapFailed(p, h, count) ==
  Runs(p) /\ Owns(p, h) /\ FailMap(p, p, h.object, count, 0)

MemoryMap(p, h, count) == MemoryMapped(p, h, count) \/ MemoryMapFailed(p, h, count)

\* sys_process_memory_map
ProcessMemoryMapped(p, g, h, count, requested) ==
  /\ Runs(p) /\ Owns(p, g) /\ Owns(p, h) /\ g.object \in Processes
  /\ Map(p, g.object, h.object, count, requested)

ProcessMemoryMapFailed(p, g, h, count, requested) ==
  /\ Runs(p) /\ Owns(p, g) /\ Owns(p, h) /\ g.object \in Processes
  /\ FailMap(p, g.object, h.object, count, requested)

ProcessMemoryMap(p, g, h, count, requested) ==
  \/ ProcessMemoryMapped(p, g, h, count, requested)
  \/ ProcessMemoryMapFailed(p, g, h, count, requested)

\* unmap_memory_object of mapping m: entries are cleared in order up to one
\* that is not present, and only then is the mapping forgotten.
Unmap(m) ==
  LET q == m.process
      absent == {b \in MappingSpan(m) : pte[<<q, b>>] = None}
      cleared == {b \in MappingSpan(m) : \A a \in absent : b < a}
  IN /\ pte' = SetPages(q, cleared, None)
     /\ IF absent = {}
        THEN /\ mappings' = mappings \ {m}
             /\ refs' = Release(m.object)
             /\ status' = StatusAfterRelease(m.object)
        ELSE UNCHANGED <<mappings, refs, status>>
     /\ UNCHANGED <<parent, caps, owner, handles, nextHandle>>

\* sys_memory_unmap
MemoryUnmap(p, m) ==
  /\ Runs(p)
  /\ m.process = p
  /\ Unmap(m)

\* sys_process_memory_unmap
ProcessMemoryUnmap(p, g, m) ==
  /\ Runs(p) /\ "ManageProcesses" \in caps[p]
  /\ Owns(p, g) /\ m.process = g.object
  /\ Unmap(m)

-----------------------------------------------------------------------------

Next ==
  \E p \in Processes :
    \/ \E q \in Processes : ProcessCreate(p, q)
    \/ ProcessCurrent(p)
    \/ \E h \in handles, t \in Threads : ThreadCreate(p, h, t)
    \/ \E t \in Threads : ThreadCurrent(p, t)
    \/ \E h \in handles, granted \in SUBSET Capabilities :
         ProcessGrantCapabilities(p, h, granted)
    \/ \E h \in handles : HandleDuplicate(p, h) \/ HandleClose(p, h)
    \/ \E o \in Objects :
         MemoryCreate(p, o) \/ BootObjectReply(p, o) \/ BootObjectReplyDropped(p, o)
    \/ BootInfoReply(p) \/ BootInfoReplyDropped(p)
    \/ \E h \in handles, n \in 1 .. ObjectPages : MemoryMap(p, h, n)
    \/ \E g, h \in handles, n \in 1 .. ObjectPages, b \in 0 .. LastPage :
         ProcessMemoryMap(p, g, h, n, b)
    \/ \E m \in mappings : MemoryUnmap(p, m)
    \/ \E g \in handles, m \in mappings : ProcessMemoryUnmap(p, g, m)

Spec == Init /\ [][Next]_vars

-----------------------------------------------------------------------------
(* Properties *)

\* The handles, or the mappings, of a set that refer to x.
To(records, x) == {r \in records : r.object = x}

\* The reference nobody's handle or mapping accounts for.
KernelReferences(x) == IF x = BootInfo THEN 1 ELSE 0

\* Counts are exact after every sequence of opens, duplicates, closes, maps,
\* unmaps and dropped replies: handles plus mappings, plus the reference the
\* kernel keeps on the boot-info object.
RefcountExact ==
  \A x \in Referents :
    refs[x] = Cardinality(To(handles, x)) + Cardinality(To(mappings, x))
                + KernelReferences(x)

\* No handle and no mapping outlives its memory object, and an object nothing
\* refers to any more is not kept: it is live exactly while a handle, a mapping
\* or the kernel refers to it.
LiveWhileReferenced ==
  \A o \in Objects :
    status[o] = "live" <=>
      To(handles, o) # {} \/ To(mappings, o) # {} \/ o = BootInfo

\* Two mappings of a process never share a page, whoever asked for them.
MappingsDisjoint ==
  \A m, n \in mappings :
    m # n /\ m.process = n.process => MappingSpan(m) \cap MappingSpan(n) = {}

\* The page tables say what the mapping list says: a page is mapped to an
\* object's frame exactly when a mapping of that object covers it.
PagesMatchMappings ==
  \A q \in Processes, b \in Pages, o \in Objects :
    pte[<<q, b>>] = o <=>
      \E m \in mappings : m.process = q /\ m.object = o /\ b \in MappingSpan(m)

\* Of a mapping a process was given every page is there, whatever other mappings
\* failed half way before or since, and wherever these were tried.
MappingsPresent ==
  \A m \in mappings, b \in Pages :
    b \in MappingSpan(m) => pte[<<m.process, b>>] = m.object

\* Frames handed back to the frame allocator are mapped by nobody.
FreedFramesUnmapped ==
  \A e \in Processes \X Pages :
    pte[e] # None => status[pte[e]] = "live"

\* Authority only shrinks down the process tree: whatever grants are made in
\* whatever order, a process holds no capability its parent does not hold.
CapabilitiesConfined ==
  \A p \in Processes :
    /\ parent[p] \in Processes => caps[p] \subseteq caps[parent[p]]
    /\ parent[p] = None => caps[p] = {}
=============================================================================
