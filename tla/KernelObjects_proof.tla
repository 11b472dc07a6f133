------------------------- MODULE KernelObjects_proof -------------------------
(***************************************************************************)
(* Theorems about KernelObjects for every set of processes, threads and    *)
(* memory objects, and every bound.                                        *)
(***************************************************************************)
EXTENDS KernelObjects, FiniteSetTheorems, TLAPS

-----------------------------------------------------------------------------
(* Type correctness *)

\* What HandleManager::open preserves, whichever syscall calls it.
LEMMA OpenType ==
  ASSUME TypeOK, NEW p \in Processes, NEW x \in Referents, Open(p, x)
  PROVE  /\ handles' \subseteq HandleRecords /\ IsFiniteSet(handles')
         /\ nextHandle' \in Nat \ {0}
         /\ refs' \in [Referents -> Nat]
<1>1. [id |-> nextHandle, owner |-> p, object |-> x] \in HandleRecords
  BY DEF TypeOK, HandleRecords
<1>2. handles' \subseteq HandleRecords
  BY <1>1 DEF Open, TypeOK
<1>3. IsFiniteSet(handles')
  BY FS_AddElement DEF Open, TypeOK
<1>4. nextHandle' \in Nat \ {0} /\ refs' \in [Referents -> Nat]
  BY DEF Open, Retain, TypeOK
<1>5. QED BY <1>2, <1>3, <1>4

\* Giving a reference back keeps the counts natural and the status a status.
LEMMA ReleaseType ==
  ASSUME TypeOK, NEW x \in Referents
  PROVE  /\ Release(x) \in [Referents -> Nat]
         /\ StatusAfterRelease(x) \in [Objects -> {"unused", "live", "freed"}]
<1>1. refs \in [Referents -> Nat] /\ status \in [Objects -> {"unused", "live", "freed"}]
  BY DEF TypeOK
<1>2. (IF refs[x] = 0 THEN 0 ELSE refs[x] - 1) \in Nat
  BY <1>1
<1>3. Release(x) \in [Referents -> Nat]
  BY <1>1, <1>2 DEF Release
<1>4. StatusAfterRelease(x) \in [Objects -> {"unused", "live", "freed"}]
  BY <1>1 DEF StatusAfterRelease
<1>5. QED BY <1>3, <1>4

\* A successful and a failed mapping, for any caller and target.
LEMMA MapType ==
  ASSUME TypeOK, NEW p \in Processes, NEW q \in Processes, NEW o \in Referents,
         NEW n \in 1 .. ObjectPages, NEW b, Map(p, q, o, n, b)
  PROVE  TypeOK'
<1>1. o \in Objects
  BY DEF Map, MapAllowed
<1>2. PICK base \in ChosenBase(q, n, b) :
        /\ pte' = SetPages(q, Span(base, n), o)
        /\ mappings' = mappings \cup
             {[process |-> q, base |-> base, count |-> n, object |-> o]}
  BY DEF Map
<1>3. base \in Pages
  BY DEF ChosenBase, UsableBases
<1>4. n \in Nat \ {0}
  BY BoundAssumption
<1>5. mappings' \subseteq MappingRecords
  BY <1>1, <1>2, <1>3, <1>4 DEF TypeOK, MappingRecords
<1>6. IsFiniteSet(mappings')
  BY <1>2, FS_AddElement DEF TypeOK
<1>7. pte' \in [Processes \X Pages -> Objects \cup {None}]
  BY <1>1, <1>2 DEF TypeOK, SetPages
<1>8. refs' \in [Referents -> Nat]
  BY DEF Map, RefsAfterMap, Retain, TypeOK
<1>9. QED
  BY <1>5, <1>6, <1>7, <1>8 DEF Map, TypeOK

LEMMA FailMapType ==
  ASSUME TypeOK, NEW p \in Processes, NEW q \in Processes, NEW o \in Referents,
         NEW n \in 1 .. ObjectPages, NEW b, FailMap(p, q, o, n, b)
  PROVE  TypeOK'
<1>1. o \in Objects
  BY DEF FailMap, MapAllowed
<1>2. pte' \in [Processes \X Pages -> Objects \cup {None}]
  BY <1>1 DEF FailMap, TypeOK
<1>3. QED
  BY <1>2 DEF FailMap, RefsAfterFailedMap, TypeOK

LEMMA UnmapType ==
  ASSUME TypeOK, NEW m \in mappings, Unmap(m)
  PROVE  TypeOK'
<1>1. pte' \in [Processes \X Pages -> Objects \cup {None}]
  BY DEF Unmap, SetPages, TypeOK
<1>2. /\ mappings' \subseteq MappingRecords
      /\ IsFiniteSet(mappings')
  BY FS_RemoveElement DEF Unmap, TypeOK
<1>3. /\ refs' \in [Referents -> Nat]
      /\ status' \in [Objects -> {"unused", "live", "freed"}]
  <2>1. m.object \in Referents
    BY DEF TypeOK, MappingRecords, Referents
  <2>2. QED BY <2>1, ReleaseType DEF Unmap, TypeOK
<1>4. QED
  BY <1>1, <1>2, <1>3 DEF Unmap, TypeOK

LEMMA InitType == Init => TypeOK
BY IdentityAssumption, FS_EmptySet
DEF Init, TypeOK, Referents, Objects

LEMMA NextType == TypeOK /\ [Next]_vars => TypeOK'
<1> SUFFICES ASSUME TypeOK, [Next]_vars PROVE TypeOK'
  OBVIOUS
<1> USE DEF Referents
<1>a. CASE UNCHANGED vars
  BY <1>a DEF vars, TypeOK
<1>b. CASE Next
  <2>1. ASSUME NEW p \in Processes, NEW q \in Processes, ProcessCreate(p, q)
        PROVE TypeOK'
    BY <2>1, OpenType DEF ProcessCreate, TypeOK
  <2>2. ASSUME NEW p \in Processes, ProcessCurrent(p)
        PROVE TypeOK'
    BY <2>2, OpenType DEF ProcessCurrent, TypeOK
  <2>3. ASSUME NEW p \in Processes, NEW h \in handles, NEW t \in Threads,
               ThreadCreate(p, h, t)
        PROVE TypeOK'
    BY <2>3, OpenType DEF ThreadCreate, TypeOK
  <2>4. ASSUME NEW p \in Processes, NEW t \in Threads, ThreadCurrent(p, t)
        PROVE TypeOK'
    BY <2>4, OpenType DEF ThreadCurrent, TypeOK
  <2>5. ASSUME NEW p \in Processes, NEW h \in handles,
               NEW granted \in SUBSET Capabilities,
               ProcessGrantCapabilities(p, h, granted)
        PROVE TypeOK'
    BY <2>5 DEF ProcessGrantCapabilities, TypeOK
  <2>6. ASSUME NEW p \in Processes, NEW h \in handles, HandleDuplicate(p, h)
        PROVE TypeOK'
    <3>1. h.object \in Referents
      BY DEF TypeOK, HandleRecords
    <3>2. QED BY <2>6, <3>1, OpenType DEF HandleDuplicate, TypeOK
  <2>7. ASSUME NEW p \in Processes, NEW h \in handles, HandleClose(p, h)
        PROVE TypeOK'
    <3>1. IsFiniteSet(handles') /\ handles' \subseteq HandleRecords
      BY <2>7, FS_RemoveElement DEF HandleClose, TypeOK
    <3>2. h.object \in Referents
      BY DEF TypeOK, HandleRecords
    <3>3. QED BY <2>7, <3>1, <3>2, ReleaseType DEF HandleClose, TypeOK
  <2>8. ASSUME NEW p \in Processes, NEW o \in Objects, MemoryCreate(p, o)
        PROVE TypeOK'
    BY <2>8, OpenType DEF MemoryCreate, TypeOK
  <2>9. ASSUME NEW p \in Processes, NEW o \in Objects, BootObjectReply(p, o)
        PROVE TypeOK'
    BY <2>9, OpenType DEF BootObjectReply, TypeOK
  <2>10. ASSUME NEW p \in Processes, NEW o \in Objects,
                BootObjectReplyDropped(p, o)
         PROVE TypeOK'
    BY <2>10 DEF BootObjectReplyDropped, TypeOK
  <2>11. ASSUME NEW p \in Processes, BootInfoReply(p)
         PROVE TypeOK'
    <3>1. BootInfo \in Referents
      BY IdentityAssumption DEF Objects
    <3>2. QED BY <2>11, <3>1, OpenType DEF BootInfoReply, TypeOK
  <2>12. ASSUME NEW p \in Processes, BootInfoReplyDropped(p)
         PROVE TypeOK'
    BY <2>12 DEF BootInfoReplyDropped, TypeOK
  <2>13. ASSUME NEW p \in Processes, NEW h \in handles,
                NEW n \in 1 .. ObjectPages, MemoryMap(p, h, n)
         PROVE TypeOK'
    <3>1. h.object \in Referents
      BY DEF TypeOK, HandleRecords
    <3>2. QED
      BY <2>13, <3>1, MapType, FailMapType
      DEF MemoryMap, MemoryMapped, MemoryMapFailed
  <2>14. ASSUME NEW p \in Processes, NEW g \in handles, NEW h \in handles,
                NEW n \in 1 .. ObjectPages, NEW b \in 0 .. LastPage,
                ProcessMemoryMap(p, g, h, n, b)
         PROVE TypeOK'
    <3>1. h.object \in Referents /\ g.object \in Processes
      BY <2>14 DEF TypeOK, HandleRecords, ProcessMemoryMap, ProcessMemoryMapped,
             ProcessMemoryMapFailed
    <3>2. QED
      BY <2>14, <3>1, MapType, FailMapType
      DEF ProcessMemoryMap, ProcessMemoryMapped, ProcessMemoryMapFailed
  <2>15. ASSUME NEW p \in Processes, NEW m \in mappings, MemoryUnmap(p, m)
         PROVE TypeOK'
    BY <2>15, UnmapType DEF MemoryUnmap
  <2>16. ASSUME NEW p \in Processes, NEW g \in handles, NEW m \in mappings,
                ProcessMemoryUnmap(p, g, m)
         PROVE TypeOK'
    BY <2>16, UnmapType DEF ProcessMemoryUnmap
  <2>17. QED
    BY <1>b, <2>1, <2>2, <2>3, <2>4, <2>5, <2>6, <2>7, <2>8, <2>9, <2>10, <2>11,
       <2>12, <2>13, <2>14, <2>15, <2>16 DEF Next
<1>c. QED BY <1>a, <1>b

\* Every reachable state is well typed: handle ids never reach the invalid id 0,
\* counts never go below zero, and the tables stay finite.
THEOREM TypeCorrect == Spec => []TypeOK
<1>1. QED BY InitType, NextType, PTL DEF Spec

-----------------------------------------------------------------------------
(* Capabilities *)

\* Only two syscalls touch the process tree or the capability sets.
LEMMA CapabilitySteps ==
  ASSUME Next
  PROVE  \/ UNCHANGED <<parent, caps>>
         \/ \E p, q \in Processes : ProcessCreate(p, q)
         \/ \E p \in Processes, h \in handles, granted \in SUBSET Capabilities :
              ProcessGrantCapabilities(p, h, granted)
<1>1. ASSUME NEW p, NEW q, NEW o, NEW n, NEW b, Map(p, q, o, n, b) \/ FailMap(p, q, o, n, b)
      PROVE  UNCHANGED <<parent, caps>>
  BY <1>1 DEF Map, FailMap
<1>2. ASSUME NEW m, Unmap(m)
      PROVE  UNCHANGED <<parent, caps>>
  BY <1>2 DEF Unmap
<1>3. CASE \E p \in Processes, h \in handles, n \in 1 .. ObjectPages : MemoryMap(p, h, n)
  BY <1>1, <1>3 DEF MemoryMap, MemoryMapped, MemoryMapFailed
<1>4. CASE \E p \in Processes, g, h \in handles, n \in 1 .. ObjectPages,
              b \in 0 .. LastPage : ProcessMemoryMap(p, g, h, n, b)
  BY <1>1, <1>4 DEF ProcessMemoryMap, ProcessMemoryMapped, ProcessMemoryMapFailed
<1>5. CASE \E p \in Processes, m \in mappings :
             MemoryUnmap(p, m) \/ \E g \in handles : ProcessMemoryUnmap(p, g, m)
  BY <1>2, <1>5 DEF MemoryUnmap, ProcessMemoryUnmap
<1>6. QED
  BY <1>3, <1>4, <1>5
  DEF Next, ProcessCurrent, ThreadCreate, ThreadCurrent, HandleDuplicate,
      HandleClose, MemoryCreate, BootInfoReply, BootInfoReplyDropped,
      BootObjectReply, BootObjectReplyDropped

\* A new process has its creator's identity as parent and no capability.
LEMMA CreateConfined ==
  ASSUME TypeOK, CapabilitiesConfined,
         NEW p \in Processes, NEW q \in Processes, ProcessCreate(p, q)
  PROVE  CapabilitiesConfined'
<1>1. parent[q] = None /\ caps[q] = {} /\ caps' = caps
  BY DEF ProcessCreate, CapabilitiesConfined
<1>2. parent' = [parent EXCEPT ![q] = p]
  BY DEF ProcessCreate
<1>3. ASSUME NEW r \in Processes
      PROVE  /\ parent'[r] \in Processes => caps'[r] \subseteq caps'[parent'[r]]
             /\ parent'[r] = None => caps'[r] = {}
  <2>1. CASE r = q
    BY <1>1, <2>1
  <2>2. CASE r # q
    <3>1. parent'[r] = parent[r]
      BY <1>2, <2>2 DEF TypeOK
    <3>2. QED BY <1>1, <3>1 DEF CapabilitiesConfined
  <2>3. QED BY <2>1, <2>2
<1>4. QED BY <1>3 DEF CapabilitiesConfined

\* A grant enlarges the child's set, which its own children are confined to,
\* with nothing its parent does not hold.
LEMMA GrantConfined ==
  ASSUME TypeOK, CapabilitiesConfined, NEW p \in Processes, NEW h \in handles,
         NEW granted \in SUBSET Capabilities, ProcessGrantCapabilities(p, h, granted)
  PROVE  CapabilitiesConfined'
<1> DEFINE q == h.object
<1>1. /\ q \in Processes /\ parent[q] = p /\ granted \subseteq caps[p]
      /\ caps' = [caps EXCEPT ![q] = @ \cup granted] /\ parent' = parent
  BY DEF ProcessGrantCapabilities, MayGrant
<1>2. \A r \in Processes : caps[r] \subseteq caps'[r]
  BY <1>1 DEF TypeOK
<1>3. ASSUME NEW r \in Processes
      PROVE  /\ parent'[r] \in Processes => caps'[r] \subseteq caps'[parent'[r]]
             /\ parent'[r] = None => caps'[r] = {}
  <2>1. CASE r = q
    <3>1. caps'[r] = caps[r] \cup granted
      BY <1>1, <2>1 DEF TypeOK
    <3>2. caps[r] \subseteq caps[p] /\ parent'[r] = p /\ p # None
      BY <1>1, <2>1, IdentityAssumption DEF CapabilitiesConfined, Referents
    <3>3. QED BY <1>1, <1>2, <3>1, <3>2
  <2>2. CASE r # q
    <3>1. caps'[r] = caps[r] /\ parent'[r] = parent[r]
      BY <1>1, <2>2 DEF TypeOK
    <3>2. QED BY <1>2, <3>1 DEF CapabilitiesConfined
  <2>3. QED BY <2>1, <2>2
<1>4. QED BY <1>3 DEF CapabilitiesConfined

\* For every process tree and every order of creations and grants, a process
\* holds no capability its parent lacks.
THEOREM CapabilitiesStayConfined == Spec => []CapabilitiesConfined
<1>1. Init => CapabilitiesConfined
  BY IdentityAssumption DEF Init, CapabilitiesConfined, Referents
<1>2. TypeOK /\ CapabilitiesConfined /\ [Next]_vars => CapabilitiesConfined'
  <2>1. CASE UNCHANGED vars
    BY <2>1 DEF vars, CapabilitiesConfined
  <2>2. CASE TypeOK /\ CapabilitiesConfined /\ Next
    BY <2>2, CapabilitySteps, CreateConfined, GrantConfined
    DEF CapabilitiesConfined
  <2>3. QED BY <2>1, <2>2
<1>3. QED BY <1>1, <1>2, TypeCorrect, PTL DEF Spec

-----------------------------------------------------------------------------
(* Mappings *)

\* Only a mapping adds to the mapping list, and only an unmapping shortens it;
\* the page tables change with it, or when a mapping fails half way.
LEMMA MappingSteps ==
  ASSUME TypeOK, Next
  PROVE  \/ UNCHANGED <<mappings, pte>>
         \/ \E p, q \in Processes, o \in Objects, n \in 1 .. ObjectPages,
               b \in 0 .. LastPage : Map(p, q, o, n, b)
         \/ \E p, q \in Processes, o \in Objects, n \in 1 .. ObjectPages,
               b \in 0 .. LastPage : FailMap(p, q, o, n, b)
         \/ \E m \in mappings : Unmap(m)
<1> DEFINE Maps(p, q, o, n, b) == Map(p, q, o, n, b) \/ FailMap(p, q, o, n, b)
<1>a. ASSUME NEW p, NEW q, NEW o, NEW n, NEW b, Maps(p, q, o, n, b)
      PROVE  o \in Objects /\ n \in 1 .. ObjectPages
  BY <1>a DEF Map, FailMap, MapAllowed
<1>1. CASE \E p \in Processes, h \in handles, n \in 1 .. ObjectPages : MemoryMap(p, h, n)
  <2>1. PICK p \in Processes, h \in handles, n \in 1 .. ObjectPages :
          Maps(p, p, h.object, n, 0)
    BY <1>1 DEF MemoryMap, MemoryMapped, MemoryMapFailed
  <2>2. 0 \in 0 .. LastPage /\ h.object \in Objects
    BY <1>a, <2>1, BoundAssumption
  <2>3. QED BY <2>1, <2>2
<1>2. CASE \E p \in Processes, g, h \in handles, n \in 1 .. ObjectPages,
              b \in 0 .. LastPage : ProcessMemoryMap(p, g, h, n, b)
  <2>1. PICK p \in Processes, g \in handles, h \in handles, n \in 1 .. ObjectPages,
             b \in 0 .. LastPage :
          g.object \in Processes /\ Maps(p, g.object, h.object, n, b)
    BY <1>2 DEF ProcessMemoryMap, ProcessMemoryMapped, ProcessMemoryMapFailed
  <2>2. h.object \in Objects
    BY <1>a, <2>1
  <2>3. QED BY <2>1, <2>2
<1>3. CASE \E m \in mappings : Unmap(m)
  BY <1>3
<1>4. QED
  BY <1>1, <1>2, <1>3
  DEF Next, ProcessCreate, ProcessCurrent, ThreadCreate, ThreadCurrent,
      ProcessGrantCapabilities, HandleDuplicate, HandleClose, MemoryCreate,
      BootInfoReply, BootInfoReplyDropped, BootObjectReply,
      BootObjectReplyDropped, MemoryUnmap, ProcessMemoryUnmap

\* Whatever addresses are asked for or chosen, mappings of a process keep to
\* pages of their own.
THEOREM MappingsStayDisjoint == Spec => []MappingsDisjoint
<1>1. Init => MappingsDisjoint
  BY DEF Init, MappingsDisjoint
<1>2. TypeOK /\ MappingsDisjoint /\ [Next]_vars => MappingsDisjoint'
  <2> SUFFICES ASSUME TypeOK, MappingsDisjoint, [Next]_vars
               PROVE  MappingsDisjoint'
    OBVIOUS
  <2>1. CASE UNCHANGED mappings
    BY <2>1 DEF MappingsDisjoint, MappingSpan
  <2>2. ASSUME NEW p \in Processes, NEW q \in Processes, NEW o \in Objects,
               NEW n \in 1 .. ObjectPages, NEW b \in 0 .. LastPage, Map(p, q, o, n, b)
        PROVE  MappingsDisjoint'
    <3>1. PICK base \in ChosenBase(q, n, b) :
            mappings' = mappings \cup
              {[process |-> q, base |-> base, count |-> n, object |-> o]}
      BY <2>2 DEF Map
    <3>2. RegionFree(q, base, n)
      BY <3>1 DEF ChosenBase, UsableBases
    <3>3. QED
      BY <3>1, <3>2 DEF MappingsDisjoint, RegionFree, MappingSpan
  <2>3. ASSUME NEW m \in mappings, Unmap(m)
        PROVE  MappingsDisjoint'
    <3>1. mappings' \subseteq mappings
      BY <2>3 DEF Unmap
    <3>2. QED BY <3>1 DEF MappingsDisjoint, MappingSpan
  <2>4. QED BY <2>1, <2>2, <2>3, MappingSteps DEF vars, FailMap
<1>3. QED BY <1>1, <1>2, TypeCorrect, PTL DEF Spec

-----------------------------------------------------------------------------
(* Reference counts: the counts are exact, and a memory object is live     *)
(* exactly while something refers to it.                                   *)

\* An id is never issued twice, so opening a handle adds a record.
FreshIds == \A h \in handles : h.id < nextHandle

\* A memory object is deleted by the release that takes its count to zero, and
\* not before.
LiveCounted == \A o \in Objects : status[o] = "live" <=> refs[o] > 0

\* RefcountExact is not inductive without the other two: it needs records to be
\* distinct, and a release of a count already at zero would be ignored.
Counted == FreshIds /\ RefcountExact /\ LiveCounted
IInv == TypeOK /\ Counted

-----------------------------------------------------------------------------
(* Counting records *)

LEMMA CountIsNat ==
  ASSUME NEW S, IsFiniteSet(S), NEW x
  PROVE  IsFiniteSet(To(S, x)) /\ Cardinality(To(S, x)) \in Nat
<1>1. To(S, x) \in SUBSET S
  BY DEF To
<1>2. QED BY <1>1, FS_Subset, FS_CardinalityType

LEMMA AddRecord ==
  ASSUME NEW S, IsFiniteSet(S), NEW e, e \notin S, NEW x
  PROVE  Cardinality(To(S \cup {e}, x)) =
           Cardinality(To(S, x)) + (IF e.object = x THEN 1 ELSE 0)
<1>1. IsFiniteSet(To(S, x)) /\ Cardinality(To(S, x)) \in Nat
  BY CountIsNat
<1>2. CASE e.object = x
  <2>1. To(S \cup {e}, x) = To(S, x) \cup {e} /\ e \notin To(S, x)
    BY <1>2 DEF To
  <2>2. Cardinality(To(S, x) \cup {e}) = Cardinality(To(S, x)) + 1
    BY <1>1, <2>1, FS_AddElement
  <2>3. QED BY <1>2, <2>1, <2>2
<1>3. CASE e.object # x
  <2>1. To(S \cup {e}, x) = To(S, x)
    BY <1>3 DEF To
  <2>2. QED BY <1>1, <1>3, <2>1
<1>4. QED BY <1>2, <1>3

LEMMA DropRecord ==
  ASSUME NEW S, IsFiniteSet(S), NEW e \in S, NEW x
  PROVE  Cardinality(To(S, x)) =
           Cardinality(To(S \ {e}, x)) + (IF e.object = x THEN 1 ELSE 0)
<1>1. IsFiniteSet(S \ {e}) /\ e \notin S \ {e} /\ (S \ {e}) \cup {e} = S
  BY FS_RemoveElement
<1>2. QED BY <1>1, AddRecord

-----------------------------------------------------------------------------
(* What a step does to the counts *)

\* The counts when one record for x is added and x is retained.
LEMMA RetainLive ==
  ASSUME TypeOK, LiveCounted, NEW x \in Referents, refs' = Retain(x),
         \/ status' = status /\ (x \in Objects => status[x] = "live")
         \/ x \in Objects /\ status' = [status EXCEPT ![x] = "live"]
  PROVE  LiveCounted'
<1> SUFFICES ASSUME NEW o \in Objects PROVE status'[o] = "live" <=> refs'[o] > 0
  BY DEF LiveCounted
<1>1. o \in Referents /\ refs[o] \in Nat /\ status[o] \in {"unused", "live", "freed"}
  BY DEF TypeOK, Referents
<1>2. CASE o = x
  <2>1. refs'[o] = refs[o] + 1
    BY <1>1, <1>2 DEF Retain, TypeOK
  <2>2. status'[o] = "live"
    BY <1>2 DEF TypeOK
  <2>3. QED BY <1>1, <2>1, <2>2
<1>3. CASE o # x
  <2>1. refs'[o] = refs[o] /\ status'[o] = status[o]
    BY <1>1, <1>3 DEF Retain, TypeOK
  <2>2. QED BY <2>1 DEF LiveCounted
<1>4. QED BY <1>2, <1>3

LEMMA ReleaseLive ==
  ASSUME TypeOK, LiveCounted, NEW x \in Referents, refs[x] > 0,
         refs' = Release(x), status' = StatusAfterRelease(x)
  PROVE  LiveCounted'
<1> SUFFICES ASSUME NEW o \in Objects PROVE status'[o] = "live" <=> refs'[o] > 0
  BY DEF LiveCounted
<1>1. o \in Referents /\ refs[o] \in Nat
  BY DEF TypeOK, Referents
<1>2. CASE o = x
  <2>1. refs'[o] = refs[o] - 1
    BY <1>1, <1>2 DEF Release, TypeOK
  <2>2. status'[o] = IF refs[o] = 1 THEN "freed" ELSE status[o]
    BY <1>2 DEF StatusAfterRelease, TypeOK
  <2>3. status[o] = "live"
    BY <1>2 DEF LiveCounted
  <2>4. QED BY <1>1, <1>2, <2>1, <2>2, <2>3
<1>3. CASE o # x
  <2>1. refs'[o] = refs[o] /\ status'[o] = status[o]
    BY <1>1, <1>3 DEF Release, StatusAfterRelease, TypeOK
  <2>2. QED BY <2>1 DEF LiveCounted
<1>4. QED BY <1>2, <1>3

LEMMA OpenCounts ==
  ASSUME IInv, NEW p \in Processes, NEW x \in Referents, Open(p, x),
         UNCHANGED mappings
  PROVE  FreshIds' /\ RefcountExact'
<1> DEFINE e == [id |-> nextHandle, owner |-> p, object |-> x]
<1> USE DEF IInv, Counted
<1>1. handles' = handles \cup {e} /\ nextHandle' = nextHandle + 1 /\ refs' = Retain(x)
  BY DEF Open
<1>2. nextHandle \in Nat /\ \A h \in handles : h.id \in Nat
  BY DEF TypeOK, HandleRecords
<1>3. FreshIds'
  BY <1>1, <1>2 DEF FreshIds
<1>4. e \notin handles
  BY <1>2 DEF FreshIds
<1>5. ASSUME NEW y \in Referents
      PROVE  refs'[y] = Cardinality(To(handles', y)) + Cardinality(To(mappings', y))
                          + KernelReferences(y)
  <2>1. Cardinality(To(handles', y)) =
          Cardinality(To(handles, y)) + (IF x = y THEN 1 ELSE 0)
    BY <1>1, <1>4, AddRecord DEF TypeOK
  <2>2. refs'[y] = refs[y] + (IF x = y THEN 1 ELSE 0)
    BY <1>1 DEF Retain, TypeOK
  <2>3. /\ Cardinality(To(handles, y)) \in Nat
        /\ Cardinality(To(mappings, y)) \in Nat
        /\ KernelReferences(y) \in Nat
    BY CountIsNat DEF TypeOK, KernelReferences
  <2>4. refs[y] = Cardinality(To(handles, y)) + Cardinality(To(mappings, y))
                    + KernelReferences(y)
    BY DEF RefcountExact
  <2>5. To(mappings', y) = To(mappings, y)
    BY DEF To
  <2>6. QED BY <2>1, <2>2, <2>3, <2>4, <2>5
<1>6. QED BY <1>3, <1>5 DEF RefcountExact, KernelReferences

\* A step that opens a handle on x, which is live or not a memory object.
LEMMA OpenCounted ==
  ASSUME IInv, NEW p \in Processes, NEW x \in Referents, Open(p, x),
         UNCHANGED mappings,
         \/ status' = status /\ (x \in Objects => status[x] = "live")
         \/ x \in Objects /\ status' = [status EXCEPT ![x] = "live"]
  PROVE  Counted'
<1>1. refs' = Retain(x)
  BY DEF Open
<1>2. LiveCounted'
  BY <1>1, RetainLive DEF IInv, Counted
<1>3. QED BY <1>2, OpenCounts DEF Counted

\* An object something refers to is live.
LEMMA HandledIsLive ==
  ASSUME IInv, NEW h \in handles
  PROVE  /\ refs[h.object] > 0
         /\ h.object \in Objects => status[h.object] = "live"
<1> USE DEF IInv, Counted
<1>1. h.object \in Referents
  BY DEF TypeOK, HandleRecords
<1>2. h \in To(handles, h.object)
  BY DEF To
<1>3. /\ Cardinality(To(handles, h.object)) \in Nat
      /\ Cardinality(To(handles, h.object)) # 0
      /\ Cardinality(To(mappings, h.object)) \in Nat
  BY <1>2, CountIsNat, FS_EmptySet DEF TypeOK
<1>4. refs[h.object] > 0
  BY <1>1, <1>3 DEF RefcountExact, KernelReferences
<1>5. QED BY <1>4 DEF LiveCounted

LEMMA MappedIsCounted ==
  ASSUME IInv, NEW m \in mappings
  PROVE  m.object \in Referents /\ refs[m.object] > 0
<1> USE DEF IInv, Counted
<1>1. m.object \in Referents
  BY DEF TypeOK, MappingRecords, Referents
<1>2. m \in To(mappings, m.object)
  BY DEF To
<1>3. /\ Cardinality(To(mappings, m.object)) \in Nat
      /\ Cardinality(To(mappings, m.object)) # 0
      /\ Cardinality(To(handles, m.object)) \in Nat
  BY <1>2, CountIsNat, FS_EmptySet DEF TypeOK
<1>4. QED BY <1>1, <1>3 DEF RefcountExact, KernelReferences

LEMMA CloseCounted ==
  ASSUME IInv, NEW p \in Processes, NEW h \in handles, HandleClose(p, h)
  PROVE  Counted'
<1> DEFINE x == h.object
<1> USE DEF IInv, Counted
<1>1. /\ handles' = handles \ {h} /\ refs' = Release(x)
      /\ status' = StatusAfterRelease(x)
      /\ mappings' = mappings /\ nextHandle' = nextHandle
  BY DEF HandleClose
<1>2. x \in Referents /\ refs[x] > 0
  BY HandledIsLive DEF TypeOK, HandleRecords
<1>3. LiveCounted'
  BY <1>1, <1>2, ReleaseLive
<1>4. FreshIds'
  BY <1>1 DEF FreshIds
<1>5. ASSUME NEW y \in Referents
      PROVE  refs'[y] = Cardinality(To(handles', y)) + Cardinality(To(mappings', y))
                          + KernelReferences(y)
  <2>1. Cardinality(To(handles, y)) =
          Cardinality(To(handles', y)) + (IF x = y THEN 1 ELSE 0)
    BY <1>1, DropRecord DEF TypeOK
  <2>2. refs'[y] = IF x = y THEN refs[y] - 1 ELSE refs[y]
    BY <1>1, <1>2 DEF Release, TypeOK
  <2>3. IsFiniteSet(handles')
    BY <1>1, FS_RemoveElement DEF TypeOK
  <2>4. /\ Cardinality(To(handles', y)) \in Nat
        /\ Cardinality(To(mappings, y)) \in Nat
        /\ KernelReferences(y) \in Nat
    BY <2>3, CountIsNat DEF TypeOK, KernelReferences
  <2>5. refs[y] = Cardinality(To(handles, y)) + Cardinality(To(mappings, y))
                    + KernelReferences(y)
    BY DEF RefcountExact
  <2>6. To(mappings', y) = To(mappings, y)
    BY <1>1
  <2>7. QED BY <2>1, <2>2, <2>4, <2>5, <2>6
<1>6. RefcountExact'
  BY <1>5 DEF RefcountExact, KernelReferences
<1>7. QED BY <1>3, <1>4, <1>6

\* The new mapping is not an old one: its pages were free.
LEMMA MapCounted ==
  ASSUME IInv, NEW p \in Processes, NEW q \in Processes, NEW h \in handles,
         NEW n \in 1 .. ObjectPages, NEW b, Map(p, q, h.object, n, b)
  PROVE  Counted'
<1> DEFINE x == h.object
<1> USE DEF IInv, Counted
<1>1. PICK base \in ChosenBase(q, n, b) :
        mappings' = mappings \cup
          {[process |-> q, base |-> base, count |-> n, object |-> x]}
  BY DEF Map
<1> DEFINE m == [process |-> q, base |-> base, count |-> n, object |-> x]
<1>2. /\ refs' = Retain(x) /\ status' = status
      /\ handles' = handles /\ nextHandle' = nextHandle
  BY DEF Map, RefsAfterMap
<1>3. x \in Referents /\ (x \in Objects => status[x] = "live")
  BY HandledIsLive DEF TypeOK, HandleRecords
<1>4. LiveCounted'
  BY <1>2, <1>3, RetainLive
<1>5. FreshIds'
  BY <1>2 DEF FreshIds
<1>6. m \notin mappings
  <2>1. base \in Pages /\ RegionFree(q, base, n)
    BY DEF ChosenBase, UsableBases
  <2>2. base \in Span(base, n)
    BY <2>1, BoundAssumption DEF Span, Pages
  <2>3. QED BY <2>1, <2>2 DEF RegionFree, MappingSpan
<1>7. ASSUME NEW y \in Referents
      PROVE  refs'[y] = Cardinality(To(handles', y)) + Cardinality(To(mappings', y))
                          + KernelReferences(y)
  <2>1. Cardinality(To(mappings', y)) =
          Cardinality(To(mappings, y)) + (IF x = y THEN 1 ELSE 0)
    BY <1>1, <1>6, AddRecord DEF TypeOK
  <2>2. refs'[y] = refs[y] + (IF x = y THEN 1 ELSE 0)
    BY <1>2, <1>3 DEF Retain, TypeOK
  <2>3. /\ Cardinality(To(handles, y)) \in Nat
        /\ Cardinality(To(mappings, y)) \in Nat
        /\ KernelReferences(y) \in Nat
    BY CountIsNat DEF TypeOK, KernelReferences
  <2>4. refs[y] = Cardinality(To(handles, y)) + Cardinality(To(mappings, y))
                    + KernelReferences(y)
    BY DEF RefcountExact
  <2>5. To(handles', y) = To(handles, y)
    BY <1>2
  <2>6. QED BY <2>1, <2>2, <2>3, <2>4, <2>5
<1>8. RefcountExact'
  BY <1>7 DEF RefcountExact, KernelReferences
<1>9. QED BY <1>4, <1>5, <1>8

\* A failed mapping took its reference and gave it back.
LEMMA FailMapCounted ==
  ASSUME IInv, NEW p, NEW q, NEW o, NEW n, NEW b, FailMap(p, q, o, n, b)
  PROVE  Counted'
BY DEF FailMap, RefsAfterFailedMap, IInv, Counted, FreshIds, RefcountExact,
       LiveCounted

LEMMA UnmapCounted ==
  ASSUME IInv, NEW m \in mappings, Unmap(m)
  PROVE  Counted'
<1> DEFINE x == m.object
<1> USE DEF IInv, Counted
<1>1. handles' = handles /\ nextHandle' = nextHandle
  BY DEF Unmap
<1>2. FreshIds'
  BY <1>1 DEF FreshIds
<1>3. CASE UNCHANGED <<mappings, refs, status>>
  BY <1>1, <1>2, <1>3 DEF RefcountExact, LiveCounted
<1>4. CASE /\ mappings' = mappings \ {m} /\ refs' = Release(x)
           /\ status' = StatusAfterRelease(x)
  <2>1. x \in Referents /\ refs[x] > 0
    BY MappedIsCounted
  <2>2. LiveCounted'
    BY <1>4, <2>1, ReleaseLive
  <2>3. ASSUME NEW y \in Referents
        PROVE  refs'[y] = Cardinality(To(handles', y)) + Cardinality(To(mappings', y))
                            + KernelReferences(y)
    <3>1. Cardinality(To(mappings, y)) =
            Cardinality(To(mappings', y)) + (IF x = y THEN 1 ELSE 0)
      BY <1>4, DropRecord DEF TypeOK
    <3>2. refs'[y] = IF x = y THEN refs[y] - 1 ELSE refs[y]
      BY <1>4, <2>1 DEF Release, TypeOK
    <3>3. IsFiniteSet(mappings')
      BY <1>4, FS_RemoveElement DEF TypeOK
    <3>4. /\ Cardinality(To(mappings', y)) \in Nat
          /\ Cardinality(To(handles, y)) \in Nat
          /\ KernelReferences(y) \in Nat
      BY <3>3, CountIsNat DEF TypeOK, KernelReferences
    <3>5. refs[y] = Cardinality(To(handles, y)) + Cardinality(To(mappings, y))
                      + KernelReferences(y)
      BY DEF RefcountExact
    <3>6. To(handles', y) = To(handles, y)
      BY <1>1
    <3>7. QED BY <3>1, <3>2, <3>4, <3>5, <3>6
  <2>4. QED BY <1>2, <2>2, <2>3 DEF RefcountExact, KernelReferences
<1>5. QED BY <1>3, <1>4 DEF Unmap

-----------------------------------------------------------------------------
(* The invariant *)

LEMMA InitCounted == Init => Counted
<1> SUFFICES ASSUME Init PROVE Counted
  OBVIOUS
<1>1. TypeOK
  BY InitType
<1>2. FreshIds
  BY DEF Init, FreshIds
<1>3. LiveCounted
  BY IdentityAssumption DEF Init, LiveCounted, Referents, Objects
<1>4. ASSUME NEW x \in Referents
      PROVE  refs[x] = Cardinality(To(handles, x)) + Cardinality(To(mappings, x))
                         + KernelReferences(x)
  <2>1. To(handles, x) = {} /\ To(mappings, x) = {}
    BY DEF Init, To
  <2>2. refs[x] = KernelReferences(x) /\ KernelReferences(x) \in Nat
    BY DEF Init, KernelReferences
  <2>3. Cardinality({}) = 0
    BY FS_EmptySet
  <2>4. QED BY <2>1, <2>2, <2>3
<1>5. QED BY <1>2, <1>3, <1>4 DEF Counted, RefcountExact

\* An object that was never created has no references, so its creation or its
\* deletion in one step concerns nobody.
LEMMA NewObjectCounted ==
  ASSUME IInv, NEW p \in Processes, NEW o \in Objects
  PROVE  /\ MemoryCreate(p, o) => Counted'
         /\ BootObjectReply(p, o) => Counted'
         /\ BootObjectReplyDropped(p, o) => Counted'
<1> USE DEF IInv
<1>1. o \in Referents
  BY DEF Referents
<1>2. ASSUME MemoryCreate(p, o) PROVE Counted'
  BY <1>1, <1>2, OpenCounted DEF MemoryCreate
<1>3. ASSUME BootObjectReply(p, o) PROVE Counted'
  BY <1>1, <1>3, OpenCounted DEF BootObjectReply
<1>4. ASSUME BootObjectReplyDropped(p, o) PROVE Counted'
  <2>1. status[o] = "unused" /\ status' = [status EXCEPT ![o] = "freed"]
        /\ handles' = handles /\ mappings' = mappings /\ refs' = refs
        /\ nextHandle' = nextHandle + 1
    BY <1>4 DEF BootObjectReplyDropped
  <2>2. LiveCounted'
    BY <2>1 DEF LiveCounted, Counted, TypeOK
  <2>3. FreshIds'
    <3>1. \A h \in handles : h.id \in Nat /\ h.id < nextHandle
      BY DEF Counted, FreshIds, TypeOK, HandleRecords
    <3>2. nextHandle \in Nat
      BY DEF TypeOK
    <3>3. QED BY <2>1, <3>1, <3>2 DEF FreshIds
  <2>4. RefcountExact'
    BY <2>1 DEF Counted, RefcountExact, KernelReferences
  <2>5. QED BY <2>2, <2>3, <2>4 DEF Counted
<1>5. QED BY <1>2, <1>3, <1>4

LEMMA NextCounted == IInv /\ [Next]_vars => Counted'
<1> SUFFICES ASSUME IInv, [Next]_vars PROVE Counted'
  OBVIOUS
<1>a. CASE UNCHANGED vars
  BY <1>a DEF vars, IInv, Counted, FreshIds, RefcountExact, LiveCounted
<1>b. CASE Next
  <2> USE DEF IInv
  <2>0. Processes \subseteq Referents /\ Threads \subseteq Referents
        /\ Processes \cap Objects = {} /\ Threads \cap Objects = {}
    BY IdentityAssumption DEF Referents
  <2>1. ASSUME NEW p \in Processes, NEW q \in Processes, ProcessCreate(p, q)
        PROVE Counted'
    BY <2>0, <2>1, OpenCounted DEF ProcessCreate
  <2>2. ASSUME NEW p \in Processes, ProcessCurrent(p)
        PROVE Counted'
    BY <2>0, <2>2, OpenCounted DEF ProcessCurrent
  <2>3. ASSUME NEW p \in Processes, NEW h \in handles, NEW t \in Threads,
               ThreadCreate(p, h, t)
        PROVE Counted'
    BY <2>0, <2>3, OpenCounted DEF ThreadCreate
  <2>4. ASSUME NEW p \in Processes, NEW t \in Threads, ThreadCurrent(p, t)
        PROVE Counted'
    BY <2>0, <2>4, OpenCounted DEF ThreadCurrent
  <2>5. ASSUME NEW p \in Processes, NEW h \in handles,
               NEW granted \in SUBSET Capabilities,
               ProcessGrantCapabilities(p, h, granted)
        PROVE Counted'
    BY <2>5 DEF ProcessGrantCapabilities, Counted, FreshIds, RefcountExact,
                LiveCounted
  <2>6. ASSUME NEW p \in Processes, NEW h \in handles, HandleDuplicate(p, h)
        PROVE Counted'
    <3>1. h.object \in Referents
      BY DEF TypeOK, HandleRecords
    <3>2. h.object \in Objects => status[h.object] = "live"
      BY HandledIsLive
    <3>3. QED BY <2>6, <3>1, <3>2, OpenCounted DEF HandleDuplicate
  <2>7. ASSUME NEW p \in Processes, NEW h \in handles, HandleClose(p, h)
        PROVE Counted'
    BY <2>7, CloseCounted
  <2>8. ASSUME NEW p \in Processes, NEW o \in Objects,
               MemoryCreate(p, o) \/ BootObjectReply(p, o)
                 \/ BootObjectReplyDropped(p, o)
        PROVE Counted'
    BY <2>8, NewObjectCounted
  <2>9. ASSUME NEW p \in Processes, BootInfoReply(p)
        PROVE Counted'
    <3>1. BootInfo \in Objects /\ BootInfo \in Referents
      BY IdentityAssumption DEF Objects, Referents
    <3>2. refs[BootInfo] > 0
      BY <3>1, CountIsNat DEF Counted, RefcountExact, KernelReferences, TypeOK
    <3>3. status[BootInfo] = "live"
      BY <3>1, <3>2 DEF Counted, LiveCounted
    <3>4. QED BY <2>9, <3>1, <3>3, OpenCounted DEF BootInfoReply
  <2>10. ASSUME NEW p \in Processes, BootInfoReplyDropped(p)
         PROVE Counted'
    <3>1. \A h \in handles : h.id \in Nat /\ h.id < nextHandle
      BY DEF Counted, FreshIds, TypeOK, HandleRecords
    <3>2. nextHandle \in Nat
      BY DEF TypeOK
    <3>3. FreshIds'
      BY <2>10, <3>1, <3>2 DEF BootInfoReplyDropped, FreshIds
    <3>4. RefcountExact' /\ LiveCounted'
      BY <2>10 DEF BootInfoReplyDropped, Counted, RefcountExact, LiveCounted,
                   KernelReferences
    <3>5. QED BY <3>3, <3>4 DEF Counted
  <2>11. ASSUME NEW p \in Processes, NEW h \in handles,
                NEW n \in 1 .. ObjectPages, MemoryMap(p, h, n)
         PROVE Counted'
    BY <2>11, MapCounted, FailMapCounted DEF MemoryMap, MemoryMapped, MemoryMapFailed
  <2>12. ASSUME NEW p \in Processes, NEW g \in handles, NEW h \in handles,
                NEW n \in 1 .. ObjectPages, NEW b \in 0 .. LastPage,
                ProcessMemoryMap(p, g, h, n, b)
         PROVE Counted'
    BY <2>12, MapCounted, FailMapCounted
    DEF ProcessMemoryMap, ProcessMemoryMapped, ProcessMemoryMapFailed
  <2>13. ASSUME NEW p \in Processes, NEW m \in mappings,
                MemoryUnmap(p, m) \/ \E g \in handles : ProcessMemoryUnmap(p, g, m)
         PROVE Counted'
    BY <2>13, UnmapCounted DEF MemoryUnmap, ProcessMemoryUnmap
  <2>14. QED
    BY <1>b, <2>1, <2>2, <2>3, <2>4, <2>5, <2>6, <2>7, <2>8, <2>9, <2>10, <2>11,
       <2>12, <2>13 DEF Next
<1>c. QED BY <1>a, <1>b

LEMMA AlwaysIInv == Spec => []IInv
<1>1. Init => IInv
  BY InitType, InitCounted DEF IInv
<1>2. IInv /\ [Next]_vars => IInv'
  BY NextType, NextCounted DEF IInv
<1>3. QED BY <1>1, <1>2, PTL DEF Spec

\* The counts of processes, threads and memory objects are exact after every
\* sequence of syscalls and kernel replies, failed mappings included.
THEOREM RefcountsStayExact == Spec => []RefcountExact
<1>1. IInv => RefcountExact
  BY DEF IInv, Counted
<1>2. QED BY <1>1, AlwaysIInv, PTL

\* No memory object is deleted under a handle or a mapping, and none is kept
\* that nothing refers to.
THEOREM LiveExactlyWhileReferenced == Spec => []LiveWhileReferenced
<1>1. IInv => LiveWhileReferenced
  <2> SUFFICES ASSUME IInv, NEW o \in Objects
               PROVE  status[o] = "live" <=>
                        To(handles, o) # {} \/ To(mappings, o) # {} \/ o = BootInfo
    BY DEF LiveWhileReferenced
  <2> USE DEF IInv, Counted
  <2>1. /\ Cardinality(To(handles, o)) \in Nat
        /\ Cardinality(To(mappings, o)) \in Nat
        /\ Cardinality(To(handles, o)) = 0 <=> To(handles, o) = {}
        /\ Cardinality(To(mappings, o)) = 0 <=> To(mappings, o) = {}
    BY CountIsNat, FS_EmptySet DEF TypeOK
  <2>2. refs[o] = Cardinality(To(handles, o)) + Cardinality(To(mappings, o))
                    + KernelReferences(o)
    BY DEF RefcountExact, Referents
  <2>3. status[o] = "live" <=> refs[o] > 0
    BY DEF LiveCounted
  <2>4. QED BY <2>1, <2>2, <2>3 DEF KernelReferences
<1>2. QED BY <1>1, AlwaysIInv, PTL

-----------------------------------------------------------------------------
(* Page tables: of every mapping all pages are there; as long as no        *)
(* mapping fails half way, nothing else is, and no freed frame stays       *)
(* mapped.                                                                 *)

\* Unmapping walks the pages of a mapping; all of them are user pages.
MappingsInRange == \A m \in mappings : MappingSpan(m) \subseteq Pages

PresentInv == TypeOK /\ MappingsDisjoint /\ MappingsInRange /\ MappingsPresent

LEMMA InitPresentInv == Init => PresentInv
BY InitType
DEF Init, PresentInv, MappingsDisjoint, MappingsInRange, MappingsPresent

\* No entry of a mapping is missing, so its unmapping succeeds.
LEMMA UnmapForgets ==
  ASSUME PresentInv, NEW m \in mappings, Unmap(m)
  PROVE  /\ mappings' = mappings \ {m} /\ handles' = handles
         /\ pte' = SetPages(m.process, MappingSpan(m), None)
<1>1. m.process \in Processes /\ m.object \in Objects /\ None \notin Objects
  BY IdentityAssumption DEF PresentInv, TypeOK, MappingRecords, Referents
<1>2. \A b \in MappingSpan(m) : pte[<<m.process, b>>] = m.object
  BY DEF PresentInv, MappingsInRange, MappingsPresent
<1>3. {b \in MappingSpan(m) : pte[<<m.process, b>>] = None} = {}
  BY <1>1, <1>2
<1>4. QED BY <1>3 DEF Unmap

\* A place the kernel chooses or is asked for: user pages no mapping has.
LEMMA ChosenIsFree ==
  ASSUME NEW q \in Processes, NEW n \in 1 .. ObjectPages, NEW b,
         NEW base \in ChosenBase(q, n, b)
  PROVE  base \in Pages /\ Span(base, n) \subseteq Pages /\ RegionFree(q, base, n)
<1>1. base \in Pages /\ base + n - 1 <= LastPage /\ RegionFree(q, base, n)
  BY DEF ChosenBase, UsableBases
<1>2. QED BY <1>1, BoundAssumption DEF Span, Pages

\* What a mapping that succeeds does to the entries and the list.
LEMMA MapAdds ==
  ASSUME NEW p \in Processes, NEW q \in Processes, NEW o \in Objects,
         NEW n \in 1 .. ObjectPages, NEW b, Map(p, q, o, n, b)
  PROVE  \E base \in ChosenBase(q, n, b) :
           /\ pte' = SetPages(q, Span(base, n), o)
           /\ mappings' = mappings \cup
                {[process |-> q, base |-> base, count |-> n, object |-> o]}
BY DEF Map

\* A mapping that fails half way touches entries of free pages only.
LEMMA FailMapTouches ==
  ASSUME TypeOK, NEW p \in Processes, NEW q \in Processes, NEW o \in Objects,
         NEW n \in 1 .. ObjectPages, NEW b, FailMap(p, q, o, n, b)
  PROVE  /\ mappings' = mappings
         /\ \E base \in ChosenBase(q, n, b) :
              \A r \in Processes, c \in Pages :
                ~ (r = q /\ c \in Span(base, n)) => pte'[<<r, c>>] = pte[<<r, c>>]
<1>1. PICK base \in ChosenBase(q, n, b), done \in 1 .. n :
        \E kept \in SUBSET Span(base, done) :
          pte' = [e \in DOMAIN pte |->
                    IF e[1] # q \/ e[2] \notin Span(base, done) THEN pte[e]
                    ELSE IF e[2] \in kept THEN o ELSE None]
  BY DEF FailMap
<1>2. base \in Nat
  BY DEF ChosenBase, UsableBases, Pages
<1>3. Span(base, done) \subseteq Span(base, n)
  BY <1>2 DEF Span
<1>4. \A r \in Processes, c \in Pages : <<r, c>> \in DOMAIN pte
  BY DEF TypeOK
<1>5. ASSUME NEW r \in Processes, NEW c \in Pages, ~ (r = q /\ c \in Span(base, n))
      PROVE  pte'[<<r, c>>] = pte[<<r, c>>]
  BY <1>1, <1>3, <1>4, <1>5
<1>6. QED BY <1>5 DEF FailMap

\* An entry of a mapping changes only when that mapping goes: what is mapped
\* anew, or tried in vain, was free.
LEMMA MapPresent ==
  ASSUME PresentInv, NEW p \in Processes, NEW q \in Processes, NEW o \in Objects,
         NEW n \in 1 .. ObjectPages, NEW b, Map(p, q, o, n, b)
  PROVE  MappingsInRange' /\ MappingsPresent'
<1>1. PICK base \in ChosenBase(q, n, b) :
        /\ pte' = SetPages(q, Span(base, n), o)
        /\ mappings' = mappings \cup
             {[process |-> q, base |-> base, count |-> n, object |-> o]}
  BY MapAdds
<1> DEFINE new == [process |-> q, base |-> base, count |-> n, object |-> o]
<1>2. Span(base, n) \subseteq Pages /\ RegionFree(q, base, n)
  BY ChosenIsFree
<1>3. MappingSpan(new) = Span(base, n)
  BY DEF MappingSpan
<1>4. MappingsInRange'
  BY <1>1, <1>2, <1>3 DEF PresentInv, MappingsInRange, MappingSpan
<1>5. ASSUME NEW m \in mappings', NEW c \in Pages, c \in MappingSpan(m)
      PROVE  pte'[<<m.process, c>>] = m.object
  <2>1. m.process \in Processes
    BY <1>1 DEF PresentInv, TypeOK, MappingRecords
  <2>2. <<m.process, c>> \in DOMAIN pte
    BY <2>1 DEF PresentInv, TypeOK
  <2>3. CASE m = new
    BY <1>1, <1>3, <1>5, <2>2, <2>3 DEF SetPages
  <2>4. CASE m \in mappings
    <3>1. pte[<<m.process, c>>] = m.object
      BY <1>5, <2>4 DEF PresentInv, MappingsPresent
    <3>2. ~ (m.process = q /\ c \in Span(base, n))
      BY <1>2, <1>5, <2>4 DEF RegionFree
    <3>3. QED BY <1>1, <2>2, <3>1, <3>2 DEF SetPages
  <2>5. QED BY <1>1, <2>3, <2>4
<1>6. QED BY <1>4, <1>5 DEF MappingsPresent, MappingSpan

LEMMA FailMapPresent ==
  ASSUME PresentInv, NEW p \in Processes, NEW q \in Processes, NEW o \in Objects,
         NEW n \in 1 .. ObjectPages, NEW b, FailMap(p, q, o, n, b)
  PROVE  MappingsInRange' /\ MappingsPresent'
<1>1. PICK base \in ChosenBase(q, n, b) :
        \A r \in Processes, c \in Pages :
          ~ (r = q /\ c \in Span(base, n)) => pte'[<<r, c>>] = pte[<<r, c>>]
  BY FailMapTouches DEF PresentInv
<1>2. mappings' = mappings
  BY DEF FailMap
<1>3. ASSUME NEW m \in mappings, NEW c \in Pages, c \in MappingSpan(m)
      PROVE  pte'[<<m.process, c>>] = m.object
  <2>1. m.process \in Processes /\ pte[<<m.process, c>>] = m.object
    BY <1>3 DEF PresentInv, TypeOK, MappingRecords, MappingsPresent
  <2>2. ~ (m.process = q /\ c \in Span(base, n))
    BY <1>3, ChosenIsFree DEF RegionFree
  <2>3. QED BY <1>1, <2>1, <2>2
<1>4. QED BY <1>2, <1>3 DEF PresentInv, MappingsInRange, MappingsPresent, MappingSpan

LEMMA UnmapPresent ==
  ASSUME PresentInv, NEW m \in mappings, Unmap(m)
  PROVE  MappingsInRange' /\ MappingsPresent'
<1>1. /\ mappings' = mappings \ {m}
      /\ pte' = SetPages(m.process, MappingSpan(m), None)
  BY UnmapForgets
<1>2. ASSUME NEW k \in mappings', NEW c \in Pages, c \in MappingSpan(k)
      PROVE  pte'[<<k.process, c>>] = k.object
  <2>1. k \in mappings /\ k # m /\ k.process \in Processes
    BY <1>1 DEF PresentInv, TypeOK, MappingRecords
  <2>2. pte[<<k.process, c>>] = k.object /\ <<k.process, c>> \in DOMAIN pte
    BY <1>2, <2>1 DEF PresentInv, TypeOK, MappingsPresent
  <2>3. ~ (k.process = m.process /\ c \in MappingSpan(m))
    BY <1>2, <2>1 DEF PresentInv, MappingsDisjoint
  <2>4. QED BY <1>1, <2>2, <2>3 DEF SetPages
<1>3. QED
  BY <1>1, <1>2 DEF PresentInv, MappingsInRange, MappingsPresent, MappingSpan

LEMMA NextPresentInv ==
  ASSUME PresentInv, MappingsDisjoint', [Next]_vars
  PROVE  PresentInv'
<1>1. TypeOK /\ TypeOK'
  BY NextType DEF PresentInv
<1>2. CASE UNCHANGED <<mappings, pte>>
  BY <1>1, <1>2 DEF PresentInv, MappingsInRange, MappingsPresent, MappingSpan
<1>3. CASE \E p, q \in Processes, o \in Objects, n \in 1 .. ObjectPages,
              b \in 0 .. LastPage : Map(p, q, o, n, b)
  BY <1>1, <1>3, MapPresent DEF PresentInv
<1>4. CASE \E p, q \in Processes, o \in Objects, n \in 1 .. ObjectPages,
              b \in 0 .. LastPage : FailMap(p, q, o, n, b)
  BY <1>1, <1>4, FailMapPresent DEF PresentInv
<1>5. CASE \E m \in mappings : Unmap(m)
  BY <1>1, <1>5, UnmapPresent DEF PresentInv
<1>6. QED BY <1>1, <1>2, <1>3, <1>4, <1>5, MappingSteps DEF vars

LEMMA AlwaysPresentInv == Spec => []PresentInv
<1>1. PresentInv /\ MappingsDisjoint' /\ [Next]_vars => PresentInv'
  BY NextPresentInv
<1>2. QED BY <1>1, InitPresentInv, MappingsStayDisjoint, PTL DEF Spec

\* Whichever mappings fail half way, and wherever: a process has every page of
\* every mapping it was given, so an unmapping never stops half way either.
THEOREM MappingsStayPresent == Spec => []MappingsPresent
<1>1. PresentInv => MappingsPresent
  BY DEF PresentInv
<1>2. QED BY <1>1, AlwaysPresentInv, PTL

\* The pages of a new mapping were free, so their old entries were nobody's.
LEMMA MapMatches ==
  ASSUME TypeOK, PagesMatchMappings, NEW p \in Processes, NEW q \in Processes,
         NEW o \in Objects, NEW n \in 1 .. ObjectPages, NEW b, Map(p, q, o, n, b)
  PROVE  PagesMatchMappings'
<1>1. PICK base \in ChosenBase(q, n, b) :
        /\ pte' = SetPages(q, Span(base, n), o)
        /\ mappings' = mappings \cup
             {[process |-> q, base |-> base, count |-> n, object |-> o]}
  BY MapAdds
<1> DEFINE new == [process |-> q, base |-> base, count |-> n, object |-> o]
<1>2. RegionFree(q, base, n)
  BY ChosenIsFree
<1>3. MappingSpan(new) = Span(base, n)
  BY DEF MappingSpan
<1>4. ASSUME NEW r \in Processes, NEW c \in Pages, NEW x \in Objects
      PROVE  pte'[<<r, c>>] = x <=>
               \E m \in mappings' :
                 m.process = r /\ m.object = x /\ c \in MappingSpan(m)
  <2>1. pte[<<r, c>>] = x <=>
          \E m \in mappings : m.process = r /\ m.object = x /\ c \in MappingSpan(m)
    BY DEF PagesMatchMappings
  <2>2. <<r, c>> \in DOMAIN pte
    BY DEF TypeOK
  <2>3. CASE r = q /\ c \in Span(base, n)
    <3>1. pte'[<<r, c>>] = o
      BY <1>1, <2>2, <2>3 DEF SetPages
    <3>2. \A m \in mappings : ~ (m.process = r /\ c \in MappingSpan(m))
      BY <1>2, <2>3 DEF RegionFree
    <3>3. QED BY <1>1, <1>3, <2>3, <3>1, <3>2
  <2>4. CASE ~ (r = q /\ c \in Span(base, n))
    <3>1. pte'[<<r, c>>] = pte[<<r, c>>]
      BY <1>1, <2>2, <2>4 DEF SetPages
    <3>2. ~ (new.process = r /\ c \in MappingSpan(new))
      BY <1>3, <2>4
    <3>3. QED BY <1>1, <2>1, <3>1, <3>2
  <2>5. QED BY <2>3, <2>4
<1>5. QED BY <1>4 DEF PagesMatchMappings, MappingSpan

\* Unmapping clears the pages of the mapping and of no other.
LEMMA UnmapMatches ==
  ASSUME PresentInv, PagesMatchMappings, NEW m \in mappings, Unmap(m)
  PROVE  PagesMatchMappings'
<1> DEFINE q == m.process
<1>1. q \in Processes /\ m.object \in Objects /\ None \notin Objects
  BY IdentityAssumption DEF PresentInv, TypeOK, MappingRecords, Referents
<1>2. pte' = SetPages(q, MappingSpan(m), None) /\ mappings' = mappings \ {m}
  BY UnmapForgets
<1>3. ASSUME NEW r \in Processes, NEW c \in Pages, NEW x \in Objects
      PROVE  pte'[<<r, c>>] = x <=>
               \E k \in mappings' :
                 k.process = r /\ k.object = x /\ c \in MappingSpan(k)
  <2>1. pte[<<r, c>>] = x <=>
          \E k \in mappings : k.process = r /\ k.object = x /\ c \in MappingSpan(k)
    BY DEF PagesMatchMappings
  <2>2. <<r, c>> \in DOMAIN pte
    BY DEF PresentInv, TypeOK
  <2>3. CASE r = q /\ c \in MappingSpan(m)
    <3>1. pte'[<<r, c>>] = None
      BY <1>2, <2>2, <2>3 DEF SetPages
    <3>2. \A k \in mappings \ {m} : ~ (k.process = r /\ c \in MappingSpan(k))
      BY <2>3 DEF PresentInv, MappingsDisjoint
    <3>3. QED BY <1>1, <1>2, <3>1, <3>2
  <2>4. CASE ~ (r = q /\ c \in MappingSpan(m))
    <3>1. pte'[<<r, c>>] = pte[<<r, c>>]
      BY <1>2, <2>2, <2>4 DEF SetPages
    <3>2. QED BY <1>2, <2>1, <2>4, <3>1
  <2>5. QED BY <2>3, <2>4
<1>4. QED BY <1>3 DEF PagesMatchMappings, MappingSpan

LEMMA SameMatches ==
  ASSUME PagesMatchMappings, mappings' = mappings, pte' = pte
  PROVE  PagesMatchMappings'
<1>1. ASSUME NEW q \in Processes, NEW b \in Pages, NEW o \in Objects
      PROVE  pte'[<<q, b>>] = o <=>
               \E m \in mappings' :
                 m.process = q /\ m.object = o /\ b \in MappingSpan(m)
  BY DEF PagesMatchMappings
<1>2. QED BY <1>1 DEF PagesMatchMappings, MappingSpan

\* Without failures half way, a page is mapped to an object's frame exactly
\* when a mapping of that object covers the page.
THEOREM PageTablesMatch ==
  ASSUME LateFailures = FALSE
  PROVE  Spec => []PagesMatchMappings
<1>1. Init => PagesMatchMappings
  BY IdentityAssumption DEF Init, PagesMatchMappings, Referents
<1>2. ASSUME PresentInv, PagesMatchMappings, [Next]_vars
      PROVE  PagesMatchMappings'
  <2>1. TypeOK
    BY <1>2 DEF PresentInv
  <2>2. CASE UNCHANGED <<mappings, pte>>
    BY <1>2, <2>2, SameMatches
  <2>3. CASE \E p, q \in Processes, o \in Objects, n \in 1 .. ObjectPages,
                b \in 0 .. LastPage : Map(p, q, o, n, b)
    BY <1>2, <2>1, <2>3, MapMatches
  <2>4. CASE \E m \in mappings : Unmap(m)
    BY <1>2, <2>4, UnmapMatches
  <2>5. QED BY <1>2, <2>1, <2>2, <2>3, <2>4, MappingSteps DEF vars, FailMap
<1>3. QED BY <1>1, <1>2, AlwaysPresentInv, PTL DEF Spec

\* Under the same condition no page table refers to a frame of an object that
\* was deleted.
THEOREM FreedFramesStayUnmapped ==
  ASSUME LateFailures = FALSE
  PROVE  Spec => []FreedFramesUnmapped
<1>1. PagesMatchMappings /\ IInv => FreedFramesUnmapped
  <2> SUFFICES ASSUME PagesMatchMappings, IInv, NEW q \in Processes, NEW b \in Pages,
                      pte[<<q, b>>] # None
               PROVE  status[pte[<<q, b>>]] = "live"
    BY DEF FreedFramesUnmapped
  <2>1. pte[<<q, b>>] \in Objects
    BY DEF IInv, TypeOK
  <2>2. PICK m \in mappings : m.object = pte[<<q, b>>]
    BY <2>1 DEF PagesMatchMappings
  <2>3. refs[m.object] > 0
    BY MappedIsCounted
  <2>4. QED BY <2>1, <2>2, <2>3 DEF IInv, Counted, LiveCounted
<1>2. QED BY <1>1, PageTablesMatch, AlwaysIInv, PTL
=============================================================================
