------------------------------- MODULE Paging -------------------------------
(***************************************************************************)
(* Page tables (Arch/Paging.cppm): the walk that creates missing tables,   *)
(* map, unmap and query, the deep copy the kernel boots into and the fresh *)
(* address space a process gets (clone_kernel_address_space).              *)
(*                                                                         *)
(* A table is a partial function from indices to its present entries, an   *)
(* entry a frame and flags.  Addresses are page and frame numbers, and a   *)
(* virtual page has LEVELS indices below FANOUT.  Table frames come from   *)
(* the frame allocator and are never given back.                           *)
(*                                                                         *)
(* A call is one step: its callers run with interrupts masked and no two   *)
(* calls edit the same tables at once, since a process has its own and the *)
(* kernel half is not edited after boot.  Left out: the TLB.               *)
(***************************************************************************)
EXTENDS Integers, FiniteSets, FiniteSetsExt

CONSTANTS
  FANOUT,       \* entries of a table (512 in the code)
  Processes,    \* processes that may be created
  Kernel,       \* k_process
  BootTables,   \* the boot loader's tables: frame -> index -> entry
  BootRoot,     \* the frame of their root
  Pool,         \* the frames FrameAllocator has for tables
  MapPages,     \* the user pages callers map
  MapFrames,    \* the frames they map them to
  MapFlags,     \* the flags they pass
  None

ASSUME ShapeAssumption == FANOUT \in Nat \ {0, 1}
ASSUME FrameAssumption ==
  /\ Pool \cup DOMAIN BootTables \cup MapFrames \subseteq Nat
  /\ IsFiniteSet(Pool) /\ IsFiniteSet(DOMAIN BootTables)
  /\ Pool \cap (DOMAIN BootTables \cup MapFrames) = {}
  /\ MapFrames \cap DOMAIN BootTables = {}
  /\ BootRoot \in DOMAIN BootTables
  /\ None \notin Pool \cup DOMAIN BootTables
ASSUME ProcessAssumption ==
  /\ Kernel \notin Processes
  /\ None \notin Processes \cup {Kernel}

VARIABLES
  table,  \* the tables in memory: frame -> index -> entry
  free,   \* frames of Pool that are not yet a table
  root    \* the root of each address space: process -> frame

vars == <<table, free, root>>

LEVELS == 4
Indices == 0 .. (FANOUT - 1)
Levels == 1 .. LEVELS
Flags == {"User", "Writable", "NoExecute", "PageSize"}

\* The pages an entry of the next level up covers: what is shifted out of an
\* address to get to the index of a level.
Span[l \in 0 .. LEVELS] == IF l = 0 THEN 1 ELSE FANOUT * Span[l - 1]

Pages == 0 .. (Span[LEVELS] - 1)

\* The upper half of the root's entries belongs to the kernel.
KernelHalf == {i \in Indices : i >= FANOUT \div 2}

TypeOK ==
  /\ free \subseteq Pool
  /\ DOMAIN table = DOMAIN BootTables \cup (Pool \ free)
  /\ \A t \in DOMAIN table :
       /\ DOMAIN table[t] \subseteq Indices
       /\ \A i \in DOMAIN table[t] : table[t][i] \in [to : Nat, flags : SUBSET Flags]
  /\ Kernel \in DOMAIN root
  /\ DOMAIN root \subseteq Processes \cup {Kernel}
  /\ \A p \in DOMAIN root : root[p] \in DOMAIN table

-----------------------------------------------------------------------------
(* Walking.  Operators named ...Fault are plausible slips in the           *)
(* definition they precede.                                                *)

UnmaskedFault(v, level) == v \div Span[level - 1]

\* table_index
Index(v, level) == (v \div Span[level - 1]) % FANOUT

Large(entry) == "PageSize" \in entry.flags

WritableDroppedFault(flags) == flags \cap {"User"}

\* table_flags: a table allows what a page below it may need.
TableFlags(flags) == flags \cap {"Writable", "User"}

\* The entry for page v in table t of this level, and whether it is present.
Entry(t, v, level) == table[t][Index(v, level)]
Present(t, v, level) == Index(v, level) \in DOMAIN table[t]

\* The table the entry for v leads to, None when it leads to none.
NextTable(t, v, level) ==
  IF t = None THEN None
  ELSE IF Present(t, v, level) /\ ~Large(Entry(t, v, level)) THEN Entry(t, v, level).to
  ELSE None

\* walk without create: the table it visits at each level, None below the
\* entry that stops it.
Path(r, v) ==
  LET t3 == NextTable(r, v, 4)
      t2 == NextTable(t3, v, 3)
      t1 == NextTable(t2, v, 2)
  IN  <<t1, t2, t3, r>>

Lowest(path) == Min({l \in Levels : path[l] # None})

\* The level whose entry walk returns, LEVELS + 1 when it returns none.
StopLevel(r, v) ==
  LET path == Path(r, v)
      l == Lowest(path)
      t == path[l]
  IN  IF l = 1 \/ (Present(t, v, l) /\ Large(Entry(t, v, l))) THEN l ELSE LEVELS + 1

\* The level walk reports with it: an entry with PageSize is reported a level
\* too low.
ReportedLevel(level) == IF level = 1 THEN 1 ELSE level - 1

-----------------------------------------------------------------------------
(* Boot and address spaces                                                 *)

\* The tables reachable from r, at each level, not below large pages.
Children(tables, of) ==
  UNION {{tables[t][i].to : i \in {j \in DOMAIN tables[t] : ~Large(tables[t][j])}}
           : t \in of}
Below(tables, r) ==
  LET third == Children(tables, {r})
      second == Children(tables, third)
  IN  <<Children(tables, second), second, third, {r}>>

\* The boot loader's tables are well formed, and a tree: one entry leads to
\* each table below the root.
ASSUME BootAssumption ==
  /\ \A t \in DOMAIN BootTables :
       /\ DOMAIN BootTables[t] \subseteq Indices
       /\ \A i \in DOMAIN BootTables[t] :
            BootTables[t][i] \in [to : Nat, flags : SUBSET Flags]
  /\ LET below == Below(BootTables, BootRoot)
     IN  /\ \A l \in Levels : below[l] \subseteq DOMAIN BootTables
         /\ \A l, m \in Levels : l # m => below[l] \cap below[m] = {}
         /\ \A l \in Levels \ {1} : \A t, u \in below[l] :
              \A i \in DOMAIN BootTables[t], j \in DOMAIN BootTables[u] :
                /\ ~Large(BootTables[t][i]) /\ ~Large(BootTables[u][j])
                /\ BootTables[t][i].to = BootTables[u][j].to
                => t = u /\ i = j

Init ==
  /\ table = BootTables
  /\ free = Pool
  /\ root = [p \in {Kernel} |-> BootRoot]

Reach(r) == LET below == Below(table, r) IN UNION {below[l] : l \in Levels}

\* create_table takes the lowest free frame, as FrameAllocator does.
Nth(n) == CHOOSE f \in free : Cardinality({g \in free : g < f}) = n - 1

LeafTablesSharedFault(copy, t) ==
  [i \in DOMAIN table[t] |->
     IF t \notin Below(table, root[Kernel])[1] \cup Below(table, root[Kernel])[2] /\ ~Large(table[t][i])
       THEN [table[t][i] EXCEPT !.to = copy[@]]
       ELSE table[t][i]]

\* clone_table_recursive on one table: entries that lead to tables are led to
\* the copies of those tables, the rest is copied.
CopiedTable(copy, t) ==
  [i \in DOMAIN table[t] |->
     IF t \notin Below(table, root[Kernel])[1] /\ ~Large(table[t][i])
       THEN [table[t][i] EXCEPT !.to = copy[@]]
       ELSE table[t][i]]

\* katline_main leaves the boot loader's tables for a deep copy of them.
\* Without the frames for it the kernel halts before it runs anything.
CloneCurrent ==
  LET sources == Reach(root[Kernel])
      copy == [t \in sources |-> Nth(Cardinality({u \in sources : u <= t}))]
      fresh == {copy[t] : t \in sources}
  IN  /\ root[Kernel] = BootRoot
      /\ Cardinality(sources) <= Cardinality(free)
      /\ table' = [f \in DOMAIN table \cup fresh |->
                     IF f \in fresh
                       THEN CopiedTable(copy, CHOOSE t \in sources : copy[t] = f)
                       ELSE table[f]]
      /\ free' = free \ fresh
      /\ root' = [root EXCEPT ![Kernel] = copy[BootRoot]]

WholeRootFault(r) == table[r]

\* The entries clone_kernel_address_space copies.
KernelEntries(r) == [i \in DOMAIN table[r] \cap KernelHalf |-> table[r][i]]

\* create_user_process, on a CPU that runs in some existing address space.
CreateAddressSpace(p, current) ==
  /\ root[Kernel] # BootRoot
  /\ p \in Processes \ DOMAIN root
  /\ current \in DOMAIN root
  /\ free # {}
  /\ table' = [f \in DOMAIN table \cup {Nth(1)} |->
                 IF f = Nth(1) THEN KernelEntries(root[current]) ELSE table[f]]
  /\ free' = free \ {Nth(1)}
  /\ root' = [q \in DOMAIN root \cup {p} |-> IF q = p THEN Nth(1) ELSE root[q]]

-----------------------------------------------------------------------------
(* map and unmap                                                           *)

\* walk with create: the tables of the path after ensure_next_table has created
\* the missing ones from the top down, None where memory ran out.
CreatedPath(r, v) ==
  LET path == Path(r, v)
      low == Lowest(path)
      stop == IF StopLevel(r, v) = low THEN low ELSE 1
  IN  [l \in Levels |->
         IF path[l] # None THEN path[l]
         ELSE IF l >= stop /\ low - l <= Cardinality(free) THEN Nth(low - l)
         ELSE None]

KeepFlagsFault(t, v, level, next, flags) ==
  [to |-> next,
   flags |-> IF t \in DOMAIN table /\ Present(t, v, level)
               THEN Entry(t, v, level).flags ELSE TableFlags(flags)]

\* ensure_next_table: the entry that leads to the next table gains the flags.
TableEntry(t, v, level, next, flags) ==
  [to |-> next,
   flags |-> TableFlags(flags) \cup
             IF t \in DOMAIN table /\ Present(t, v, level)
               THEN Entry(t, v, level).flags ELSE {}]

\* What is in a frame when it is used as a table: a new table is zeroed.
Content(t) == IF t \in DOMAIN table THEN table[t] ELSE <<>>

Put(t, i, entry) ==
  [j \in DOMAIN Content(t) \cup {i} |-> IF j = i THEN entry ELSE Content(t)[j]]

LinkLastFault(path) ==
  IF path[1] = None THEN {} ELSE {l \in Levels : path[l] # None}

\* The levels whose table is linked to the next: even when the walk then fails.
Linking(path) == {l \in Levels : path[l] # None}

\* map.  When a table cannot be created it answers false and keeps the tables
\* it created and the flags it added.
Map(p, v, frame, flags) ==
  LET r == root[p]
      path == CreatedPath(r, v)
      last == IF path[1] # None THEN 1 ELSE StopLevel(r, v)
      LevelOf(f) == CHOOSE l \in Levels : path[l] = f
      fresh == {path[l] : l \in Levels} \cap free
      Edited(f, l) ==
        IF l = last THEN Put(f, Index(v, l), [to |-> frame, flags |-> flags])
        ELSE IF path[l - 1] = None THEN Content(f)
        ELSE Put(f, Index(v, l), TableEntry(f, v, l, path[l - 1], flags))
  IN  /\ root[Kernel] # BootRoot
      /\ table' = [f \in DOMAIN table \cup fresh |->
                     IF \E l \in Linking(path) : path[l] = f
                       THEN Edited(f, LevelOf(f)) ELSE Content(f)]
      /\ free' = free \ fresh
      /\ UNCHANGED root

TopEntryFault(r, v, level) ==
  [table EXCEPT ![r] = [i \in DOMAIN @ \ {Index(v, LEVELS)} |-> @[i]]]

\* The tables without the entry for v at this level.
Cleared(r, v, level) ==
  LET t == Path(r, v)[level]
  IN  [table EXCEPT ![t] = [i \in DOMAIN @ \ {Index(v, level)} |-> @[i]]]

\* unmap: only an entry reported at level 1, and only when it is present.
Unmap(p, v) ==
  LET level == StopLevel(root[p], v)
  IN  /\ level \in Levels
      /\ ReportedLevel(level) = 1
      /\ Present(Path(root[p], v)[level], v, level)
      /\ table' = Cleared(root[p], v, level)
      /\ UNCHANGED <<free, root>>

\* The pages of the user half.
UserPages == {v \in Pages : Index(v, LEVELS) \notin KernelHalf}

\* Callers map and unmap user pages of processes, never of the kernel, and map
\* no large pages.
ASSUME CallerAssumption ==
  /\ MapPages \subseteq UserPages
  /\ \A flags \in MapFlags : flags \subseteq Flags \ {"PageSize"}

Next ==
  \/ CloneCurrent
  \/ \E p \in Processes, current \in DOMAIN root : CreateAddressSpace(p, current)
  \/ \E p \in DOMAIN root \ {Kernel}, v \in MapPages, f \in MapFrames, flags \in MapFlags :
       Map(p, v, f, flags)
  \/ \E p \in DOMAIN root \ {Kernel}, v \in MapPages : Unmap(p, v)

Spec == Init /\ [][Next]_vars

-----------------------------------------------------------------------------
(* What the processor and the kernel see                                   *)

\* One level of the processor's walk for page v.  A large page ends it, an
\* access needs the permission at every level, one NoExecute is enough.
Walked(accesses, v, level) ==
  {IF x.leaf THEN x
   ELSE [frame |-> Entry(x.frame, v, level).to
                     + IF Large(Entry(x.frame, v, level)) THEN v % Span[level - 1] ELSE 0,
         leaf |-> Large(Entry(x.frame, v, level)),
         flags |-> (x.flags \cap Entry(x.frame, v, level).flags)
                     \cup ((x.flags \cup Entry(x.frame, v, level).flags) \cap {"NoExecute"})]
     : x \in {y \in accesses : y.leaf \/ Present(y.frame, v, level)}}

\* What the processor finds at page v: a set of one access, or of none.
Seen(r, v) ==
  LET start == {[frame |-> r, leaf |-> FALSE, flags |-> {"User", "Writable"}]}
  IN  {[frame |-> x.frame, flags |-> x.flags] :
         x \in Walked(Walked(Walked(Walked(start, v, 4), v, 3), v, 2), v, 1)}

\* query: the frame and the flags of the entry alone.
Query(r, v) ==
  LET level == StopLevel(r, v)
      e == Entry(Path(r, v)[level], v, level)
  IN  IF level \in Levels /\ Present(Path(r, v)[level], v, level)
        THEN {[frame |-> e.to + (v % Span[ReportedLevel(level) - 1]),
               flags |-> e.flags]}
        ELSE {}

-----------------------------------------------------------------------------
(* Properties *)

\* The tables reached from r and the range of pages each is reached for.
Positions(r, pages) ==
  UNION {LET path == Path(r, v)
         IN  {<<path[l], l, v \div Span[l]>> : l \in {m \in Levels : path[m] # None}}
           : v \in pages}

UserTables(r) == {x[1] : x \in Positions(r, UserPages)}

\* The tables of a space form a tree: a table serves one range of pages.  No
\* space reaches a table through which another reaches its user pages, and none
\* but the boot loader's own reaches the boot loader's tables, which are in
\* memory the kernel may reuse: the deep copy is deep.
TablesOwned ==
  /\ \A p \in DOMAIN root :
       \A x, y \in Positions(root[p], Pages) : x[1] = y[1] => x = y
  /\ \A p, q \in DOMAIN root : p # q => UserTables(root[p]) \cap Reach(root[q]) = {}
  /\ root[Kernel] # BootRoot =>
       \A p \in DOMAIN root : Reach(root[p]) \cap DOMAIN BootTables = {}

\* Every frame taken for a table is in the tree of some space, also after a map
\* that ran out of memory half way down: nothing needs to be rolled back.
NoTableLost == Pool \ free = (UNION {Reach(root[p]) : p \in DOMAIN root}) \cap Pool

\* The tables in memory are exactly the trees of the spaces, and each is where
\* it belongs.
TablesSound == TablesOwned /\ NoTableLost

\* copy_from_user and copy_to_user decide on the flags of the last entry alone.
\* That is right because the tables above it never take away what it grants.
QueryTruthful ==
  \A p \in DOMAIN root \ {Kernel} : \A v \in UserPages :
    Query(root[p], v) = Seen(root[p], v)

\* A page of a process has exactly the frame and the access it was last mapped
\* with; no map, unmap or clone changes another page, another process or the
\* kernel; every process sees the kernel.  Seen from the processor.
Abstract == INSTANCE AddressSpaces WITH
  Spaces <- Processes, Unmapped <- {},
  Offers <- {{[frame |-> f, flags |-> g]} : f \in MapFrames, g \in MapFlags},
  view <- [p \in DOMAIN root |-> [v \in Pages |-> Seen(root[p], v)]]
ImplementsAddressSpaces == Abstract!Spec
=============================================================================
