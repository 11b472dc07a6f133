---------------------------- MODULE Paging_proof ----------------------------
(***************************************************************************)
(* The tables in memory are the trees of the address spaces and nothing    *)
(* else, and what the processor and the kernel find in them is what was    *)
(* last mapped there, for every number of entries, processes and frames.   *)
(*                                                                         *)
(* The proofs give every table its place: the level it serves, the range   *)
(* of pages it serves and the space it belongs to.                         *)
(***************************************************************************)
EXTENDS Paging, FiniteSetTheorems, TLAPS

-----------------------------------------------------------------------------
(* The walk and the processor's walk, of tables that are given *)

NextTableIn(tb, t, v, level) ==
  IF t = None THEN None
  ELSE IF Index(v, level) \in DOMAIN tb[t] /\ ~Large(tb[t][Index(v, level)])
    THEN tb[t][Index(v, level)].to
  ELSE None

PathIn(tb, r, v) ==
  LET t3 == NextTableIn(tb, r, v, 4)
      t2 == NextTableIn(tb, t3, v, 3)
      t1 == NextTableIn(tb, t2, v, 2)
  IN  <<t1, t2, t3, r>>

WalkedIn(tb, accesses, v, level) ==
  {IF x.leaf THEN x
   ELSE [frame |-> tb[x.frame][Index(v, level)].to
                     + IF Large(tb[x.frame][Index(v, level)]) THEN v % Span[level - 1] ELSE 0,
         leaf |-> Large(tb[x.frame][Index(v, level)]),
         flags |-> (x.flags \cap tb[x.frame][Index(v, level)].flags)
                     \cup ((x.flags \cup tb[x.frame][Index(v, level)].flags) \cap {"NoExecute"})]
     : x \in {y \in accesses : y.leaf \/ Index(v, level) \in DOMAIN tb[y.frame]}}

Start(r) == {[frame |-> r, leaf |-> FALSE, flags |-> {"User", "Writable"}]}

SeenIn(tb, r, v) ==
  {[frame |-> x.frame, flags |-> x.flags] :
     x \in WalkedIn(tb, WalkedIn(tb, WalkedIn(tb, WalkedIn(tb, Start(r), v, 4), v, 3), v, 2), v, 1)}

LEMMA PathIsPathIn ==
  /\ \A r, v : Path(r, v) = PathIn(table, r, v)
  /\ \A p, v : Path(root[p], v)' = PathIn(table', root'[p], v)
BY DEF Path, PathIn, NextTable, NextTableIn, Present, Entry

LEMMA SeenIsSeenIn ==
  /\ \A r, v : Seen(r, v) = SeenIn(table, r, v)
  /\ \A p, v : Seen(root[p], v)' = SeenIn(table', root'[p], v)
BY DEF Seen, SeenIn, Walked, WalkedIn, Start, Present, Entry

-----------------------------------------------------------------------------
(* The inductive invariant *)

Owners == Processes \cup {Kernel, None}

\* Where a table is: its level, the pages it serves, of whose space.  None owns
\* what the spaces share; level 0 is that of tables in no space.
Place == [level : 0 .. LEVELS, range : Nat, owner : Owners]

\* The place of the table that entry i of a table leads to.
Under(place, i) ==
  [level |-> place.level - 1,
   range |-> place.range * FANOUT + i,
   owner |-> IF place.level = LEVELS /\ i \in KernelHalf THEN None ELSE place.owner]

RootPlace(p) == [level |-> LEVELS, range |-> 0, owner |-> p]

Typed(tb) ==
  \A t \in DOMAIN tb :
    /\ DOMAIN tb[t] \subseteq Indices
    /\ \A i \in DOMAIN tb[t] : tb[t][i] \in [to : Nat, flags : SUBSET Flags]

\* Every space has a root, and every root a space.
Rooted(tb, rt, pl) ==
  /\ None \notin DOMAIN tb
  /\ pl \in [DOMAIN tb -> Place]
  /\ \A p \in DOMAIN rt : rt[p] \in DOMAIN tb /\ pl[rt[p]] = RootPlace(p)
  /\ \A t \in DOMAIN tb :
       pl[t].level = LEVELS => pl[t].owner \in DOMAIN rt /\ t = rt[pl[t].owner]

\* Entries lead to tables in their place ...
Descends(tb, pl) ==
  \A t \in DOMAIN tb : pl[t].level >= 2 => \A i \in DOMAIN tb[t] : ~Large(tb[t][i]) =>
    tb[t][i].to \in DOMAIN tb /\ pl[tb[t][i].to] = Under(pl[t], i)

\* ... and one leads to every table that is not a root.
Linked(tb, pl) ==
  \A u \in DOMAIN tb : pl[u].level \in 1 .. LEVELS - 1 =>
    \E t \in DOMAIN tb : \E i \in DOMAIN tb[t] :
      pl[t].level = pl[u].level + 1 /\ ~Large(tb[t][i]) /\ tb[t][i].to = u

\* The kernel half of all roots is the same.
KernelShared(tb, rt) ==
  \A p \in DOMAIN rt : \A i \in KernelHalf :
    /\ i \in DOMAIN tb[rt[p]] <=> i \in DOMAIN tb[rt[Kernel]]
    /\ i \in DOMAIN tb[rt[p]] => tb[rt[p]][i] = tb[rt[Kernel]][i]

\* An entry of the user half of a process.
UserEntry(tb, pl, t, i) ==
  /\ pl[t].owner \in Processes
  /\ i \in DOMAIN tb[t]
  /\ pl[t].level = LEVELS => i \notin KernelHalf

\* It is no large page, and grants what the entries below it grant.
Grants(tb, pl) ==
  \A t \in DOMAIN tb : \A i \in Indices : UserEntry(tb, pl, t, i) =>
    /\ ~Large(tb[t][i])
    /\ pl[t].level >= 2 =>
         /\ tb[t][i].flags \subseteq {"User", "Writable"}
         /\ \A j \in DOMAIN tb[tb[t][i].to] :
              TableFlags(tb[tb[t][i].to][j].flags) \subseteq tb[t][i].flags

Shape(tb, rt, pl) ==
  /\ Typed(tb)
  /\ Rooted(tb, rt, pl)
  /\ Descends(tb, pl)
  /\ Linked(tb, pl)
  /\ KernelShared(tb, rt)
  /\ Grants(tb, pl)

\* The tables in no space are the boot loader's, once the kernel left them.
BootLeft(pl) ==
  /\ \A t \in DOMAIN table : pl[t].level = 0 =>
       t \in DOMAIN BootTables /\ pl[t].owner = None
  /\ IF root[Kernel] = BootRoot
       THEN DOMAIN root = {Kernel} /\ free = Pool
       ELSE \A t \in DOMAIN BootTables : pl[t].level = 0

Frames ==
  /\ free \subseteq Pool
  /\ DOMAIN table = DOMAIN BootTables \cup (Pool \ free)
  /\ Kernel \in DOMAIN root
  /\ DOMAIN root \subseteq Processes \cup {Kernel}

IInv == Frames /\ \E pl : Shape(table, root, pl) /\ BootLeft(pl)

-----------------------------------------------------------------------------
(* Arithmetic of indices *)

LEMMA Shapes ==
  /\ FANOUT \in Nat /\ FANOUT >= 2
  /\ Indices = 0 .. (FANOUT - 1)
  /\ KernelHalf \subseteq Indices
  /\ LEVELS = 4 /\ Levels = {1, 2, 3, 4}
BY ShapeAssumption DEF Indices, KernelHalf, LEVELS, Levels

LEMMA Spans ==
  /\ Span \in [0 .. LEVELS -> Nat \ {0}]
  /\ Span[0] = 1
  /\ \A l \in Levels : Span[l] = FANOUT * Span[l - 1]
<1> DEFINE S(f) == [l \in 0 .. LEVELS |-> IF l = 0 THEN 1 ELSE FANOUT * f[l - 1]]
           s1 == FANOUT * 1
           s2 == FANOUT * s1
           s3 == FANOUT * s2
           s4 == FANOUT * s3
           w == [l \in 0 .. LEVELS |->
                   IF l = 0 THEN 1 ELSE IF l = 1 THEN s1 ELSE IF l = 2 THEN s2
                   ELSE IF l = 3 THEN s3 ELSE s4]
<1>1. FANOUT \in Nat \ {0}
  BY Shapes
<1>2. \A x \in Nat \ {0} : FANOUT * x \in Nat \ {0}
  BY <1>1
<1>3. s1 \in Nat \ {0} /\ s2 \in Nat \ {0} /\ s3 \in Nat \ {0} /\ s4 \in Nat \ {0}
  <2>1. s1 \in Nat \ {0} BY <1>2
  <2>2. s2 \in Nat \ {0} BY <2>1, <1>2
  <2>3. s3 \in Nat \ {0} BY <2>2, <1>2
  <2>4. s4 \in Nat \ {0} BY <2>3, <1>2
  <2>5. QED BY <2>1, <2>2, <2>3, <2>4
<1>4. w = S(w)
  <2>1. \A l \in 0 .. 4 : l = 0 \/ l = 1 \/ l = 2 \/ l = 3 \/ l = 4
    OBVIOUS
  <2> HIDE DEF s1, s2, s3, s4
  <2>2. w[0] = 1 /\ w[1] = s1 /\ w[2] = s2 /\ w[3] = s3 /\ w[4] = s4
    BY Shapes
  <2>3. \A l \in 0 .. LEVELS : w[l] = IF l = 0 THEN 1 ELSE FANOUT * w[l - 1]
    <3> HIDE DEF w
    <3>1. s1 = FANOUT * 1 /\ s2 = FANOUT * s1 /\ s3 = FANOUT * s2 /\ s4 = FANOUT * s3
      BY DEF s1, s2, s3, s4
    <3>2. QED BY <2>1, <2>2, <3>1, Shapes
  <2>4. QED BY <2>3
<1>5. Span = S(Span)
  <2>1. Span = CHOOSE f : f = S(f)
    BY DEF Span
  <2> HIDE DEF w, S
  <2>2. QED BY <1>4, <2>1
<1>6. Span[0] = 1 /\ \A l \in Levels : Span[l] = FANOUT * Span[l - 1]
  BY <1>5, Shapes
<1>7. Span \in [0 .. LEVELS -> Nat \ {0}]
  <2>1. /\ Span[1] = FANOUT * Span[0] /\ Span[2] = FANOUT * Span[1]
        /\ Span[3] = FANOUT * Span[2] /\ Span[4] = FANOUT * Span[3]
    BY <1>6, Shapes
  <2>2. Span[0] \in Nat \ {0}
    BY <1>6
  <2>3. Span[1] \in Nat \ {0}
    BY <2>1, <2>2, <1>2
  <2>4. Span[2] \in Nat \ {0}
    BY <2>1, <2>3, <1>2
  <2>5. Span[3] \in Nat \ {0}
    BY <2>1, <2>4, <1>2
  <2>6. Span[4] \in Nat \ {0}
    BY <2>1, <2>5, <1>2
  <2>7. \A l \in 0 .. LEVELS : Span[l] \in Nat \ {0}
    BY <2>2, <2>3, <2>4, <2>5, <2>6, Shapes
  <2>8. Span = [l \in 0 .. LEVELS |-> Span[l]]
    BY <1>5
  <2>9. QED BY <2>7, <2>8
<1>8. QED BY <1>6, <1>7

\* A quotient and a remainder determine each other.
LEMMA Division ==
  ASSUME NEW m \in Nat \ {0}, NEW x \in Nat, NEW i \in 0 .. (m - 1),
         NEW y \in Nat, NEW j \in 0 .. (m - 1)
  PROVE  /\ (x * m + i) \div m = x
         /\ x * m + i = y * m + j => x = y /\ i = j
<1>1. \A a, b \in Nat : a > b => a * m >= b * m + m
  <2> SUFFICES ASSUME NEW a \in Nat, NEW b \in Nat, a > b
               PROVE  a * m >= b * m + m
    OBVIOUS
  <2>1. a * m = (b + 1) * m + (a - (b + 1)) * m
    OBVIOUS
  <2>2. (a - (b + 1)) * m >= 0
    OBVIOUS
  <2>3. QED BY <2>1, <2>2
<1>2. \A a, b \in Nat : \A c, d \in 0 .. (m - 1) :
        a * m + c = b * m + d => a = b /\ c = d
  <2> SUFFICES ASSUME NEW a \in Nat, NEW b \in Nat, NEW c \in 0 .. (m - 1),
                      NEW d \in 0 .. (m - 1), a * m + c = b * m + d
               PROVE  a = b /\ c = d
    OBVIOUS
  <2>1. a * m \in Nat /\ b * m \in Nat
    OBVIOUS
  <2>2. ~(a > b) /\ ~(b > a)
    BY <1>1, <2>1
  <2>3. QED BY <2>1, <2>2
<1>3. DEFINE z == x * m + i
<1>4. z \in Nat
  OBVIOUS
<1>5. /\ z \div m \in Nat /\ z % m \in 0 .. (m - 1)
      /\ z = ((z \div m) * m) + (z % m)
  BY <1>4
<1>6. QED BY <1>2, <1>5

LEMMA SameDigit ==
  \A x, y \in Nat : \A i, j \in Indices :
    x * FANOUT + i = y * FANOUT + j => x = y /\ i = j
<1> SUFFICES ASSUME NEW x \in Nat, NEW y \in Nat, NEW i \in Indices, NEW j \in Indices,
                    x * FANOUT + i = y * FANOUT + j
             PROVE  x = y /\ i = j
  OBVIOUS
<1>1. FANOUT \in Nat \ {0} /\ i \in 0 .. (FANOUT - 1) /\ j \in 0 .. (FANOUT - 1)
  BY Shapes
<1>2. QED BY <1>1, Division

LEMMA NestedDivision ==
  ASSUME NEW f \in Nat \ {0}, NEW s \in Nat \ {0}, NEW v \in Nat
  PROVE  v \div (f * s) = (v \div s) \div f
<1>1. PICK q \in Nat, i \in 0 .. (s - 1) : q = v \div s /\ v = q * s + i
  OBVIOUS
<1>2. PICK x \in Nat, j \in 0 .. (f - 1) : x = q \div f /\ q = x * f + j
  OBVIOUS
<1>3. f * s \in Nat \ {0}
  OBVIOUS
<1> DEFINE k == j * s + i
<1>4. v = x * (f * s) + k
  <2>1. \A a, b \in Int : (a + b) * s = a * s + b * s
    OBVIOUS
  <2>2. (x * f) * s = x * (f * s)
    BY <1>2
  <2>3. x * f \in Int /\ j \in Int
    BY <1>2
  <2>4. (x * f + j) * s = x * (f * s) + j * s
    BY <2>1, <2>2, <2>3
  <2>5. x * (f * s) \in Int /\ j * s \in Int /\ i \in Int
    BY <1>1, <1>2
  <2>6. v = (x * f + j) * s + i
    BY <1>1, <1>2
  <2>7. QED BY <2>4, <2>5, <2>6
<1>5. k \in 0 .. (f * s - 1)
  <2>1. j * s <= (f - 1) * s
    BY <1>2
  <2>2. (f - 1) * s = f * s - s
    OBVIOUS
  <2>3. j * s \in Nat
    BY <1>2
  <2>4. QED BY <2>1, <2>2, <2>3, <1>1, <1>3
<1> HIDE DEF k
<1>6. v \div (f * s) = x
  <2> DEFINE m == f * s
  <2> HIDE DEF m
  <2>1. (x * m + k) \div m = x
    BY <1>2, <1>3, <1>5, Division DEF m
  <2>2. QED BY <2>1, <1>4 DEF m
<1>7. QED BY <1>1, <1>2, <1>6

\* What is shifted out at one level is what is shifted out at the next and its
\* index there.
LEMMA Digits ==
  ASSUME NEW v \in Nat, NEW l \in Levels
  PROVE  /\ Index(v, l) \in Indices
         /\ v \div Span[l] \in Nat
         /\ v \div Span[l - 1] = (v \div Span[l]) * FANOUT + Index(v, l)
<1>1. l \in 0 .. LEVELS /\ l - 1 \in 0 .. LEVELS
  BY Shapes
<1>2. PICK s \in Nat \ {0} : s = Span[l - 1] /\ Span[l] = FANOUT * s
  BY <1>1, Spans
<1>3. PICK q \in Nat : q = v \div s
  OBVIOUS
<1>4. q \div FANOUT \in Nat /\ q % FANOUT \in 0 .. (FANOUT - 1)
      /\ q = ((q \div FANOUT) * FANOUT) + (q % FANOUT)
  BY Shapes
<1>5. v \div Span[l] = q \div FANOUT
  <2>1. FANOUT \in Nat \ {0}
    BY Shapes
  <2>2. v \div (FANOUT * s) = (v \div s) \div FANOUT
    BY <2>1, NestedDivision
  <2>3. QED BY <2>2, <1>2, <1>3
<1>6. Index(v, l) = q % FANOUT
  BY <1>2, <1>3 DEF Index
<1>7. QED BY <1>2, <1>3, <1>4, <1>5, <1>6, Shapes

-----------------------------------------------------------------------------
(* Paths and places *)

\* The place of the table through which space p serves page v at a level.
PlaceOf(p, v, level) ==
  [level |-> level,
   range |-> v \div Span[level],
   owner |-> IF level < LEVELS /\ Index(v, LEVELS) \in KernelHalf THEN None ELSE p]

LEMMA PlacesOfPath ==
  ASSUME NEW p, NEW v \in Pages
  PROVE  /\ PlaceOf(p, v, LEVELS) = RootPlace(p)
         /\ \A l \in {2, 3, 4} : Under(PlaceOf(p, v, l), Index(v, l)) = PlaceOf(p, v, l - 1)
<1>1. v \in Nat /\ Span[4] \in Nat \ {0} /\ v < Span[4]
  <2>1. 4 \in 0 .. LEVELS
    BY Shapes
  <2>2. Span[4] \in Nat \ {0}
    BY <2>1, Spans
  <2>3. Pages = 0 .. (Span[4] - 1)
    BY Shapes DEF Pages
  <2>4. QED BY <2>2, <2>3
<1>2. v \div Span[4] = 0
  BY <1>1
<1>3. ASSUME NEW l \in {2, 3, 4}
      PROVE  Under(PlaceOf(p, v, l), Index(v, l)) = PlaceOf(p, v, l - 1)
  <2>1. v \div Span[l - 1] = (v \div Span[l]) * FANOUT + Index(v, l)
    BY <1>1, Digits, Shapes
  <2>2. (l = LEVELS) = ~(l < LEVELS) /\ l - 1 < LEVELS
    BY Shapes
  <2>3. l = LEVELS \/ (l < LEVELS /\ l # LEVELS)
    BY Shapes
  <2>4. QED BY <2>1, <2>2, <2>3 DEF Under, PlaceOf
<1>4. QED BY <1>2, <1>3, Shapes DEF PlaceOf, RootPlace

LEMMA Down ==
  ASSUME NEW tb, NEW rt, NEW pl, Shape(tb, rt, pl),
         NEW p, NEW v \in Pages, NEW l \in {2, 3, 4},
         NEW t \in DOMAIN tb, pl[t] = PlaceOf(p, v, l),
         NextTableIn(tb, t, v, l) # None
  PROVE  /\ NextTableIn(tb, t, v, l) \in DOMAIN tb
         /\ pl[NextTableIn(tb, t, v, l)] = PlaceOf(p, v, l - 1)
<1> DEFINE i == Index(v, l)
<1>1. i \in DOMAIN tb[t] /\ ~Large(tb[t][i]) /\ NextTableIn(tb, t, v, l) = tb[t][i].to
  BY DEF NextTableIn
<1>2. pl[t].level = l
  BY DEF PlaceOf
<1>3. tb[t][i].to \in DOMAIN tb /\ pl[tb[t][i].to] = Under(pl[t], i)
  BY <1>1, <1>2 DEF Shape, Descends
<1>4. QED BY <1>1, <1>3, PlacesOfPath

LEMMA Up ==
  ASSUME NEW tb, NEW rt, NEW pl, Shape(tb, rt, pl),
         NEW p \in DOMAIN rt, NEW v \in Pages, NEW l \in {2, 3, 4},
         NEW u \in DOMAIN tb, pl[u] = PlaceOf(p, v, l - 1)
  PROVE  \E t \in DOMAIN tb :
           /\ pl[t] = PlaceOf(p, v, l)
           /\ NextTableIn(tb, t, v, l) = u
<1> DEFINE i == Index(v, l)
<1>1. pl[u].level = l - 1 /\ pl[u].level \in 1 .. LEVELS - 1
  BY Shapes DEF PlaceOf
<1>2. PICK t \in DOMAIN tb : \E j \in DOMAIN tb[t] :
        pl[t].level = pl[u].level + 1 /\ ~Large(tb[t][j]) /\ tb[t][j].to = u
  BY <1>1 DEF Shape, Linked
<1>2a. PICK j \in DOMAIN tb[t] :
        pl[t].level = pl[u].level + 1 /\ ~Large(tb[t][j]) /\ tb[t][j].to = u
  BY <1>2
<1>3. pl[t].level = l
  BY <1>1, <1>2
<1>4. pl[u] = Under(pl[t], j)
  BY <1>2a, <1>3 DEF Shape, Descends
<1>5. j \in Indices /\ pl[t] \in Place /\ pl[t].range \in Nat
  BY DEF Shape, Typed, Rooted, Place
<1>6. pl[t].range = v \div Span[l] /\ j = i
  <2>1. v \in Nat
    BY Spans, Shapes DEF Pages
  <2>2. i \in Indices /\ v \div Span[l] \in Nat
        /\ v \div Span[l - 1] = (v \div Span[l]) * FANOUT + i
    BY <2>1, Digits, Shapes
  <2>3. v \div Span[l - 1] = pl[t].range * FANOUT + j
    BY <1>4 DEF PlaceOf, Under
  <2>4. pl[t].range * FANOUT + j = (v \div Span[l]) * FANOUT + i
    BY <2>2, <2>3
  <2> HIDE DEF i
  <2>5. QED BY <2>2, <2>4, <1>5, SameDigit
<1>7. None \notin DOMAIN tb
  BY DEF Shape, Rooted
<1>8. CASE l = LEVELS
  <2>1. pl[t].owner \in DOMAIN rt /\ t = rt[pl[t].owner]
    BY <1>3, <1>8 DEF Shape, Rooted
  <2>2. rt[p] \in DOMAIN tb /\ pl[rt[p]] = PlaceOf(p, v, l)
    BY <1>8, PlacesOfPath DEF Shape, Rooted
  <2>3. CASE i \in KernelHalf
    <3>1. i \in DOMAIN tb[rt[p]] /\ tb[rt[p]][i] = tb[t][i]
      BY <2>1, <2>3, <1>2a, <1>6 DEF Shape, KernelShared
    <3>2. rt[p] # None
      BY <2>2, <1>7
    <3>3. NextTableIn(tb, rt[p], v, l) = u
      BY <3>1, <3>2, <1>2a, <1>6 DEF NextTableIn
    <3>4. QED BY <2>2, <3>3
  <2>4. CASE i \notin KernelHalf
    <3>1. pl[u].owner = p
      BY <2>4, <1>8, Shapes DEF PlaceOf
    <3>2. pl[t].owner = p
      BY <3>1, <1>4, <1>6, <2>4 DEF Under
    <3>3. t = rt[p]
      BY <2>1, <3>2
    <3>4. NextTableIn(tb, t, v, l) = u
      BY <1>2a, <1>6, <1>7 DEF NextTableIn
    <3>5. QED BY <2>2, <3>3, <3>4
  <2>5. QED BY <2>3, <2>4
<1>9. CASE l # LEVELS
  <2>1. pl[t].owner = pl[u].owner
    BY <1>3, <1>4, <1>9 DEF Under
  <2>2. l < LEVELS /\ l - 1 < LEVELS
    BY <1>9, Shapes
  <2>3. pl[t] = PlaceOf(p, v, l)
    BY <2>1, <2>2, <1>3, <1>5, <1>6 DEF Place, PlaceOf
  <2>4. NextTableIn(tb, t, v, l) = u
    BY <1>2a, <1>6, <1>7 DEF NextTableIn
  <2>5. QED BY <2>3, <2>4
<1>10. QED BY <1>8, <1>9

LEMMA PathSteps ==
  ASSUME NEW tb, NEW r, NEW v
  PROVE  /\ PathIn(tb, r, v)[4] = r
         /\ \A l \in {2, 3, 4} :
              PathIn(tb, r, v)[l - 1] = NextTableIn(tb, PathIn(tb, r, v)[l], v, l)
         /\ \A l \in {2, 3, 4} :
              PathIn(tb, r, v)[l] = None => PathIn(tb, r, v)[l - 1] = None
<1> DEFINE path == PathIn(tb, r, v)
<1>1. path[4] = r
  BY DEF PathIn
<1>2. path[3] = NextTableIn(tb, path[4], v, 4)
  BY DEF PathIn
<1>3. path[2] = NextTableIn(tb, path[3], v, 3)
  BY DEF PathIn
<1>4. path[1] = NextTableIn(tb, path[2], v, 2)
  BY DEF PathIn
<1> HIDE DEF path
<1>5. \A l \in {2, 3, 4} : path[l - 1] = NextTableIn(tb, path[l], v, l)
  <2>1. 4 - 1 = 3 /\ 3 - 1 = 2 /\ 2 - 1 = 1
    OBVIOUS
  <2>2. QED BY <2>1, <1>2, <1>3, <1>4
<1>6. \A l \in {2, 3, 4} : path[l] = None => path[l - 1] = None
  BY <1>5 DEF NextTableIn
<1>7. QED BY <1>1, <1>5, <1>6 DEF path

\* A walk finds at each level the one table in that place, or none.
LEMMA PathPlaces ==
  ASSUME NEW tb, NEW rt, NEW pl, Shape(tb, rt, pl),
         NEW p \in DOMAIN rt, NEW v \in Pages, NEW l \in Levels
  PROVE  /\ PathIn(tb, rt[p], v)[l] # None =>
              /\ PathIn(tb, rt[p], v)[l] \in DOMAIN tb
              /\ pl[PathIn(tb, rt[p], v)[l]] = PlaceOf(p, v, l)
         /\ \A u \in DOMAIN tb : pl[u] = PlaceOf(p, v, l) => u = PathIn(tb, rt[p], v)[l]
<1> DEFINE path == PathIn(tb, rt[p], v)
           Sound(k) == path[k] # None => path[k] \in DOMAIN tb /\ pl[path[k]] = PlaceOf(p, v, k)
           Complete(k) == \A u \in DOMAIN tb : pl[u] = PlaceOf(p, v, k) => u = path[k]
<1>1. /\ path[4] = rt[p]
      /\ \A k \in {2, 3, 4} : path[k - 1] = NextTableIn(tb, path[k], v, k)
      /\ \A k \in {2, 3, 4} : path[k] = None => path[k - 1] = None
  BY PathSteps
<1> HIDE DEF path
<1>2. Sound(4) /\ Complete(4)
  <2>1. rt[p] \in DOMAIN tb /\ pl[rt[p]] = PlaceOf(p, v, 4)
    BY PlacesOfPath, Shapes DEF Shape, Rooted
  <2>2. ASSUME NEW u \in DOMAIN tb, pl[u] = PlaceOf(p, v, 4)
        PROVE  u = rt[p]
    <3>1. pl[u].level = LEVELS /\ pl[u].owner = p
      BY <2>2, Shapes DEF PlaceOf
    <3>2. QED BY <3>1 DEF Shape, Rooted
  <2>3. QED BY <1>1, <2>1, <2>2
<1>3. ASSUME NEW k \in {2, 3, 4}, Sound(k), Complete(k)
      PROVE  Sound(k - 1) /\ Complete(k - 1)
  <2>1. Sound(k - 1)
    BY <1>1, <1>3, Down
  <2>2. ASSUME NEW u \in DOMAIN tb, pl[u] = PlaceOf(p, v, k - 1)
        PROVE  u = path[k - 1]
    <3>1. PICK t \in DOMAIN tb : pl[t] = PlaceOf(p, v, k) /\ NextTableIn(tb, t, v, k) = u
      BY <2>2, Up
    <3>2. QED BY <3>1, <1>1, <1>3
  <2>3. QED BY <2>1, <2>2
<1> HIDE DEF Sound, Complete
<1>4. Sound(3) /\ Complete(3)
  <2>1. 4 - 1 = 3
    OBVIOUS
  <2>2. QED BY <1>2, <1>3, <2>1
<1>5. Sound(2) /\ Complete(2)
  <2>1. 3 - 1 = 2
    OBVIOUS
  <2>2. QED BY <1>3, <1>4, <2>1
<1>6. Sound(1) /\ Complete(1)
  <2>1. 2 - 1 = 1
    OBVIOUS
  <2>2. QED BY <1>3, <1>5, <2>1
<1>7. Sound(l) /\ Complete(l)
  BY <1>2, <1>4, <1>5, <1>6, Shapes
<1>8. QED BY <1>7 DEF Sound, Complete, path

-----------------------------------------------------------------------------
(* What is reached *)

LEMMA ChildPlaces ==
  ASSUME NEW tb, NEW rt, NEW pl, Shape(tb, rt, pl), NEW p, NEW l \in {2, 3, 4}, NEW of,
         \A t \in of : t \in DOMAIN tb /\ pl[t].level = l /\ pl[t].owner \in {p, None}
  PROVE  \A t \in Children(tb, of) :
           t \in DOMAIN tb /\ pl[t].level = l - 1 /\ pl[t].owner \in {p, None}
<1> SUFFICES ASSUME NEW t \in of, NEW i \in DOMAIN tb[t], ~Large(tb[t][i])
             PROVE  LET u == tb[t][i].to
                    IN  u \in DOMAIN tb /\ pl[u].level = l - 1 /\ pl[u].owner \in {p, None}
  BY DEF Children
<1>1. tb[t][i].to \in DOMAIN tb /\ pl[tb[t][i].to] = Under(pl[t], i)
  BY DEF Shape, Descends
<1>2. QED BY <1>1 DEF Under

LEMMA ReachedPlaces ==
  ASSUME NEW tb, NEW rt, NEW pl, Shape(tb, rt, pl), NEW p \in DOMAIN rt
  PROVE  \A l \in Levels : \A t \in Below(tb, rt[p])[l] :
           t \in DOMAIN tb /\ pl[t].level = l /\ pl[t].owner \in {p, None}
<1> DEFINE Good(of, l) ==
             \A t \in of : t \in DOMAIN tb /\ pl[t].level = l /\ pl[t].owner \in {p, None}
           third == Children(tb, {rt[p]})
           second == Children(tb, third)
<1>1. Good({rt[p]}, 4)
  <2>1. rt[p] \in DOMAIN tb /\ pl[rt[p]] = RootPlace(p)
    BY DEF Shape, Rooted
  <2>2. pl[rt[p]].level = 4 /\ pl[rt[p]].owner = p
    BY <2>1, Shapes DEF RootPlace
  <2>3. QED BY <2>1, <2>2
<1>2. \A of : \A l \in {2, 3, 4} : Good(of, l) => Good(Children(tb, of), l - 1)
  BY ChildPlaces
<1> HIDE DEF Good
<1>3. Good(third, 3)
  <2>1. 4 - 1 = 3 OBVIOUS
  <2>2. QED BY <1>1, <1>2, <2>1
<1>4. Good(second, 2)
  <2>1. 3 - 1 = 2 OBVIOUS
  <2>2. QED BY <1>2, <1>3, <2>1
<1>5. Good(Children(tb, second), 1)
  <2>1. 2 - 1 = 1 OBVIOUS
  <2>2. QED BY <1>2, <1>4, <2>1
<1>6. Below(tb, rt[p]) = <<Children(tb, second), second, third, {rt[p]}>>
  BY DEF Below
<1> HIDE DEF third, second
<1>7. \A l \in Levels : Good(Below(tb, rt[p])[l], l)
  <2>1. /\ Below(tb, rt[p])[1] = Children(tb, second)
        /\ Below(tb, rt[p])[2] = second
        /\ Below(tb, rt[p])[3] = third
        /\ Below(tb, rt[p])[4] = {rt[p]}
    BY <1>6
  <2>2. QED BY <1>1, <1>3, <1>4, <1>5, <2>1, Shapes
<1>8. QED BY <1>7 DEF Good

LEMMA BelowSteps ==
  ASSUME NEW tb, NEW r
  PROVE  /\ Below(tb, r)[4] = {r}
         /\ \A l \in {2, 3, 4} : Below(tb, r)[l - 1] = Children(tb, Below(tb, r)[l])
<1> DEFINE b == Below(tb, r)
<1>1. b[4] = {r}
  BY DEF Below
<1>2. b[3] = Children(tb, b[4])
  BY DEF Below
<1>3. b[2] = Children(tb, b[3])
  BY DEF Below
<1>4. b[1] = Children(tb, b[2])
  BY DEF Below
<1> HIDE DEF b
<1>5. 4 - 1 = 3 /\ 3 - 1 = 2 /\ 2 - 1 = 1
  OBVIOUS
<1>6. QED BY <1>1, <1>2, <1>3, <1>4, <1>5 DEF b

LEMMA PlacesReached ==
  ASSUME NEW tb, NEW rt, NEW pl, Shape(tb, rt, pl)
  PROVE  \A l \in Levels : \A t \in DOMAIN tb : pl[t].level = l =>
           \E p \in DOMAIN rt : t \in Below(tb, rt[p])[l]
<1> DEFINE Reached(l) == \A t \in DOMAIN tb : pl[t].level = l =>
                            \E p \in DOMAIN rt : t \in Below(tb, rt[p])[l]
<1>1. Reached(4)
  BY BelowSteps, Shapes DEF Shape, Rooted
<1>2. ASSUME NEW l \in {2, 3, 4}, Reached(l)
      PROVE  Reached(l - 1)
  <2> SUFFICES ASSUME NEW u \in DOMAIN tb, pl[u].level = l - 1
               PROVE  \E p \in DOMAIN rt : u \in Below(tb, rt[p])[l - 1]
    OBVIOUS
  <2>1. pl[u].level \in 1 .. LEVELS - 1 /\ pl[u].level + 1 = l
    BY Shapes
  <2>2. PICK t \in DOMAIN tb : \E i \in DOMAIN tb[t] :
          pl[t].level = l /\ ~Large(tb[t][i]) /\ tb[t][i].to = u
    BY <2>1 DEF Shape, Linked
  <2>3. PICK p \in DOMAIN rt : t \in Below(tb, rt[p])[l]
    BY <1>2, <2>2
  <2>4. u \in Children(tb, Below(tb, rt[p])[l])
    BY <2>2, <2>3 DEF Children
  <2>5. QED BY <2>4, BelowSteps
<1> HIDE DEF Reached
<1>3. 4 - 1 = 3 /\ 3 - 1 = 2 /\ 2 - 1 = 1
  OBVIOUS
<1>4. Reached(3)
  BY <1>1, <1>2, <1>3
<1>5. Reached(2)
  BY <1>2, <1>3, <1>4
<1>6. Reached(1)
  BY <1>2, <1>3, <1>5
<1>7. \A l \in Levels : Reached(l)
  BY <1>1, <1>4, <1>5, <1>6, Shapes
<1>8. QED BY <1>7 DEF Reached

LEMMA PositionPlaces ==
  ASSUME NEW pl, Shape(table, root, pl), NEW p \in DOMAIN root,
         NEW pages, pages \subseteq Pages, NEW x \in Positions(root[p], pages)
  PROVE  /\ x[1] \in DOMAIN table
         /\ x = <<x[1], pl[x[1]].level, pl[x[1]].range>>
         /\ pages \subseteq UserPages => pl[x[1]].owner = p
<1>1. PICK v \in pages, l \in Levels :
        /\ Path(root[p], v)[l] # None
        /\ x = <<Path(root[p], v)[l], l, v \div Span[l]>>
  BY DEF Positions
<1>2. x[1] \in DOMAIN table /\ pl[x[1]] = PlaceOf(p, v, l)
  BY <1>1, PathIsPathIn, PathPlaces
<1>3. v \in UserPages => Index(v, LEVELS) \notin KernelHalf
  BY DEF UserPages
<1>4. QED BY <1>1, <1>2, <1>3 DEF PlaceOf

LEMMA Sound ==
  ASSUME NEW pl, Frames, Shape(table, root, pl), BootLeft(pl)
  PROVE  TablesSound
<1>1. ASSUME NEW p \in DOMAIN root, NEW t \in Reach(root[p])
      PROVE  t \in DOMAIN table /\ pl[t].level \in Levels /\ pl[t].owner \in {p, None}
  <2>1. PICK l \in Levels : t \in Below(table, root[p])[l]
    BY <1>1 DEF Reach
  <2>2. QED BY <2>1, ReachedPlaces
<1>2. \A p \in DOMAIN root : \A x, y \in Positions(root[p], Pages) : x[1] = y[1] => x = y
  <2> SUFFICES ASSUME NEW p \in DOMAIN root, NEW x \in Positions(root[p], Pages),
                      NEW y \in Positions(root[p], Pages), x[1] = y[1]
               PROVE  x = y
    OBVIOUS
  <2>1. x = <<x[1], pl[x[1]].level, pl[x[1]].range>>
    BY PositionPlaces
  <2>2. y = <<y[1], pl[y[1]].level, pl[y[1]].range>>
    BY PositionPlaces
  <2>3. QED BY <2>1, <2>2
<1>3. ASSUME NEW p \in DOMAIN root, NEW q \in DOMAIN root, p # q
      PROVE  UserTables(root[p]) \cap Reach(root[q]) = {}
  <2> SUFFICES ASSUME NEW x \in Positions(root[p], UserPages), x[1] \in Reach(root[q])
               PROVE  FALSE
    BY DEF UserTables
  <2>1. UserPages \subseteq Pages
    BY DEF UserPages
  <2>2. pl[x[1]].owner = p
    BY <2>1, PositionPlaces
  <2>3. p # None
    BY ProcessAssumption DEF Frames
  <2>4. QED BY <1>1, <1>3, <2>2, <2>3
<1>4. root[Kernel] # BootRoot =>
        \A p \in DOMAIN root : Reach(root[p]) \cap DOMAIN BootTables = {}
  BY <1>1, Shapes DEF BootLeft
<1>5. Pool \ free \subseteq UNION {Reach(root[p]) : p \in DOMAIN root}
  <2> SUFFICES ASSUME NEW t \in Pool \ free
               PROVE  \E p \in DOMAIN root : t \in Reach(root[p])
    OBVIOUS
  <2>1. t \in DOMAIN table /\ t \notin DOMAIN BootTables
    BY FrameAssumption DEF Frames
  <2>2. pl[t] \in Place /\ pl[t].level # 0
    BY <2>1 DEF Shape, Rooted, BootLeft
  <2>3. pl[t].level \in Levels
    BY <2>2, Shapes DEF Place
  <2>4. PICK p \in DOMAIN root : t \in Below(table, root[p])[pl[t].level]
    BY <2>1, <2>3, PlacesReached
  <2>5. QED BY <2>3, <2>4 DEF Reach
<1>6. \A p \in DOMAIN root : Reach(root[p]) \cap Pool \subseteq Pool \ free
  BY <1>1, FrameAssumption DEF Frames
<1>7. TablesOwned
  BY <1>2, <1>3, <1>4 DEF TablesOwned
<1>8. NoTableLost
  <2> DEFINE all == UNION {Reach(root[p]) : p \in DOMAIN root}
  <2>1. all \cap Pool \subseteq Pool \ free
    BY <1>6
  <2>2. Pool \ free \subseteq all
    BY <1>5
  <2> HIDE DEF all
  <2>3. Pool \ free = all \cap Pool
    BY <2>1, <2>2
  <2>4. QED BY <2>3 DEF NoTableLost, all
<1>9. QED BY <1>7, <1>8 DEF TablesSound

-----------------------------------------------------------------------------
(* The frames that are taken for tables *)

LEMMA Ranks ==
  ASSUME NEW S, S \subseteq Nat, IsFiniteSet(S)
  PROVE  /\ \A f, g \in S : Cardinality({h \in S : h < f}) = Cardinality({h \in S : h < g})
              => f = g
         /\ \A n \in 1 .. Cardinality(S) :
              \E f \in S : Cardinality({h \in S : h < f}) = n - 1
<1> DEFINE Smaller(f) == {h \in S : h < f}
           rank == [f \in S |-> Cardinality(Smaller(f))]
           size == Cardinality(S)
<1>1. size \in Nat
  BY FS_CardinalityType
<1>2. \A f \in S : IsFiniteSet(Smaller(f)) /\ Cardinality(Smaller(f)) \in Nat
  <2> SUFFICES ASSUME NEW f \in S
               PROVE  IsFiniteSet(Smaller(f)) /\ Cardinality(Smaller(f)) \in Nat
    OBVIOUS
  <2>1. Smaller(f) \subseteq S
    OBVIOUS
  <2> HIDE DEF Smaller
  <2>2. QED BY <2>1, FS_Subset, FS_CardinalityType
<1>3. \A f, g \in S : f < g => Cardinality(Smaller(f)) < Cardinality(Smaller(g))
  <2> SUFFICES ASSUME NEW f \in S, NEW g \in S, f < g
               PROVE  Cardinality(Smaller(f)) < Cardinality(Smaller(g))
    OBVIOUS
  <2>1. Smaller(f) \subseteq Smaller(g) /\ f \in Smaller(g) /\ f \notin Smaller(f)
    <3>1. \A h \in S : h < f => h < g
      OBVIOUS
    <3>2. ~(f < f)
      OBVIOUS
    <3>3. QED BY <3>1, <3>2
  <2> HIDE DEF Smaller
  <2>2. /\ Cardinality(Smaller(f)) <= Cardinality(Smaller(g))
        /\ Cardinality(Smaller(f)) = Cardinality(Smaller(g)) => Smaller(f) = Smaller(g)
    BY <1>2, <2>1, FS_Subset
  <2>3. QED BY <1>2, <2>1, <2>2
<1>4. \A f \in S : Cardinality(Smaller(f)) < size
  <2> SUFFICES ASSUME NEW f \in S
               PROVE  Cardinality(Smaller(f)) < size
    OBVIOUS
  <2>1. Smaller(f) \subseteq S /\ f \notin Smaller(f)
    OBVIOUS
  <2> HIDE DEF Smaller
  <2>2. /\ Cardinality(Smaller(f)) <= size
        /\ Cardinality(Smaller(f)) = size => Smaller(f) = S
    BY <2>1, FS_Subset
  <2>3. QED BY <1>1, <1>2, <2>1, <2>2
<1>5. \A f, g \in S : Cardinality(Smaller(f)) = Cardinality(Smaller(g)) => f = g
  <2> HIDE DEF Smaller
  <2>1. \A f, g \in S : f < g \/ g < f \/ f = g
    OBVIOUS
  <2>2. QED BY <1>2, <1>3, <2>1
<1> HIDE DEF Smaller
<1>6. CASE size = 0
  BY <1>5, <1>6 DEF Smaller
<1>7. CASE size # 0
  <2> DEFINE T == 0 .. (size - 1)
  <2>1. IsFiniteSet(T) /\ Cardinality(T) = size
    <3>1. 0 \in Int /\ size - 1 \in Int
      BY <1>1
    <3>2. IsFiniteSet(T) /\ Cardinality(T) = IF 0 > size - 1 THEN 0 ELSE (size - 1) - 0 + 1
      BY ONLY <3>1, FS_Interval
    <3>3. QED BY <3>2, <1>1, <1>7
  <2>2. rank \in [S -> T]
    BY <1>1, <1>2, <1>4
  <2>3. rank \in Injection(S, T)
    BY <2>2, <1>5 DEF Injection, IsInjective
  <2>4. rank \in Surjection(S, T)
    BY <2>1, <2>3, FS_Injection
  <2>5. \A n \in 1 .. size : n - 1 \in T
    BY <1>1
  <2>6. \A k \in T : \E f \in S : rank[f] = k
    BY <2>4 DEF Surjection
  <2>7. \A n \in 1 .. size : \E f \in S : Cardinality(Smaller(f)) = n - 1
    BY <2>5, <2>6
  <2>8. QED BY <1>5, <2>7 DEF Smaller
<1>8. QED BY <1>6, <1>7

LEMMA FreeFrames ==
  Frames => /\ free \subseteq Nat /\ IsFiniteSet(free) /\ Cardinality(free) \in Nat
            /\ None \notin free /\ free \cap DOMAIN table = {}
<1> SUFFICES ASSUME Frames
             PROVE  /\ free \subseteq Nat /\ IsFiniteSet(free) /\ Cardinality(free) \in Nat
                    /\ None \notin free /\ free \cap DOMAIN table = {}
  OBVIOUS
<1>1. free \subseteq Pool /\ DOMAIN table = DOMAIN BootTables \cup (Pool \ free)
  BY DEF Frames
<1>2. IsFiniteSet(free)
  BY <1>1, FrameAssumption, FS_Subset
<1>3. Cardinality(free) \in Nat
  BY <1>2, FS_CardinalityType
<1>4. QED BY <1>1, <1>2, <1>3, FrameAssumption

LEMMA NthFree ==
  ASSUME Frames, NEW n \in 1 .. Cardinality(free)
  PROVE  /\ Nth(n) \in free
         /\ \A m \in 1 .. Cardinality(free) : Nth(m) = Nth(n) => m = n
<1>1. free \subseteq Nat /\ IsFiniteSet(free) /\ Cardinality(free) \in Nat
  BY FreeFrames
<1>2. \A m \in 1 .. Cardinality(free) :
        Nth(m) \in free /\ Cardinality({g \in free : g < Nth(m)}) = m - 1
  <2> SUFFICES ASSUME NEW m \in 1 .. Cardinality(free)
               PROVE  Nth(m) \in free /\ Cardinality({g \in free : g < Nth(m)}) = m - 1
    OBVIOUS
  <2>1. \E f \in free : Cardinality({g \in free : g < f}) = m - 1
    BY <1>1, Ranks
  <2>2. QED BY <2>1 DEF Nth
<1>3. \A m \in 1 .. Cardinality(free) : Nth(m) = Nth(n) => m - 1 = n - 1
  BY <1>2
<1>4. \A m \in 1 .. Cardinality(free) : m - 1 = n - 1 => m = n
  BY <1>1
<1>5. QED BY <1>2, <1>3, <1>4

LEMMA FirstFree ==
  ASSUME Frames, free # {}
  PROVE  Nth(1) \in free
<1>1. IsFiniteSet(free) /\ Cardinality(free) \in Nat
  BY FreeFrames
<1>2. Cardinality(free) # 0
  BY <1>1, FS_EmptySet
<1>3. 1 \in 1 .. Cardinality(free)
  BY <1>1, <1>2
<1>4. QED BY <1>3, NthFree

-----------------------------------------------------------------------------
(* The boot loader's tables *)

LEMMA UnderIsPlace ==
  ASSUME NEW place \in Place, place.level >= 1, NEW i \in Indices
  PROVE  Under(place, i) \in Place
<1>1. /\ place.level \in 0 .. LEVELS /\ place.range \in Nat /\ place.owner \in Owners
      /\ None \in Owners
  BY DEF Place, Owners
<1>2. place.level - 1 \in 0 .. LEVELS
  BY <1>1, Shapes
<1>3. place.range * FANOUT + i \in Nat
  BY <1>1, Shapes
<1>4. QED BY <1>1, <1>2, <1>3 DEF Under, Place

BootBelow == Below(BootTables, BootRoot)

BootLink(t, i, u) ==
  i \in DOMAIN BootTables[t] /\ ~Large(BootTables[t][i]) /\ BootTables[t][i].to = u

BootParent(u, l) == CHOOSE t \in BootBelow[l + 1] : \E i : BootLink(t, i, u)
BootIndex(u, l) == CHOOSE i : \E t \in BootBelow[l + 1] : BootLink(t, i, u)

BootPlace4 == RootPlace(Kernel)
BootPlace3(u) == Under(BootPlace4, BootIndex(u, 3))
BootPlace2(u) == Under(BootPlace3(BootParent(u, 2)), BootIndex(u, 2))
BootPlace1(u) == Under(BootPlace2(BootParent(u, 1)), BootIndex(u, 1))

BootPlace(u) ==
  IF u \in BootBelow[4] THEN BootPlace4
  ELSE IF u \in BootBelow[3] THEN BootPlace3(u)
  ELSE IF u \in BootBelow[2] THEN BootPlace2(u)
  ELSE IF u \in BootBelow[1] THEN BootPlace1(u)
  ELSE [level |-> 0, range |-> 0, owner |-> None]

LEMMA BootLinks ==
  /\ BootBelow[4] = {BootRoot}
  /\ \A l \in {1, 2, 3} : \A u \in BootBelow[l] :
       /\ BootParent(u, l) \in BootBelow[l + 1]
       /\ BootLink(BootParent(u, l), BootIndex(u, l), u)
  /\ \A l \in {1, 2, 3} : \A t \in BootBelow[l + 1] : \A i, u :
       BootLink(t, i, u) =>
         u \in BootBelow[l] /\ t = BootParent(u, l) /\ i = BootIndex(u, l)
<1>1. /\ BootBelow[4] = {BootRoot}
      /\ \A l \in {2, 3, 4} : BootBelow[l - 1] = Children(BootTables, BootBelow[l])
  BY BelowSteps DEF BootBelow
<1>2. \A l \in {1, 2, 3} : BootBelow[l] = Children(BootTables, BootBelow[l + 1])
  <2>1. \A l \in {1, 2, 3} : l + 1 \in {2, 3, 4} /\ (l + 1) - 1 = l
    OBVIOUS
  <2>2. QED BY <1>1, <2>1
<1>3. \A l \in {1, 2, 3} : \A u :
        u \in BootBelow[l] <=> \E t \in BootBelow[l + 1] : \E i : BootLink(t, i, u)
  BY <1>2 DEF Children, BootLink
<1>4. \A l \in {1, 2, 3} : \A t, s \in BootBelow[l + 1] : \A i, j, u :
        BootLink(t, i, u) /\ BootLink(s, j, u) => t = s /\ i = j
  <2>1. \A l \in {1, 2, 3} : l + 1 \in Levels \ {1}
    BY Shapes
  <2>2. \A l \in Levels \ {1} : \A t, u \in BootBelow[l] :
          \A i \in DOMAIN BootTables[t], j \in DOMAIN BootTables[u] :
            /\ ~Large(BootTables[t][i]) /\ ~Large(BootTables[u][j])
            /\ BootTables[t][i].to = BootTables[u][j].to
            => t = u /\ i = j
    BY BootAssumption DEF BootBelow
  <2>3. QED BY <2>1, <2>2 DEF BootLink
<1>5. ASSUME NEW l \in {1, 2, 3}, NEW u \in BootBelow[l]
      PROVE  /\ BootParent(u, l) \in BootBelow[l + 1]
             /\ BootLink(BootParent(u, l), BootIndex(u, l), u)
  <2>1. \E t \in BootBelow[l + 1] : \E i : BootLink(t, i, u)
    BY <1>3
  <2>2. /\ BootParent(u, l) \in BootBelow[l + 1]
        /\ \E i : BootLink(BootParent(u, l), i, u)
    BY <2>1 DEF BootParent
  <2>3. \E i : \E t \in BootBelow[l + 1] : BootLink(t, i, u)
    BY <2>1
  <2>4. \E t \in BootBelow[l + 1] : BootLink(t, BootIndex(u, l), u)
    BY <2>3 DEF BootIndex
  <2>5. QED BY <2>2, <2>4, <1>4
<1>6. ASSUME NEW l \in {1, 2, 3}, NEW t \in BootBelow[l + 1], NEW i, NEW u, BootLink(t, i, u)
      PROVE  u \in BootBelow[l] /\ t = BootParent(u, l) /\ i = BootIndex(u, l)
  <2>1. u \in BootBelow[l]
    BY <1>3, <1>6
  <2>2. QED BY <2>1, <1>4, <1>5, <1>6
<1>7. QED BY <1>1, <1>5, <1>6

BootPlaced(u, l) ==
  /\ BootPlace(u) \in Place
  /\ BootPlace(u).level = l
  /\ BootPlace(u).owner \in {Kernel, None}

LEMMA BootPlaces ==
  /\ \A l \in Levels : \A u \in BootBelow[l] : u \in DOMAIN BootTables /\ BootPlaced(u, l)
  /\ \A u : (\A l \in Levels : u \notin BootBelow[l]) =>
       BootPlace(u) = [level |-> 0, range |-> 0, owner |-> None]
  /\ \A l \in {1, 2, 3} : \A u \in BootBelow[l] :
       BootPlace(u) = Under(BootPlace(BootParent(u, l)), BootIndex(u, l))
  /\ BootPlace(BootRoot) = RootPlace(Kernel)
<1>1. /\ \A l \in Levels : BootBelow[l] \subseteq DOMAIN BootTables
      /\ \A l, m \in Levels : l # m => BootBelow[l] \cap BootBelow[m] = {}
  BY BootAssumption DEF BootBelow
<1>2. /\ \A u \in BootBelow[4] : BootPlace(u) = BootPlace4
      /\ \A u \in BootBelow[3] : BootPlace(u) = BootPlace3(u)
      /\ \A u \in BootBelow[2] : BootPlace(u) = BootPlace2(u)
      /\ \A u \in BootBelow[1] : BootPlace(u) = BootPlace1(u)
  <2>1. /\ BootBelow[4] \cap BootBelow[3] = {} /\ BootBelow[4] \cap BootBelow[2] = {}
        /\ BootBelow[4] \cap BootBelow[1] = {} /\ BootBelow[3] \cap BootBelow[2] = {}
        /\ BootBelow[3] \cap BootBelow[1] = {} /\ BootBelow[2] \cap BootBelow[1] = {}
    BY <1>1, Shapes
  <2>2. QED BY <2>1 DEF BootPlace
<1>3. /\ \A u \in BootBelow[3] :
           BootPlace(u) = Under(BootPlace(BootParent(u, 3)), BootIndex(u, 3))
      /\ \A u \in BootBelow[2] :
           BootPlace(u) = Under(BootPlace(BootParent(u, 2)), BootIndex(u, 2))
      /\ \A u \in BootBelow[1] :
           BootPlace(u) = Under(BootPlace(BootParent(u, 1)), BootIndex(u, 1))
  <2>1. /\ \A u \in BootBelow[3] : BootParent(u, 3) \in BootBelow[4]
        /\ \A u \in BootBelow[2] : BootParent(u, 2) \in BootBelow[3]
        /\ \A u \in BootBelow[1] : BootParent(u, 1) \in BootBelow[2]
    <3>1. 3 + 1 = 4 /\ 2 + 1 = 3 /\ 1 + 1 = 2
      OBVIOUS
    <3>2. QED BY <3>1, BootLinks
  <2>2. QED BY <2>1, <1>2 DEF BootPlace3, BootPlace2, BootPlace1
<1>4. \A u \in BootBelow[4] : BootPlaced(u, 4)
  <2>1. RootPlace(Kernel) \in Place /\ RootPlace(Kernel).level = 4
        /\ RootPlace(Kernel).owner = Kernel
    BY Shapes DEF RootPlace, Place, Owners
  <2>2. QED BY <2>1, <1>2 DEF BootPlaced, BootPlace4
<1>5. ASSUME NEW l \in {1, 2, 3},
             \A u \in BootBelow[l + 1] : BootPlaced(u, l + 1),
             NEW u \in BootBelow[l],
             BootPlace(u) = Under(BootPlace(BootParent(u, l)), BootIndex(u, l))
      PROVE  BootPlaced(u, l)
  <2>1. BootPlaced(BootParent(u, l), l + 1)
    BY <1>5, BootLinks
  <2>2. BootIndex(u, l) \in Indices
    <3>1. BootLink(BootParent(u, l), BootIndex(u, l), u) /\ BootParent(u, l) \in BootBelow[l + 1]
      BY BootLinks
    <3>2. BootParent(u, l) \in DOMAIN BootTables
      BY <3>1, <1>1, Shapes
    <3>3. QED BY <3>1, <3>2, BootAssumption DEF BootLink
  <2>3. BootPlace(u) \in Place
    BY <2>1, <2>2, <1>5, UnderIsPlace DEF BootPlaced
  <2>4. BootPlace(u).level = l /\ BootPlace(u).owner \in {Kernel, None}
    BY <2>1, <1>5 DEF BootPlaced, Under
  <2>5. QED BY <2>3, <2>4 DEF BootPlaced
<1>6. \A u \in BootBelow[3] : BootPlaced(u, 3)
  <2>1. 3 + 1 = 4
    OBVIOUS
  <2>2. QED BY <2>1, <1>3, <1>4, <1>5
<1>7. \A u \in BootBelow[2] : BootPlaced(u, 2)
  <2>1. 2 + 1 = 3
    OBVIOUS
  <2>2. QED BY <2>1, <1>3, <1>5, <1>6
<1>8. \A u \in BootBelow[1] : BootPlaced(u, 1)
  <2>1. 1 + 1 = 2
    OBVIOUS
  <2>2. QED BY <2>1, <1>3, <1>5, <1>7
<1>9. \A u : (\A l \in Levels : u \notin BootBelow[l]) =>
        BootPlace(u) = [level |-> 0, range |-> 0, owner |-> None]
  BY Shapes DEF BootPlace
<1>10. BootPlace(BootRoot) = RootPlace(Kernel)
  BY <1>2, BootLinks DEF BootPlace4
<1>11. \A l \in {1, 2, 3} : \A u \in BootBelow[l] :
         BootPlace(u) = Under(BootPlace(BootParent(u, l)), BootIndex(u, l))
  BY <1>3
<1>12. \A l \in Levels : \A u \in BootBelow[l] : u \in DOMAIN BootTables /\ BootPlaced(u, l)
  BY <1>1, <1>4, <1>6, <1>7, <1>8, Shapes
<1>13. QED BY <1>9, <1>10, <1>11, <1>12

LEMMA BootShape ==
  LET pl == [t \in DOMAIN BootTables |-> BootPlace(t)]
      rt == [p \in {Kernel} |-> BootRoot]
  IN  /\ Shape(BootTables, rt, pl)
      /\ \A t \in DOMAIN BootTables : pl[t].level = 0 => pl[t].owner = None
<1> DEFINE pl == [t \in DOMAIN BootTables |-> BootPlace(t)]
           rt == [p \in {Kernel} |-> BootRoot]
           unused == [level |-> 0, range |-> 0, owner |-> None]
<1>1. \A t \in DOMAIN BootTables :
        \/ pl[t] = unused /\ \A l \in Levels : t \notin BootBelow[l]
        \/ \E l \in Levels : t \in BootBelow[l] /\ BootPlaced(t, l) /\ pl[t].level = l
  BY BootPlaces DEF BootPlaced
<1>2. unused \in Place
  BY Shapes DEF Place, Owners
<1>3. \A t \in DOMAIN BootTables : pl[t] \in Place /\ pl[t].owner \in {Kernel, None}
                                   /\ pl[t].level \in 0 .. LEVELS
  BY <1>1, <1>2, Shapes DEF BootPlaced
<1>4. \A t \in DOMAIN BootTables : \A l \in Levels : pl[t].level = l => t \in BootBelow[l]
  BY <1>1, Shapes
<1>5. BootRoot \in DOMAIN BootTables /\ pl[BootRoot] = RootPlace(Kernel)
  BY FrameAssumption, BootPlaces
<1>6. \A t \in DOMAIN BootTables : pl[t] = BootPlace(t)
  OBVIOUS
<1>7. DOMAIN pl = DOMAIN BootTables /\ DOMAIN rt = {Kernel} /\ rt[Kernel] = BootRoot
      /\ pl \in [DOMAIN BootTables -> Place]
  BY <1>3
<1> HIDE DEF pl, rt
<1>8. Typed(BootTables)
  BY BootAssumption DEF Typed
<1>9. Rooted(BootTables, rt, pl)
  <2>1. \A t \in DOMAIN BootTables : pl[t].level = LEVELS => t = BootRoot
    BY <1>4, BootLinks, Shapes
  <2>2. RootPlace(Kernel).owner = Kernel
    BY DEF RootPlace
  <2>3. QED BY <2>1, <2>2, <1>5, <1>7, FrameAssumption DEF Rooted
<1>10. Descends(BootTables, pl)
  <2> SUFFICES ASSUME NEW t \in DOMAIN BootTables, pl[t].level >= 2,
                      NEW i \in DOMAIN BootTables[t], ~Large(BootTables[t][i])
               PROVE  /\ BootTables[t][i].to \in DOMAIN BootTables
                      /\ pl[BootTables[t][i].to] = Under(pl[t], i)
    BY DEF Descends
  <2>1. PICK l \in {1, 2, 3} : pl[t].level = l + 1 /\ l + 1 \in Levels /\ l \in Levels
    BY <1>3, Shapes
  <2>2. t \in BootBelow[l + 1]
    BY <2>1, <1>4
  <2> DEFINE u == BootTables[t][i].to
  <2>3. BootLink(t, i, u)
    BY DEF BootLink
  <2>4. u \in BootBelow[l] /\ t = BootParent(u, l) /\ i = BootIndex(u, l)
    BY <2>2, <2>3, BootLinks
  <2>5. u \in DOMAIN BootTables
    BY <2>1, <2>4, BootPlaces
  <2>6. BootPlace(u) = Under(BootPlace(t), i)
    BY <2>4, BootPlaces
  <2>7. QED BY <2>5, <2>6, <1>6
<1>11. Linked(BootTables, pl)
  <2> SUFFICES ASSUME NEW u \in DOMAIN BootTables, pl[u].level \in 1 .. LEVELS - 1
               PROVE  \E t \in DOMAIN BootTables : \E i \in DOMAIN BootTables[t] :
                        /\ pl[t].level = pl[u].level + 1
                        /\ ~Large(BootTables[t][i]) /\ BootTables[t][i].to = u
    BY DEF Linked
  <2>1. PICK l \in {1, 2, 3} : pl[u].level = l /\ l \in Levels /\ l + 1 \in Levels
    BY Shapes
  <2>2. u \in BootBelow[l]
    BY <2>1, <1>4
  <2>3. BootParent(u, l) \in BootBelow[l + 1] /\ BootLink(BootParent(u, l), BootIndex(u, l), u)
    BY <2>2, BootLinks
  <2>4. BootParent(u, l) \in DOMAIN BootTables /\ BootPlaced(BootParent(u, l), l + 1)
    BY <2>1, <2>3, BootPlaces
  <2>5. pl[BootParent(u, l)].level = l + 1
    BY <2>4, <1>6 DEF BootPlaced
  <2>6. QED BY <2>1, <2>3, <2>4, <2>5 DEF BootLink
<1>12. KernelShared(BootTables, rt)
  BY <1>7 DEF KernelShared
<1>13. Grants(BootTables, pl)
  <2>1. \A t \in DOMAIN BootTables : pl[t].owner \notin Processes
    BY <1>3, ProcessAssumption
  <2>2. QED BY <2>1 DEF Grants, UserEntry
<1>14. \A t \in DOMAIN BootTables : pl[t].level = 0 => pl[t].owner = None
  BY <1>1, Shapes
<1>15. QED BY <1>8, <1>9, <1>10, <1>11, <1>12, <1>13, <1>14 DEF Shape, pl, rt

LEMMA InitInv == Init => IInv
<1> SUFFICES ASSUME Init PROVE IInv
  OBVIOUS
<1> DEFINE pl == [t \in DOMAIN BootTables |-> BootPlace(t)]
<1>1. table = BootTables /\ free = Pool /\ root = [p \in {Kernel} |-> BootRoot]
  BY DEF Init
<1>2. Shape(table, root, pl)
  BY <1>1, BootShape
<1>3. \A t \in DOMAIN BootTables : pl[t].level = 0 => pl[t].owner = None
  BY BootShape
<1>4. BootLeft(pl)
  BY <1>1, <1>3 DEF BootLeft
<1>5. Frames
  BY <1>1 DEF Frames
<1>6. QED BY <1>2, <1>4, <1>5 DEF IInv

-----------------------------------------------------------------------------
(* A new address space *)

KernelEntriesIn(tb, r) == [i \in DOMAIN tb[r] \cap KernelHalf |-> tb[r][i]]

\* p has a new root, in frame n, with the kernel entries of that of current.
Created(tb, rt, pl, p, current, n, tb2, rt2, pl2) ==
  /\ p \in Processes \ DOMAIN rt /\ current \in DOMAIN rt /\ Kernel \in DOMAIN rt
  /\ n \notin DOMAIN tb /\ n # None
  /\ tb2 = [f \in DOMAIN tb \cup {n} |->
              IF f = n THEN KernelEntriesIn(tb, rt[current]) ELSE tb[f]]
  /\ rt2 = [q \in DOMAIN rt \cup {p} |-> IF q = p THEN n ELSE rt[q]]
  /\ pl2 = [f \in DOMAIN tb \cup {n} |-> IF f = n THEN RootPlace(p) ELSE pl[f]]

LEMMA CreatedShape ==
  ASSUME NEW tb, NEW rt, NEW pl, Shape(tb, rt, pl),
         NEW p, NEW current, NEW n, NEW tb2, NEW rt2, NEW pl2,
         Created(tb, rt, pl, p, current, n, tb2, rt2, pl2)
  PROVE  Shape(tb2, rt2, pl2)
<1> DEFINE r == rt[current]
           old == DOMAIN tb
<1>1. /\ p \in Processes \ DOMAIN rt /\ current \in DOMAIN rt /\ Kernel \in DOMAIN rt
      /\ n \notin old /\ n # None /\ p # Kernel /\ p # None
  BY ProcessAssumption DEF Created
<1>2. /\ DOMAIN tb2 = old \cup {n} /\ DOMAIN pl2 = old \cup {n}
      /\ DOMAIN rt2 = DOMAIN rt \cup {p}
      /\ \A f \in old : tb2[f] = tb[f] /\ pl2[f] = pl[f]
      /\ pl2[n] = RootPlace(p) /\ rt2[p] = n
      /\ \A q \in DOMAIN rt : rt2[q] = rt[q]
      /\ DOMAIN tb2[n] = DOMAIN tb[r] \cap KernelHalf
      /\ \A i \in DOMAIN tb2[n] : tb2[n][i] = tb[r][i]
  BY <1>1 DEF Created, KernelEntriesIn
<1>3. r \in old /\ pl[r] = RootPlace(current) /\ None \notin old
  BY <1>1 DEF Shape, Rooted
<1>4. RootPlace(p) \in Place /\ \A q : RootPlace(q).level = 4 /\ RootPlace(q).owner = q
                                       /\ RootPlace(q).range = 0
  BY <1>1, Shapes DEF Place, RootPlace, Owners
<1>5. Typed(tb2)
  BY <1>2, <1>3 DEF Typed, Shape
<1>6. Rooted(tb2, rt2, pl2)
  <2>1. pl2 \in [DOMAIN tb2 -> Place]
    <3>1. pl2 = [f \in old \cup {n} |-> IF f = n THEN RootPlace(p) ELSE pl[f]]
      BY DEF Created
    <3>2. \A f \in old : pl[f] \in Place
      BY DEF Shape, Rooted
    <3>3. QED BY <3>1, <3>2, <1>2, <1>4
  <2>2. \A q \in DOMAIN rt2 : rt2[q] \in DOMAIN tb2 /\ pl2[rt2[q]] = RootPlace(q)
    BY <1>2 DEF Shape, Rooted
  <2>3. \A t \in DOMAIN tb2 : pl2[t].level = LEVELS =>
          pl2[t].owner \in DOMAIN rt2 /\ t = rt2[pl2[t].owner]
    <3>1. \A t \in old : pl[t].level = LEVELS =>
            pl[t].owner \in DOMAIN rt /\ t = rt[pl[t].owner]
      BY DEF Shape, Rooted
    <3>2. QED BY <3>1, <1>2, <1>4
  <2>4. QED BY <2>1, <2>2, <2>3, <1>1, <1>2, <1>3 DEF Rooted
<1>7. \A i \in DOMAIN tb2[n] : ~Large(tb2[n][i]) =>
        tb2[n][i].to \in old /\ pl[tb2[n][i].to] = Under(RootPlace(p), i)
  <2> SUFFICES ASSUME NEW i \in DOMAIN tb2[n], ~Large(tb2[n][i])
               PROVE  tb2[n][i].to \in old /\ pl[tb2[n][i].to] = Under(RootPlace(p), i)
    OBVIOUS
  <2>1. i \in DOMAIN tb[r] /\ i \in KernelHalf /\ tb2[n][i] = tb[r][i]
    BY <1>2
  <2>2. tb[r][i].to \in old /\ pl[tb[r][i].to] = Under(pl[r], i)
    BY <2>1, <1>3, <1>4 DEF Shape, Descends
  <2>3. Under(RootPlace(current), i) = Under(RootPlace(p), i)
    BY <2>1, <1>4, Shapes DEF Under
  <2>4. QED BY <2>1, <2>2, <2>3, <1>3
<1>8. Descends(tb2, pl2)
  <2> SUFFICES ASSUME NEW t \in DOMAIN tb2, pl2[t].level >= 2,
                      NEW i \in DOMAIN tb2[t], ~Large(tb2[t][i])
               PROVE  tb2[t][i].to \in DOMAIN tb2 /\ pl2[tb2[t][i].to] = Under(pl2[t], i)
    BY DEF Descends
  <2>1. CASE t = n
    BY <2>1, <1>2, <1>7
  <2>2. CASE t \in old
    <3>1. tb[t][i].to \in old /\ pl[tb[t][i].to] = Under(pl[t], i)
      BY <2>2, <1>2 DEF Shape, Descends
    <3>2. QED BY <3>1, <2>2, <1>2
  <2>3. QED BY <2>1, <2>2, <1>2
<1>9. Linked(tb2, pl2)
  <2> SUFFICES ASSUME NEW u \in DOMAIN tb2, pl2[u].level \in 1 .. LEVELS - 1
               PROVE  \E t \in DOMAIN tb2 : \E i \in DOMAIN tb2[t] :
                        /\ pl2[t].level = pl2[u].level + 1
                        /\ ~Large(tb2[t][i]) /\ tb2[t][i].to = u
    BY DEF Linked
  <2>1. u \in old
    BY <1>2, <1>4, Shapes
  <2>2. \E t \in old : \E i \in DOMAIN tb[t] :
          pl[t].level = pl[u].level + 1 /\ ~Large(tb[t][i]) /\ tb[t][i].to = u
    BY <2>1, <1>2 DEF Shape, Linked
  <2>3. QED BY <2>1, <2>2, <1>2
<1>10. KernelShared(tb2, rt2)
  <2>1. Kernel \in DOMAIN rt /\ rt2[Kernel] = rt[Kernel] /\ rt[Kernel] \in old
    BY <1>1, <1>2 DEF Shape, Rooted
  <2> SUFFICES ASSUME NEW q \in DOMAIN rt2, NEW i \in KernelHalf
               PROVE  /\ i \in DOMAIN tb2[rt2[q]] <=> i \in DOMAIN tb[rt[Kernel]]
                      /\ i \in DOMAIN tb2[rt2[q]] => tb2[rt2[q]][i] = tb[rt[Kernel]][i]
    BY <2>1, <1>2 DEF KernelShared
  <2>2. \A s \in DOMAIN rt : /\ i \in DOMAIN tb[rt[s]] <=> i \in DOMAIN tb[rt[Kernel]]
                             /\ i \in DOMAIN tb[rt[s]] => tb[rt[s]][i] = tb[rt[Kernel]][i]
    BY DEF Shape, KernelShared
  <2>3. CASE q = p
    BY <2>2, <2>3, <1>1, <1>2
  <2>4. CASE q \in DOMAIN rt
    <3>1. rt[q] \in old
      BY <2>4 DEF Shape, Rooted
    <3>2. QED BY <3>1, <2>2, <2>4, <1>2
  <2>5. QED BY <2>3, <2>4, <1>2
<1>11. Grants(tb2, pl2)
  <2> SUFFICES ASSUME NEW t \in DOMAIN tb2, NEW i \in Indices, UserEntry(tb2, pl2, t, i)
               PROVE  /\ ~Large(tb2[t][i])
                      /\ pl2[t].level >= 2 =>
                           /\ tb2[t][i].flags \subseteq {"User", "Writable"}
                           /\ \A j \in DOMAIN tb2[tb2[t][i].to] :
                                TableFlags(tb2[tb2[t][i].to][j].flags) \subseteq tb2[t][i].flags
    BY DEF Grants
  <2>1. t # n
    BY <1>2, <1>4, Shapes DEF UserEntry
  <2>2. t \in old /\ tb2[t] = tb[t] /\ pl2[t] = pl[t] /\ UserEntry(tb, pl, t, i)
    BY <2>1, <1>2 DEF UserEntry
  <2>3. /\ ~Large(tb[t][i])
        /\ pl[t].level >= 2 =>
             /\ tb[t][i].flags \subseteq {"User", "Writable"}
             /\ \A j \in DOMAIN tb[tb[t][i].to] :
                  TableFlags(tb[tb[t][i].to][j].flags) \subseteq tb[t][i].flags
    BY <2>2 DEF Shape, Grants
  <2>4. pl[t].level >= 2 => tb[t][i].to \in old
    BY <2>2, <2>3 DEF Shape, Descends, UserEntry
  <2>5. QED BY <2>2, <2>3, <2>4, <1>2
<1>12. QED BY <1>5, <1>6, <1>8, <1>9, <1>10, <1>11 DEF Shape

LEMMA CreateInv ==
  ASSUME NEW pl, Frames, Shape(table, root, pl), BootLeft(pl),
         NEW p \in Processes, NEW current \in DOMAIN root, CreateAddressSpace(p, current)
  PROVE  \E pl2 :
           /\ Frames' /\ Shape(table', root', pl2) /\ BootLeft(pl2)'
           /\ Nth(1) \in free
           /\ Created(table, root, pl, p, current, Nth(1), table', root', pl2)
<1> DEFINE n == Nth(1)
<1>0. PICK pl2 : pl2 = [f \in DOMAIN table \cup {n} |-> IF f = n THEN RootPlace(p) ELSE pl[f]]
  OBVIOUS
<1>1. /\ root[Kernel] # BootRoot /\ p \in Processes \ DOMAIN root /\ free # {}
      /\ table' = [f \in DOMAIN table \cup {n} |->
                     IF f = n THEN KernelEntries(root[current]) ELSE table[f]]
      /\ free' = free \ {n}
      /\ root' = [q \in DOMAIN root \cup {p} |-> IF q = p THEN n ELSE root[q]]
  BY DEF CreateAddressSpace
<1>2. n \in free
  BY <1>1, FirstFree
<1>3. n \notin DOMAIN table /\ n # None /\ n \in Pool /\ n \notin DOMAIN BootTables
  BY <1>2, FreeFrames, FrameAssumption DEF Frames
<1>4. KernelEntries(root[current]) = KernelEntriesIn(table, root[current])
  BY DEF KernelEntries, KernelEntriesIn
<1>5. Kernel \in DOMAIN root
  BY DEF Frames
<1> HIDE DEF n
<1>6. Created(table, root, pl, p, current, n, table', root', pl2)
  BY <1>0, <1>1, <1>3, <1>4, <1>5 DEF Created
<1>7. Shape(table', root', pl2)
  BY <1>6, CreatedShape
<1>8. Frames'
  BY <1>1, <1>2, <1>3 DEF Frames
<1>9. BootLeft(pl2)'
  <2>1. root'[Kernel] = root[Kernel]
    BY <1>1, <1>5
  <2>2. pl2[n].level = 4 /\ \A f \in DOMAIN table : pl2[f] = pl[f]
    BY <1>0, <1>3, Shapes DEF RootPlace
  <2>3. DOMAIN table' = DOMAIN table \cup {n}
    BY <1>1
  <2>4. /\ \A t \in DOMAIN table' : pl2[t].level = 0 =>
             t \in DOMAIN BootTables /\ pl2[t].owner = None
        /\ \A t \in DOMAIN BootTables : pl2[t].level = 0
    BY <2>2, <2>3, <1>1 DEF BootLeft, Frames
  <2>5. QED BY <2>1, <2>4, <1>1 DEF BootLeft
<1>10. QED BY <1>2, <1>6, <1>7, <1>8, <1>9 DEF n

-----------------------------------------------------------------------------
(* Mapping a page *)

\* What an entry of the path is after page v has been mapped: at level 1 the
\* page, above it the next table.
Edits(path, l) == l = 1 \/ path[l - 1] # None

IsEntry(tb, t, i) == t \in DOMAIN tb /\ i \in DOMAIN tb[t]

NewEntry(tb, path, v, frame, flags, l) ==
  IF l = 1 THEN [to |-> frame, flags |-> flags]
  ELSE [to |-> path[l - 1],
        flags |-> TableFlags(flags) \cup
                  IF IsEntry(tb, path[l], Index(v, l)) THEN tb[path[l]][Index(v, l)].flags
                  ELSE {}]

\* A path for page v in space p: down the tables there are, then new ones.
MapPath(tb, rt, pl, p, v, path) ==
  /\ path[4] = rt[p]
  /\ \A l \in {2, 3, 4} :
       /\ path[l] = None => path[l - 1] = None
       /\ path[l - 1] \in DOMAIN tb =>
            /\ IsEntry(tb, path[l], Index(v, l))
            /\ ~Large(tb[path[l]][Index(v, l)])
            /\ tb[path[l]][Index(v, l)].to = path[l - 1]
       /\ path[l - 1] \notin DOMAIN tb => ~IsEntry(tb, path[l], Index(v, l))
  /\ \A l \in Levels :
       /\ path[l] \in DOMAIN tb => pl[path[l]] = PlaceOf(p, v, l)
       /\ \A t \in DOMAIN tb : pl[t] = PlaceOf(p, v, l) => path[l] = t
       /\ path[l] # None => path[l] \in Nat
       /\ \A m \in Levels : path[l] = path[m] /\ path[l] # None => l = m

Mapped(tb, rt, pl, p, v, frame, flags, path, tb2, pl2) ==
  /\ p \in Processes /\ p \in DOMAIN rt /\ Kernel \in DOMAIN rt /\ v \in UserPages
  /\ frame \in Nat /\ flags \subseteq Flags \ {"PageSize"}
  /\ MapPath(tb, rt, pl, p, v, path)
  /\ DOMAIN tb2 = DOMAIN tb \cup ({path[l] : l \in Levels} \ {None})
  /\ \A f \in DOMAIN tb : (\A l \in Levels : path[l] # f) => tb2[f] = tb[f]
  /\ \A l \in Levels : path[l] # None => \A i :
       /\ i \in DOMAIN tb2[path[l]] <=>
            IsEntry(tb, path[l], i) \/ (Edits(path, l) /\ i = Index(v, l))
       /\ i \in DOMAIN tb2[path[l]] =>
            tb2[path[l]][i] =
              IF Edits(path, l) /\ i = Index(v, l) THEN NewEntry(tb, path, v, frame, flags, l)
              ELSE tb[path[l]][i]
  /\ DOMAIN pl2 = DOMAIN tb2
  /\ pl2 = [f \in DOMAIN tb2 |-> pl2[f]]
  /\ \A f \in DOMAIN tb : pl2[f] = pl[f]
  /\ \A l \in Levels : path[l] # None => pl2[path[l]] = PlaceOf(p, v, l)

LEMMA UserPlaceOf ==
  ASSUME NEW p \in Processes, NEW v \in UserPages
  PROVE  /\ v \in Pages /\ v \in Nat
         /\ Index(v, 4) \notin KernelHalf
         /\ \A l \in Levels :
              /\ Index(v, l) \in Indices
              /\ PlaceOf(p, v, l) \in Place
              /\ PlaceOf(p, v, l) = [level |-> l, range |-> v \div Span[l], owner |-> p]
<1>1. v \in Pages /\ v \in Nat /\ Index(v, 4) \notin KernelHalf
  BY Shapes, Spans DEF UserPages, Pages
<1>2. \A l \in Levels : Index(v, l) \in Indices /\ v \div Span[l] \in Nat
  BY <1>1, Digits
<1>3. \A l \in Levels : PlaceOf(p, v, l) = [level |-> l, range |-> v \div Span[l], owner |-> p]
  BY <1>1, Shapes DEF PlaceOf
<1>4. \A l \in Levels : PlaceOf(p, v, l) \in Place
  BY <1>2, <1>3, Shapes DEF Place, Owners
<1>5. QED BY <1>1, <1>2, <1>3, <1>4

\* An entry after the call is the new entry of a level of the path, or as it was.
LEMMA MappedEntries ==
  ASSUME NEW tb, NEW rt, NEW pl, Shape(tb, rt, pl), NEW p, NEW v, NEW frame, NEW flags,
         NEW path, NEW tb2, NEW pl2,
         Mapped(tb, rt, pl, p, v, frame, flags, path, tb2, pl2),
         NEW t \in DOMAIN tb2, NEW i \in DOMAIN tb2[t]
  PROVE  \/ \E l \in Levels :
              /\ t = path[l] /\ path[l] # None /\ i = Index(v, l) /\ Edits(path, l)
              /\ tb2[t][i] = NewEntry(tb, path, v, frame, flags, l)
              /\ pl2[t] = PlaceOf(p, v, l)
         \/ /\ IsEntry(tb, t, i) /\ tb2[t][i] = tb[t][i] /\ pl2[t] = pl[t]
            /\ \A l \in Levels : ~(t = path[l] /\ i = Index(v, l) /\ Edits(path, l))
<1>1. None \notin DOMAIN tb
  BY DEF Shape, Rooted
<1>2. CASE \E l \in Levels : path[l] = t /\ t # None
  <2>1. PICK l \in Levels : path[l] = t /\ path[l] # None
    BY <1>2
  <2>2. \A m \in Levels : path[m] = t => m = l
    BY <2>1 DEF Mapped, MapPath
  <2>3. /\ IsEntry(tb, t, i) \/ (Edits(path, l) /\ i = Index(v, l))
        /\ tb2[t][i] = IF Edits(path, l) /\ i = Index(v, l)
                         THEN NewEntry(tb, path, v, frame, flags, l) ELSE tb[t][i]
        /\ pl2[t] = PlaceOf(p, v, l)
    BY <2>1 DEF Mapped
  <2>4. CASE Edits(path, l) /\ i = Index(v, l)
    BY <2>1, <2>3, <2>4
  <2>5. CASE ~(Edits(path, l) /\ i = Index(v, l))
    <3>1. IsEntry(tb, t, i) /\ tb2[t][i] = tb[t][i]
      BY <2>3, <2>5
    <3>2. pl2[t] = pl[t]
      BY <3>1 DEF IsEntry, Mapped
    <3>3. QED BY <3>1, <3>2, <2>2, <2>5
  <2>6. QED BY <2>4, <2>5
<1>3. CASE \A l \in Levels : path[l] # t
  <2>1. t \in DOMAIN tb
    BY <1>3 DEF Mapped
  <2>2. tb2[t] = tb[t] /\ pl2[t] = pl[t]
    BY <2>1, <1>3 DEF Mapped
  <2>3. QED BY <2>1, <2>2, <1>3 DEF IsEntry
<1>4. t # None
  BY <1>1 DEF Mapped
<1>5. QED BY <1>2, <1>3, <1>4

LEMMA NewEntries ==
  ASSUME NEW tb, NEW rt, NEW pl, Shape(tb, rt, pl), NEW p, NEW v, NEW frame, NEW flags,
         NEW path, NEW tb2, NEW pl2,
         Mapped(tb, rt, pl, p, v, frame, flags, path, tb2, pl2),
         NEW l \in Levels, path[l] # None, Edits(path, l)
  PROVE  LET e == NewEntry(tb, path, v, frame, flags, l)
         IN  /\ e \in [to : Nat, flags : SUBSET Flags]
             /\ ~Large(e)
             /\ TableFlags(flags) \subseteq e.flags
             /\ l = 1 => e.flags = flags
             /\ l # 1 => e.to = path[l - 1] /\ e.flags \subseteq {"User", "Writable"}
             /\ l # 1 /\ IsEntry(tb, path[l], Index(v, l)) =>
                  /\ tb[path[l]][Index(v, l)].flags \subseteq e.flags
                  /\ e.flags \subseteq TableFlags(flags) \cup tb[path[l]][Index(v, l)].flags
             /\ l # 1 /\ ~IsEntry(tb, path[l], Index(v, l)) => e.flags = TableFlags(flags)
<1> DEFINE i == Index(v, l)
           old == tb[path[l]][i]
           e == NewEntry(tb, path, v, frame, flags, l)
<1>1. TableFlags(flags) \subseteq flags /\ TableFlags(flags) \subseteq {"User", "Writable"}
      /\ flags \subseteq Flags \ {"PageSize"} /\ frame \in Nat
  BY DEF TableFlags, Mapped
<1>2. CASE l = 1
  BY <1>1, <1>2 DEF NewEntry, Large
<1>3. CASE l # 1
  <2>1. path[l - 1] # None /\ path[l - 1] \in Nat
    <3>1. l - 1 \in Levels
      BY <1>3, Shapes
    <3>2. QED BY <3>1, <1>3 DEF Edits, Mapped, MapPath
  <2>2. IsEntry(tb, path[l], i) => old.flags \subseteq {"User", "Writable"}
    <3> SUFFICES ASSUME IsEntry(tb, path[l], i)
                 PROVE  old.flags \subseteq {"User", "Writable"}
      OBVIOUS
    <3>1. p \in Processes /\ v \in UserPages /\ pl[path[l]] = PlaceOf(p, v, l)
      BY DEF Mapped, MapPath, IsEntry
    <3>2. UserEntry(tb, pl, path[l], i) /\ i \in Indices /\ pl[path[l]].level = l
      BY <3>1, UserPlaceOf, Shapes DEF UserEntry, IsEntry
    <3>3. l >= 2
      BY <1>3, Shapes
    <3>4. QED BY <3>2, <3>3 DEF Shape, Grants, IsEntry
  <2>3. e = [to |-> path[l - 1],
             flags |-> TableFlags(flags) \cup IF IsEntry(tb, path[l], i) THEN old.flags ELSE {}]
    BY <1>3 DEF NewEntry
  <2> HIDE DEF e, old, i
  <2>4. e.to = path[l - 1] /\ e.flags = TableFlags(flags) \cup
          (IF IsEntry(tb, path[l], i) THEN old.flags ELSE {})
    BY <2>3
  <2>5. e.flags \subseteq {"User", "Writable"}
    BY <2>2, <2>4, <1>1
  <2>6. ~Large(e)
    BY <2>5 DEF Large
  <2>7. e \in [to : Nat, flags : SUBSET Flags]
    <3>1. e.flags \in SUBSET Flags
      BY <2>5 DEF Flags
    <3>2. QED BY <3>1, <2>1, <2>3, <2>4
  <2>8. QED BY <2>4, <2>5, <2>6, <2>7, <1>3 DEF e, old, i
<1>4. QED BY <1>2, <1>3

LEMMA MappedPlaces ==
  ASSUME NEW tb, NEW rt, NEW pl, Shape(tb, rt, pl), NEW p, NEW v, NEW frame, NEW flags,
         NEW path, NEW tb2, NEW pl2,
         Mapped(tb, rt, pl, p, v, frame, flags, path, tb2, pl2)
  PROVE  Rooted(tb2, rt, pl2)
<1>1. p \in Processes /\ v \in UserPages
  BY DEF Mapped
<1>2. DOMAIN tb2 = DOMAIN tb \cup ({path[l] : l \in Levels} \ {None})
      /\ path[4] = rt[p] /\ rt[p] \in DOMAIN tb /\ None \notin DOMAIN tb2
  BY DEF Mapped, MapPath, Shape, Rooted
<1>3. \A f \in DOMAIN tb : pl2[f] = pl[f]
  BY DEF Mapped
<1>4. ASSUME NEW f \in DOMAIN tb2, f \notin DOMAIN tb
      PROVE  pl2[f] \in Place /\ pl2[f].level # LEVELS
  <2>1. PICK l \in Levels : f = path[l] /\ path[l] # None
    BY <1>2, <1>4
  <2>2. pl2[f] = PlaceOf(p, v, l)
    BY <2>1 DEF Mapped
  <2>3. l # 4
    BY <1>2, <1>4, <2>1
  <2>4. QED BY <2>1, <2>2, <2>3, <1>1, UserPlaceOf, Shapes
<1>5. pl2 \in [DOMAIN tb2 -> Place]
  <2>1. pl2 = [f \in DOMAIN tb2 |-> pl2[f]]
    BY DEF Mapped
  <2>2. \A f \in DOMAIN tb2 : pl2[f] \in Place
    BY <1>3, <1>4 DEF Shape, Rooted
  <2>3. QED BY <2>1, <2>2
<1>6. \A q \in DOMAIN rt : rt[q] \in DOMAIN tb2 /\ pl2[rt[q]] = RootPlace(q)
  BY <1>2, <1>3 DEF Shape, Rooted
<1>7. \A t \in DOMAIN tb2 :
        pl2[t].level = LEVELS => pl2[t].owner \in DOMAIN rt /\ t = rt[pl2[t].owner]
  BY <1>3, <1>4 DEF Shape, Rooted
<1>8. QED BY <1>2, <1>5, <1>6, <1>7 DEF Rooted

LEMMA MappedLinks ==
  ASSUME NEW tb, NEW rt, NEW pl, Shape(tb, rt, pl), NEW p, NEW v, NEW frame, NEW flags,
         NEW path, NEW tb2, NEW pl2,
         Mapped(tb, rt, pl, p, v, frame, flags, path, tb2, pl2)
  PROVE  /\ Typed(tb2) /\ Descends(tb2, pl2) /\ Linked(tb2, pl2) /\ KernelShared(tb2, rt)
<1>1. /\ p \in Processes /\ p # Kernel /\ v \in UserPages /\ v \in Pages
      /\ Index(v, 4) \notin KernelHalf
      /\ \A l \in Levels : Index(v, l) \in Indices /\ PlaceOf(p, v, l).level = l
  BY UserPlaceOf, ProcessAssumption DEF Mapped
<1>2. DOMAIN tb2 = DOMAIN tb \cup ({path[l] : l \in Levels} \ {None})
  BY DEF Mapped
<1>3. \A f \in DOMAIN tb : pl2[f] = pl[f]
  BY DEF Mapped
<1>4. \A l \in Levels : path[l] # None =>
        path[l] \in DOMAIN tb2 /\ pl2[path[l]] = PlaceOf(p, v, l)
  BY <1>2 DEF Mapped
<1>5. Typed(tb2)
  <2> SUFFICES ASSUME NEW t \in DOMAIN tb2, NEW i \in DOMAIN tb2[t]
               PROVE  i \in Indices /\ tb2[t][i] \in [to : Nat, flags : SUBSET Flags]
    BY DEF Typed
  <2>1. CASE IsEntry(tb, t, i) /\ tb2[t][i] = tb[t][i]
    BY <2>1 DEF Shape, Typed, IsEntry
  <2>2. CASE \E l \in Levels :
               /\ t = path[l] /\ path[l] # None /\ i = Index(v, l) /\ Edits(path, l)
               /\ tb2[t][i] = NewEntry(tb, path, v, frame, flags, l)
    BY <2>2, <1>1, NewEntries
  <2>3. QED BY <2>1, <2>2, MappedEntries
<1>6. Descends(tb2, pl2)
  <2> SUFFICES ASSUME NEW t \in DOMAIN tb2, pl2[t].level >= 2,
                      NEW i \in DOMAIN tb2[t], ~Large(tb2[t][i])
               PROVE  tb2[t][i].to \in DOMAIN tb2 /\ pl2[tb2[t][i].to] = Under(pl2[t], i)
    BY DEF Descends
  <2>1. CASE IsEntry(tb, t, i) /\ tb2[t][i] = tb[t][i] /\ pl2[t] = pl[t]
    <3>1. tb[t][i].to \in DOMAIN tb /\ pl[tb[t][i].to] = Under(pl[t], i)
      BY <2>1 DEF Shape, Descends, IsEntry
    <3>2. QED BY <3>1, <2>1, <1>2, <1>3
  <2>2. CASE \E l \in Levels :
               /\ t = path[l] /\ path[l] # None /\ i = Index(v, l) /\ Edits(path, l)
               /\ tb2[t][i] = NewEntry(tb, path, v, frame, flags, l)
               /\ pl2[t] = PlaceOf(p, v, l)
    <3>1. PICK l \in Levels :
            /\ t = path[l] /\ path[l] # None /\ i = Index(v, l) /\ Edits(path, l)
            /\ tb2[t][i] = NewEntry(tb, path, v, frame, flags, l)
            /\ pl2[t] = PlaceOf(p, v, l)
      BY <2>2
    <3>2. l \in {2, 3, 4} /\ l # 1 /\ l - 1 \in Levels
      BY <3>1, <1>1, Shapes
    <3>3. tb2[t][i].to = path[l - 1]
      BY <3>1, <3>2, NewEntries
    <3>4. path[l - 1] # None
      BY <3>1, <3>2 DEF Edits
    <3>5. Under(PlaceOf(p, v, l), Index(v, l)) = PlaceOf(p, v, l - 1)
      BY <3>2, <1>1, PlacesOfPath
    <3>6. QED BY <3>1, <3>2, <3>3, <3>4, <3>5, <1>4
  <2>3. QED BY <2>1, <2>2, MappedEntries
<1>7. Linked(tb2, pl2)
  <2> DEFINE Leads(t, i, u) ==
               pl2[t].level = pl2[u].level + 1 /\ ~Large(tb2[t][i]) /\ tb2[t][i].to = u
  <2> SUFFICES ASSUME NEW u \in DOMAIN tb2, pl2[u].level \in 1 .. LEVELS - 1
               PROVE  \E t \in DOMAIN tb2 : \E i \in DOMAIN tb2[t] : Leads(t, i, u)
    BY DEF Linked
  <2>1. ASSUME NEW l \in {2, 3, 4}, path[l - 1] = u, u # None
        PROVE  Leads(path[l], Index(v, l), u) /\ path[l] \in DOMAIN tb2
               /\ Index(v, l) \in DOMAIN tb2[path[l]]
    <3>1. l \in Levels /\ l - 1 \in Levels /\ l # 1 /\ path[l] # None /\ Edits(path, l)
      BY <2>1, Shapes DEF Mapped, MapPath, Edits
    <3>2. Index(v, l) \in DOMAIN tb2[path[l]]
          /\ tb2[path[l]][Index(v, l)] = NewEntry(tb, path, v, frame, flags, l)
      BY <3>1 DEF Mapped
    <3>3. ~Large(tb2[path[l]][Index(v, l)]) /\ tb2[path[l]][Index(v, l)].to = u
      BY <2>1, <3>1, <3>2, NewEntries
    <3>4. pl2[path[l]].level = l /\ pl2[u].level = l - 1
      BY <2>1, <3>1, <1>1, <1>4
    <3>5. QED BY <3>1, <3>2, <3>3, <3>4, <1>4, Shapes
  <2>2. CASE u \in DOMAIN tb
    <3>1. PICK t \in DOMAIN tb : \E i \in DOMAIN tb[t] :
            pl[t].level = pl[u].level + 1 /\ ~Large(tb[t][i]) /\ tb[t][i].to = u
      BY <2>2, <1>3 DEF Shape, Linked
    <3>2. PICK i \in DOMAIN tb[t] :
            pl[t].level = pl[u].level + 1 /\ ~Large(tb[t][i]) /\ tb[t][i].to = u
      BY <3>1
    <3>3. IsEntry(tb, t, i) /\ t \in DOMAIN tb2 /\ pl2[t].level = pl2[u].level + 1
      BY <2>2, <3>2, <1>2, <1>3 DEF IsEntry
    <3>4. CASE \A l \in Levels : ~(t = path[l] /\ i = Index(v, l) /\ Edits(path, l))
      <4>1. i \in DOMAIN tb2[t] /\ tb2[t][i] = tb[t][i]
        <5>1. CASE \A l \in Levels : path[l] # t
          BY <5>1, <3>3 DEF Mapped
        <5>2. CASE \E l \in Levels : path[l] = t
          <6>1. PICK l \in Levels : path[l] = t
            BY <5>2
          <6>2. path[l] # None
            BY <6>1 DEF Shape, Rooted
          <6>3. QED BY <6>1, <6>2, <3>3, <3>4 DEF Mapped
        <5>3. QED BY <5>1, <5>2
      <4>2. QED BY <4>1, <3>2, <3>3
    <3>5. CASE \E l \in Levels : t = path[l] /\ i = Index(v, l) /\ Edits(path, l)
      <4>1. PICK l \in Levels : t = path[l] /\ i = Index(v, l) /\ Edits(path, l)
        BY <3>5
      <4>2. pl[t].level = l
        BY <4>1, <1>1 DEF Mapped, MapPath
      <4>3. l \in {2, 3, 4}
        <5>1. l = pl[u].level + 1 /\ pl[u].level \in 1 .. LEVELS - 1
          BY <4>2, <3>2, <2>2, <1>3
        <5>2. QED BY ONLY <5>1, Shapes
      <4>4. path[l - 1] = u
        BY <4>1, <4>3, <3>2, <3>3 DEF Mapped, MapPath
      <4>5. u # None
        BY <2>2 DEF Shape, Rooted
      <4>6. QED BY <4>3, <4>4, <4>5, <2>1
    <3>6. QED BY <3>4, <3>5
  <2>3. CASE u \notin DOMAIN tb
    <3>1. PICK m \in Levels : path[m] = u /\ u # None
      BY <2>3, <1>2
    <3>2. pl2[u].level = m
      BY <3>1, <1>1, <1>4
    <3>3. m + 1 \in {2, 3, 4} /\ (m + 1) - 1 = m
      BY <3>1, <3>2, Shapes
    <3>4. QED BY <3>1, <3>3, <2>1
  <2>4. QED BY <2>2, <2>3
<1>8. KernelShared(tb2, rt)
  <2>1. ASSUME NEW q \in DOMAIN rt, NEW i \in KernelHalf
        PROVE  /\ i \in DOMAIN tb2[rt[q]] <=> i \in DOMAIN tb[rt[q]]
               /\ i \in DOMAIN tb2[rt[q]] => tb2[rt[q]][i] = tb[rt[q]][i]
    <3>1. rt[q] \in DOMAIN tb /\ pl[rt[q]].level = 4 /\ None # rt[q]
      <4>1. rt[q] \in DOMAIN tb /\ pl[rt[q]] = RootPlace(q) /\ None \notin DOMAIN tb
        BY DEF Shape, Rooted
      <4>2. QED BY <4>1, Shapes DEF RootPlace
    <3>2. CASE \A l \in Levels : path[l] # rt[q]
      <4>1. tb2[rt[q]] = tb[rt[q]]
        BY <3>1, <3>2 DEF Mapped
      <4>2. QED BY <4>1
    <3>3. CASE \E l \in Levels : path[l] = rt[q]
      <4>1. PICK l \in Levels : path[l] = rt[q]
        BY <3>3
      <4>2. l = 4
        BY <4>1, <3>1, <1>1 DEF Mapped, MapPath
      <4>3. i # Index(v, l)
        BY <4>2, <1>1
      <4>4. QED BY <4>1, <4>3, <3>1 DEF Mapped, IsEntry
    <3>4. QED BY <3>2, <3>3
  <2>2. Kernel \in DOMAIN rt
    BY DEF Mapped
  <2>3. QED BY <2>1, <2>2 DEF Shape, KernelShared
<1>9. QED BY <1>5, <1>6, <1>7, <1>8

\* The only way down to a table of the path is the path.
LEMMA OnPath ==
  ASSUME NEW tb, NEW rt, NEW pl, Shape(tb, rt, pl), NEW p, NEW v,
         p \in Processes, v \in UserPages, NEW path, MapPath(tb, rt, pl, p, v, path),
         NEW t, NEW i \in Indices, UserEntry(tb, pl, t, i), t \in DOMAIN tb,
         pl[t].level >= 2, NEW m \in Levels, tb[t][i].to = path[m]
  PROVE  m + 1 \in Levels /\ t = path[m + 1] /\ i = Index(v, m + 1)
<1> DEFINE u == tb[t][i].to
<1>1. i \in DOMAIN tb[t] /\ ~Large(tb[t][i])
  BY DEF UserEntry, Shape, Grants
<1>2. u \in DOMAIN tb /\ pl[u] = Under(pl[t], i)
  BY <1>1 DEF Shape, Descends
<1>3. pl[u] = PlaceOf(p, v, m)
  BY <1>2 DEF MapPath
<1>4. PlaceOf(p, v, m) = [level |-> m, range |-> v \div Span[m], owner |-> p]
  BY UserPlaceOf
<1>5. pl[t] \in Place
  BY DEF Shape, Rooted
<1>6. pl[t].level = m + 1 /\ m + 1 \in Levels /\ m + 1 \in {2, 3, 4} /\ (m + 1) - 1 = m
  <2>1. pl[t].level - 1 = m /\ pl[t].level \in 0 .. LEVELS
    BY <1>2, <1>3, <1>4, <1>5 DEF Under, Place
  <2>2. QED BY <2>1, Shapes
<1>7. pl[t].owner = p
  <2>1. ~(pl[t].level = LEVELS /\ i \in KernelHalf)
    BY DEF UserEntry
  <2>2. Under(pl[t], i).owner = pl[t].owner
    BY <2>1 DEF Under
  <2>3. QED BY <2>2, <1>2, <1>3, <1>4
<1>8. pl[t].range = v \div Span[m + 1] /\ i = Index(v, m + 1)
  <2>1. v \in Nat
    BY UserPlaceOf
  <2>2. /\ Index(v, m + 1) \in Indices /\ v \div Span[m + 1] \in Nat
        /\ v \div Span[m] = (v \div Span[m + 1]) * FANOUT + Index(v, m + 1)
    BY <2>1, <1>6, Digits
  <2>3. pl[t].range * FANOUT + i = v \div Span[m]
    BY <1>2, <1>3, <1>4 DEF Under
  <2>4. pl[t].range \in Nat
    BY <1>5 DEF Place
  <2>5. QED BY <2>2, <2>3, <2>4, SameDigit
<1>9. PlaceOf(p, v, m + 1) = [level |-> m + 1, range |-> v \div Span[m + 1], owner |-> p]
  BY <1>6, UserPlaceOf
<1>10. pl[t] = PlaceOf(p, v, m + 1)
  BY <1>5, <1>6, <1>7, <1>8, <1>9 DEF Place
<1>11. QED BY <1>6, <1>8, <1>10 DEF MapPath

LEMMA MappedGrants ==
  ASSUME NEW tb, NEW rt, NEW pl, Shape(tb, rt, pl), NEW p, NEW v, NEW frame, NEW flags,
         NEW path, NEW tb2, NEW pl2,
         Mapped(tb, rt, pl, p, v, frame, flags, path, tb2, pl2)
  PROVE  Grants(tb2, pl2)
<1> DEFINE New(t, i, l) ==
             /\ t = path[l] /\ path[l] # None /\ i = Index(v, l) /\ Edits(path, l)
             /\ tb2[t][i] = NewEntry(tb, path, v, frame, flags, l)
             /\ pl2[t] = PlaceOf(p, v, l)
           Kept(t, i) ==
             /\ IsEntry(tb, t, i) /\ tb2[t][i] = tb[t][i] /\ pl2[t] = pl[t]
             /\ \A l \in Levels : ~(t = path[l] /\ i = Index(v, l) /\ Edits(path, l))
<1>1. \A t \in DOMAIN tb2 : \A i \in DOMAIN tb2[t] :
        Kept(t, i) \/ \E l \in Levels : New(t, i, l)
  BY MappedEntries
<1>2. /\ p \in Processes /\ v \in UserPages
      /\ DOMAIN tb2 = DOMAIN tb \cup ({path[l] : l \in Levels} \ {None})
      /\ MapPath(tb, rt, pl, p, v, path)
      /\ None \notin DOMAIN tb
  BY DEF Mapped, Shape, Rooted
<1>3. \A l \in Levels : PlaceOf(p, v, l).level = l /\ PlaceOf(p, v, l).owner = p
                        /\ Index(v, l) \in Indices
  BY <1>2, UserPlaceOf
<1>4. Index(v, 4) \notin KernelHalf
  BY <1>2, UserPlaceOf
<1>5. ASSUME NEW t \in DOMAIN tb, NEW i \in Indices, UserEntry(tb, pl, t, i)
      PROVE  /\ ~Large(tb[t][i])
             /\ pl[t].level >= 2 =>
                  /\ tb[t][i].to \in DOMAIN tb
                  /\ tb[t][i].flags \subseteq {"User", "Writable"}
                  /\ \A j \in DOMAIN tb[tb[t][i].to] :
                       TableFlags(tb[tb[t][i].to][j].flags) \subseteq tb[t][i].flags
  <2>1. ~Large(tb[t][i])
    BY <1>5 DEF Shape, Grants
  <2>2. pl[t].level >= 2 => tb[t][i].to \in DOMAIN tb
    BY <1>5, <2>1 DEF Shape, Descends, UserEntry
  <2>3. QED BY <1>5, <2>1, <2>2 DEF Shape, Grants
<1> SUFFICES ASSUME NEW t \in DOMAIN tb2, NEW i \in Indices, UserEntry(tb2, pl2, t, i)
             PROVE  /\ ~Large(tb2[t][i])
                    /\ pl2[t].level >= 2 =>
                         /\ tb2[t][i].flags \subseteq {"User", "Writable"}
                         /\ \A j \in DOMAIN tb2[tb2[t][i].to] :
                              TableFlags(tb2[tb2[t][i].to][j].flags) \subseteq tb2[t][i].flags
  BY DEF Grants
<1>6. i \in DOMAIN tb2[t]
  BY DEF UserEntry
<1>7. CASE Kept(t, i)
  <2>1. UserEntry(tb, pl, t, i) /\ t \in DOMAIN tb /\ tb2[t][i] = tb[t][i] /\ pl2[t] = pl[t]
    BY <1>7 DEF UserEntry, IsEntry
  <2>2. ~Large(tb2[t][i])
    BY <2>1, <1>5
  <2>3. ASSUME pl[t].level >= 2, NEW j \in DOMAIN tb2[tb[t][i].to]
        PROVE  TableFlags(tb2[tb[t][i].to][j].flags) \subseteq tb[t][i].flags
    <3> DEFINE u == tb[t][i].to
    <3>1. u \in DOMAIN tb2 /\ u \in DOMAIN tb
      BY <2>1, <2>3, <1>2, <1>5
    <3>2. CASE Kept(u, j)
      BY <3>2, <2>1, <2>3, <1>5 DEF IsEntry
    <3>3. CASE \E m \in Levels : New(u, j, m)
      <4>1. PICK m \in Levels : New(u, j, m)
        BY <3>3
      <4>2. m + 1 \in Levels /\ t = path[m + 1] /\ i = Index(v, m + 1)
        BY <4>1, <2>1, <2>3, <1>2, OnPath
      <4>3. (m + 1) - 1 = m
        BY <4>1, Shapes
      <4>4. Edits(path, m + 1)
        BY <4>1, <4>3 DEF Edits
      <4>5. QED BY <4>2, <4>4, <1>7
    <3>4. QED BY <3>1, <3>2, <3>3, <1>1, <2>3
  <2>4. QED BY <2>1, <2>2, <2>3, <1>5
<1>8. CASE \E l \in Levels : New(t, i, l)
  <2>1. PICK l \in Levels : New(t, i, l)
    BY <1>8
  <2> DEFINE e == NewEntry(tb, path, v, frame, flags, l)
  <2>2. tb2[t][i] = e /\ pl2[t].level = l /\ ~Large(e)
    BY <2>1, <1>3, NewEntries
  <2>3. ASSUME l # 1
        PROVE  /\ e.flags \subseteq {"User", "Writable"}
               /\ TableFlags(flags) \subseteq e.flags
               /\ e.to = path[l - 1] /\ path[l - 1] # None
               /\ l - 1 \in Levels /\ l \in {2, 3, 4} /\ (l - 1) + 1 = l
    BY <2>1, <2>3, NewEntries, Shapes DEF Edits
  <2>4. ASSUME l # 1, NEW j \in DOMAIN tb2[path[l - 1]]
        PROVE  TableFlags(tb2[path[l - 1]][j].flags) \subseteq e.flags
    <3> DEFINE u == path[l - 1]
               f == tb2[u][j].flags
               entry == tb[path[l]][Index(v, l)]
    <3>1. u \in DOMAIN tb2
      BY <2>3, <2>4, <1>2
    <3>2. u \in DOMAIN tb =>
            /\ IsEntry(tb, path[l], Index(v, l)) /\ ~Large(entry) /\ entry.to = u
            /\ entry.flags \subseteq e.flags
      <4>1. u \in DOMAIN tb =>
              IsEntry(tb, path[l], Index(v, l)) /\ ~Large(entry) /\ entry.to = u
        BY <2>3, <2>4, <1>2 DEF MapPath
      <4>2. QED BY <4>1, <2>1, <2>4, NewEntries
    <3>3. u \in DOMAIN tb => \A k \in DOMAIN tb[u] :
            TableFlags(tb[u][k].flags) \subseteq e.flags
      <4> SUFFICES ASSUME u \in DOMAIN tb
                   PROVE  \A k \in DOMAIN tb[u] : TableFlags(tb[u][k].flags) \subseteq entry.flags
        BY <3>2
      <4>1. path[l] \in DOMAIN tb /\ pl[path[l]] = PlaceOf(p, v, l)
        BY <3>2, <1>2 DEF MapPath, IsEntry
      <4>2. UserEntry(tb, pl, path[l], Index(v, l)) /\ pl[path[l]].level >= 2
        BY <4>1, <3>2, <2>3, <2>4, <1>2, <1>3, <1>4, Shapes DEF UserEntry, IsEntry
      <4>3. QED BY <4>1, <4>2, <3>2, <1>3, <1>5
    <3>4. CASE Kept(u, j)
      BY <3>3, <3>4 DEF IsEntry
    <3>5. CASE \E m \in Levels : New(u, j, m)
      <4>1. PICK m \in Levels : New(u, j, m)
        BY <3>5
      <4>2. m = l - 1
        BY <4>1, <2>3, <2>4, <1>2 DEF MapPath
      <4>3. m = 1 => f = flags
        BY <4>1, NewEntries
      <4>4. m # 1 /\ IsEntry(tb, u, j) => f \subseteq TableFlags(flags) \cup tb[u][j].flags
        BY <4>1, NewEntries
      <4>5. m # 1 /\ ~IsEntry(tb, u, j) => f = TableFlags(flags)
        BY <4>1, NewEntries
      <4>6. TableFlags(f) \subseteq TableFlags(flags)
              \/ (IsEntry(tb, u, j)
                  /\ TableFlags(f) \subseteq TableFlags(flags) \cup TableFlags(tb[u][j].flags))
        BY <4>3, <4>4, <4>5 DEF TableFlags
      <4>7. IsEntry(tb, u, j) => TableFlags(tb[u][j].flags) \subseteq e.flags
        BY <3>3 DEF IsEntry
      <4>8. QED BY <4>6, <4>7, <2>3, <2>4
    <3>6. QED BY <3>1, <3>4, <3>5, <1>1, <2>4
  <2>5. QED BY <2>2, <2>3, <2>4
<1>9. QED BY <1>1, <1>6, <1>7, <1>8

LEMMA MappedShape ==
  ASSUME NEW tb, NEW rt, NEW pl, Shape(tb, rt, pl), NEW p, NEW v, NEW frame, NEW flags,
         NEW path, NEW tb2, NEW pl2,
         Mapped(tb, rt, pl, p, v, frame, flags, path, tb2, pl2)
  PROVE  Shape(tb2, rt, pl2)
BY MappedPlaces, MappedLinks, MappedGrants DEF Shape

-----------------------------------------------------------------------------
(* Walks for the user pages of a process *)

LEMMA LowestLevel ==
  ASSUME NEW path, path[4] # None,
         \A l \in {2, 3, 4} : path[l] = None => path[l - 1] = None
  PROVE  /\ Lowest(path) \in Levels
         /\ \A l \in Levels : path[l] # None <=> l >= Lowest(path)
<1> DEFINE S == {l \in Levels : path[l] # None}
<1>1. /\ path[1] # None => path[2] # None
      /\ path[2] # None => path[3] # None
      /\ path[3] # None => path[4] # None
  <2>1. 4 - 1 = 3 /\ 3 - 1 = 2 /\ 2 - 1 = 1
    OBVIOUS
  <2>2. QED BY <2>1
<1>2. \E x \in S : (\A y \in S : x <= y) /\ (\A l \in Levels : l >= x => l \in S)
  <2>1. CASE path[1] # None
    <3>1. 1 \in S /\ \A l \in Levels : l \in S /\ 1 <= l
      BY <2>1, <1>1, Shapes
    <3>2. QED BY <3>1
  <2>2. CASE path[1] = None /\ path[2] # None
    <3>1. 2 \in S /\ (\A l \in S : 2 <= l) /\ \A l \in Levels : l >= 2 => l \in S
      BY <2>2, <1>1, Shapes
    <3>2. QED BY <3>1
  <2>3. CASE path[1] = None /\ path[2] = None /\ path[3] # None
    <3>1. 3 \in S /\ (\A l \in S : 3 <= l) /\ \A l \in Levels : l >= 3 => l \in S
      BY <2>3, <1>1, Shapes
    <3>2. QED BY <3>1
  <2>4. CASE path[1] = None /\ path[2] = None /\ path[3] = None
    <3>1. 4 \in S /\ (\A l \in S : 4 <= l) /\ \A l \in Levels : l >= 4 => l \in S
      BY <2>4, <1>1, Shapes
    <3>2. QED BY <3>1
  <2>5. QED BY <2>1, <2>2, <2>3, <2>4
<1>3. Lowest(path) \in S /\ \A y \in S : Lowest(path) <= y
  BY <1>2 DEF Lowest, Min
<1>4. \A x \in S : (\A y \in S : x <= y) => x = Lowest(path)
  <2>1. \A x \in S : x \in Nat
    BY Shapes
  <2>2. QED BY <1>3, <2>1
<1>5. \A l \in Levels : l >= Lowest(path) => l \in S
  BY <1>2, <1>4
<1>6. QED BY <1>3, <1>5

\* What a walk for a user page of a process meets.
UserWalk(p, v, path, low) ==
  /\ path = Path(root[p], v)
  /\ low \in Levels
  /\ path[4] = root[p]
  /\ \A l \in Levels : path[l] # None <=> l >= low
  /\ \A l \in Levels : path[l] # None => path[l] \in DOMAIN table
  /\ \A l \in Levels : path[l] \in DOMAIN table =>
       path[l] # None /\ low <= l
  /\ \A l \in Levels : l >= low /\ Present(path[l], v, l) => ~Large(Entry(path[l], v, l))
  /\ \A l \in {2, 3, 4} : l > low => Present(path[l], v, l) /\ path[l - 1] = Entry(path[l], v, l).to
  /\ low # 1 => ~Present(path[low], v, low)
  /\ Lowest(path) = low
  /\ StopLevel(root[p], v) = IF low = 1 THEN 1 ELSE LEVELS + 1

LEMMA UserWalks ==
  ASSUME NEW pl, Shape(table, root, pl), NEW p \in Processes, p \in DOMAIN root,
         NEW v \in UserPages
  PROVE  UserWalk(p, v, Path(root[p], v), Lowest(Path(root[p], v)))
<1> DEFINE path == Path(root[p], v)
           low == Lowest(path)
<1>1. path = PathIn(table, root[p], v)
  BY PathIsPathIn
<1>2. /\ path[4] = root[p]
      /\ \A l \in {2, 3, 4} : path[l - 1] = NextTableIn(table, path[l], v, l)
      /\ \A l \in {2, 3, 4} : path[l] = None => path[l - 1] = None
  BY <1>1, PathSteps
<1>3. \A l \in Levels : path[l] # None =>
        path[l] \in DOMAIN table /\ pl[path[l]] = PlaceOf(p, v, l)
  BY <1>1, PathPlaces, UserPlaceOf
<1>4. root[p] # None /\ None \notin DOMAIN table
  BY DEF Shape, Rooted
<1>5. low \in Levels /\ \A l \in Levels : path[l] # None <=> l >= low
  BY <1>2, <1>4, LowestLevel
<1>6. ASSUME NEW l \in Levels, path[l] # None, Present(path[l], v, l)
      PROVE  ~Large(Entry(path[l], v, l))
  <2>1. path[l] \in DOMAIN table /\ pl[path[l]] = PlaceOf(p, v, l)
    BY <1>3, <1>6
  <2>2. UserEntry(table, pl, path[l], Index(v, l)) /\ Index(v, l) \in Indices
    BY <2>1, <1>6, UserPlaceOf, Shapes DEF UserEntry, Present
  <2>3. QED BY <2>1, <2>2 DEF Shape, Grants, Entry
<1>7. ASSUME NEW l \in {2, 3, 4}, l > low
      PROVE  Present(path[l], v, l) /\ path[l - 1] = Entry(path[l], v, l).to
  <2>1. l \in Levels /\ l - 1 \in Levels /\ l - 1 >= low
    BY <1>5, <1>7, Shapes
  <2>2. path[l - 1] # None /\ path[l - 1] = NextTableIn(table, path[l], v, l)
    BY <2>1, <1>2, <1>5
  <2>3. QED BY <2>2 DEF NextTableIn, Present, Entry
<1>8. ASSUME low # 1
      PROVE  ~Present(path[low], v, low)
  <2>1. low \in {2, 3, 4} /\ low - 1 \in Levels /\ ~(low - 1 >= low) /\ low >= low
    BY <1>5, <1>8, Shapes
  <2>2. path[low - 1] = None /\ path[low] # None
        /\ path[low - 1] = NextTableIn(table, path[low], v, low)
    BY <2>1, <1>2, <1>5
  <2>3. SUFFICES ASSUME Present(path[low], v, low) PROVE FALSE
    OBVIOUS
  <2>4. ~Large(Entry(path[low], v, low))
    BY <2>2, <2>3, <1>5, <1>6
  <2>5. Entry(path[low], v, low).to = None
    BY <2>2, <2>3, <2>4 DEF NextTableIn, Present, Entry
  <2>6. path[low] \in DOMAIN table /\ pl[path[low]].level = low
    <3>1. pl[path[low]] = PlaceOf(p, v, low) /\ path[low] \in DOMAIN table
      BY <2>2, <1>3, <1>5
    <3> HIDE DEF path, low
    <3>2. QED BY <3>1 DEF PlaceOf
  <2>7. Entry(path[low], v, low).to \in DOMAIN table
    BY <2>1, <2>3, <2>4, <2>6 DEF Shape, Descends, Entry, Present
  <2>8. QED BY <2>5, <2>7, <1>4
<1>9. StopLevel(root[p], v) = IF low = 1 THEN 1 ELSE LEVELS + 1
  <2>1. StopLevel(root[p], v) =
          IF low = 1 \/ (Present(path[low], v, low) /\ Large(Entry(path[low], v, low)))
            THEN low ELSE LEVELS + 1
    BY DEF StopLevel
  <2>2. low # 1 => ~Present(path[low], v, low)
    BY <1>8
  <2> HIDE DEF low, path
  <2>3. QED BY <2>1, <2>2
<1>10. \A l \in Levels : path[l] \in DOMAIN table => path[l] # None /\ low <= l
  <2>1. \A l \in Levels : l >= low => low <= l
    BY <1>5, Shapes
  <2>2. QED BY <2>1, <1>4, <1>5
<1> HIDE DEF low, path
<1>11. path = Path(root[p], v) /\ low = Lowest(path)
  BY DEF path, low
<1>12. \A l \in Levels : l >= low /\ Present(path[l], v, l) => ~Large(Entry(path[l], v, l))
  BY <1>5, <1>6
<1>13. UserWalk(p, v, path, low)
  BY <1>2, <1>3, <1>5, <1>7, <1>8, <1>9, <1>10, <1>11, <1>12 DEF UserWalk
<1>14. QED BY <1>13 DEF path, low

-----------------------------------------------------------------------------
(* Unmapping a page *)

\* The entry for page v is cleared in t, the table of its level 1 in space p.
Cut(tb, rt, pl, p, v, t, tb2) ==
  /\ p \in Processes /\ v \in UserPages /\ Kernel \in DOMAIN rt
  /\ t \in DOMAIN tb /\ pl[t] = PlaceOf(p, v, 1)
  /\ DOMAIN tb2 = DOMAIN tb
  /\ \A f \in DOMAIN tb : f # t => tb2[f] = tb[f]
  /\ DOMAIN tb2[t] = DOMAIN tb[t] \ {Index(v, 1)}
  /\ \A i \in DOMAIN tb2[t] : tb2[t][i] = tb[t][i]

LEMMA CutShape ==
  ASSUME NEW tb, NEW rt, NEW pl, Shape(tb, rt, pl), NEW p, NEW v, NEW t, NEW tb2,
         Cut(tb, rt, pl, p, v, t, tb2)
  PROVE  Shape(tb2, rt, pl)
<1>1. t \in DOMAIN tb /\ pl[t].level = 1 /\ DOMAIN tb2 = DOMAIN tb
  BY DEF Cut, PlaceOf
<1>2. \A f \in DOMAIN tb : /\ f # t => tb2[f] = tb[f]
                           /\ DOMAIN tb2[f] \subseteq DOMAIN tb[f]
                           /\ \A i \in DOMAIN tb2[f] : tb2[f][i] = tb[f][i]
  BY <1>1 DEF Cut
<1>3. \A f \in DOMAIN tb : pl[f].level # 1 => tb2[f] = tb[f]
  BY <1>1, <1>2
<1>4. Typed(tb2)
  BY <1>1, <1>2 DEF Shape, Typed
<1>5. Rooted(tb2, rt, pl)
  BY <1>1 DEF Shape, Rooted
<1>6. Descends(tb2, pl)
  BY <1>1, <1>2 DEF Shape, Descends
<1>7. Linked(tb2, pl)
  <2> SUFFICES ASSUME NEW u \in DOMAIN tb, pl[u].level \in 1 .. LEVELS - 1
               PROVE  \E f \in DOMAIN tb : \E i \in DOMAIN tb2[f] :
                        /\ pl[f].level = pl[u].level + 1
                        /\ ~Large(tb2[f][i]) /\ tb2[f][i].to = u
    BY <1>1 DEF Linked
  <2>1. PICK f \in DOMAIN tb : \E i \in DOMAIN tb[f] :
          pl[f].level = pl[u].level + 1 /\ ~Large(tb[f][i]) /\ tb[f][i].to = u
    BY DEF Shape, Linked
  <2>2. pl[f].level # 1
    BY <2>1, Shapes
  <2>3. QED BY <2>1, <2>2, <1>3
<1>8. KernelShared(tb2, rt)
  <2>1. \A q \in DOMAIN rt : rt[q] \in DOMAIN tb /\ pl[rt[q]].level # 1
    <3>1. \A q \in DOMAIN rt : rt[q] \in DOMAIN tb /\ pl[rt[q]] = RootPlace(q)
      BY DEF Shape, Rooted
    <3>2. \A q : RootPlace(q).level # 1
      BY Shapes DEF RootPlace
    <3>3. QED BY <3>1, <3>2
  <2>2. \A q \in DOMAIN rt : tb2[rt[q]] = tb[rt[q]]
    BY <2>1, <1>3
  <2>3. Kernel \in DOMAIN rt
    BY DEF Cut
  <2>4. QED BY <2>2, <2>3 DEF Shape, KernelShared
<1>9. Grants(tb2, pl)
  <2> SUFFICES ASSUME NEW f \in DOMAIN tb, NEW i \in Indices, UserEntry(tb2, pl, f, i)
               PROVE  /\ ~Large(tb2[f][i])
                      /\ pl[f].level >= 2 =>
                           /\ tb2[f][i].flags \subseteq {"User", "Writable"}
                           /\ \A j \in DOMAIN tb2[tb2[f][i].to] :
                                TableFlags(tb2[tb2[f][i].to][j].flags) \subseteq tb2[f][i].flags
    BY <1>1 DEF Grants
  <2>1. UserEntry(tb, pl, f, i) /\ tb2[f][i] = tb[f][i]
    BY <1>2 DEF UserEntry
  <2>2. /\ ~Large(tb[f][i])
        /\ pl[f].level >= 2 =>
             /\ tb[f][i].flags \subseteq {"User", "Writable"}
             /\ \A j \in DOMAIN tb[tb[f][i].to] :
                  TableFlags(tb[tb[f][i].to][j].flags) \subseteq tb[f][i].flags
    BY <2>1 DEF Shape, Grants
  <2>3. pl[f].level >= 2 => tb[f][i].to \in DOMAIN tb
    BY <2>1, <2>2 DEF Shape, Descends, UserEntry
  <2>4. QED BY <2>1, <2>2, <2>3, <1>2
<1>10. QED BY <1>4, <1>5, <1>6, <1>7, <1>8, <1>9 DEF Shape

LEMMA UnmapInv ==
  ASSUME NEW pl, Frames, Shape(table, root, pl), BootLeft(pl),
         NEW p \in DOMAIN root \ {Kernel}, NEW v \in MapPages, Unmap(p, v)
  PROVE  /\ Frames' /\ Shape(table', root', pl) /\ BootLeft(pl)'
         /\ UNCHANGED <<free, root>>
         /\ \E t : Cut(table, root, pl, p, v, t, table')
<1> DEFINE path == Path(root[p], v)
           low == Lowest(path)
           level == StopLevel(root[p], v)
           t == path[1]
<1>1. p \in Processes /\ p \in DOMAIN root /\ v \in UserPages
  BY CallerAssumption DEF Frames
<1>2. UserWalk(p, v, path, low)
  BY <1>1, UserWalks
<1>3. UNCHANGED <<free, root>>
  BY DEF Unmap
<1>4. level \in Levels /\ Present(path[level], v, level)
      /\ table' = Cleared(root[p], v, level)
  BY DEF Unmap
<1>5. low = 1 /\ level = 1
  BY <1>2, <1>4, Shapes DEF UserWalk
<1>6. t # None /\ t \in DOMAIN table
  BY <1>2, <1>5, Shapes DEF UserWalk
<1>7. pl[t] = PlaceOf(p, v, 1)
  <2>1. t = PathIn(table, root[p], v)[1] /\ 1 \in Levels /\ v \in Pages
    BY <1>1, PathIsPathIn, UserPlaceOf, Shapes
  <2>2. QED BY <2>1, <1>1, <1>6, PathPlaces
<1>8. table' = [table EXCEPT ![t] = [i \in DOMAIN table[t] \ {Index(v, 1)} |-> table[t][i]]]
  BY <1>4, <1>5 DEF Cleared
<1> HIDE DEF t
<1>9. Cut(table, root, pl, p, v, t, table')
  BY <1>1, <1>6, <1>7, <1>8 DEF Cut, Frames
<1>10. Shape(table', root, pl)
  BY <1>9, CutShape
<1>11. DOMAIN table' = DOMAIN table
  BY <1>9 DEF Cut
<1>12. Frames' /\ BootLeft(pl)'
  BY <1>3, <1>11 DEF Frames, BootLeft
<1>13. QED BY <1>3, <1>9, <1>10, <1>12

-----------------------------------------------------------------------------
(* The path map creates *)

LEMMA CreatedPaths ==
  ASSUME Frames, NEW p, NEW v, NEW old, NEW low, UserWalk(p, v, old, low)
  PROVE  \A l \in Levels :
           /\ l >= low => CreatedPath(root[p], v)[l] = old[l]
           /\ l < low /\ low - l <= Cardinality(free) =>
                /\ CreatedPath(root[p], v)[l] = Nth(low - l)
                /\ low - l \in 1 .. Cardinality(free)
                /\ Nth(low - l) \in free
           /\ l < low /\ ~(low - l <= Cardinality(free)) =>
                CreatedPath(root[p], v)[l] = None
<1>1. /\ old = Path(root[p], v) /\ low = Lowest(old)
      /\ StopLevel(root[p], v) = IF low = 1 THEN 1 ELSE LEVELS + 1
      /\ low \in Levels
      /\ \A l \in Levels : old[l] # None <=> l >= low
  BY DEF UserWalk
<1>2. (IF StopLevel(root[p], v) = low THEN low ELSE 1) = 1
  BY <1>1, Shapes
<1>3. CreatedPath(root[p], v) =
        [l \in Levels |->
           IF old[l] # None THEN old[l]
           ELSE IF l >= (IF StopLevel(root[p], v) = low THEN low ELSE 1)
                     /\ low - l <= Cardinality(free) THEN Nth(low - l)
           ELSE None]
  BY <1>1 DEF CreatedPath
<1>4. \A l \in Levels : CreatedPath(root[p], v)[l] =
           IF old[l] # None THEN old[l]
           ELSE IF low - l <= Cardinality(free) THEN Nth(low - l) ELSE None
  BY <1>2, <1>3, Shapes
<1>5. Cardinality(free) \in Nat
  BY FreeFrames
<1>6. \A l \in Levels : l < low /\ low - l <= Cardinality(free) =>
        low - l \in 1 .. Cardinality(free)
  BY <1>1, <1>5, Shapes
<1>7. \A n \in 1 .. Cardinality(free) : Nth(n) \in free
  BY NthFree
<1>8. \A l \in Levels : l < low => ~(l >= low)
  BY <1>1, Shapes
<1>9. QED BY <1>1, <1>4, <1>6, <1>7, <1>8

LEMMA CreatedMapPath ==
  ASSUME NEW pl, Frames, Shape(table, root, pl), NEW p \in Processes, p \in DOMAIN root,
         NEW v \in UserPages
  PROVE  /\ MapPath(table, root, pl, p, v, CreatedPath(root[p], v))
         /\ \A l \in Levels :
              LET f == CreatedPath(root[p], v)[l]
              IN  f \in DOMAIN table \/ f \in free \/ f = None
         /\ CreatedPath(root[p], v)[1] = None => StopLevel(root[p], v) = LEVELS + 1
<1> DEFINE path == CreatedPath(root[p], v)
<1>1. PICK old, low : UserWalk(p, v, old, low)
  BY UserWalks
<1>2. /\ low \in Levels /\ old[4] = root[p] /\ old = Path(root[p], v)
      /\ \A l \in Levels : old[l] # None <=> l >= low
      /\ \A l \in Levels : old[l] # None => old[l] \in DOMAIN table
  BY <1>1 DEF UserWalk
<1>3. \A l \in Levels :
        /\ l >= low => path[l] = old[l] /\ path[l] \in DOMAIN table
        /\ l < low /\ low - l <= Cardinality(free) =>
             path[l] = Nth(low - l) /\ low - l \in 1 .. Cardinality(free) /\ path[l] \in free
        /\ l < low /\ ~(low - l <= Cardinality(free)) => path[l] = None
  BY <1>1, <1>2, CreatedPaths
<1> HIDE DEF path
<1>4. /\ Cardinality(free) \in Nat /\ free \subseteq Nat /\ None \notin free
      /\ free \cap DOMAIN table = {}
      /\ None \notin DOMAIN table /\ DOMAIN table \subseteq Nat
  BY FreeFrames, FrameAssumption DEF Shape, Rooted, Frames
<1>5. \A l \in Levels : l >= low \/ l < low
  BY <1>2, Shapes
<1>6. \A l \in Levels : path[l] \in DOMAIN table \/ path[l] \in free \/ path[l] = None
  BY <1>3, <1>5
<1>7. \A l \in Levels : path[l] \in DOMAIN table <=> l >= low
  BY <1>3, <1>4, <1>5
<1>8. path[4] = root[p]
  <2>1. 4 \in Levels /\ 4 >= low
    BY <1>2, Shapes
  <2>2. QED BY <2>1, <1>2, <1>3
<1>9. ASSUME NEW l \in {2, 3, 4}
      PROVE  /\ path[l] = None => path[l - 1] = None
             /\ path[l - 1] \in DOMAIN table =>
                  /\ IsEntry(table, path[l], Index(v, l))
                  /\ ~Large(table[path[l]][Index(v, l)])
                  /\ table[path[l]][Index(v, l)].to = path[l - 1]
             /\ path[l - 1] \notin DOMAIN table => ~IsEntry(table, path[l], Index(v, l))
  <2>1. l \in Levels /\ l - 1 \in Levels
    BY Shapes
  <2>2. path[l] = None => path[l - 1] = None
    <3> SUFFICES ASSUME path[l] = None PROVE path[l - 1] = None
      OBVIOUS
    <3>1. l < low /\ ~(low - l <= Cardinality(free))
      BY <2>1, <1>3, <1>4, <1>5
    <3>2. l - 1 < low /\ ~(low - (l - 1) <= Cardinality(free))
      BY <3>1, <1>2, <1>4, Shapes
    <3>3. QED BY <3>2, <2>1, <1>3
  <2>3. ASSUME path[l - 1] \in DOMAIN table
        PROVE  /\ IsEntry(table, path[l], Index(v, l))
               /\ ~Large(table[path[l]][Index(v, l)])
               /\ table[path[l]][Index(v, l)].to = path[l - 1]
    <3>1. l - 1 >= low /\ l > low /\ l >= low
      BY <2>1, <2>3, <1>2, <1>7, Shapes
    <3>2. path[l] = old[l] /\ path[l - 1] = old[l - 1] /\ path[l] \in DOMAIN table
      BY <3>1, <2>1, <1>3
    <3>3. Present(old[l], v, l) /\ old[l - 1] = Entry(old[l], v, l).to
      BY <3>1, <1>1 DEF UserWalk
    <3>4. ~Large(Entry(old[l], v, l))
      BY <3>1, <3>3, <2>1, <1>1 DEF UserWalk
    <3>5. QED BY <3>2, <3>3, <3>4 DEF Present, Entry, IsEntry
  <2>4. ASSUME path[l - 1] \notin DOMAIN table, path[l] \in DOMAIN table
        PROVE  Index(v, l) \notin DOMAIN table[path[l]]
    <3>1. l = low /\ low # 1 /\ l >= low
      BY <2>1, <2>4, <1>2, <1>7, Shapes
    <3>2. path[l] = old[l]
      BY <3>1, <2>1, <1>3
    <3>3. ~Present(old[l], v, l)
      BY <3>1, <1>1 DEF UserWalk
    <3>4. QED BY <3>2, <3>3 DEF Present
  <2>5. QED BY <2>2, <2>3, <2>4 DEF IsEntry
<1>10. ASSUME NEW l \in Levels
       PROVE  /\ path[l] \in DOMAIN table => pl[path[l]] = PlaceOf(p, v, l)
              /\ \A t \in DOMAIN table : pl[t] = PlaceOf(p, v, l) => path[l] = t
  <2>1. old[l] = PathIn(table, root[p], v)[l] /\ v \in Pages
    BY <1>2, PathIsPathIn, UserPlaceOf
  <2>2. /\ old[l] # None => pl[old[l]] = PlaceOf(p, v, l)
        /\ \A t \in DOMAIN table : pl[t] = PlaceOf(p, v, l) => t = old[l]
    BY <2>1, PathPlaces
  <2>3. path[l] \in DOMAIN table => path[l] = old[l] /\ old[l] # None
    BY <1>3, <1>4, <1>7
  <2>4. \A t \in DOMAIN table : t = old[l] => path[l] = t
    BY <1>2, <1>3, <1>4
  <2>5. QED BY <2>2, <2>3, <2>4
<1>11. ASSUME NEW l \in Levels, NEW m \in Levels, path[l] = path[m], path[l] # None
       PROVE  l = m
  <2>1. CASE path[l] \in DOMAIN table
    <3>1. pl[path[l]] = PlaceOf(p, v, l) /\ pl[path[l]] = PlaceOf(p, v, m)
      BY <2>1, <1>10, <1>11
    <3>2. QED BY <3>1 DEF PlaceOf
  <2>2. CASE path[l] \notin DOMAIN table
    <3>1. ~(l >= low) /\ ~(m >= low)
      BY <2>2, <1>7, <1>11
    <3>2. /\ path[l] = Nth(low - l) /\ low - l \in 1 .. Cardinality(free)
          /\ path[m] = Nth(low - m) /\ low - m \in 1 .. Cardinality(free)
      BY <3>1, <1>3, <1>5, <1>11
    <3>3. low - l = low - m
      BY <3>2, <1>11, NthFree
    <3>4. QED BY <3>3, <1>2, Shapes
  <2>3. QED BY <2>1, <2>2
<1>12. \A l \in Levels : path[l] # None => path[l] \in Nat
  BY <1>4, <1>6
<1>13. MapPath(table, root, pl, p, v, path)
  BY <1>8, <1>9, <1>10, <1>11, <1>12 DEF MapPath
<1>14. path[1] = None => StopLevel(root[p], v) = LEVELS + 1
  <2> SUFFICES ASSUME path[1] = None PROVE StopLevel(root[p], v) = LEVELS + 1
    OBVIOUS
  <2>1. 1 \in Levels /\ ~(1 >= low)
    BY <1>4, <1>7, Shapes
  <2>2. low # 1
    BY <2>1, <1>2, Shapes
  <2>3. QED BY <2>2, <1>1 DEF UserWalk
<1>15. QED BY <1>6, <1>13, <1>14 DEF path

LEMMA MapInv ==
  ASSUME NEW pl, Frames, Shape(table, root, pl), BootLeft(pl),
         NEW p \in DOMAIN root \ {Kernel}, NEW v \in MapPages,
         NEW frame \in MapFrames, NEW flags \in MapFlags, Map(p, v, frame, flags)
  PROVE  \E path, pl2 :
           /\ Frames' /\ Shape(table', root', pl2) /\ BootLeft(pl2)'
           /\ UNCHANGED root
           /\ Mapped(table, root, pl, p, v, frame, flags, path, table', pl2)
<1>1. /\ p \in Processes /\ p \in DOMAIN root /\ v \in UserPages
      /\ Kernel \in DOMAIN root /\ frame \in Nat /\ flags \subseteq Flags \ {"PageSize"}
  BY CallerAssumption, FrameAssumption DEF Frames
<1>2. PICK path : path = CreatedPath(root[p], v)
  OBVIOUS
<1>3. /\ MapPath(table, root, pl, p, v, path)
      /\ \A l \in Levels : path[l] \in DOMAIN table \/ path[l] \in free \/ path[l] = None
      /\ path[1] = None => StopLevel(root[p], v) = LEVELS + 1
  BY <1>1, <1>2, CreatedMapPath
<1>4. /\ None \notin DOMAIN table /\ None \notin free /\ free \cap DOMAIN table = {}
  BY FreeFrames DEF Shape, Rooted
<1> DEFINE last == IF path[1] # None THEN 1 ELSE StopLevel(root[p], v)
           LevelOf(f) == CHOOSE l \in Levels : path[l] = f
           fresh == {path[l] : l \in Levels} \cap free
           Edited(f, l) ==
             IF l = last THEN Put(f, Index(v, l), [to |-> frame, flags |-> flags])
             ELSE IF path[l - 1] = None THEN Content(f)
             ELSE Put(f, Index(v, l), TableEntry(f, v, l, path[l - 1], flags))
<1>5. /\ root[Kernel] # BootRoot
      /\ table' = [f \in DOMAIN table \cup fresh |->
                     IF \E l \in Linking(path) : path[l] = f
                       THEN Edited(f, LevelOf(f)) ELSE Content(f)]
      /\ free' = free \ fresh
      /\ root' = root
  BY <1>2 DEF Map
<1>6. PICK pl2 : pl2 = [f \in DOMAIN table \cup fresh |->
                          IF f \in DOMAIN table THEN pl[f] ELSE PlaceOf(p, v, LevelOf(f))]
  OBVIOUS
<1>7. \A l \in Levels : path[l] # None => LevelOf(path[l]) = l
  <2>1. \A l, m \in Levels : path[l] = path[m] /\ path[l] # None => l = m
    BY <1>3 DEF MapPath
  <2>2. QED BY <2>1
<1>8. DOMAIN table \cup fresh = DOMAIN table \cup ({path[l] : l \in Levels} \ {None})
  BY <1>3, <1>4
<1>9. DOMAIN table' = DOMAIN table \cup fresh
  BY <1>5
<1>10. DOMAIN <<>> = {}
  OBVIOUS
<1>11. \A f, i : i \in DOMAIN Content(f) <=> IsEntry(table, f, i)
  BY <1>10 DEF Content, IsEntry
<1>12. \A f \in DOMAIN table : Content(f) = table[f]
  BY DEF Content
<1>13. ASSUME NEW l \in Levels, path[l] # None
       PROVE  table'[path[l]] =
                IF Edits(path, l)
                  THEN Put(path[l], Index(v, l), NewEntry(table, path, v, frame, flags, l))
                  ELSE Content(path[l])
  <2>1. path[l] \in DOMAIN table \cup fresh /\ l \in Linking(path) /\ LevelOf(path[l]) = l
    BY <1>7, <1>8, <1>13 DEF Linking
  <2>2. table'[path[l]] = Edited(path[l], l)
    <3> HIDE DEF Edited, fresh, LevelOf
    <3>1. QED BY <2>1, <1>5
  <2>3. l = last <=> l = 1
    BY <1>3, <1>13, Shapes
  <2>4. CASE l = 1
    BY <2>2, <2>3, <2>4 DEF Edits, NewEntry
  <2>5. CASE l # 1 /\ path[l - 1] = None
    BY <2>2, <2>3, <2>5 DEF Edits
  <2>6. CASE l # 1 /\ path[l - 1] # None
    <3>1. TableEntry(path[l], v, l, path[l - 1], flags)
            = NewEntry(table, path, v, frame, flags, l)
      BY <2>6 DEF TableEntry, NewEntry, Present, Entry, IsEntry
    <3>2. QED BY <3>1, <2>2, <2>3, <2>6 DEF Edits
  <2>7. QED BY <2>4, <2>5, <2>6
<1>14. \A l \in Levels : path[l] # None => \A i :
         /\ i \in DOMAIN table'[path[l]] <=>
              IsEntry(table, path[l], i) \/ (Edits(path, l) /\ i = Index(v, l))
         /\ i \in DOMAIN table'[path[l]] =>
              table'[path[l]][i] =
                IF Edits(path, l) /\ i = Index(v, l)
                  THEN NewEntry(table, path, v, frame, flags, l)
                ELSE table[path[l]][i]
  <2> SUFFICES ASSUME NEW l \in Levels, path[l] # None, NEW i
               PROVE  /\ i \in DOMAIN table'[path[l]] <=>
                           IsEntry(table, path[l], i) \/ (Edits(path, l) /\ i = Index(v, l))
                      /\ i \in DOMAIN table'[path[l]] =>
                           table'[path[l]][i] =
                             IF Edits(path, l) /\ i = Index(v, l)
                               THEN NewEntry(table, path, v, frame, flags, l)
                             ELSE table[path[l]][i]
    OBVIOUS
  <2> DEFINE e == NewEntry(table, path, v, frame, flags, l)
  <2>1. IsEntry(table, path[l], i) => Content(path[l])[i] = table[path[l]][i]
    BY <1>12 DEF IsEntry
  <2>2. CASE Edits(path, l)
    <3>1. table'[path[l]] = [j \in DOMAIN Content(path[l]) \cup {Index(v, l)} |->
                               IF j = Index(v, l) THEN e ELSE Content(path[l])[j]]
      BY <1>13, <2>2 DEF Put
    <3> HIDE DEF e
    <3>2. QED BY <3>1, <2>1, <2>2, <1>11 DEF e
  <2>3. CASE ~Edits(path, l)
    <3>1. table'[path[l]] = Content(path[l])
      BY <1>13, <2>3
    <3>2. QED BY <3>1, <2>1, <2>3, <1>11
  <2>4. QED BY <2>2, <2>3
<1>15. \A f \in DOMAIN table : (\A l \in Levels : path[l] # f) => table'[f] = table[f]
  <2> SUFFICES ASSUME NEW f \in DOMAIN table, \A l \in Levels : path[l] # f
               PROVE  table'[f] = table[f]
    OBVIOUS
  <2>1. ~\E l \in Linking(path) : path[l] = f
    BY DEF Linking
  <2> HIDE DEF Edited, fresh, LevelOf
  <2>2. QED BY <2>1, <1>5, <1>12
<1>16. /\ DOMAIN pl2 = DOMAIN table' /\ pl2 = [f \in DOMAIN table' |-> pl2[f]]
       /\ \A f \in DOMAIN table : pl2[f] = pl[f]
       /\ \A l \in Levels : path[l] # None => pl2[path[l]] = PlaceOf(p, v, l)
  <2>1. \A l \in Levels : path[l] \in DOMAIN table => pl[path[l]] = PlaceOf(p, v, l)
    BY <1>3 DEF MapPath
  <2>2. \A l \in Levels : path[l] # None => path[l] \in DOMAIN table \cup fresh
    BY <1>8
  <2> HIDE DEF fresh, LevelOf
  <2>3. QED BY <2>1, <2>2, <1>6, <1>7, <1>9
<1> HIDE DEF LevelOf, Edited, last
<1>17. Mapped(table, root, pl, p, v, frame, flags, path, table', pl2)
  BY <1>1, <1>3, <1>8, <1>9, <1>14, <1>15, <1>16 DEF Mapped
<1>18. Shape(table', root, pl2)
  BY <1>17, MappedShape
<1>19. fresh \subseteq free /\ free \subseteq Pool
       /\ DOMAIN table = DOMAIN BootTables \cup (Pool \ free)
  BY DEF Frames
<1>20. Frames'
  <2> HIDE DEF fresh
  <2>1. DOMAIN table' = DOMAIN BootTables \cup (Pool \ free')
    BY <1>5, <1>9, <1>19
  <2>2. QED BY <2>1, <1>5, <1>19 DEF Frames
<1>21. \A f \in fresh : pl2[f].level # 0
  <2> SUFFICES ASSUME NEW l \in Levels, path[l] \in free PROVE pl2[path[l]].level # 0
    OBVIOUS
  <2>1. pl2[path[l]] = PlaceOf(p, v, l)
    BY <1>4, <1>16
  <2>2. QED BY <2>1, Shapes DEF PlaceOf
<1>22. BootLeft(pl2)'
  <2> HIDE DEF fresh
  <2>1. DOMAIN BootTables \subseteq DOMAIN table
    BY <1>19
  <2>2. /\ \A t \in DOMAIN table' : pl2[t].level = 0 =>
             t \in DOMAIN BootTables /\ pl2[t].owner = None
        /\ \A t \in DOMAIN BootTables : pl2[t].level = 0
    BY <2>1, <1>5, <1>9, <1>16, <1>21 DEF BootLeft
  <2>3. QED BY <2>2, <1>5 DEF BootLeft
<1>23. QED BY <1>5, <1>17, <1>18, <1>20, <1>22

-----------------------------------------------------------------------------
(* The deep copy *)

Unused == [level |-> 0, range |-> 0, owner |-> None]

\* The tables of the one space there is are copied to the frames copy gives
\* them, and the space moves there.
Copied(tb, rt, pl, copy, tb2, rt2, pl2) ==
  LET sources == {t \in DOMAIN tb : pl[t].level \in Levels}
  IN  /\ DOMAIN rt = {Kernel} /\ DOMAIN rt2 = {Kernel} /\ rt2[Kernel] = copy[rt[Kernel]]
      /\ \A t \in sources :
           /\ copy[t] \in Nat /\ copy[t] # None /\ copy[t] \notin DOMAIN tb
           /\ \A u \in sources : copy[t] = copy[u] => t = u
           /\ pl[t].owner \notin Processes
      /\ DOMAIN tb2 = DOMAIN tb \cup {copy[t] : t \in sources}
      /\ \A f \in DOMAIN tb : tb2[f] = tb[f] /\ pl2[f] = Unused
      /\ \A t \in sources :
           /\ pl2[copy[t]] = pl[t]
           /\ DOMAIN tb2[copy[t]] = DOMAIN tb[t]
           /\ \A i \in DOMAIN tb[t] :
                tb2[copy[t]][i] =
                  IF pl[t].level # 1 /\ ~Large(tb[t][i])
                    THEN [to |-> copy[tb[t][i].to], flags |-> tb[t][i].flags]
                  ELSE tb[t][i]
      /\ DOMAIN pl2 = DOMAIN tb2 /\ pl2 = [f \in DOMAIN tb2 |-> pl2[f]]

LEMMA CopiedShape ==
  ASSUME NEW tb, NEW rt, NEW pl, Shape(tb, rt, pl), NEW copy, NEW tb2, NEW rt2, NEW pl2,
         Copied(tb, rt, pl, copy, tb2, rt2, pl2)
  PROVE  Shape(tb2, rt2, pl2)
<1> DEFINE sources == {t \in DOMAIN tb : pl[t].level \in Levels}
<1>1. /\ DOMAIN rt = {Kernel} /\ DOMAIN rt2 = {Kernel} /\ rt2[Kernel] = copy[rt[Kernel]]
      /\ DOMAIN tb2 = DOMAIN tb \cup {copy[t] : t \in sources}
      /\ \A f \in DOMAIN tb : tb2[f] = tb[f] /\ pl2[f] = Unused
  BY DEF Copied
<1>2. \A t \in sources :
        /\ copy[t] \in DOMAIN tb2 /\ copy[t] # None /\ copy[t] \in Nat
        /\ pl2[copy[t]] = pl[t] /\ pl[t].owner \notin Processes
        /\ DOMAIN tb2[copy[t]] = DOMAIN tb[t]
        /\ \A i \in DOMAIN tb[t] :
             /\ tb2[copy[t]][i].flags = tb[t][i].flags
             /\ Large(tb2[copy[t]][i]) = Large(tb[t][i])
             /\ pl[t].level # 1 /\ ~Large(tb[t][i]) => tb2[copy[t]][i].to = copy[tb[t][i].to]
  <2> SUFFICES ASSUME NEW t \in sources
               PROVE  /\ copy[t] \in DOMAIN tb2 /\ copy[t] # None /\ copy[t] \in Nat
                      /\ pl2[copy[t]] = pl[t] /\ pl[t].owner \notin Processes
                      /\ DOMAIN tb2[copy[t]] = DOMAIN tb[t]
                      /\ \A i \in DOMAIN tb[t] :
                           /\ tb2[copy[t]][i].flags = tb[t][i].flags
                           /\ Large(tb2[copy[t]][i]) = Large(tb[t][i])
                           /\ pl[t].level # 1 /\ ~Large(tb[t][i]) =>
                                tb2[copy[t]][i].to = copy[tb[t][i].to]
    OBVIOUS
  <2>1. /\ copy[t] \in DOMAIN tb2 /\ copy[t] # None /\ copy[t] \in Nat
        /\ pl2[copy[t]] = pl[t] /\ pl[t].owner \notin Processes
        /\ DOMAIN tb2[copy[t]] = DOMAIN tb[t]
    BY DEF Copied
  <2>2. ASSUME NEW i \in DOMAIN tb[t]
        PROVE  /\ tb2[copy[t]][i].flags = tb[t][i].flags
               /\ Large(tb2[copy[t]][i]) = Large(tb[t][i])
               /\ pl[t].level # 1 /\ ~Large(tb[t][i]) =>
                    tb2[copy[t]][i].to = copy[tb[t][i].to]
    <3>1. tb2[copy[t]][i] = IF pl[t].level # 1 /\ ~Large(tb[t][i])
                              THEN [to |-> copy[tb[t][i].to], flags |-> tb[t][i].flags]
                            ELSE tb[t][i]
      BY DEF Copied
    <3>2. QED BY <3>1 DEF Large
  <2>3. QED BY <2>1, <2>2
<1>3. \A f \in DOMAIN tb2 : f \in DOMAIN tb \/ \E t \in sources : f = copy[t]
  BY <1>1
<1>4. Unused \in Place /\ Unused.level = 0 /\ Unused.owner = None
  BY Shapes DEF Unused, Place, Owners
<1>5. /\ None \notin DOMAIN tb /\ \A f \in DOMAIN tb : pl[f] \in Place
      /\ rt[Kernel] \in DOMAIN tb /\ pl[rt[Kernel]] = RootPlace(Kernel)
  BY <1>1 DEF Shape, Rooted
<1>6. ASSUME NEW t \in sources, pl[t].level >= 2, NEW i \in DOMAIN tb[t], ~Large(tb[t][i])
      PROVE  tb[t][i].to \in sources /\ pl[tb[t][i].to] = Under(pl[t], i)
  <2>1. tb[t][i].to \in DOMAIN tb /\ pl[tb[t][i].to] = Under(pl[t], i)
    BY <1>6 DEF Shape, Descends
  <2>2. Under(pl[t], i).level \in Levels
    BY <1>6, Shapes DEF Under
  <2>3. QED BY <2>1, <2>2
<1>7. rt[Kernel] \in sources
  <2>1. RootPlace(Kernel).level \in Levels
    BY Shapes DEF RootPlace
  <2>2. QED BY <2>1, <1>5
<1>8. Typed(tb2)
  <2> SUFFICES ASSUME NEW f \in DOMAIN tb2, NEW i \in DOMAIN tb2[f]
               PROVE  i \in Indices /\ tb2[f][i] \in [to : Nat, flags : SUBSET Flags]
    BY DEF Typed
  <2>1. CASE f \in DOMAIN tb
    BY <2>1, <1>1 DEF Shape, Typed
  <2>2. CASE \E t \in sources : f = copy[t]
    <3>1. PICK t \in sources : f = copy[t]
      BY <2>2
    <3>2. i \in DOMAIN tb[t] /\ i \in Indices /\ tb[t][i] \in [to : Nat, flags : SUBSET Flags]
      BY <3>1, <1>2 DEF Shape, Typed
    <3>3. tb2[f][i] = IF pl[t].level # 1 /\ ~Large(tb[t][i])
                        THEN [to |-> copy[tb[t][i].to], flags |-> tb[t][i].flags]
                      ELSE tb[t][i]
      BY <3>1, <3>2 DEF Copied
    <3>4. pl[t].level # 1 /\ ~Large(tb[t][i]) => copy[tb[t][i].to] \in Nat
      <4>1. pl[t].level # 1 => pl[t].level >= 2
        BY Shapes
      <4>2. QED BY <4>1, <3>2, <1>2, <1>6
    <3>5. QED BY <3>2, <3>3, <3>4
  <2>3. QED BY <2>1, <2>2, <1>3
<1>9. Rooted(tb2, rt2, pl2)
  <2>1. None \notin DOMAIN tb2
    BY <1>2, <1>3, <1>5
  <2>2. pl2 \in [DOMAIN tb2 -> Place]
    <3>1. \A f \in DOMAIN tb2 : pl2[f] \in Place
      BY <1>1, <1>2, <1>3, <1>4, <1>5
    <3>2. pl2 = [f \in DOMAIN tb2 |-> pl2[f]]
      BY DEF Copied
    <3>3. QED BY <3>1, <3>2
  <2>3. rt2[Kernel] \in DOMAIN tb2 /\ pl2[rt2[Kernel]] = RootPlace(Kernel)
    BY <1>1, <1>2, <1>5, <1>7
  <2>4. \A f \in DOMAIN tb2 : pl2[f].level = LEVELS =>
          pl2[f].owner \in DOMAIN rt2 /\ f = rt2[pl2[f].owner]
    <3> SUFFICES ASSUME NEW f \in DOMAIN tb2, pl2[f].level = LEVELS
                 PROVE  pl2[f].owner = Kernel /\ f = copy[rt[Kernel]]
      BY <1>1
    <3>1. f \notin DOMAIN tb
      BY <1>1, <1>4, Shapes
    <3>2. PICK t \in sources : f = copy[t]
      BY <3>1, <1>3
    <3>3. pl[t].owner = Kernel /\ t = rt[Kernel]
      BY <3>2, <1>1, <1>2 DEF Shape, Rooted
    <3>4. QED BY <3>2, <3>3, <1>2
  <2>5. QED BY <2>1, <2>2, <2>3, <2>4, <1>1 DEF Rooted
<1>10. Descends(tb2, pl2)
  <2> SUFFICES ASSUME NEW f \in DOMAIN tb2, pl2[f].level >= 2,
                      NEW i \in DOMAIN tb2[f], ~Large(tb2[f][i])
               PROVE  tb2[f][i].to \in DOMAIN tb2 /\ pl2[tb2[f][i].to] = Under(pl2[f], i)
    BY DEF Descends
  <2>1. f \notin DOMAIN tb
    BY <1>1, <1>4
  <2>2. PICK t \in sources : f = copy[t]
    BY <2>1, <1>3
  <2>3. pl2[f] = pl[t] /\ i \in DOMAIN tb[t] /\ ~Large(tb[t][i])
    BY <2>2, <1>2
  <2>4. tb2[f][i].to = copy[tb[t][i].to]
    <3>1. pl[t].level # 1
      BY <2>3, Shapes
    <3>2. QED BY <3>1, <2>2, <2>3, <1>2
  <2>5. tb[t][i].to \in sources /\ pl[tb[t][i].to] = Under(pl[t], i)
    BY <2>3, <1>6
  <2>6. QED BY <2>3, <2>4, <2>5, <1>2
<1>11. Linked(tb2, pl2)
  <2> SUFFICES ASSUME NEW f \in DOMAIN tb2, pl2[f].level \in 1 .. LEVELS - 1
               PROVE  \E g \in DOMAIN tb2 : \E i \in DOMAIN tb2[g] :
                        /\ pl2[g].level = pl2[f].level + 1
                        /\ ~Large(tb2[g][i]) /\ tb2[g][i].to = f
    BY DEF Linked
  <2>1. f \notin DOMAIN tb
    BY <1>1, <1>4
  <2>2. PICK u \in sources : f = copy[u]
    BY <2>1, <1>3
  <2>3. pl2[f] = pl[u]
    BY <2>2, <1>2
  <2>4. PICK t \in DOMAIN tb : \E i \in DOMAIN tb[t] :
          pl[t].level = pl[u].level + 1 /\ ~Large(tb[t][i]) /\ tb[t][i].to = u
    BY <2>3 DEF Shape, Linked
  <2>5. t \in sources /\ pl[t].level # 1
    BY <2>3, <2>4, Shapes
  <2>6. copy[t] \in DOMAIN tb2 /\ pl2[copy[t]].level = pl2[f].level + 1
    BY <2>3, <2>4, <2>5, <1>2
  <2>7. QED BY <2>2, <2>4, <2>5, <2>6, <1>2
<1>12. KernelShared(tb2, rt2)
  BY <1>1 DEF KernelShared
<1>13. Grants(tb2, pl2)
  <2>1. \A f \in DOMAIN tb2 : pl2[f].owner \notin Processes
    BY <1>1, <1>2, <1>3, <1>4, ProcessAssumption
  <2>2. QED BY <2>1 DEF Grants, UserEntry
<1>14. QED BY <1>8, <1>9, <1>10, <1>11, <1>12, <1>13 DEF Shape

LEMMA UpTo ==
  ASSUME NEW S, S \subseteq Nat, IsFiniteSet(S), NEW t \in S
  PROVE  /\ Cardinality({u \in S : u <= t}) \in 1 .. Cardinality(S)
         /\ \A s \in S : Cardinality({u \in S : u <= s}) = Cardinality({u \in S : u <= t})
              => s = t
<1> DEFINE Smaller(s) == {u \in S : u < s}
<1>1. ASSUME NEW s \in S
      PROVE  /\ {u \in S : u <= s} = Smaller(s) \cup {s}
             /\ Cardinality({u \in S : u <= s}) = Cardinality(Smaller(s)) + 1
             /\ Cardinality(Smaller(s)) \in Nat
  <2>1. {u \in S : u <= s} = Smaller(s) \cup {s} /\ s \notin Smaller(s)
        /\ Smaller(s) \subseteq S
    <3>1. \A u \in S : u <= s <=> u < s \/ u = s
      OBVIOUS
    <3>2. ~(s < s)
      OBVIOUS
    <3>3. QED BY <3>1, <3>2
  <2> HIDE DEF Smaller
  <2>2. IsFiniteSet(Smaller(s)) /\ Cardinality(Smaller(s)) \in Nat
    BY <2>1, FS_Subset, FS_CardinalityType
  <2>3. Cardinality(Smaller(s) \cup {s}) = Cardinality(Smaller(s)) + 1
    BY <2>1, <2>2, FS_AddElement
  <2>4. QED BY <2>1, <2>2, <2>3
<1>2. Cardinality(S) \in Nat
  BY FS_CardinalityType
<1>3. Cardinality({u \in S : u <= t}) <= Cardinality(S)
  <2>1. {u \in S : u <= t} \subseteq S
    OBVIOUS
  <2>2. QED BY <2>1, FS_Subset
<1>4. Cardinality({u \in S : u <= t}) \in 1 .. Cardinality(S)
  <2>1. PICK k, n, m : k = Cardinality({u \in S : u <= t}) /\ n = Cardinality(S)
                       /\ m = Cardinality(Smaller(t))
    OBVIOUS
  <2>2. k = m + 1 /\ m \in Nat
    BY <1>1, <2>1
  <2>3. k \in 1 .. n
    BY ONLY <1>2, <1>3, <2>1, <2>2
  <2>4. QED BY <2>1, <2>3
<1>5. ASSUME NEW s \in S, Cardinality({u \in S : u <= s}) = Cardinality({u \in S : u <= t})
      PROVE  s = t
  <2>1. Cardinality(Smaller(s)) = Cardinality(Smaller(t))
    BY <1>1, <1>5
  <2>2. QED BY <2>1, Ranks
<1>6. QED BY <1>4, <1>5

LEMMA CloneInv ==
  ASSUME NEW pl, Frames, Shape(table, root, pl), BootLeft(pl), CloneCurrent
  PROVE  \E copy, pl2 :
           /\ Frames' /\ Shape(table', root', pl2) /\ BootLeft(pl2)'
           /\ Copied(table, root, pl, copy, table', root', pl2)
<1> DEFINE sources == Reach(root[Kernel])
           inSpace == {t \in DOMAIN table : pl[t].level \in Levels}
           Rank(t) == Cardinality({u \in sources : u <= t})
<1>1. PICK copy : copy = [t \in sources |-> Nth(Cardinality({u \in sources : u <= t}))]
  OBVIOUS
<1> DEFINE fresh == {copy[t] : t \in sources}
           From(f) == CHOOSE t \in sources : copy[t] = f
<1>2. /\ root[Kernel] = BootRoot
      /\ Cardinality(sources) <= Cardinality(free)
      /\ table' = [f \in DOMAIN table \cup fresh |->
                     IF f \in fresh THEN CopiedTable(copy, From(f)) ELSE table[f]]
      /\ free' = free \ fresh
      /\ root' = [root EXCEPT ![Kernel] = copy[BootRoot]]
  BY <1>1 DEF CloneCurrent
<1>3. DOMAIN root = {Kernel} /\ free = Pool /\ DOMAIN table = DOMAIN BootTables
  BY <1>2 DEF BootLeft, Frames
<1>4. \A l \in Levels : \A t \in Below(table, root[Kernel])[l] :
        t \in DOMAIN table /\ pl[t].level = l /\ pl[t].owner \in {Kernel, None}
  BY <1>3, ReachedPlaces
<1>5. \A l \in Levels : \A t \in DOMAIN table :
        pl[t].level = l => t \in Below(table, root[Kernel])[l]
  BY <1>3, PlacesReached
<1>6. sources = inSpace
  BY <1>4, <1>5 DEF Reach
<1>7. \A t \in inSpace : pl[t].owner \notin Processes
  BY <1>4, <1>5, ProcessAssumption
<1>8. \A t \in inSpace : t \in Below(table, root[Kernel])[1] <=> pl[t].level = 1
  BY <1>4, <1>5, Shapes
<1> HIDE DEF sources
<1>9. inSpace \subseteq Nat /\ IsFiniteSet(inSpace) /\ inSpace \subseteq DOMAIN table
  <2>1. inSpace \subseteq DOMAIN table
    OBVIOUS
  <2> HIDE DEF inSpace
  <2>2. QED BY <2>1, <1>3, FrameAssumption, FS_Subset
<1>10. Cardinality(inSpace) \in Nat /\ Cardinality(free) \in Nat
       /\ Cardinality(inSpace) <= Cardinality(free)
  BY <1>2, <1>6, <1>9, FreeFrames, FS_CardinalityType
<1>11. ASSUME NEW t \in inSpace
       PROVE  /\ copy[t] \in free
              /\ \A u \in inSpace : copy[t] = copy[u] => t = u
  <2>1. copy[t] = Nth(Rank(t))
    BY <1>1, <1>6
  <2>2. \A u \in inSpace : Rank(u) \in 1 .. Cardinality(inSpace)
    <3> HIDE DEF inSpace
    <3>1. QED BY <1>6, <1>9, UpTo
  <2>3. \A u \in inSpace : Rank(u) \in 1 .. Cardinality(free)
    <3>1. \A n \in 1 .. Cardinality(inSpace) : n \in 1 .. Cardinality(free)
      BY ONLY <1>10
    <3>2. QED BY <2>2, <3>1
  <2>4. copy[t] \in free
    BY <2>1, <2>3, NthFree
  <2>5. ASSUME NEW u \in inSpace, copy[t] = copy[u]
        PROVE  t = u
    <3>1. copy[u] = Nth(Rank(u))
      BY <1>1, <1>6
    <3> HIDE DEF Rank, inSpace
    <3>2. Nth(Rank(t)) = Nth(Rank(u)) /\ Rank(t) \in 1 .. Cardinality(free)
          /\ Rank(u) \in 1 .. Cardinality(free)
      BY <2>1, <2>3, <2>5, <3>1
    <3>3. Rank(t) = Rank(u)
      BY <3>2, NthFree
    <3>4. \A w \in inSpace : Rank(w) = Cardinality({x \in inSpace : x <= w})
      BY <1>6 DEF Rank
    <3>5. \A w, z \in inSpace :
            Cardinality({x \in inSpace : x <= w}) = Cardinality({x \in inSpace : x <= z}) => w = z
      <4> SUFFICES ASSUME NEW z \in inSpace
                   PROVE  \A w \in inSpace :
                            Cardinality({x \in inSpace : x <= w})
                              = Cardinality({x \in inSpace : x <= z}) => w = z
        OBVIOUS
      <4>1. inSpace \subseteq Nat /\ IsFiniteSet(inSpace)
        BY <1>9
      <4>2. QED BY ONLY <4>1, UpTo, z \in inSpace
    <3>6. QED BY <3>3, <3>4, <3>5, <1>11, <2>5
  <2>6. QED BY <2>4, <2>5
<1>12. /\ None \notin free /\ free \cap DOMAIN table = {} /\ free \subseteq Nat
  BY FreeFrames
<1>13. fresh = {copy[t] : t \in inSpace} /\ fresh \subseteq free
  BY <1>6, <1>11
<1>14. \A t \in inSpace : From(copy[t]) = t
  <2> HIDE DEF inSpace
  <2>1. QED BY <1>6, <1>11
<1>15. root[Kernel] \in inSpace
  <2>1. root[Kernel] \in Below(table, root[Kernel])[4] /\ 4 \in Levels
    BY BelowSteps, Shapes
  <2>2. QED BY <2>1, <1>4
<1>16. PICK pl2 : pl2 = [f \in DOMAIN table \cup fresh |->
                           IF f \in fresh THEN pl[From(f)] ELSE Unused]
  OBVIOUS
<1>17. /\ DOMAIN table' = DOMAIN table \cup {copy[t] : t \in inSpace}
       /\ \A f \in DOMAIN table : table'[f] = table[f] /\ pl2[f] = Unused
       /\ DOMAIN pl2 = DOMAIN table' /\ pl2 = [f \in DOMAIN table' |-> pl2[f]]
  <2> HIDE DEF fresh, inSpace, From
  <2>1. \A f \in DOMAIN table : f \notin fresh
    BY <1>12, <1>13
  <2>2. QED BY <2>1, <1>2, <1>13, <1>16
<1>18. ASSUME NEW t \in inSpace
       PROVE  /\ pl2[copy[t]] = pl[t]
              /\ DOMAIN table'[copy[t]] = DOMAIN table[t]
              /\ \A i \in DOMAIN table[t] :
                   table'[copy[t]][i] =
                     IF pl[t].level # 1 /\ ~Large(table[t][i])
                       THEN [to |-> copy[table[t][i].to], flags |-> table[t][i].flags]
                     ELSE table[t][i]
  <2>1. copy[t] \in fresh /\ From(copy[t]) = t
    BY <1>13, <1>14
  <2>2. table'[copy[t]] = CopiedTable(copy, t) /\ pl2[copy[t]] = pl[t]
    <3> HIDE DEF fresh, inSpace, From
    <3>1. QED BY <2>1, <1>2, <1>16
  <2>3. CopiedTable(copy, t) =
          [i \in DOMAIN table[t] |->
             IF t \notin Below(table, root[Kernel])[1] /\ ~Large(table[t][i])
               THEN [table[t][i] EXCEPT !.to = copy[@]]
               ELSE table[t][i]]
    BY DEF CopiedTable
  <2>4. ASSUME NEW i \in DOMAIN table[t]
        PROVE  [table[t][i] EXCEPT !.to = copy[@]]
                 = [to |-> copy[table[t][i].to], flags |-> table[t][i].flags]
    <3>1. table[t][i] \in [to : Nat, flags : SUBSET Flags]
      BY DEF Shape, Typed
    <3>2. QED BY <3>1
  <2> HIDE DEF inSpace
  <2>5. t \in Below(table, root[Kernel])[1] <=> pl[t].level = 1
    BY <1>8
  <2>6. QED BY <2>2, <2>3, <2>4, <2>5
<1>19. DOMAIN root' = {Kernel} /\ root'[Kernel] = copy[root[Kernel]]
  BY <1>2, <1>3
<1>20. Copied(table, root, pl, copy, table', root', pl2)
  <2>1. \A t \in inSpace :
          /\ copy[t] \in Nat /\ copy[t] # None /\ copy[t] \notin DOMAIN table
          /\ \A u \in inSpace : copy[t] = copy[u] => t = u
          /\ pl[t].owner \notin Processes
    BY <1>7, <1>11, <1>12
  <2>2. QED BY <2>1, <1>3, <1>17, <1>18, <1>19 DEF Copied
<1>21. Shape(table', root', pl2)
  BY <1>20, CopiedShape
<1>22. Frames'
  <2> HIDE DEF fresh
  <2>1. DOMAIN table' = DOMAIN table \cup fresh
    BY <1>13, <1>17
  <2>2. QED BY <2>1, <1>2, <1>3, <1>13, <1>19 DEF Frames
<1>23. BootLeft(pl2)'
  <2>1. root'[Kernel] # BootRoot
    BY <1>3, <1>11, <1>12, <1>15, <1>19, FrameAssumption
  <2>2. \A t \in DOMAIN BootTables : pl2[t].level = 0
    BY <1>3, <1>17 DEF Unused
  <2>3. \A t \in DOMAIN table' : pl2[t].level = 0 =>
          t \in DOMAIN BootTables /\ pl2[t].owner = None
    <3>1. \A t \in inSpace : pl2[copy[t]].level # 0
      BY <1>18, Shapes
    <3>2. QED BY <3>1, <1>3, <1>17 DEF Unused
  <2>4. QED BY <2>1, <2>2, <2>3 DEF BootLeft
<1>24. QED BY <1>20, <1>21, <1>22, <1>23

-----------------------------------------------------------------------------
(* The invariant and what follows from it *)

LEMMA NextInv == IInv /\ [Next]_vars => IInv'
<1> SUFFICES ASSUME IInv, [Next]_vars PROVE IInv'
  OBVIOUS
<1>1. PICK pl : Frames /\ Shape(table, root, pl) /\ BootLeft(pl)
  BY DEF IInv
<1>2. CASE CloneCurrent
  <2>1. \E pl2 : Frames' /\ Shape(table', root', pl2) /\ BootLeft(pl2)'
    BY <1>1, <1>2, CloneInv
  <2>2. QED BY <2>1 DEF IInv
<1>3. ASSUME NEW p \in Processes, NEW current \in DOMAIN root, CreateAddressSpace(p, current)
      PROVE  IInv'
  <2>1. \E pl2 : Frames' /\ Shape(table', root', pl2) /\ BootLeft(pl2)'
    BY <1>1, <1>3, CreateInv
  <2>2. QED BY <2>1 DEF IInv
<1>4. ASSUME NEW p \in DOMAIN root \ {Kernel}, NEW v \in MapPages, NEW f \in MapFrames,
             NEW flags \in MapFlags, Map(p, v, f, flags)
      PROVE  IInv'
  <2>1. \E pl2 : Frames' /\ Shape(table', root', pl2) /\ BootLeft(pl2)'
    BY <1>1, <1>4, MapInv
  <2>2. QED BY <2>1 DEF IInv
<1>5. ASSUME NEW p \in DOMAIN root \ {Kernel}, NEW v \in MapPages, Unmap(p, v)
      PROVE  IInv'
  <2>1. Frames' /\ Shape(table', root', pl) /\ BootLeft(pl)'
    BY <1>1, <1>5, UnmapInv
  <2>2. QED BY <2>1 DEF IInv
<1>6. CASE UNCHANGED vars
  BY <1>1, <1>6 DEF IInv, Frames, BootLeft, vars
<1>7. QED BY <1>2, <1>3, <1>4, <1>5, <1>6 DEF Next

\* The tables keep the shape of trees of four levels, one for every space, with
\* a common kernel half, whatever is mapped, unmapped, created and copied.
THEOREM Invariance == Spec => []IInv
<1>1. QED BY InitInv, NextInv, PTL DEF Spec

\* Tables hold entries, and every space has a root that is a table.
THEOREM TypeCorrect == Spec => []TypeOK
<1>1. IInv => TypeOK
  <2> SUFFICES ASSUME IInv PROVE TypeOK
    OBVIOUS
  <2>1. PICK pl : Frames /\ Shape(table, root, pl)
    BY DEF IInv
  <2>2. /\ free \subseteq Pool
        /\ DOMAIN table = DOMAIN BootTables \cup (Pool \ free)
        /\ Kernel \in DOMAIN root /\ DOMAIN root \subseteq Processes \cup {Kernel}
    BY <2>1 DEF Frames
  <2>3. \A t \in DOMAIN table :
          /\ DOMAIN table[t] \subseteq Indices
          /\ \A i \in DOMAIN table[t] : table[t][i] \in [to : Nat, flags : SUBSET Flags]
    BY <2>1 DEF Shape, Typed
  <2>4. \A p \in DOMAIN root : root[p] \in DOMAIN table
    BY <2>1 DEF Shape, Rooted
  <2>5. QED BY <2>2, <2>3, <2>4 DEF TypeOK
<1>2. QED BY <1>1, Invariance, PTL

\* Whatever the kernel does with its page tables, they stay trees: no table
\* serves two ranges of pages or the user half of two spaces, the boot loader's
\* are left behind, and no frame taken for a table is lost, also after a map that
\* ran out of memory half way down.
THEOREM TablesStaySound == Spec => []TablesSound
<1>1. IInv => TablesSound
  BY Sound DEF IInv
<1>2. QED BY <1>1, Invariance, PTL

-----------------------------------------------------------------------------
(* What the processor finds at a page of a process *)

\* What is in an entry, as an access to page v finds it.
Leaf(tb, t, v) ==
  IF t # None /\ Index(v, 1) \in DOMAIN tb[t]
    THEN {[frame |-> tb[t][Index(v, 1)].to, flags |-> tb[t][Index(v, 1)].flags]}
    ELSE {}

LEMMA WalkedNone == \A tb, v, l : WalkedIn(tb, {}, v, l) = {}
BY DEF WalkedIn

LEMMA WalkedOne ==
  ASSUME NEW tb, NEW v, NEW l, NEW x, x.leaf = FALSE
  PROVE  LET e == tb[x.frame][Index(v, l)]
         IN  WalkedIn(tb, {x}, v, l) =
               IF Index(v, l) \in DOMAIN tb[x.frame]
                 THEN {[frame |-> e.to + IF Large(e) THEN v % Span[l - 1] ELSE 0,
                        leaf |-> Large(e),
                        flags |-> (x.flags \cap e.flags)
                                    \cup ((x.flags \cup e.flags) \cap {"NoExecute"})]}
                 ELSE {}
<1> DEFINE S == {y \in {x} : y.leaf \/ Index(v, l) \in DOMAIN tb[y.frame]}
<1>1. CASE Index(v, l) \in DOMAIN tb[x.frame]
  <2>1. S = {x}
    BY <1>1
  <2>2. QED BY <1>1, <2>1 DEF WalkedIn
<1>2. CASE Index(v, l) \notin DOMAIN tb[x.frame]
  <2>1. S = {}
    BY <1>2
  <2>2. QED BY <1>2, <2>1 DEF WalkedIn
<1>3. QED BY <1>1, <1>2

\* The processor is at table t with permissions that take nothing away.
At(tb, t, accesses) ==
  IF t = None THEN accesses = {}
  ELSE \E g : /\ accesses = {[frame |-> t, leaf |-> FALSE, flags |-> g]}
              /\ g \subseteq {"User", "Writable"}
              /\ \A j \in DOMAIN tb[t] : TableFlags(tb[t][j].flags) \subseteq g

LEMMA UserStep ==
  ASSUME NEW tb, NEW rt, NEW pl, Shape(tb, rt, pl), NEW p \in Processes, p \in DOMAIN rt,
         NEW v \in UserPages, NEW l \in {2, 3, 4}, NEW a,
         At(tb, PathIn(tb, rt[p], v)[l], a)
  PROVE  At(tb, PathIn(tb, rt[p], v)[l - 1], WalkedIn(tb, a, v, l))
<1> DEFINE t == PathIn(tb, rt[p], v)[l]
           u == PathIn(tb, rt[p], v)[l - 1]
           i == Index(v, l)
           e == tb[t][i]
<1>1. u = NextTableIn(tb, t, v, l)
  BY PathSteps
<1>2. l \in Levels /\ v \in Pages /\ i \in Indices /\ Index(v, 4) \notin KernelHalf
  BY UserPlaceOf, Shapes
<1>3. t # None => t \in DOMAIN tb /\ pl[t] = PlaceOf(p, v, l) /\ pl[t].level = l
                  /\ pl[t].owner = p
  BY <1>2, PathPlaces, UserPlaceOf
<1> HIDE DEF t, u, i
<1>4. CASE t = None
  <2>1. u = None
    BY <1>1, <1>4 DEF NextTableIn
  <2>2. a = {}
    BY <1>4 DEF At, t
  <2>3. QED BY <2>1, <2>2, WalkedNone DEF At, u
<1>5. CASE t # None
  <2>1. PICK g : /\ a = {[frame |-> t, leaf |-> FALSE, flags |-> g]}
                 /\ g \subseteq {"User", "Writable"}
                 /\ \A j \in DOMAIN tb[t] : TableFlags(tb[t][j].flags) \subseteq g
    BY <1>5 DEF At, t
  <2> DEFINE x == [frame |-> t, leaf |-> FALSE, flags |-> g]
  <2>2. x.leaf = FALSE /\ x.frame = t /\ x.flags = g
    OBVIOUS
  <2> HIDE DEF x
  <2>3. CASE i \notin DOMAIN tb[t]
    <3>1. u = None
      BY <1>1, <2>3 DEF NextTableIn, i
    <3>2. WalkedIn(tb, {x}, v, l) = {}
      BY <2>2, <2>3, WalkedOne DEF i
    <3>3. a = {x}
      BY <2>1 DEF x
    <3>4. QED BY <3>1, <3>2, <3>3 DEF At, u
  <2>4. CASE i \in DOMAIN tb[t]
    <3>1. UserEntry(tb, pl, t, i) /\ pl[t].level >= 2
      BY <1>2, <1>3, <1>5, <2>4, Shapes DEF UserEntry, i
    <3>2. /\ ~Large(e) /\ e.flags \subseteq {"User", "Writable"}
          /\ \A j \in DOMAIN tb[e.to] : TableFlags(tb[e.to][j].flags) \subseteq e.flags
      BY <1>2, <1>3, <1>5, <3>1 DEF Shape, Grants
    <3>3. e.to \in DOMAIN tb /\ None \notin DOMAIN tb /\ e \in [to : Nat, flags : SUBSET Flags]
      BY <1>3, <1>5, <2>4, <3>1, <3>2 DEF Shape, Descends, Rooted, Typed
    <3>4. u = e.to /\ u # None
      BY <1>1, <1>5, <2>4, <3>2, <3>3 DEF NextTableIn, i
    <3>5. e.flags \subseteq g
      BY <2>1, <2>4, <3>2 DEF TableFlags
    <3> HIDE DEF e
    <3>6. WalkedIn(tb, {x}, v, l) =
            {[frame |-> e.to + 0, leaf |-> FALSE,
              flags |-> (g \cap e.flags) \cup ((g \cup e.flags) \cap {"NoExecute"})]}
      <4>1. Large(e) = FALSE
        BY <3>2 DEF Large
      <4>2. WalkedIn(tb, {x}, v, l) =
              {[frame |-> e.to + IF Large(e) THEN v % Span[l - 1] ELSE 0,
                leaf |-> Large(e),
                flags |-> (x.flags \cap e.flags)
                            \cup ((x.flags \cup e.flags) \cap {"NoExecute"})]}
        BY <2>2, <2>4, WalkedOne DEF i, e
      <4>3. QED BY <4>1, <4>2, <2>2
    <3>7. (g \cap e.flags) \cup ((g \cup e.flags) \cap {"NoExecute"}) = e.flags
      BY <2>1, <3>2, <3>5
    <3>8. e.to + 0 = e.to
      BY <3>3
    <3>9. WalkedIn(tb, a, v, l) = {[frame |-> u, leaf |-> FALSE, flags |-> e.flags]}
      BY <3>4, <3>6, <3>7, <3>8, <2>1 DEF x
    <3>10. QED BY <3>2, <3>4, <3>9 DEF At, u
  <2>5. QED BY <2>3, <2>4
<1>6. QED BY <1>4, <1>5

LEMMA UserLeaf ==
  ASSUME NEW tb, NEW rt, NEW pl, Shape(tb, rt, pl), NEW p \in Processes, p \in DOMAIN rt,
         NEW v \in UserPages, NEW a, At(tb, PathIn(tb, rt[p], v)[1], a)
  PROVE  {[frame |-> y.frame, flags |-> y.flags] : y \in WalkedIn(tb, a, v, 1)}
           = Leaf(tb, PathIn(tb, rt[p], v)[1], v)
<1> DEFINE t == PathIn(tb, rt[p], v)[1]
           i == Index(v, 1)
           e == tb[t][i]
           Result(b) == {[frame |-> y.frame, flags |-> y.flags] : y \in b}
<1>1. 1 \in Levels /\ v \in Pages /\ i \in Indices
  BY UserPlaceOf, Shapes
<1>2. t # None => t \in DOMAIN tb /\ pl[t].level = 1 /\ pl[t].owner = p
  BY <1>1, PathPlaces, UserPlaceOf
<1> HIDE DEF t, i
<1>3. CASE t = None
  <2>1. a = {}
    BY <1>3 DEF At, t
  <2>2. WalkedIn(tb, a, v, 1) = {}
    BY <2>1, WalkedNone
  <2>3. QED BY <1>3, <2>2 DEF Leaf, t
<1>4. CASE t # None
  <2>1. PICK g : /\ a = {[frame |-> t, leaf |-> FALSE, flags |-> g]}
                 /\ g \subseteq {"User", "Writable"}
                 /\ \A j \in DOMAIN tb[t] : TableFlags(tb[t][j].flags) \subseteq g
    BY <1>4 DEF At, t
  <2> DEFINE x == [frame |-> t, leaf |-> FALSE, flags |-> g]
  <2>2. x.leaf = FALSE /\ x.frame = t /\ x.flags = g /\ a = {x}
    BY <2>1
  <2> HIDE DEF x
  <2>3. CASE i \notin DOMAIN tb[t]
    <3>1. WalkedIn(tb, a, v, 1) = {}
      BY <2>2, <2>3, WalkedOne DEF i
    <3>2. QED BY <2>3, <3>1 DEF Leaf, t, i
  <2>4. CASE i \in DOMAIN tb[t]
    <3>1. UserEntry(tb, pl, t, i)
      BY <1>2, <1>4, <2>4, Shapes DEF UserEntry
    <3>2. ~Large(e)
      BY <1>1, <1>2, <1>4, <3>1 DEF Shape, Grants
    <3>3. e \in [to : Nat, flags : SUBSET Flags]
      BY <1>2, <1>4, <2>4 DEF Shape, Typed
    <3>4. TableFlags(e.flags) \subseteq g
      BY <2>1, <2>4
    <3> HIDE DEF e
    <3>5. Large(e) = FALSE /\ e.flags \subseteq {"User", "Writable", "NoExecute"}
      BY <3>2, <3>3 DEF Large, Flags
    <3>6. (g \cap e.flags) \cup ((g \cup e.flags) \cap {"NoExecute"}) = e.flags
      BY <2>1, <3>4, <3>5 DEF TableFlags
    <3>7. WalkedIn(tb, {x}, v, 1) =
            {[frame |-> e.to + IF Large(e) THEN v % Span[1 - 1] ELSE 0,
              leaf |-> Large(e),
              flags |-> (x.flags \cap e.flags)
                          \cup ((x.flags \cup e.flags) \cap {"NoExecute"})]}
      BY <2>2, <2>4, WalkedOne DEF i, e
    <3>8. e.to + (IF Large(e) THEN v % Span[1 - 1] ELSE 0) = e.to
      BY <3>3, <3>5
    <3>9. WalkedIn(tb, a, v, 1) = {[frame |-> e.to, leaf |-> FALSE, flags |-> e.flags]}
      BY <3>5, <3>6, <3>7, <3>8, <2>2
    <3>10. Result(WalkedIn(tb, a, v, 1)) = {[frame |-> e.to, flags |-> e.flags]}
      <4> DEFINE z == [frame |-> e.to, leaf |-> FALSE, flags |-> e.flags]
      <4>1. z.frame = e.to /\ z.flags = e.flags
        OBVIOUS
      <4> HIDE DEF z
      <4>2. WalkedIn(tb, a, v, 1) = {z}
        BY <3>9 DEF z
      <4>3. Result({z}) = {[frame |-> z.frame, flags |-> z.flags]}
        OBVIOUS
      <4>4. QED BY <4>1, <4>2, <4>3
    <3>11. QED BY <1>4, <2>4, <3>10 DEF Leaf, t, i, e
  <2>5. QED BY <2>3, <2>4
<1>5. QED BY <1>3, <1>4

\* The processor finds what is in the last entry alone.
LEMMA UserSees ==
  ASSUME NEW tb, NEW rt, NEW pl, Shape(tb, rt, pl), NEW p \in Processes, p \in DOMAIN rt,
         NEW v \in UserPages
  PROVE  SeenIn(tb, rt[p], v) = Leaf(tb, PathIn(tb, rt[p], v)[1], v)
<1> DEFINE path == PathIn(tb, rt[p], v)
           a3 == WalkedIn(tb, Start(rt[p]), v, 4)
           a2 == WalkedIn(tb, a3, v, 3)
           a1 == WalkedIn(tb, a2, v, 2)
<1>1. At(tb, path[4], Start(rt[p]))
  <2>1. path[4] = rt[p] /\ rt[p] # None
    BY PathSteps DEF Shape, Rooted
  <2>2. \A j \in DOMAIN tb[rt[p]] : TableFlags(tb[rt[p]][j].flags) \subseteq {"User", "Writable"}
    BY DEF TableFlags
  <2> HIDE DEF path
  <2>3. QED BY <2>1, <2>2 DEF At, Start
<1>2. 4 - 1 = 3 /\ 3 - 1 = 2 /\ 2 - 1 = 1
  OBVIOUS
<1>3. At(tb, path[3], a3)
  BY <1>1, <1>2, UserStep
<1> HIDE DEF a3
<1>4. At(tb, path[2], a2)
  BY <1>2, <1>3, UserStep
<1> HIDE DEF a2
<1>5. At(tb, path[1], a1)
  BY <1>2, <1>4, UserStep
<1>6. SeenIn(tb, rt[p], v) = {[frame |-> y.frame, flags |-> y.flags] : y \in WalkedIn(tb, a1, v, 1)}
  BY DEF SeenIn, a1, a2, a3
<1> HIDE DEF a1
<1>7. QED BY <1>5, <1>6, UserLeaf

\* So does the kernel.
LEMMA UserQueries ==
  ASSUME NEW pl, Shape(table, root, pl), NEW p \in Processes, p \in DOMAIN root,
         NEW v \in UserPages
  PROVE  Query(root[p], v) = Leaf(table, Path(root[p], v)[1], v)
<1> DEFINE path == Path(root[p], v)
           level == StopLevel(root[p], v)
           e == Entry(path[level], v, level)
<1>1. PICK low : UserWalk(p, v, path, low)
  BY UserWalks
<1>2. Query(root[p], v) =
        IF level \in Levels /\ Present(path[level], v, level)
          THEN {[frame |-> e.to + (v % Span[ReportedLevel(level) - 1]), flags |-> e.flags]}
          ELSE {}
  BY DEF Query
<1>3. /\ low \in Levels
      /\ \A l \in Levels : path[l] # None <=> l >= low
      /\ \A l \in Levels : path[l] # None => path[l] \in DOMAIN table
      /\ level = IF low = 1 THEN 1 ELSE LEVELS + 1
  BY <1>1 DEF UserWalk
<1> HIDE DEF path, level
<1>4. CASE low # 1
  <2>1. level \notin Levels
    BY <1>3, <1>4, Shapes
  <2>2. path[1] = None
    BY <1>3, <1>4, Shapes
  <2>3. QED BY <1>2, <2>1, <2>2 DEF Leaf, path
<1>5. CASE low = 1
  <2>1. level = 1 /\ path[1] # None /\ path[1] \in DOMAIN table
    BY <1>3, <1>5, Shapes
  <2>2. CASE Index(v, 1) \notin DOMAIN table[path[1]]
    BY <1>2, <2>1, <2>2 DEF Leaf, path, Present
  <2>3. CASE Index(v, 1) \in DOMAIN table[path[1]]
    <3> DEFINE d == table[path[1]][Index(v, 1)]
    <3>1. d \in [to : Nat, flags : SUBSET Flags]
      BY <2>1, <2>3 DEF Shape, Typed
    <3>2. v \in Nat
      BY UserPlaceOf
    <3>3. ReportedLevel(level) = 1 /\ 1 - 1 = 0
      BY <2>1 DEF ReportedLevel
    <3>4. v % Span[ReportedLevel(level) - 1] = 0
      <4>1. v % 1 = 0
        BY <3>2
      <4>2. QED BY <3>3, <4>1, Spans
    <3>5. Query(root[p], v) = {[frame |-> d.to + 0, flags |-> d.flags]}
      <4>1. e = d /\ Present(path[level], v, level) /\ level \in Levels
        BY <2>1, <2>3, Shapes DEF Entry, Present
      <4> HIDE DEF d, e
      <4>2. QED BY <1>2, <3>4, <4>1
    <3>6. Leaf(table, path[1], v) = {[frame |-> d.to, flags |-> d.flags]}
      BY <2>1, <2>3 DEF Leaf
    <3>7. d.to + 0 = d.to
      BY <3>1
    <3> HIDE DEF d
    <3>8. QED BY <3>5, <3>6, <3>7 DEF path
  <2>4. QED BY <2>2, <2>3
<1>6. QED BY <1>4, <1>5

\* What the kernel reads of a page of a process is what the processor finds: a
\* copy to or from a process is allowed exactly when its own access would be.
THEOREM QueriesTruthful == Spec => []QueryTruthful
<1>1. IInv => QueryTruthful
  <2> SUFFICES ASSUME IInv, NEW p \in DOMAIN root \ {Kernel}, NEW v \in UserPages
               PROVE  Query(root[p], v) = Seen(root[p], v)
    BY DEF QueryTruthful
  <2>1. PICK pl : Shape(table, root, pl)
    BY DEF IInv
  <2>2. p \in Processes /\ p \in DOMAIN root
    BY DEF IInv, Frames
  <2>3. Seen(root[p], v) = Leaf(table, Path(root[p], v)[1], v)
    BY <2>1, <2>2, UserSees, SeenIsSeenIn, PathIsPathIn
  <2>4. QED BY <2>1, <2>2, <2>3, UserQueries
<1>2. QED BY <1>1, Invariance, PTL

-----------------------------------------------------------------------------
(* Walks of tables that match find the same *)

\* M relates tables of tb and tb2, by level, so that a walk for page v cannot
\* tell them apart.
Matches(tb, tb2, M, v) ==
  \A l \in Levels : \A t, u : <<l, t, u>> \in M =>
    /\ Index(v, l) \in DOMAIN tb[t] <=> Index(v, l) \in DOMAIN tb2[u]
    /\ Index(v, l) \in DOMAIN tb[t] =>
         LET e == tb[t][Index(v, l)]
             d == tb2[u][Index(v, l)]
         IN  /\ e.flags = d.flags /\ e.to \in Nat /\ d.to \in Nat
             /\ IF l # 1 /\ ~Large(e) THEN <<l - 1, e.to, d.to>> \in M ELSE e.to = d.to

Alike(M, l, a, b) ==
  \/ a = {} /\ b = {}
  \/ \E x : x.leaf /\ a = {x} /\ b = {x}
  \/ \E t, u, g : /\ <<l, t, u>> \in M
                  /\ a = {[frame |-> t, leaf |-> FALSE, flags |-> g]}
                  /\ b = {[frame |-> u, leaf |-> FALSE, flags |-> g]}

LEMMA WalkedLeaf ==
  ASSUME NEW tb, NEW v, NEW l, NEW x
  PROVE  x.leaf => WalkedIn(tb, {x}, v, l) = {x}
<1> SUFFICES ASSUME x.leaf PROVE WalkedIn(tb, {x}, v, l) = {x}
  OBVIOUS
<1>1. {y \in {x} : y.leaf \/ Index(v, l) \in DOMAIN tb[y.frame]} = {x}
  OBVIOUS
<1>2. QED BY <1>1 DEF WalkedIn

\* The access after a step from a table, given its entry.
Found(e, g, v, l) ==
  [frame |-> e.to + IF Large(e) THEN v % Span[l - 1] ELSE 0,
   leaf |-> Large(e),
   flags |-> (g \cap e.flags) \cup ((g \cup e.flags) \cap {"NoExecute"})]

LEMMA WalkedTable ==
  ASSUME NEW tb, NEW v, NEW l, NEW t, NEW g
  PROVE  WalkedIn(tb, {[frame |-> t, leaf |-> FALSE, flags |-> g]}, v, l) =
           IF Index(v, l) \in DOMAIN tb[t] THEN {Found(tb[t][Index(v, l)], g, v, l)} ELSE {}
<1> DEFINE x == [frame |-> t, leaf |-> FALSE, flags |-> g]
<1>1. x.frame = t /\ x.leaf = FALSE /\ x.flags = g
  OBVIOUS
<1> HIDE DEF x
<1>2. WalkedIn(tb, {x}, v, l) =
        IF Index(v, l) \in DOMAIN tb[t] THEN {Found(tb[t][Index(v, l)], g, v, l)} ELSE {}
  BY <1>1, WalkedOne DEF Found
<1>3. QED BY <1>2 DEF x

LEMMA AlikeStep ==
  ASSUME NEW tb, NEW tb2, NEW M, NEW v, Matches(tb, tb2, M, v),
         NEW l \in Levels, NEW a, NEW b, Alike(M, l, a, b)
  PROVE  IF l = 1 THEN WalkedIn(tb, a, v, l) = WalkedIn(tb2, b, v, l)
         ELSE Alike(M, l - 1, WalkedIn(tb, a, v, l), WalkedIn(tb2, b, v, l))
<1>1. CASE a = {} /\ b = {}
  BY <1>1, WalkedNone DEF Alike
<1>2. ASSUME NEW x, x.leaf, a = {x}, b = {x}
      PROVE  WalkedIn(tb, a, v, l) = {x} /\ WalkedIn(tb2, b, v, l) = {x}
  <2>1. WalkedIn(tb, {x}, v, l) = {x}
    BY <1>2, WalkedLeaf
  <2>2. WalkedIn(tb2, {x}, v, l) = {x}
    BY <1>2, WalkedLeaf
  <2>3. QED BY <2>1, <2>2, <1>2
<1>3. ASSUME NEW t, NEW u, NEW g, <<l, t, u>> \in M,
             a = {[frame |-> t, leaf |-> FALSE, flags |-> g]},
             b = {[frame |-> u, leaf |-> FALSE, flags |-> g]}
      PROVE  IF l = 1 THEN WalkedIn(tb, a, v, l) = WalkedIn(tb2, b, v, l)
             ELSE Alike(M, l - 1, WalkedIn(tb, a, v, l), WalkedIn(tb2, b, v, l))
  <2> DEFINE i == Index(v, l)
             e == tb[t][i]
             d == tb2[u][i]
  <2>1. i \in DOMAIN tb[t] <=> i \in DOMAIN tb2[u]
    BY <1>3 DEF Matches
  <2>2. i \in DOMAIN tb[t] =>
          /\ e.flags = d.flags /\ e.to \in Nat /\ d.to \in Nat
          /\ IF l # 1 /\ ~Large(e) THEN <<l - 1, e.to, d.to>> \in M ELSE e.to = d.to
    BY <1>3 DEF Matches
  <2>3. WalkedIn(tb, a, v, l) = IF i \in DOMAIN tb[t] THEN {Found(e, g, v, l)} ELSE {}
    BY <1>3, WalkedTable
  <2>4. WalkedIn(tb2, b, v, l) = IF i \in DOMAIN tb2[u] THEN {Found(d, g, v, l)} ELSE {}
    BY <1>3, WalkedTable
  <2> HIDE DEF i, e, d
  <2>5. CASE i \notin DOMAIN tb[t]
    BY <2>1, <2>3, <2>4, <2>5 DEF Alike
  <2>6. CASE i \in DOMAIN tb[t]
    <3>1. /\ WalkedIn(tb, a, v, l) = {Found(e, g, v, l)}
          /\ WalkedIn(tb2, b, v, l) = {Found(d, g, v, l)}
      BY <2>1, <2>3, <2>4, <2>6
    <3>2. Large(e) = Large(d)
      BY <2>2, <2>6 DEF Large
    <3>3. CASE l = 1 \/ Large(e)
      <4>1. Found(e, g, v, l) = Found(d, g, v, l)
        BY <2>2, <2>6, <3>2, <3>3 DEF Found
      <4>2. Large(e) => Found(e, g, v, l).leaf
        BY DEF Found, Large
      <4>3. QED BY <3>1, <3>3, <4>1, <4>2 DEF Alike
    <3>4. CASE l # 1 /\ ~Large(e)
      <4> DEFINE h == (g \cap e.flags) \cup ((g \cup e.flags) \cap {"NoExecute"})
      <4>1. <<l - 1, e.to, d.to>> \in M /\ e.to + 0 = e.to /\ d.to + 0 = d.to
        BY <2>2, <2>6, <3>4
      <4>2. Large(e) = FALSE /\ Large(d) = FALSE
        BY <3>2, <3>4 DEF Large
      <4>3. Found(e, g, v, l) = [frame |-> e.to, leaf |-> FALSE, flags |-> h]
        BY <4>1, <4>2 DEF Found
      <4>4. Found(d, g, v, l) = [frame |-> d.to, leaf |-> FALSE, flags |-> h]
        BY <4>1, <4>2, <2>2, <2>6 DEF Found
      <4> HIDE DEF h
      <4>5. \E y, z, k :
              /\ <<l - 1, y, z>> \in M
              /\ WalkedIn(tb, a, v, l) = {[frame |-> y, leaf |-> FALSE, flags |-> k]}
              /\ WalkedIn(tb2, b, v, l) = {[frame |-> z, leaf |-> FALSE, flags |-> k]}
        <5>1. WalkedIn(tb, a, v, l) = {[frame |-> e.to, leaf |-> FALSE, flags |-> h]}
          BY <3>1, <4>3
        <5>2. WalkedIn(tb2, b, v, l) = {[frame |-> d.to, leaf |-> FALSE, flags |-> h]}
          BY <3>1, <4>4
        <5>3. QED BY ONLY <4>1, <5>1, <5>2, Zenon
      <4>6. QED BY <3>4, <4>5 DEF Alike
    <3>5. QED BY <3>3, <3>4
  <2>7. QED BY <2>5, <2>6
<1>4. QED
  <2>1. CASE \E x : x.leaf /\ a = {x} /\ b = {x}
    <3>1. PICK x : x.leaf /\ a = {x} /\ b = {x}
      BY <2>1
    <3>2. WalkedIn(tb, a, v, l) = {x} /\ WalkedIn(tb2, b, v, l) = {x}
      BY <3>1, <1>2
    <3>3. QED BY <3>1, <3>2 DEF Alike
  <2>2. QED BY <1>1, <1>3, <2>1 DEF Alike

LEMMA SameSeen ==
  ASSUME NEW tb, NEW tb2, NEW M, NEW v, Matches(tb, tb2, M, v),
         NEW r, NEW r2, <<4, r, r2>> \in M
  PROVE  SeenIn(tb, r, v) = SeenIn(tb2, r2, v)
<1> DEFINE a3 == WalkedIn(tb, Start(r), v, 4)
           a2 == WalkedIn(tb, a3, v, 3)
           a1 == WalkedIn(tb, a2, v, 2)
           b3 == WalkedIn(tb2, Start(r2), v, 4)
           b2 == WalkedIn(tb2, b3, v, 3)
           b1 == WalkedIn(tb2, b2, v, 2)
<1>1. /\ 4 \in Levels /\ 3 \in Levels /\ 2 \in Levels /\ 1 \in Levels
      /\ 4 - 1 = 3 /\ 3 - 1 = 2 /\ 2 - 1 = 1 /\ 4 # 1 /\ 3 # 1 /\ 2 # 1
  BY Shapes
<1>2. Alike(M, 4, Start(r), Start(r2))
  BY DEF Alike, Start
<1>3. Alike(M, 3, a3, b3)
  BY <1>1, <1>2, AlikeStep
<1> HIDE DEF a3, b3
<1>4. Alike(M, 2, a2, b2)
  BY <1>1, <1>3, AlikeStep
<1> HIDE DEF a2, b2
<1>5. Alike(M, 1, a1, b1)
  BY <1>1, <1>4, AlikeStep
<1> HIDE DEF a1, b1
<1>6. WalkedIn(tb, a1, v, 1) = WalkedIn(tb2, b1, v, 1)
  BY <1>1, <1>5, AlikeStep
<1>7. /\ SeenIn(tb, r, v) = {[frame |-> y.frame, flags |-> y.flags] : y \in WalkedIn(tb, a1, v, 1)}
      /\ SeenIn(tb2, r2, v) = {[frame |-> y.frame, flags |-> y.flags] : y \in WalkedIn(tb2, b1, v, 1)}
  BY DEF SeenIn, a1, a2, a3, b1, b2, b3
<1>8. QED BY <1>6, <1>7

\* What is reached through tables that stay as they are stays as it is.
LEMMA SeenWithin ==
  ASSUME NEW tb, NEW rt, NEW pl, Shape(tb, rt, pl), NEW tb2, NEW v, NEW S, NEW r \in S,
         S \subseteq DOMAIN tb, pl[r].level = 4,
         \A t \in S : \A l \in Levels : pl[t].level = l =>
           /\ Index(v, l) \in DOMAIN tb[t] <=> Index(v, l) \in DOMAIN tb2[t]
           /\ Index(v, l) \in DOMAIN tb[t] =>
                /\ tb2[t][Index(v, l)] = tb[t][Index(v, l)]
                /\ l # 1 /\ ~Large(tb[t][Index(v, l)]) => tb[t][Index(v, l)].to \in S
  PROVE  SeenIn(tb, r, v) = SeenIn(tb2, r, v)
<1> DEFINE M == {<<pl[t].level, t, t>> : t \in S}
<1>1. \A l, t, u : <<l, t, u>> \in M <=> t \in S /\ u = t /\ l = pl[t].level
  OBVIOUS
<1> HIDE DEF M
<1>2. Matches(tb, tb2, M, v)
  <2> SUFFICES ASSUME NEW l \in Levels, NEW t \in S, l = pl[t].level
               PROVE  LET i == Index(v, l)
                          e == tb[t][i]
                          d == tb2[t][i]
                      IN  /\ i \in DOMAIN tb[t] <=> i \in DOMAIN tb2[t]
                          /\ i \in DOMAIN tb[t] =>
                               /\ e.flags = d.flags /\ e.to \in Nat /\ d.to \in Nat
                               /\ IF l # 1 /\ ~Large(e) THEN <<l - 1, e.to, d.to>> \in M
                                  ELSE e.to = d.to
    BY <1>1 DEF Matches
  <2> DEFINE i == Index(v, l)
             e == tb[t][i]
  <2>1. i \in DOMAIN tb[t] <=> i \in DOMAIN tb2[t]
    OBVIOUS
  <2>2. ASSUME i \in DOMAIN tb[t]
        PROVE  tb2[t][i] = e /\ e \in [to : Nat, flags : SUBSET Flags]
    BY <2>2 DEF Shape, Typed
  <2>3. ASSUME i \in DOMAIN tb[t], l # 1, ~Large(e)
        PROVE  <<l - 1, e.to, e.to>> \in M
    <3>1. e.to \in S
      BY <2>3
    <3>2. pl[t].level >= 2
      BY <2>3, Shapes
    <3>3. pl[e.to] = Under(pl[t], i)
      BY <2>3, <3>2 DEF Shape, Descends
    <3>4. pl[e.to].level = l - 1
      BY <3>3 DEF Under
    <3>5. QED BY <3>1, <3>4, <1>1
  <2> HIDE DEF i
  <2>4. QED BY <2>1, <2>2, <2>3 DEF i
<1>3. <<4, r, r>> \in M
  BY <1>1
<1>4. QED BY <1>2, <1>3, SameSeen

\* Page v is seen alike in every space when it is the kernel's.
LEMMA KernelSeen ==
  ASSUME NEW tb, NEW rt, NEW pl, Shape(tb, rt, pl), NEW q \in DOMAIN rt, Kernel \in DOMAIN rt,
         NEW v, Index(v, 4) \in KernelHalf
  PROVE  SeenIn(tb, rt[q], v) = SeenIn(tb, rt[Kernel], v)
<1> DEFINE S == {t \in DOMAIN tb : pl[t].level \in {1, 2, 3}}
           M == {<<4, rt[q], rt[Kernel]>>} \cup {<<pl[t].level, t, t>> : t \in S}
<1>1. \A l, t, u : <<l, t, u>> \in M <=>
        \/ l = 4 /\ t = rt[q] /\ u = rt[Kernel]
        \/ t \in S /\ u = t /\ l = pl[t].level
  OBVIOUS
<1> HIDE DEF M
<1>2. rt[q] \in DOMAIN tb /\ pl[rt[q]].level = 4
  <2>1. rt[q] \in DOMAIN tb /\ pl[rt[q]] = RootPlace(q)
    BY DEF Shape, Rooted
  <2>2. QED BY <2>1, Shapes DEF RootPlace
<1>3. ASSUME NEW t \in DOMAIN tb, NEW l \in {2, 3, 4}, pl[t].level = l, NEW i \in DOMAIN tb[t],
             ~Large(tb[t][i])
      PROVE  <<l - 1, tb[t][i].to, tb[t][i].to>> \in M
  <2>1. tb[t][i].to \in DOMAIN tb /\ pl[tb[t][i].to] = Under(pl[t], i)
    BY <1>3 DEF Shape, Descends
  <2>2. pl[tb[t][i].to].level = l - 1 /\ l - 1 \in {1, 2, 3}
    BY <2>1, <1>3 DEF Under
  <2>3. QED BY <2>1, <2>2, <1>1
<1>4. ASSUME NEW t \in DOMAIN tb, NEW i \in DOMAIN tb[t]
      PROVE  tb[t][i].to \in Nat
  BY DEF Shape, Typed
<1>5. \A i \in KernelHalf :
        /\ i \in DOMAIN tb[rt[q]] <=> i \in DOMAIN tb[rt[Kernel]]
        /\ i \in DOMAIN tb[rt[q]] => tb[rt[q]][i] = tb[rt[Kernel]][i]
  BY DEF Shape, KernelShared
<1>6. Matches(tb, tb, M, v)
  <2> SUFFICES ASSUME NEW l \in Levels, NEW t, NEW u, <<l, t, u>> \in M
               PROVE  LET i == Index(v, l)
                          e == tb[t][i]
                          d == tb[u][i]
                      IN  /\ i \in DOMAIN tb[t] <=> i \in DOMAIN tb[u]
                          /\ i \in DOMAIN tb[t] =>
                               /\ e.flags = d.flags /\ e.to \in Nat /\ d.to \in Nat
                               /\ IF l # 1 /\ ~Large(e) THEN <<l - 1, e.to, d.to>> \in M
                                  ELSE e.to = d.to
    BY DEF Matches
  <2> DEFINE i == Index(v, l)
             e == tb[t][i]
  <2>1. t \in DOMAIN tb /\ pl[t].level = l
    BY <1>1, <1>2
  <2>2. i \in DOMAIN tb[t] <=> i \in DOMAIN tb[u]
    BY <1>1, <1>5
  <2>3. i \in DOMAIN tb[t] => tb[u][i] = e
    BY <1>1, <1>5
  <2>4. i \in DOMAIN tb[t] => e.to \in Nat
    BY <2>1, <1>4
  <2>5. i \in DOMAIN tb[t] /\ l # 1 /\ ~Large(e) => <<l - 1, e.to, e.to>> \in M
    <3>1. l # 1 => l \in {2, 3, 4}
      BY Shapes
    <3>2. QED BY <2>1, <3>1, <1>3
  <2> HIDE DEF i
  <2>6. QED BY <2>2, <2>3, <2>4, <2>5 DEF i
<1>7. <<4, rt[q], rt[Kernel]>> \in M
  BY <1>1
<1>8. QED BY <1>6, <1>7, SameSeen

\* A copy is seen as what it was copied from.
LEMMA CopiedSeen ==
  ASSUME NEW tb, NEW rt, NEW pl, Shape(tb, rt, pl), NEW copy, NEW tb2, NEW rt2, NEW pl2,
         Copied(tb, rt, pl, copy, tb2, rt2, pl2), NEW v
  PROVE  SeenIn(tb, rt[Kernel], v) = SeenIn(tb2, rt2[Kernel], v)
<1> DEFINE S == {t \in DOMAIN tb : pl[t].level \in Levels}
           M == {<<pl[t].level, t, copy[t]>> : t \in S}
<1>1. \A l, t, u : <<l, t, u>> \in M <=> t \in S /\ u = copy[t] /\ l = pl[t].level
  OBVIOUS
<1> HIDE DEF M
<1>2. \A t \in S :
        /\ copy[t] \in Nat /\ DOMAIN tb2[copy[t]] = DOMAIN tb[t]
        /\ \A i \in DOMAIN tb[t] :
             tb2[copy[t]][i] =
               IF pl[t].level # 1 /\ ~Large(tb[t][i])
                 THEN [to |-> copy[tb[t][i].to], flags |-> tb[t][i].flags]
               ELSE tb[t][i]
  BY DEF Copied
<1>3. rt[Kernel] \in S /\ pl[rt[Kernel]].level = 4 /\ rt2[Kernel] = copy[rt[Kernel]]
  <2>1. Kernel \in DOMAIN rt /\ rt2[Kernel] = copy[rt[Kernel]]
    BY DEF Copied
  <2>2. rt[Kernel] \in DOMAIN tb /\ pl[rt[Kernel]] = RootPlace(Kernel)
    BY <2>1 DEF Shape, Rooted
  <2>3. QED BY <2>1, <2>2, Shapes DEF RootPlace
<1>4. Matches(tb, tb2, M, v)
  <2> SUFFICES ASSUME NEW l \in Levels, NEW t \in S, l = pl[t].level
               PROVE  LET i == Index(v, l)
                          e == tb[t][i]
                          d == tb2[copy[t]][i]
                      IN  /\ i \in DOMAIN tb[t] <=> i \in DOMAIN tb2[copy[t]]
                          /\ i \in DOMAIN tb[t] =>
                               /\ e.flags = d.flags /\ e.to \in Nat /\ d.to \in Nat
                               /\ IF l # 1 /\ ~Large(e) THEN <<l - 1, e.to, d.to>> \in M
                                  ELSE e.to = d.to
    BY <1>1 DEF Matches
  <2> DEFINE i == Index(v, l)
             e == tb[t][i]
             d == tb2[copy[t]][i]
  <2>1. i \in DOMAIN tb[t] <=> i \in DOMAIN tb2[copy[t]]
    BY <1>2
  <2>2. i \in DOMAIN tb[t] => e \in [to : Nat, flags : SUBSET Flags]
    BY DEF Shape, Typed
  <2>3. CASE i \notin DOMAIN tb[t]
    BY <2>1, <2>3
  <2>4. CASE i \in DOMAIN tb[t] /\ ~(l # 1 /\ ~Large(e))
    <3>1. d = e
      BY <2>4, <1>2
    <3> HIDE DEF i, d, e
    <3>2. QED BY <2>1, <2>2, <2>4, <3>1 DEF i, d, e
  <2>5. CASE i \in DOMAIN tb[t] /\ l # 1 /\ ~Large(e)
    <3>1. d = [to |-> copy[e.to], flags |-> e.flags]
      BY <2>5, <1>2
    <3>2. l \in {2, 3, 4} /\ l - 1 \in Levels
      BY <2>5, Shapes
    <3>3. e.to \in DOMAIN tb /\ pl[e.to] = Under(pl[t], i)
      BY <2>5, <3>2 DEF Shape, Descends
    <3>4. e.to \in S /\ pl[e.to].level = l - 1
      BY <3>2, <3>3 DEF Under
    <3>5. d.to = copy[e.to] /\ d.flags = e.flags
      BY <3>1
    <3> HIDE DEF i, d, e
    <3>6. d.to \in Nat /\ <<l - 1, e.to, d.to>> \in M
      BY <3>4, <3>5, <1>1, <1>2
    <3>7. QED BY <2>1, <2>2, <2>5, <3>5, <3>6 DEF i, d, e
  <2>6. QED BY <2>3, <2>4, <2>5
<1>5. <<4, rt[Kernel], rt2[Kernel]>> \in M
  BY <1>1, <1>3
<1>6. QED BY <1>4, <1>5, SameSeen

\* The tables of p alone are edited, and not the kernel half of its root.
Elsewhere(tb, rt, pl, p, tb2) ==
  /\ p \in DOMAIN rt /\ p # None
  /\ \A t \in DOMAIN tb : pl[t].owner # p => tb2[t] = tb[t]
  /\ \A i \in KernelHalf :
       /\ i \in DOMAIN tb[rt[p]] <=> i \in DOMAIN tb2[rt[p]]
       /\ i \in DOMAIN tb[rt[p]] => tb2[rt[p]][i] = tb[rt[p]][i]

LEMMA SeenElsewhere ==
  ASSUME NEW tb, NEW rt, NEW pl, Shape(tb, rt, pl), NEW p, NEW tb2,
         Elsewhere(tb, rt, pl, p, tb2),
         NEW q \in DOMAIN rt, NEW v, q = p => Index(v, 4) \in KernelHalf
  PROVE  SeenIn(tb, rt[q], v) = SeenIn(tb2, rt[q], v)
<1> DEFINE S == {t \in DOMAIN tb : t = rt[q] \/ pl[t].owner # p}
<1>1. rt[q] \in DOMAIN tb /\ pl[rt[q]] = RootPlace(q)
  BY DEF Shape, Rooted
<1>2. pl[rt[q]].level = 4 /\ pl[rt[q]].owner = q
  BY <1>1, Shapes DEF RootPlace
<1>3. ASSUME NEW t \in S, NEW l \in Levels, pl[t].level = l
      PROVE  /\ Index(v, l) \in DOMAIN tb[t] <=> Index(v, l) \in DOMAIN tb2[t]
             /\ Index(v, l) \in DOMAIN tb[t] =>
                  /\ tb2[t][Index(v, l)] = tb[t][Index(v, l)]
                  /\ l # 1 /\ ~Large(tb[t][Index(v, l)]) => tb[t][Index(v, l)].to \in S
  <2> DEFINE i == Index(v, l)
             u == tb[t][i].to
  <2>1. pl[t].owner = p => t = rt[q] /\ l = 4 /\ i \in KernelHalf /\ t = rt[p]
    BY <1>2, <1>3
  <2>2. /\ i \in DOMAIN tb[t] <=> i \in DOMAIN tb2[t]
        /\ i \in DOMAIN tb[t] => tb2[t][i] = tb[t][i]
    <3>1. CASE pl[t].owner = p
      BY <2>1, <3>1 DEF Elsewhere
    <3>2. CASE pl[t].owner # p
      BY <3>2 DEF Elsewhere
    <3>3. QED BY <3>1, <3>2
  <2>3. ASSUME i \in DOMAIN tb[t], l # 1, ~Large(tb[t][i])
        PROVE  u \in S
    <3>1. pl[t].level >= 2
      BY <2>3, <1>3, Shapes
    <3>2. u \in DOMAIN tb /\ pl[u] = Under(pl[t], i)
      BY <2>3, <3>1 DEF Shape, Descends
    <3>3. pl[u].owner = IF pl[t].level = LEVELS /\ i \in KernelHalf THEN None ELSE pl[t].owner
      BY <3>2 DEF Under
    <3>4. p # None
      BY DEF Elsewhere
    <3> HIDE DEF i, u
    <3>5. pl[u].owner # p
      BY <3>3, <3>4, <2>1, <1>3, Shapes
    <3>6. QED BY <3>2, <3>5
  <2>4. QED BY <2>2, <2>3
<1> HIDE DEF S
<1>4. rt[q] \in S /\ S \subseteq DOMAIN tb
  BY <1>1 DEF S
<1>5. QED BY <1>2, <1>3, <1>4, SeenWithin

\* A new space sees nothing of its own, and the old ones see what they saw.
LEMMA CreatedSeen ==
  ASSUME NEW tb, NEW rt, NEW pl, Shape(tb, rt, pl),
         NEW p, NEW current, NEW n, NEW tb2, NEW rt2, NEW pl2,
         Created(tb, rt, pl, p, current, n, tb2, rt2, pl2)
  PROVE  /\ \A q \in DOMAIN rt : \A v : SeenIn(tb2, rt2[q], v) = SeenIn(tb, rt[q], v)
         /\ \A v \in UserPages : SeenIn(tb2, rt2[p], v) = {}
         /\ \A v : Index(v, 4) \in KernelHalf =>
              SeenIn(tb2, rt2[p], v) = SeenIn(tb, rt[Kernel], v)
<1>1. /\ Kernel \in DOMAIN rt /\ p \notin DOMAIN rt /\ n \notin DOMAIN tb
      /\ tb2 = [f \in DOMAIN tb \cup {n} |->
                  IF f = n THEN KernelEntriesIn(tb, rt[current]) ELSE tb[f]]
      /\ rt2 = [q \in DOMAIN rt \cup {p} |-> IF q = p THEN n ELSE rt[q]]
  BY DEF Created
<1>2. /\ \A t \in DOMAIN tb : tb2[t] = tb[t]
      /\ tb2[n] = KernelEntriesIn(tb, rt[current])
      /\ \A q \in DOMAIN rt : rt2[q] = rt[q]
      /\ rt2[p] = n /\ DOMAIN rt2 = DOMAIN rt \cup {p}
  BY <1>1
<1>3. ASSUME NEW q \in DOMAIN rt, NEW v
      PROVE  SeenIn(tb2, rt2[q], v) = SeenIn(tb, rt[q], v)
  <2>1. rt[q] \in DOMAIN tb /\ pl[rt[q]] = RootPlace(q)
    BY DEF Shape, Rooted
  <2>2. pl[rt[q]].level = 4
    BY <2>1, Shapes DEF RootPlace
  <2>3. ASSUME NEW t \in DOMAIN tb, NEW l \in Levels, pl[t].level = l
        PROVE  /\ Index(v, l) \in DOMAIN tb[t] <=> Index(v, l) \in DOMAIN tb2[t]
               /\ Index(v, l) \in DOMAIN tb[t] =>
                    /\ tb2[t][Index(v, l)] = tb[t][Index(v, l)]
                    /\ l # 1 /\ ~Large(tb[t][Index(v, l)]) =>
                         tb[t][Index(v, l)].to \in DOMAIN tb
    <3>1. l # 1 => pl[t].level >= 2
      BY <2>3, Shapes
    <3>2. QED BY <3>1, <1>2 DEF Shape, Descends
  <2>4. SeenIn(tb, rt[q], v) = SeenIn(tb2, rt[q], v)
    BY <2>1, <2>2, <2>3, SeenWithin
  <2>5. QED BY <2>4, <1>2
<1>4. ASSUME NEW v \in UserPages
      PROVE  SeenIn(tb2, rt2[p], v) = {}
  <2>1. Index(v, 4) \notin DOMAIN tb2[n]
    BY <1>2 DEF UserPages, KernelEntriesIn, LEVELS
  <2>2. WalkedIn(tb2, Start(n), v, 4) = {}
    BY <2>1, WalkedTable DEF Start
  <2>3. SeenIn(tb2, n, v) = {}
    BY <2>2, WalkedNone DEF SeenIn
  <2>4. QED BY <2>3, <1>2
<1>5. ASSUME NEW v, Index(v, 4) \in KernelHalf
      PROVE  SeenIn(tb2, rt2[p], v) = SeenIn(tb, rt[Kernel], v)
  <2>1. Shape(tb2, rt2, pl2)
    BY CreatedShape
  <2>2. p \in DOMAIN rt2 /\ Kernel \in DOMAIN rt2
    BY <1>1, <1>2
  <2>3. SeenIn(tb2, rt2[p], v) = SeenIn(tb2, rt2[Kernel], v)
    BY <2>1, <2>2, <1>5, KernelSeen
  <2>4. QED BY <2>3, <1>1, <1>3
<1>6. QED BY <1>3, <1>4, <1>5

\* Pages are told apart by the place of their last table and their index there.
LEMMA SamePage ==
  ASSUME NEW p, NEW v \in Pages, NEW w \in Pages,
         PlaceOf(p, v, 1) = PlaceOf(p, w, 1), Index(v, 1) = Index(w, 1)
  PROVE  v = w
<1>1. v \in Nat /\ w \in Nat
  BY Spans, Shapes DEF Pages
<1>2. v \div Span[1] = w \div Span[1]
  BY DEF PlaceOf
<1>3. 1 \in Levels /\ 1 - 1 = 0
  BY Shapes
<1>4. v \div Span[0] = (v \div Span[1]) * FANOUT + Index(v, 1)
  BY <1>1, <1>3, Digits
<1>5. w \div Span[0] = (w \div Span[1]) * FANOUT + Index(w, 1)
  BY <1>1, <1>3, Digits
<1>6. v \div Span[0] = v /\ w \div Span[0] = w
  <2>1. \A x \in Nat : x \div 1 = x
    OBVIOUS
  <2>2. QED BY <2>1, <1>1, Spans
<1>7. QED BY <1>2, <1>4, <1>5, <1>6

\* The last table of a page of a process, when it stays or the page gets none.
LEMMA LastTable ==
  ASSUME NEW tb, NEW rt, NEW pl, Shape(tb, rt, pl), NEW p \in Processes, p \in DOMAIN rt,
         NEW v \in UserPages
  PROVE  /\ PathIn(tb, rt[p], v)[1] # None =>
              /\ PathIn(tb, rt[p], v)[1] \in DOMAIN tb
              /\ pl[PathIn(tb, rt[p], v)[1]] = PlaceOf(p, v, 1)
         /\ \A u \in DOMAIN tb : pl[u] = PlaceOf(p, v, 1) => u = PathIn(tb, rt[p], v)[1]
         /\ None \notin DOMAIN tb
<1>1. v \in Pages /\ 1 \in Levels
  BY UserPlaceOf, Shapes
<1>2. None \notin DOMAIN tb
  BY DEF Shape, Rooted
<1>3. QED BY <1>1, <1>2, PathPlaces

\* Clearing the entry of a page leaves it without a frame, and no other page.
LEMMA CutSeen ==
  ASSUME NEW tb, NEW rt, NEW pl, Shape(tb, rt, pl), NEW p, NEW v, NEW t, NEW tb2,
         Cut(tb, rt, pl, p, v, t, tb2), p \in DOMAIN rt
  PROVE  /\ SeenIn(tb2, rt[p], v) = {}
         /\ \A q \in DOMAIN rt : \A w \in Pages : q # p \/ w # v =>
              SeenIn(tb2, rt[q], w) = SeenIn(tb, rt[q], w)
<1>1. /\ p \in Processes /\ v \in UserPages /\ p # None
      /\ t \in DOMAIN tb /\ pl[t] = PlaceOf(p, v, 1)
      /\ DOMAIN tb2 = DOMAIN tb
      /\ \A f \in DOMAIN tb : f # t => tb2[f] = tb[f]
      /\ DOMAIN tb2[t] = DOMAIN tb[t] \ {Index(v, 1)}
      /\ \A i \in DOMAIN tb2[t] : tb2[t][i] = tb[t][i]
  BY ProcessAssumption DEF Cut
<1>2. Shape(tb2, rt, pl)
  BY CutShape
<1>3. pl[t].level = 1 /\ pl[t].owner = p
  BY <1>1, UserPlaceOf, Shapes
<1>4. ASSUME NEW w \in UserPages
      PROVE  /\ SeenIn(tb, rt[p], w) = Leaf(tb, PathIn(tb, rt[p], w)[1], w)
             /\ SeenIn(tb2, rt[p], w) = Leaf(tb2, PathIn(tb, rt[p], w)[1], w)
  <2>1. PathIn(tb2, rt[p], w)[1] = PathIn(tb, rt[p], w)[1]
    <3> DEFINE a == PathIn(tb, rt[p], w)[1]
               b == PathIn(tb2, rt[p], w)[1]
    <3>1. /\ a # None => a \in DOMAIN tb /\ pl[a] = PlaceOf(p, w, 1)
          /\ \A u \in DOMAIN tb : pl[u] = PlaceOf(p, w, 1) => u = a
      BY <1>1, LastTable
    <3>2. /\ b # None => b \in DOMAIN tb2 /\ pl[b] = PlaceOf(p, w, 1)
          /\ \A u \in DOMAIN tb2 : pl[u] = PlaceOf(p, w, 1) => u = b
      BY <1>1, <1>2, LastTable
    <3> HIDE DEF a, b
    <3>3. a = b
      BY <3>1, <3>2, <1>1
    <3>4. QED BY <3>3 DEF a, b
  <2>2. SeenIn(tb, rt[p], w) = Leaf(tb, PathIn(tb, rt[p], w)[1], w)
    BY <1>1, UserSees
  <2>3. SeenIn(tb2, rt[p], w) = Leaf(tb2, PathIn(tb2, rt[p], w)[1], w)
    BY <1>1, <1>2, UserSees
  <2>4. QED BY <2>1, <2>2, <2>3
<1>5. SeenIn(tb2, rt[p], v) = {}
  <2>1. t = PathIn(tb, rt[p], v)[1]
    BY <1>1, LastTable
  <2>2. QED BY <2>1, <1>1, <1>4 DEF Leaf
<1>6. ASSUME NEW w \in UserPages, w # v
      PROVE  SeenIn(tb2, rt[p], w) = SeenIn(tb, rt[p], w)
  <2> DEFINE a == PathIn(tb, rt[p], w)[1]
  <2>1. /\ a # None => a \in DOMAIN tb /\ pl[a] = PlaceOf(p, w, 1)
        /\ v \in Pages /\ w \in Pages
    BY <1>1, LastTable, UserPlaceOf
  <2>2. SeenIn(tb, rt[p], w) = Leaf(tb, a, w) /\ SeenIn(tb2, rt[p], w) = Leaf(tb2, a, w)
    BY <1>4
  <2> HIDE DEF a
  <2>3. CASE a = t /\ a # None
    <3>1. Index(w, 1) # Index(v, 1)
      BY <2>1, <2>3, <1>1, <1>6, SamePage
    <3>2. QED BY <3>1, <2>2, <2>3, <1>1 DEF Leaf
  <2>4. CASE a # t \/ a = None
    BY <2>1, <2>2, <2>4, <1>1 DEF Leaf
  <2>5. QED BY <2>3, <2>4
<1>7. Elsewhere(tb, rt, pl, p, tb2)
  <2>1. \A f \in DOMAIN tb : pl[f].owner # p => tb2[f] = tb[f]
    BY <1>1, <1>3
  <2>2. rt[p] \in DOMAIN tb /\ pl[rt[p]] = RootPlace(p)
    BY DEF Shape, Rooted
  <2>3. tb2[rt[p]] = tb[rt[p]]
    <3>1. rt[p] # t
      BY <2>2, <1>3, Shapes DEF RootPlace
    <3>2. QED BY <3>1, <2>2, <1>1
  <2>4. QED BY <2>1, <2>3, <1>1 DEF Elsewhere
<1>8. ASSUME NEW q \in DOMAIN rt, NEW w \in Pages, q # p \/ w # v
      PROVE  SeenIn(tb2, rt[q], w) = SeenIn(tb, rt[q], w)
  <2>1. CASE q # p \/ Index(w, 4) \in KernelHalf
    BY <2>1, <1>7, SeenElsewhere
  <2>2. CASE q = p /\ Index(w, 4) \notin KernelHalf
    <3>1. w \in UserPages
      BY <2>2 DEF UserPages, LEVELS
    <3>2. QED BY <3>1, <2>2, <1>6, <1>8
  <2>3. QED BY <2>1, <2>2
<1>9. QED BY <1>5, <1>8

\* Mapping a page gives it the frame and the flags asked for, unless there was
\* no memory for its tables, and leaves every other page alone.
LEMMA MappedSeen ==
  ASSUME NEW tb, NEW rt, NEW pl, Shape(tb, rt, pl), NEW p, NEW v, NEW frame, NEW flags,
         NEW path, NEW tb2, NEW pl2,
         Mapped(tb, rt, pl, p, v, frame, flags, path, tb2, pl2)
  PROVE  /\ \/ SeenIn(tb2, rt[p], v) = {[frame |-> frame, flags |-> flags]}
            \/ SeenIn(tb2, rt[p], v) = SeenIn(tb, rt[p], v)
         /\ \A q \in DOMAIN rt : \A w \in Pages : q # p \/ w # v =>
              SeenIn(tb2, rt[q], w) = SeenIn(tb, rt[q], w)
<1>1. /\ p \in Processes /\ p \in DOMAIN rt /\ v \in UserPages /\ p # None
      /\ DOMAIN tb2 = DOMAIN tb \cup ({path[l] : l \in Levels} \ {None})
      /\ \A f \in DOMAIN tb : (\A l \in Levels : path[l] # f) => tb2[f] = tb[f]
      /\ \A f \in DOMAIN tb : pl2[f] = pl[f]
      /\ \A l \in Levels : path[l] # None => pl2[path[l]] = PlaceOf(p, v, l)
  BY ProcessAssumption DEF Mapped
<1>2. \A l \in Levels : path[l] # None => \A i :
        /\ i \in DOMAIN tb2[path[l]] <=>
             IsEntry(tb, path[l], i) \/ (Edits(path, l) /\ i = Index(v, l))
        /\ i \in DOMAIN tb2[path[l]] =>
             tb2[path[l]][i] =
               IF Edits(path, l) /\ i = Index(v, l) THEN NewEntry(tb, path, v, frame, flags, l)
               ELSE tb[path[l]][i]
  BY DEF Mapped
<1>3. \A l \in Levels : PlaceOf(p, v, l).level = l /\ PlaceOf(p, v, l).owner = p
  BY <1>1, UserPlaceOf
<1>4. Shape(tb2, rt, pl2)
  BY MappedShape
<1>5. 1 \in Levels /\ 4 \in Levels /\ 1 # 4
  BY Shapes
<1>6. ASSUME NEW w \in UserPages
      PROVE  LET a == PathIn(tb, rt[p], w)[1]
                 b == PathIn(tb2, rt[p], w)[1]
             IN  /\ SeenIn(tb, rt[p], w) = Leaf(tb, a, w)
                 /\ SeenIn(tb2, rt[p], w) = Leaf(tb2, b, w)
                 /\ a # None => b = a /\ a \in DOMAIN tb /\ pl2[a] = PlaceOf(p, w, 1)
                 /\ a = None /\ b # None => b \notin DOMAIN tb /\ b = path[1]
                 /\ b # None => pl2[b] = PlaceOf(p, w, 1)
  <2> DEFINE a == PathIn(tb, rt[p], w)[1]
             b == PathIn(tb2, rt[p], w)[1]
  <2>1. /\ a # None => a \in DOMAIN tb /\ pl[a] = PlaceOf(p, w, 1)
        /\ \A u \in DOMAIN tb : pl[u] = PlaceOf(p, w, 1) => u = a
        /\ None \notin DOMAIN tb
    BY <1>1, LastTable
  <2>2. /\ b # None => b \in DOMAIN tb2 /\ pl2[b] = PlaceOf(p, w, 1)
        /\ \A u \in DOMAIN tb2 : pl2[u] = PlaceOf(p, w, 1) => u = b
    BY <1>1, <1>4, LastTable
  <2>3. SeenIn(tb, rt[p], w) = Leaf(tb, a, w)
    BY <1>1, UserSees
  <2>4. SeenIn(tb2, rt[p], w) = Leaf(tb2, b, w)
    BY <1>1, <1>4, UserSees
  <2>5. PlaceOf(p, w, 1).level = 1
    BY DEF PlaceOf
  <2> HIDE DEF a, b
  <2>6. a # None => b = a
    BY <2>1, <2>2, <1>1
  <2>7. ASSUME a = None, b # None
        PROVE  b \notin DOMAIN tb /\ b = path[1]
    <3>1. b \notin DOMAIN tb
      BY <2>1, <2>2, <2>7, <1>1
    <3>2. PICK l \in Levels : b = path[l]
      BY <3>1, <2>2, <2>7, <1>1
    <3>3. pl2[b].level = l
      BY <3>2, <2>7, <1>1, <1>3
    <3>4. l = 1
      BY <3>3, <2>2, <2>5, <2>7
    <3>5. QED BY <3>1, <3>2, <3>4
  <2>8. /\ SeenIn(tb, rt[p], w) = Leaf(tb, a, w)
        /\ SeenIn(tb2, rt[p], w) = Leaf(tb2, b, w)
        /\ a # None => b = a /\ a \in DOMAIN tb /\ pl2[a] = PlaceOf(p, w, 1)
        /\ a = None /\ b # None => b \notin DOMAIN tb /\ b = path[1]
        /\ b # None => pl2[b] = PlaceOf(p, w, 1)
    BY <2>1, <2>2, <2>3, <2>4, <2>6, <2>7, <1>1
  <2>9. QED BY <2>8 DEF a, b
<1>7. \/ SeenIn(tb2, rt[p], v) = {[frame |-> frame, flags |-> flags]}
      \/ SeenIn(tb2, rt[p], v) = SeenIn(tb, rt[p], v)
  <2> DEFINE a == PathIn(tb, rt[p], v)[1]
             b == PathIn(tb2, rt[p], v)[1]
  <2>1. /\ SeenIn(tb, rt[p], v) = Leaf(tb, a, v)
        /\ SeenIn(tb2, rt[p], v) = Leaf(tb2, b, v)
        /\ a # None => b = a /\ a \in DOMAIN tb /\ pl2[a] = PlaceOf(p, v, 1)
        /\ a = None /\ b # None => b \notin DOMAIN tb /\ b = path[1]
    BY <1>1, <1>6
  <2>2. a # None => path[1] = a
    <3>1. \A t \in DOMAIN tb : pl[t] = PlaceOf(p, v, 1) => path[1] = t
      BY <1>5 DEF Mapped, MapPath
    <3> HIDE DEF a, b
    <3>2. QED BY <3>1, <2>1, <1>1
  <2> HIDE DEF a, b
  <2>3. CASE b = None
    <3>1. a = None
      BY <2>1, <2>3
    <3>2. QED BY <3>1, <2>1, <2>3 DEF Leaf
  <2>4. CASE b # None
    <3>1. b = path[1]
      BY <2>1, <2>2, <2>4
    <3> DEFINE i == Index(v, 1)
    <3>2. i \in DOMAIN tb2[b] /\ tb2[b][i] = NewEntry(tb, path, v, frame, flags, 1)
      BY <3>1, <2>4, <1>2, <1>5 DEF Edits
    <3>3. tb2[b][i].to = frame /\ tb2[b][i].flags = flags
      BY <3>2 DEF NewEntry
    <3>4. QED BY <3>2, <3>3, <2>1, <2>4 DEF Leaf
  <2>5. QED BY <2>3, <2>4
<1>8. ASSUME NEW w \in UserPages, w # v
      PROVE  SeenIn(tb2, rt[p], w) = SeenIn(tb, rt[p], w)
  <2> DEFINE a == PathIn(tb, rt[p], w)[1]
             b == PathIn(tb2, rt[p], w)[1]
             i == Index(w, 1)
  <2>1. /\ SeenIn(tb, rt[p], w) = Leaf(tb, a, w)
        /\ SeenIn(tb2, rt[p], w) = Leaf(tb2, b, w)
        /\ a # None => b = a /\ a \in DOMAIN tb
        /\ a = None /\ b # None => b \notin DOMAIN tb
        /\ b # None => pl2[b] = PlaceOf(p, w, 1)
        /\ a = None /\ b # None => b = path[1]
    BY <1>6
  <2>2. v \in Pages /\ w \in Pages
    BY <1>1, UserPlaceOf
  <2>3. PlaceOf(p, w, 1).level = 1
    BY DEF PlaceOf
  <2> HIDE DEF a, b
  <2>4. ASSUME b # None, NEW l \in Levels, b = path[l]
        PROVE  l = 1 /\ i # Index(v, 1)
    <3>1. pl2[b] = PlaceOf(p, v, l)
      BY <2>4, <1>1
    <3>2. l = 1
      BY <3>1, <2>1, <2>3, <2>4, <1>3
    <3>3. PlaceOf(p, v, 1) = PlaceOf(p, w, 1)
      BY <3>1, <3>2, <2>1, <2>4
    <3>4. QED BY <3>2, <3>3, <2>2, <1>8, SamePage
  <2> HIDE DEF i
  <2>5. CASE b = None
    <3>1. a = None
      BY <2>1, <2>5
    <3>2. QED BY <3>1, <2>1, <2>5 DEF Leaf
  <2>6. CASE b # None /\ a = None
    <3>1. b = path[1] /\ b \notin DOMAIN tb
      BY <2>1, <2>6
    <3>2. i # Index(v, 1)
      BY <3>1, <2>4, <2>6, <1>5
    <3>3. i \notin DOMAIN tb2[b]
      BY <3>1, <3>2, <2>6, <1>2, <1>5 DEF IsEntry
    <3>4. Leaf(tb2, b, w) = {} /\ Leaf(tb, a, w) = {}
      BY <3>3, <2>6 DEF Leaf, i
    <3>5. QED BY <3>4, <2>1
  <2>7. CASE b # None /\ a # None
    <3>1. b = a /\ a \in DOMAIN tb
      BY <2>1, <2>7
    <3>2. /\ i \in DOMAIN tb2[a] <=> i \in DOMAIN tb[a]
          /\ i \in DOMAIN tb[a] => tb2[a][i] = tb[a][i]
      <4>1. CASE \E l \in Levels : a = path[l]
        <5>1. a = path[1] /\ i # Index(v, 1)
          BY <4>1, <3>1, <2>4, <2>7
        <5>2. QED BY <5>1, <3>1, <2>7, <1>2, <1>5 DEF IsEntry
      <4>2. CASE \A l \in Levels : path[l] # a
        BY <4>2, <3>1, <1>1
      <4>3. QED BY <4>1, <4>2
    <3>3. Leaf(tb2, b, w) = Leaf(tb, a, w)
      BY <3>1, <3>2 DEF Leaf, i
    <3>4. QED BY <3>3, <2>1
  <2>8. QED BY <2>5, <2>6, <2>7
<1>9. Elsewhere(tb, rt, pl, p, tb2)
  <2>1. ASSUME NEW f \in DOMAIN tb, pl[f].owner # p
        PROVE  tb2[f] = tb[f]
    <3>1. f # None
      BY DEF Shape, Rooted
    <3>2. ASSUME NEW l \in Levels, path[l] = f
          PROVE  FALSE
      <4>1. pl[f] = PlaceOf(p, v, l)
        BY <3>1, <3>2, <1>1
      <4>2. QED BY <4>1, <2>1, <1>3
    <3>3. QED BY <3>2, <1>1
  <2>2. path[4] = rt[p] /\ rt[p] \in DOMAIN tb /\ rt[p] # None
    BY <1>1 DEF Mapped, MapPath, Shape, Rooted
  <2>3. Index(v, 4) \notin KernelHalf
    BY <1>1, UserPlaceOf
  <2>4. ASSUME NEW i \in KernelHalf
        PROVE  /\ i \in DOMAIN tb[rt[p]] <=> i \in DOMAIN tb2[rt[p]]
               /\ i \in DOMAIN tb[rt[p]] => tb2[rt[p]][i] = tb[rt[p]][i]
    BY <2>2, <2>3, <1>2, <1>5 DEF IsEntry
  <2>5. QED BY <2>1, <2>4, <1>1 DEF Elsewhere
<1>10. ASSUME NEW q \in DOMAIN rt, NEW w \in Pages, q # p \/ w # v
       PROVE  SeenIn(tb2, rt[q], w) = SeenIn(tb, rt[q], w)
  <2>1. CASE q # p \/ Index(w, 4) \in KernelHalf
    BY <2>1, <1>9, SeenElsewhere
  <2>2. CASE q = p /\ Index(w, 4) \notin KernelHalf
    <3>1. w \in UserPages
      BY <2>2 DEF UserPages, LEVELS
    <3>2. QED BY <3>1, <2>2, <1>8, <1>10
  <2>3. QED BY <2>1, <2>2
<1>11. QED BY <1>7, <1>10

-----------------------------------------------------------------------------
(* Address spaces *)

\* What the processor finds in every space.
View == [p \in DOMAIN root |-> [v \in Pages |-> Seen(root[p], v)]]

\* The abstract steps, of the view.
LEMMA AbstractCreate ==
  (\E s \in Processes \ DOMAIN View :
     /\ DOMAIN View' = DOMAIN View \cup {s}
     /\ Abstract!Changed = {}
     /\ \A v \in UserPages : View'[s][v] = {}
     /\ \A v \in DOMAIN View[Kernel] \ UserPages : View'[s][v] = View[Kernel][v])
  => Abstract!Create
BY Zenon DEF Abstract!Create, View

LEMMA AbstractChange ==
  /\ DOMAIN View' = DOMAIN View
  /\ \E x \in Abstract!Changed :
       /\ Abstract!Changed = {x}
       /\ x[1] # Kernel /\ x[2] \in UserPages
       /\ View'[x[1]][x[2]] \in
            {{[frame |-> f, flags |-> g]} : f \in MapFrames, g \in MapFlags} \cup {{}}
  => Abstract!Change
BY DEF Abstract!Change, View

LEMMA Views ==
  /\ DOMAIN View = DOMAIN root /\ DOMAIN View' = DOMAIN root'
  /\ \A p \in DOMAIN root : /\ DOMAIN View[p] = Pages
                            /\ \A v \in Pages : View[p][v] = SeenIn(table, root[p], v)
  /\ \A p \in DOMAIN root' : /\ DOMAIN View'[p] = Pages
                             /\ \A v \in Pages : View'[p][v] = SeenIn(table', root'[p], v)
<1>1. View = [p \in DOMAIN root |-> [v \in Pages |-> SeenIn(table, root[p], v)]]
  BY SeenIsSeenIn DEF View
<1>2. View' = [p \in DOMAIN root' |-> [v \in Pages |-> SeenIn(table', root'[p], v)]]
  BY SeenIsSeenIn DEF View
<1>3. QED BY <1>1, <1>2

LEMMA Changes ==
  ASSUME NEW x
  PROVE  x \in Abstract!Changed <=>
           \E s \in DOMAIN root : \E v \in Pages :
             x = <<s, v>> /\ View'[s][v] # SeenIn(table, root[s], v)
<1>1. Abstract!Changed =
        {y \in UNION {{s} \X DOMAIN View[s] : s \in DOMAIN View} :
           View'[y[1]][y[2]] # View[y[1]][y[2]]}
  BY DEF Abstract!Changed, View
<1>2. x \in Abstract!Changed <=>
        \E s \in DOMAIN View : \E v \in DOMAIN View[s] :
          x = <<s, v>> /\ View'[s][v] # View[s][v]
  BY <1>1
<1>3. QED BY <1>2, Views

\* A step after which everything is seen as before.
LEMMA SameView ==
  ASSUME DOMAIN root' = DOMAIN root,
         \A p \in DOMAIN root : \A v \in Pages :
           SeenIn(table', root'[p], v) = SeenIn(table, root[p], v)
  PROVE  View' = View
<1>1. View = [p \in DOMAIN root |-> [v \in Pages |-> SeenIn(table, root[p], v)]]
  BY SeenIsSeenIn DEF View
<1>2. View' = [p \in DOMAIN root' |-> [v \in Pages |-> SeenIn(table', root'[p], v)]]
  BY SeenIsSeenIn DEF View
<1>3. QED BY <1>1, <1>2

\* A step that changes what is seen at one page of a process at most.
LEMMA OnePage ==
  ASSUME NEW p \in DOMAIN root, p # Kernel, NEW v \in UserPages, v \in Pages,
         root' = root,
         \A q \in DOMAIN root : \A w \in Pages : q # p \/ w # v =>
           SeenIn(table', root[q], w) = SeenIn(table, root[q], w),
         \/ SeenIn(table', root[p], v) = SeenIn(table, root[p], v)
         \/ SeenIn(table', root[p], v) = {}
         \/ \E f \in MapFrames, g \in MapFlags :
              SeenIn(table', root[p], v) = {[frame |-> f, flags |-> g]}
  PROVE  Abstract!Change \/ View' = View
<1>1. CASE SeenIn(table', root[p], v) = SeenIn(table, root[p], v)
  <2>1. \A q \in DOMAIN root : \A w \in Pages :
          SeenIn(table', root'[q], w) = SeenIn(table, root[q], w)
    BY <1>1
  <2>2. QED BY <2>1, SameView
<1>2. CASE SeenIn(table', root[p], v) # SeenIn(table, root[p], v)
  <2>1. \A q \in DOMAIN root : \A w \in Pages : View'[q][w] = SeenIn(table', root[q], w)
    BY Views
  <2> DEFINE x == <<p, v>>
  <2>2. Abstract!Changed = {x}
    <3>1. \A y : y \in Abstract!Changed => y = x
      BY <2>1, Changes
    <3>2. x \in Abstract!Changed
      BY <2>1, <1>2, Changes
    <3>3. QED BY <3>1, <3>2
  <2>3. View'[p][v] \in {{[frame |-> f, flags |-> g]} : f \in MapFrames, g \in MapFlags} \cup {{}}
    BY <2>1, <1>2
  <2>4. x[1] = p /\ x[2] = v
    OBVIOUS
  <2>5. DOMAIN View' = DOMAIN View
    BY Views
  <2> HIDE DEF x
  <2>6. QED BY <2>2, <2>3, <2>4, <2>5, AbstractChange
<1>3. QED BY <1>1, <1>2

\* The tables implement address spaces: for every process and page, what the
\* processor finds is what was mapped there last, and no step touches more than
\* the one page it is for.
THEOREM Refinement == Spec => ImplementsAddressSpaces
<1>1. Init => Abstract!Init
  BY DEF Init, Abstract!Init
<1>2. IInv /\ [Next]_vars => [Abstract!Next]_View
  <2> SUFFICES ASSUME IInv, [Next]_vars PROVE Abstract!Next \/ View' = View
    OBVIOUS
  <2>1. PICK pl : Frames /\ Shape(table, root, pl) /\ BootLeft(pl)
    BY DEF IInv
  <2>2. CASE CloneCurrent
    <3>1. PICK copy, pl2 : Copied(table, root, pl, copy, table', root', pl2)
      BY <2>1, <2>2, CloneInv
    <3>2. DOMAIN root = {Kernel} /\ DOMAIN root' = {Kernel}
      BY <3>1 DEF Copied
    <3>3. \A v : SeenIn(table, root[Kernel], v) = SeenIn(table', root'[Kernel], v)
      BY <2>1, <3>1, CopiedSeen
    <3>4. QED BY <3>2, <3>3, SameView
  <2>3. ASSUME NEW p \in Processes, NEW current \in DOMAIN root, CreateAddressSpace(p, current)
        PROVE  Abstract!Create
    <3>1. PICK pl2 : Created(table, root, pl, p, current, Nth(1), table', root', pl2)
      BY <2>1, <2>3, CreateInv
    <3>2. /\ Kernel \in DOMAIN root /\ p \in Processes \ DOMAIN root
          /\ DOMAIN root' = DOMAIN root \cup {p}
      BY <3>1 DEF Created
    <3>3. /\ \A q \in DOMAIN root : \A v :
               SeenIn(table', root'[q], v) = SeenIn(table, root[q], v)
          /\ \A v \in UserPages : SeenIn(table', root'[p], v) = {}
          /\ \A v : Index(v, 4) \in KernelHalf =>
               SeenIn(table', root'[p], v) = SeenIn(table, root[Kernel], v)
      BY <2>1, <3>1, CreatedSeen
    <3>4. Abstract!Changed = {}
      <4>1. \A q \in DOMAIN root : \A v \in Pages :
              View'[q][v] = SeenIn(table, root[q], v)
        BY <3>2, <3>3, Views
      <4>2. \A y : y \notin Abstract!Changed
        BY <4>1, Changes
      <4>3. QED BY <4>2
    <3>5. \A v \in UserPages : v \in Pages /\ View'[p][v] = {}
      BY <3>2, <3>3, Views DEF UserPages
    <3>6. \A v \in DOMAIN View[Kernel] \ UserPages : View'[p][v] = View[Kernel][v]
      <4>1. \A v \in Pages \ UserPages : Index(v, 4) \in KernelHalf
        BY DEF UserPages, LEVELS
      <4>2. QED BY <4>1, <3>2, <3>3, Views
    <3>7. p \in Processes \ DOMAIN View /\ DOMAIN View' = DOMAIN View \cup {p}
      BY <3>2, Views
    <3>8. QED BY <3>4, <3>5, <3>6, <3>7, AbstractCreate
  <2>4. ASSUME NEW p \in DOMAIN root \ {Kernel}, NEW v \in MapPages, NEW f \in MapFrames,
               NEW flags \in MapFlags, Map(p, v, f, flags)
        PROVE  Abstract!Change \/ View' = View
    <3>1. PICK path, pl2 :
            root' = root /\ Mapped(table, root, pl, p, v, f, flags, path, table', pl2)
      BY <2>1, <2>4, MapInv
    <3>2. /\ \/ SeenIn(table', root[p], v) = {[frame |-> f, flags |-> flags]}
             \/ SeenIn(table', root[p], v) = SeenIn(table, root[p], v)
          /\ \A q \in DOMAIN root : \A w \in Pages : q # p \/ w # v =>
               SeenIn(table', root[q], w) = SeenIn(table, root[q], w)
      BY <2>1, <3>1, MappedSeen
    <3>3. v \in UserPages /\ v \in Pages
      BY CallerAssumption DEF UserPages
    <3>4. QED BY <3>1, <3>2, <3>3, OnePage
  <2>5. ASSUME NEW p \in DOMAIN root \ {Kernel}, NEW v \in MapPages, Unmap(p, v)
        PROVE  Abstract!Change \/ View' = View
    <3>1. root' = root
      BY <2>1, <2>5, UnmapInv
    <3>2. PICK t : Cut(table, root, pl, p, v, t, table')
      BY <2>1, <2>5, UnmapInv
    <3>3. /\ SeenIn(table', root[p], v) = {}
          /\ \A q \in DOMAIN root : \A w \in Pages : q # p \/ w # v =>
               SeenIn(table', root[q], w) = SeenIn(table, root[q], w)
      BY <2>1, <3>2, CutSeen
    <3>4. v \in UserPages /\ v \in Pages
      BY CallerAssumption DEF UserPages
    <3>5. QED BY <3>1, <3>3, <3>4, OnePage
  <2>6. CASE UNCHANGED vars
    <3>1. table' = table /\ root' = root
      BY <2>6 DEF vars
    <3>2. QED BY <3>1, SameView
  <2>7. QED BY <2>2, <2>3, <2>4, <2>5, <2>6 DEF Next, Abstract!Next
<1>3. QED
  BY <1>1, <1>2, Invariance, PTL DEF Spec, ImplementsAddressSpaces, Abstract!Spec, View
=============================================================================
