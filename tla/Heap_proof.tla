----------------------------- MODULE Heap_proof -----------------------------
(***************************************************************************)
(* The heap stays sound for every memory map and every sequence of         *)
(* allocations and releases, and it gives out what Blocks promises.        *)
(***************************************************************************)
EXTENDS Heap, FiniteSetTheorems, SequenceTheorems, TLAPS

-----------------------------------------------------------------------------
(* Numbers                                                                 *)

LEMMA Sizeof ==
  /\ HEADER_SIZE = 24 /\ CHUNK_SIZE = 40 /\ MIN_SIZE = 16 /\ ALIGN = 4
  /\ ALIGNED_HEADER = 16 /\ NULL = 0 /\ MaxExponent = 30
BY DEF HEADER_SIZE, CHUNK_SIZE, MIN_SIZE, ALIGN, ALIGNED_HEADER, NULL, MaxExponent

LEMMA RoundedUp ==
  ASSUME NEW n \in Nat, NEW a \in Nat \ {0}
  PROVE  /\ RoundUp(n, a) \in Nat
         /\ n <= RoundUp(n, a) /\ RoundUp(n, a) <= n + a - 1
         /\ RoundUp(n, a) % a = 0
<1> DEFINE q == (n + a - 1) \div a
<1>1. q \in Nat /\ n + a - 1 = a * q + ((n + a - 1) % a)
  OBVIOUS
<1>2. (n + a - 1) % a \in 0 .. a - 1
  OBVIOUS
<1>3. RoundUp(n, a) = q * a
  BY DEF RoundUp
<1>4. q * a \in Nat /\ q * a = a * q
  BY <1>1
<1>5. (q * a) % a = 0
  BY <1>1
<1>6. QED BY <1>1, <1>2, <1>3, <1>4, <1>5

LEMMA Exponents == IsFiniteSet(0 .. 30) /\ Cardinality(0 .. 30) = 31
<1>1. 0 \in Int /\ 30 \in Int
  OBVIOUS
<1>2. IsFiniteSet(0 .. 30) /\ Cardinality(0 .. 30) = IF 0 > 30 THEN 0 ELSE 30 - 0 + 1
  BY ONLY <1>1, FS_Interval
<1>3. QED BY <1>2

LEMMA SlotRange ==
  ASSUME NEW size \in Int
  PROVE  Slot(size) \in -1 .. 30
<1> DEFINE S == {n \in 0 .. MaxExponent : 2 ^ n <= size}
<1>1. S \subseteq 0 .. 30
  BY Sizeof
<1>2. IsFiniteSet(0 .. 30) /\ Cardinality(0 .. 30) = 31
  BY Exponents
<1> HIDE DEF S
<1>3. IsFiniteSet(S) /\ Cardinality(S) <= 31
  <2>1. S \in SUBSET (0 .. 30)
    BY <1>1
  <2>2. IsFiniteSet(S) /\ Cardinality(S) <= Cardinality(0 .. 30)
    BY ONLY <1>2, <2>1, FS_Subset
  <2>3. QED BY <1>2, <2>2
<1>4. Cardinality(S) \in Nat
  BY <1>3, FS_CardinalityType
<1>5. Slot(size) = Cardinality(S) - 1
  BY DEF Slot, S
<1>6. QED BY <1>3, <1>4, <1>5

LEMMA SlotGrows ==
  ASSUME NEW size \in Int, NEW larger \in Int, size <= larger
  PROVE  Slot(size) <= Slot(larger)
<1> DEFINE S == {n \in 0 .. MaxExponent : 2 ^ n <= size}
           T == {n \in 0 .. MaxExponent : 2 ^ n <= larger}
<1>1. S \subseteq T
  BY PowersAreNumbers
<1>2. T \subseteq 0 .. 30 /\ IsFiniteSet(0 .. 30)
  BY Sizeof, Exponents
<1>3. Slot(size) = Cardinality(S) - 1 /\ Slot(larger) = Cardinality(T) - 1
  BY DEF Slot
<1> HIDE DEF S, T
<1>4. IsFiniteSet(T) /\ IsFiniteSet(S)
  BY <1>1, <1>2, FS_Subset
<1>5. Cardinality(S) <= Cardinality(T) /\ Cardinality(S) \in Nat /\ Cardinality(T) \in Nat
  BY <1>1, <1>4, FS_Subset, FS_CardinalityType
<1>6. QED BY <1>3, <1>5

\* A size of at least one byte has a highest bit.
LEMMA SlotIsThere ==
  ASSUME NEW size \in Nat \ {0}
  PROVE  Slot(size) >= 0
<1> DEFINE S == {n \in 0 .. MaxExponent : 2 ^ n <= size}
<1>1. 0 \in S
  BY PowersAreNumbers, Sizeof
<1>2. S \subseteq 0 .. 30 /\ IsFiniteSet(0 .. 30)
  BY Sizeof, Exponents
<1>3. Slot(size) = Cardinality(S) - 1
  BY DEF Slot
<1> HIDE DEF S
<1>4. IsFiniteSet(S)
  BY <1>2, FS_Subset
<1>5. Cardinality(S) \in Nat /\ Cardinality(S) # 0
  BY <1>1, <1>4, FS_CardinalityType, FS_EmptySet
<1>6. QED BY <1>3, <1>5

LEMMA BucketIsSlot ==
  ASSUME NEW size \in Int
  PROVE  Bucket(size) \in Slots
<1>1. NUM_SIZES \in Nat \ {0}
  BY HeapConstants
<1>2. Slot(size) \in -1 .. 30
  BY SlotRange
<1>3. QED BY <1>1, <1>2 DEF Bucket, Slots

\* What is on a list of the classes above the request's is large enough.
LEMMA ClassFits ==
  ASSUME NEW size \in Int, NEW needed \in Nat \ {0, 1},
         Bucket(size) > Slot(needed - 1)
  PROVE  needed <= size
<1> SUFFICES ASSUME size <= needed - 1 PROVE FALSE
  OBVIOUS
<1>1. Slot(size) <= Slot(needed - 1) /\ Slot(size) \in Int
  BY SlotGrows, SlotRange
<1>2. Slot(needed - 1) >= 0 /\ Slot(needed - 1) \in Int
  BY SlotIsThere, SlotRange
<1>3. QED BY <1>1, <1>2, HeapConstants DEF Bucket

LEMMA NeededIs ==
  ASSUME NEW size \in Nat
  PROVE  Needed(size) \in Nat /\ Needed(size) >= 16 /\ size <= Needed(size)
         /\ Needed(size) % 4 = 0
<1>1. /\ RoundUp(size, 4) \in Nat /\ size <= RoundUp(size, 4) /\ RoundUp(size, 4) % 4 = 0
  BY RoundedUp
<1>2. QED BY <1>1, Sizeof DEF Needed

-----------------------------------------------------------------------------
(* Free lists                                                              *)

Elements(s) == {s[i] : i \in DOMAIN s}
Distinct(s) == \A i, j \in DOMAIN s : s[i] = s[j] => i = j

LEMMA Pushed ==
  ASSUME NEW S, NEW s \in Seq(S), Distinct(s), NEW x \in S, x \notin Elements(s)
  PROVE  /\ <<x>> \o s \in Seq(S)
         /\ Distinct(<<x>> \o s)
         /\ Elements(<<x>> \o s) = Elements(s) \cup {x}
<1> DEFINE r == <<x>> \o s
<1>1. /\ r \in Seq(S) /\ Len(s) \in Nat
      /\ DOMAIN s = 1 .. Len(s) /\ DOMAIN r = 1 .. Len(s) + 1
      /\ r[1] = x /\ \A i \in 1 .. Len(s) : r[i + 1] = s[i]
  <2>1. <<x>> \in Seq(S) /\ Len(<<x>>) = 1 /\ <<x>>[1] = x
    OBVIOUS
  <2>2. r \in Seq(S) /\ Len(r) = 1 + Len(s)
    BY <2>1, ConcatProperties
  <2>3. \A i \in 1 .. Len(r) : r[i] = IF i <= 1 THEN <<x>>[i] ELSE s[i - 1]
    BY <2>1, ConcatProperties
  <2> HIDE DEF r
  <2>4. Len(s) \in Nat /\ DOMAIN s = 1 .. Len(s) /\ DOMAIN r = 1 .. Len(r)
    BY <2>2, LenProperties
  <2>5. QED BY <2>1, <2>2, <2>3, <2>4
<1> HIDE DEF r
<1>2. \A i \in DOMAIN r : i = 1 \/ (i - 1 \in DOMAIN s /\ r[i] = s[i - 1])
  <2> SUFFICES ASSUME NEW i \in DOMAIN r, i # 1
               PROVE  i - 1 \in DOMAIN s /\ r[i] = s[i - 1]
    OBVIOUS
  <2>1. i - 1 \in 1 .. Len(s) /\ (i - 1) + 1 = i
    BY <1>1
  <2>2. QED BY <1>1, <2>1
<1>3. Elements(r) = Elements(s) \cup {x}
  <2>1. Elements(r) \subseteq Elements(s) \cup {x}
    BY <1>1, <1>2 DEF Elements
  <2>2. x \in Elements(r)
    BY <1>1 DEF Elements
  <2>3. ASSUME NEW i \in DOMAIN s PROVE s[i] \in Elements(r)
    <3>1. i + 1 \in DOMAIN r /\ r[i + 1] = s[i]
      BY <1>1
    <3>2. QED BY <3>1 DEF Elements
  <2>4. QED BY <2>1, <2>2, <2>3 DEF Elements
<1>4. Distinct(r)
  <2> SUFFICES ASSUME NEW i \in DOMAIN r, NEW j \in DOMAIN r, r[i] = r[j] PROVE i = j
    BY DEF Distinct
  <2>1. \A k \in DOMAIN s : s[k] # x
    BY DEF Elements
  <2>2. CASE i = 1 \/ j = 1
    BY <1>1, <1>2, <2>1, <2>2
  <2>3. CASE i # 1 /\ j # 1
    <3>1. i - 1 = j - 1
      BY <1>2, <2>3 DEF Distinct
    <3>2. QED BY <1>1, <3>1
  <2>4. QED BY <2>2, <2>3
<1>5. QED BY <1>1, <1>3, <1>4 DEF r

LEMMA Removed ==
  ASSUME NEW S, NEW s \in Seq(S), Distinct(s), NEW x \in Elements(s)
  PROVE  /\ RemoveFirst(s, x) \in Seq(S)
         /\ Distinct(RemoveFirst(s, x))
         /\ Elements(RemoveFirst(s, x)) = Elements(s) \ {x}
<1>1. PICK k \in DOMAIN s : s[k] = x
  BY DEF Elements
<1>2. Len(s) \in Nat /\ DOMAIN s = 1 .. Len(s)
  BY LenProperties
<1>3. RemoveFirst(s, x) = RemoveAt(s, k)
  <2>1. {i \in 1 .. Len(s) : s[i] = x} = {k}
    BY <1>1, <1>2 DEF Distinct
  <2>2. Min({k}) = k
    BY <1>2 DEF Min
  <2>3. SelectInSeq(s, LAMBDA v : v = x) = k
    BY <2>1, <2>2 DEF SelectInSeq
  <2>4. QED BY <1>1, <1>2, <2>3 DEF RemoveFirst
<1> DEFINE left == SubSeq(s, 1, k - 1)
           right == SubSeq(s, k + 1, Len(s))
           r == left \o right
<1>4. /\ left \in Seq(S) /\ Len(left) = k - 1 /\ \A i \in 1 .. k - 1 : left[i] = s[i]
  BY <1>2, SubSeqProperties
<1>5. /\ right \in Seq(S) /\ Len(right) = Len(s) - k
      /\ \A i \in 1 .. Len(s) - k : right[i] = s[k + i]
  BY <1>2, SubSeqProperties
<1> HIDE DEF left, right
<1>6. /\ r \in Seq(S) /\ Len(r) = Len(s) - 1
      /\ \A i \in 1 .. Len(r) : r[i] = IF i < k THEN s[i] ELSE s[i + 1]
  <2>0. left \in Seq(S) /\ right \in Seq(S)
    BY <1>4, <1>5
  <2>1. /\ r \in Seq(S) /\ Len(r) = Len(left) + Len(right)
        /\ \A i \in 1 .. Len(left) + Len(right) :
             r[i] = IF i <= Len(left) THEN left[i] ELSE right[i - Len(left)]
    BY <2>0, ConcatProperties
  <2> HIDE DEF r
  <2>2. Len(r) = Len(s) - 1
    BY <1>2, <1>4, <1>5, <2>1
  <2>3. ASSUME NEW i \in 1 .. Len(r) PROVE r[i] = IF i < k THEN s[i] ELSE s[i + 1]
    <3>1. CASE i < k
      BY <1>2, <1>4, <2>1, <2>2, <3>1
    <3>2. CASE i >= k
      <4>1. i - (k - 1) \in 1 .. Len(s) - k /\ k + (i - (k - 1)) = i + 1
        BY <1>2, <2>2, <3>2
      <4>4. ~(i < k) /\ right[i - (k - 1)] = s[k + (i - (k - 1))]
        BY <1>2, <1>5, <2>2, <3>2, <4>1
      <4>2. r[i] = right[i - (k - 1)]
        BY <1>2, <1>4, <2>1, <2>2, <3>2
      <4>3. QED BY <4>1, <4>2, <4>4
    <3>3. QED BY <1>2, <2>2, <3>1, <3>2
  <2>4. QED BY <2>1, <2>2, <2>3
<1> DEFINE Of(i) == IF i < k THEN i ELSE i + 1
<1> HIDE DEF r
<1>7. /\ DOMAIN r = 1 .. Len(s) - 1
      /\ \A i \in DOMAIN r : Of(i) \in DOMAIN s /\ Of(i) # k /\ r[i] = s[Of(i)]
      /\ \A i, j \in DOMAIN r : Of(i) = Of(j) => i = j
      /\ \A j \in DOMAIN s : j # k => \E i \in DOMAIN r : Of(i) = j
  <2>1. DOMAIN r = 1 .. Len(s) - 1
    BY <1>6, LenProperties
  <2>2. \A i \in DOMAIN r : Of(i) \in DOMAIN s /\ Of(i) # k /\ r[i] = s[Of(i)]
    BY <1>2, <1>6, <2>1
  <2>3. \A i, j \in DOMAIN r : Of(i) = Of(j) => i = j
    BY <1>2, <2>1
  <2>4. ASSUME NEW j \in DOMAIN s, j # k PROVE \E i \in DOMAIN r : Of(i) = j
    <3>1. CASE j < k
      BY <1>2, <2>1, <3>1
    <3>2. CASE j > k
      <4>1. j - 1 \in DOMAIN r /\ Of(j - 1) = j
        BY <1>2, <2>1, <3>2
      <4>2. QED BY <4>1
    <3>3. QED BY <1>2, <2>4, <3>1, <3>2
  <2>5. QED BY <2>1, <2>2, <2>3, <2>4
<1> HIDE DEF Of
<1>8. Distinct(r)
  BY <1>7 DEF Distinct
<1>9. Elements(r) = Elements(s) \ {x}
  <2>1. \A i \in DOMAIN r : r[i] \in Elements(s) /\ r[i] # x
    BY <1>1, <1>7 DEF Elements, Distinct
  <2>2. ASSUME NEW j \in DOMAIN s, s[j] # x PROVE s[j] \in Elements(r)
    BY <1>1, <1>7, <2>2 DEF Elements
  <2>3. QED BY <2>1, <2>2 DEF Elements
<1>10. RemoveFirst(s, x) = r
  BY <1>3 DEF RemoveAt, r, left, right
<1>11. QED BY <1>6, <1>8, <1>9, <1>10

-----------------------------------------------------------------------------
(* Chunks on the lists                                                     *)

Headers(c) ==
  /\ DOMAIN c \subseteq Nat \ {0}
  /\ \A a \in DOMAIN c :
       c[a] \in [next : DOMAIN c, prev : DOMAIN c, used : BOOLEAN]

Unused(c) == {a \in DOMAIN c : ~c[a].used}

\* The chunks of U, and no others, are on the lists, each once and on its own.
Filed(lists, c, U) ==
  /\ DOMAIN lists = Slots
  /\ \A n \in Slots :
       /\ lists[n] \in Seq(Nat) /\ Distinct(lists[n])
       /\ Elements(lists[n]) = {a \in U : Bucket(ChunkSize(c, a)) = n}

LEMMA SizeIsNumber ==
  ASSUME NEW c, Headers(c), NEW a \in DOMAIN c
  PROVE  /\ a \in Nat /\ c[a].next \in Nat /\ ChunkSize(c, a) \in Int
         /\ Bucket(ChunkSize(c, a)) \in Slots
<1>1. a \in Nat /\ c[a].next \in Nat
  BY DEF Headers
<1>2. ChunkSize(c, a) \in Int
  BY <1>1, Sizeof DEF ChunkSize
<1>3. QED BY <1>1, <1>2, BucketIsSlot

LEMMA DropFiled ==
  ASSUME NEW c, Headers(c), NEW U \in SUBSET DOMAIN c, NEW lists,
         Filed(lists, c, U), NEW a \in U
  PROVE  Filed(RemoveFree(lists, c, a), c, U \ {a})
<1> DEFINE k == Bucket(ChunkSize(c, a))
           new == RemoveFree(lists, c, a)
<1>1. k \in Slots
  BY SizeIsNumber
<1>2. DOMAIN new = Slots /\ new[k] = RemoveFirst(lists[k], a)
      /\ \A n \in Slots : n # k => new[n] = lists[n]
  BY <1>1 DEF Filed, RemoveFree
<1>3. lists[k] \in Seq(Nat) /\ Distinct(lists[k]) /\ a \in Elements(lists[k])
  BY <1>1 DEF Filed
<1>4. /\ new[k] \in Seq(Nat) /\ Distinct(new[k])
      /\ Elements(new[k]) = Elements(lists[k]) \ {a}
  BY <1>2, <1>3, Removed
<1> HIDE DEF new
<1>5. ASSUME NEW n \in Slots
      PROVE  /\ new[n] \in Seq(Nat) /\ Distinct(new[n])
             /\ Elements(new[n]) = {b \in U \ {a} : Bucket(ChunkSize(c, b)) = n}
  <2>1. /\ lists[n] \in Seq(Nat) /\ Distinct(lists[n])
        /\ Elements(lists[n]) = {b \in U : Bucket(ChunkSize(c, b)) = n}
    BY DEF Filed
  <2>2. CASE n = k
    BY <1>4, <2>1, <2>2
  <2>3. CASE n # k
    BY <1>2, <2>1, <2>3
  <2>4. QED BY <2>2, <2>3
<1>6. QED BY <1>2, <1>5 DEF Filed, new

LEMMA AddFiled ==
  ASSUME NEW c, Headers(c), NEW U \in SUBSET DOMAIN c, NEW lists,
         Filed(lists, c, U), NEW a \in DOMAIN c, a \notin U
  PROVE  Filed(PushFree(lists, c, a), c, U \cup {a})
<1> DEFINE k == Bucket(ChunkSize(c, a))
           new == PushFree(lists, c, a)
<1>1. k \in Slots /\ a \in Nat
  BY SizeIsNumber
<1>2. DOMAIN new = Slots /\ new[k] = <<a>> \o lists[k]
      /\ \A n \in Slots : n # k => new[n] = lists[n]
  BY <1>1 DEF Filed, PushFree
<1>3. lists[k] \in Seq(Nat) /\ Distinct(lists[k]) /\ a \notin Elements(lists[k])
  BY <1>1 DEF Filed
<1>4. /\ new[k] \in Seq(Nat) /\ Distinct(new[k])
      /\ Elements(new[k]) = Elements(lists[k]) \cup {a}
  BY <1>1, <1>2, <1>3, Pushed
<1> HIDE DEF new
<1>5. ASSUME NEW n \in Slots
      PROVE  /\ new[n] \in Seq(Nat) /\ Distinct(new[n])
             /\ Elements(new[n]) = {b \in U \cup {a} : Bucket(ChunkSize(c, b)) = n}
  <2>1. /\ lists[n] \in Seq(Nat) /\ Distinct(lists[n])
        /\ Elements(lists[n]) = {b \in U : Bucket(ChunkSize(c, b)) = n}
    BY DEF Filed
  <2>2. CASE n = k
    BY <1>4, <2>1, <2>2
  <2>3. CASE n # k
    BY <1>2, <2>1, <2>3
  <2>4. QED BY <2>2, <2>3
<1>6. QED BY <1>2, <1>5 DEF Filed, new

\* A chunk stays on the right list while it keeps its size.
LEMMA SameFiled ==
  ASSUME NEW c, NEW d, NEW U, NEW lists, Filed(lists, c, U),
         \A a \in U : d[a].next = c[a].next
  PROVE  Filed(lists, d, U)
BY DEF Filed, ChunkSize

-----------------------------------------------------------------------------
(* Rings, one at a time changed                                            *)

\* d is c with b after a.
Inserted(d, c, a, b) ==
  /\ DOMAIN d = DOMAIN c \cup {b} /\ Headers(d)
  /\ d[b].next = c[a].next /\ d[b].prev = a /\ ~d[b].used
  /\ \A x \in DOMAIN c :
       /\ d[x].next = IF x = a THEN b ELSE c[x].next
       /\ d[x].prev = IF x = c[a].next THEN b ELSE c[x].prev
       /\ d[x].used = c[x].used

\* d is c without a.
Unlinked(d, c, a) ==
  /\ DOMAIN d = DOMAIN c \ {a} /\ Headers(d)
  /\ \A x \in DOMAIN c \ {a} :
       /\ d[x].next = IF x = c[a].prev THEN c[a].next ELSE c[x].next
       /\ d[x].prev = IF x = c[a].next THEN c[a].prev ELSE c[x].prev
       /\ d[x].used = c[x].used

LEMMA InsertIs ==
  ASSUME NEW c, Headers(c), NEW a \in DOMAIN c, NEW b \in Nat \ {0}, b \notin DOMAIN c
  PROVE  Inserted(InsertAfter(c, a, b), c, a, b)
<1> DEFINE n == c[a].next
           w2 == With(c, b, [next |-> n, prev |-> a, used |-> FALSE])
           w3 == [w2 EXCEPT ![a].next = b]
           d == [w3 EXCEPT ![n].prev = b]
           R == [next : DOMAIN c \cup {b}, prev : DOMAIN c \cup {b}, used : BOOLEAN]
<1>1. n \in DOMAIN c /\ a # b /\ n # b
  BY DEF Headers
<1>0. \A x \in DOMAIN c :
        /\ c[x] \in R /\ c[x].next \in DOMAIN c /\ c[x].prev \in DOMAIN c
        /\ c[x].used \in BOOLEAN
  BY DEF Headers
<1>2. /\ DOMAIN w2 = DOMAIN c \cup {b}
      /\ w2[b] = [next |-> n, prev |-> a, used |-> FALSE]
      /\ \A x \in DOMAIN c : w2[x] = c[x]
  BY DEF With
<1> HIDE DEF w2
<1>3. \A x \in DOMAIN c \cup {b} : w2[x] \in R
  <2>1. w2[b] \in R
    BY <1>1, <1>2
  <2>2. \A x \in DOMAIN c : w2[x] \in R
    BY <1>0, <1>2
  <2>3. QED BY <2>1, <2>2
<1>4. /\ DOMAIN w3 = DOMAIN c \cup {b}
      /\ \A x \in DOMAIN c \cup {b} :
           /\ w3[x] \in R
           /\ w3[x].next = (IF x = a THEN b ELSE w2[x].next)
           /\ w3[x].prev = w2[x].prev
           /\ w3[x].used = w2[x].used
  BY <1>1, <1>2, <1>3
<1> HIDE DEF w3
<1>5. /\ DOMAIN d = DOMAIN c \cup {b}
      /\ \A x \in DOMAIN c \cup {b} :
           /\ d[x] \in R
           /\ d[x].next = w3[x].next
           /\ d[x].prev = (IF x = n THEN b ELSE w3[x].prev)
           /\ d[x].used = w3[x].used
  BY <1>1, <1>4
<1>6. InsertAfter(c, a, b) = d
  BY DEF InsertAfter, d, w3, w2
<1> HIDE DEF d
<1>7. Headers(d)
  BY <1>5 DEF Headers
<1>8. d[b].next = n /\ d[b].prev = a /\ d[b].used = FALSE
  BY <1>1, <1>2, <1>4, <1>5
<1>9. \A x \in DOMAIN c :
        /\ d[x].next = (IF x = a THEN b ELSE c[x].next)
        /\ d[x].prev = (IF x = n THEN b ELSE c[x].prev)
        /\ d[x].used = c[x].used
  BY <1>1, <1>2, <1>4, <1>5
<1>10. QED BY <1>5, <1>6, <1>7, <1>8, <1>9 DEF Inserted

LEMMA UnlinkIs ==
  ASSUME NEW c, Headers(c), NEW a \in DOMAIN c, c[a].prev # a, c[a].next # a,
         \A x \in DOMAIN c : c[x].next = a => x = c[a].prev,
         \A x \in DOMAIN c : c[x].prev = a => x = c[a].next
  PROVE  Unlinked(Unlink(c, a), c, a)
<1> DEFINE p == c[a].prev
           n == c[a].next
           w == [c EXCEPT ![p].next = n]
           v == [w EXCEPT ![n].prev = p]
           d == [b \in DOMAIN c \ {a} |-> v[b]]
<1>1. p \in DOMAIN c \ {a} /\ n \in DOMAIN c \ {a}
  BY DEF Headers
<1>2. /\ DOMAIN w = DOMAIN c
      /\ \A x \in DOMAIN c :
           /\ w[x] \in [next : DOMAIN c, prev : DOMAIN c, used : BOOLEAN]
           /\ w[x].next = (IF x = p THEN n ELSE c[x].next)
           /\ w[x].prev = c[x].prev /\ w[x].used = c[x].used
  BY <1>1 DEF Headers
<1> HIDE DEF w
<1>3. /\ DOMAIN v = DOMAIN c
      /\ \A x \in DOMAIN c :
           /\ v[x] \in [next : DOMAIN c, prev : DOMAIN c, used : BOOLEAN]
           /\ v[x].prev = (IF x = n THEN p ELSE w[x].prev)
           /\ v[x].next = w[x].next /\ v[x].used = w[x].used
  BY <1>1, <1>2
<1> HIDE DEF v
<1>4. /\ DOMAIN d = DOMAIN c \ {a}
      /\ \A x \in DOMAIN c \ {a} :
           /\ d[x] \in [next : DOMAIN c, prev : DOMAIN c, used : BOOLEAN]
           /\ d[x].next = (IF x = p THEN n ELSE c[x].next)
           /\ d[x].prev = (IF x = n THEN p ELSE c[x].prev)
           /\ d[x].used = c[x].used
  BY <1>2, <1>3
<1>5. Unlink(c, a) = d
  BY DEF Unlink, d, v, w
<1> HIDE DEF d
<1>6. \A x \in DOMAIN c \ {a} :
        d[x] \in [next : DOMAIN c \ {a}, prev : DOMAIN c \ {a}, used : BOOLEAN]
  <2> SUFFICES ASSUME NEW x \in DOMAIN c \ {a}
               PROVE  d[x] \in [next : DOMAIN c \ {a}, prev : DOMAIN c \ {a}, used : BOOLEAN]
    OBVIOUS
  <2>1. d[x].next # a /\ d[x].prev # a
    BY <1>1, <1>4
  <2>2. QED BY <1>4, <2>1
<1>7. Headers(d)
  BY <1>4, <1>6 DEF Headers
<1>8. QED BY <1>4, <1>5, <1>7 DEF Unlinked

RegionLast(m) == RegionEnd(m) - CHUNK_SIZE
FirstsOf(R) == {RegionFirst(m) : m \in R}
EndsOf(R) == {RegionLast(m) : m \in R}

\* What memory_add_region's checks and the memory map leave of the regions.
Extents(R) ==
  /\ \A m \in R :
       /\ RegionFirst(m) \in Nat \ {0} /\ RegionFirst(m) % 4 = 0
       /\ RegionLast(m) \in Nat /\ RegionLast(m) % 4 = 0
       /\ RegionFirst(m) + 80 <= RegionLast(m)
  /\ \A m, k \in R :
       m = k \/ RegionLast(m) + 40 <= RegionFirst(k) \/ RegionLast(k) + 40 <= RegionFirst(m)

Linked(c) == \A a, b \in DOMAIN c : c[a].next = b <=> c[b].prev = a

Tiled(c, R) ==
  \A a \in DOMAIN c \ EndsOf(R) :
    /\ a + 40 <= c[a].next
    /\ \A b \in DOMAIN c : b <= a \/ c[a].next <= b

Closed(c, R) ==
  \A a \in DOMAIN c \cap EndsOf(R) :
    \E m \in R : a = RegionLast(m) /\ c[a].next = RegionFirst(m)

Placed(c, R) ==
  /\ \A m \in R : /\ RegionFirst(m) \in DOMAIN c /\ RegionLast(m) \in DOMAIN c
                  /\ c[RegionFirst(m)].used /\ c[RegionLast(m)].used
  /\ \A a \in DOMAIN c :
       a % 4 = 0 /\ \E m \in R : RegionFirst(m) <= a /\ a <= RegionLast(m)

\* The chunks of c are rings that tile the regions R.
Rings(c, R) ==
  Headers(c) /\ Linked(c) /\ Tiled(c, R) /\ Closed(c, R) /\ Placed(c, R)

\* Two chunks are at least a header and the links of a list apart.
LEMMA ChunksApart ==
  ASSUME NEW R, Extents(R), NEW c, Rings(c, R),
         NEW x \in DOMAIN c, NEW y \in DOMAIN c, x < y
  PROVE  x + 40 <= y
<1>1. x \in Nat /\ y \in Nat /\ c[x].next \in Nat
  BY DEF Rings, Headers
<1>2. CASE x \notin EndsOf(R)
  BY <1>1, <1>2 DEF Rings, Tiled
<1>3. CASE x \in EndsOf(R)
  <2>1. PICK m \in R : x = RegionLast(m)
    BY <1>3 DEF EndsOf
  <2>2. PICK k \in R : RegionFirst(k) <= y /\ y <= RegionLast(k)
    BY DEF Rings, Placed
  <2>3. /\ RegionFirst(m) \in Nat /\ RegionFirst(k) \in Nat
        /\ RegionLast(m) \in Nat /\ RegionLast(k) \in Nat
        /\ RegionFirst(m) <= RegionLast(m)
    BY DEF Extents
  <2>4. RegionLast(m) + 40 <= RegionFirst(k) \/ RegionLast(k) + 40 <= RegionFirst(m)
    BY <1>1, <2>1, <2>2, <2>3 DEF Extents
  <2>5. QED BY <1>1, <2>1, <2>2, <2>3, <2>4
<1>4. QED BY <1>2, <1>3

\* Only the first chunk of a region follows the end of one.
LEMMA BeforeIsNoEnd ==
  ASSUME NEW R, NEW c, Rings(c, R), NEW x \in DOMAIN c, x \notin FirstsOf(R)
  PROVE  c[x].prev \in DOMAIN c \ EndsOf(R)
<1>1. c[x].prev \in DOMAIN c /\ c[c[x].prev].next = x
  BY DEF Rings, Headers, Linked
<1>2. QED BY <1>1 DEF Rings, Closed, FirstsOf

LEMMA EndAfter ==
  ASSUME NEW R, Extents(R), NEW c, Rings(c, R), NEW a \in DOMAIN c \ EndsOf(R)
  PROVE  \E m \in R : RegionFirst(m) <= a /\ c[a].next <= RegionLast(m)
<1>1. PICK m \in R : RegionFirst(m) <= a /\ a <= RegionLast(m)
  BY DEF Rings, Placed
<1>2. RegionLast(m) \in DOMAIN c /\ a # RegionLast(m) /\ a \in Nat /\ RegionLast(m) \in Nat
  BY DEF Rings, Placed, EndsOf, Headers, Extents
<1>3. c[a].next <= RegionLast(m)
  BY <1>1, <1>2 DEF Rings, Tiled
<1>4. QED BY <1>1, <1>3

LEMMA InsertKeeps ==
  ASSUME NEW R, Extents(R), NEW c, Rings(c, R), NEW a \in DOMAIN c \ EndsOf(R),
         NEW b \in Nat, b % 4 = 0, a + 40 <= b, b + 40 <= c[a].next
  PROVE  b \notin DOMAIN c /\ Rings(InsertAfter(c, a, b), R)
<1> DEFINE n == c[a].next
           d == InsertAfter(c, a, b)
<1>1. a \in Nat /\ n \in Nat /\ n \in DOMAIN c /\ Headers(c) /\ Linked(c)
  BY DEF Rings, Headers
<1>2. b \notin DOMAIN c /\ b # 0
  BY <1>1 DEF Rings, Tiled
<1>3. /\ DOMAIN d = DOMAIN c \cup {b}
      /\ Headers(d)
      /\ d[b].next = n /\ d[b].prev = a /\ d[b].used = FALSE
      /\ \A x \in DOMAIN c :
           /\ d[x].next = (IF x = a THEN b ELSE c[x].next)
           /\ d[x].prev = (IF x = n THEN b ELSE c[x].prev)
           /\ d[x].used = c[x].used
  <2>1. Inserted(d, c, a, b)
    BY <1>1, <1>2, InsertIs
  <2> HIDE DEF d
  <2>2. QED BY <2>1 DEF Inserted
<1> HIDE DEF d
<1>4. \A x, y \in DOMAIN c :
        /\ c[x].next \in DOMAIN c /\ c[x].prev \in DOMAIN c
        /\ c[x].next = y <=> c[y].prev = x
  BY DEF Rings, Headers, Linked
<1>5. Linked(d)
  <2> SUFFICES ASSUME NEW x \in DOMAIN d, NEW y \in DOMAIN d
               PROVE  d[x].next = y <=> d[y].prev = x
    BY DEF Linked
  <2>1. CASE x = b
    BY <1>1, <1>2, <1>3, <1>4, <2>1
  <2>2. CASE y = b
    BY <1>1, <1>2, <1>3, <1>4, <2>2
  <2>3. CASE x # b /\ y # b
    <3>1. /\ x \in DOMAIN c /\ y \in DOMAIN c
          /\ d[x].next = (IF x = a THEN b ELSE c[x].next)
          /\ d[y].prev = (IF y = n THEN b ELSE c[y].prev)
      BY <1>3, <2>3
    <3>2. c[x].next = y <=> c[y].prev = x
      BY <1>4, <3>1
    <3>3. x = a => (c[x].next = y <=> y = n)
      OBVIOUS
    <3>4. y = n => (c[y].prev = x <=> x = a)
      BY <1>4, <3>1
    <3>5. QED BY <2>3, <3>1, <3>2, <3>3, <3>4
  <2>4. QED BY <2>1, <2>2, <2>3
<1>6. b \notin EndsOf(R)
  BY <1>2 DEF Rings, Placed, EndsOf
<1>7. Tiled(d, R)
  <2>1. \A x \in DOMAIN c \ EndsOf(R) :
          /\ x \in Nat /\ x + 40 <= c[x].next /\ c[x].next \in Nat
          /\ \A y \in DOMAIN c : y <= x \/ c[x].next <= y
    BY <1>1, <1>4 DEF Rings, Tiled, Headers
  <2>2. \A x \in DOMAIN c : x \in Nat /\ (x <= a \/ n <= x)
    BY <1>1, <2>1 DEF Headers
  <2>3. d[b].next = n /\ b + 40 <= n /\ \A y \in DOMAIN d : y <= b \/ n <= y
    BY <1>1, <1>3, <2>2
  <2>4. d[a].next = b /\ \A y \in DOMAIN d : y <= a \/ b <= y
    BY <1>1, <1>3, <2>2
  <2>5. ASSUME NEW x \in DOMAIN c \ EndsOf(R), x # a
        PROVE  /\ d[x].next = c[x].next
               /\ \A y \in DOMAIN d : y <= x \/ d[x].next <= y
    <3>1. d[x].next = c[x].next
      BY <1>3, <2>5
    <3>2. b <= x \/ c[x].next <= b
      <4>1. CASE x <= a
        BY <1>1, <2>1, <2>5, <4>1
      <4>2. CASE n <= x
        BY <1>1, <2>1, <4>2
      <4>3. QED BY <2>2, <4>1, <4>2
    <3>3. QED BY <1>3, <2>1, <3>1, <3>2
  <2>6. QED BY <1>3, <2>1, <2>3, <2>4, <2>5 DEF Tiled
<1>8. Closed(d, R)
  BY <1>3, <1>6 DEF Closed, Rings
<1>9. Placed(d, R)
  <2>1. PICK m \in R : RegionFirst(m) <= a /\ n <= RegionLast(m)
    BY EndAfter
  <2>2. RegionFirst(m) <= b /\ b <= RegionLast(m)
    BY <1>1, <2>1 DEF Extents
  <2>3. Placed(c, R)
    BY DEF Rings
  <2>4. ASSUME NEW x \in DOMAIN d
        PROVE  x % 4 = 0 /\ \E k \in R : RegionFirst(k) <= x /\ x <= RegionLast(k)
    BY <1>3, <2>2, <2>3 DEF Placed
  <2>5. \A k \in R : /\ RegionFirst(k) \in DOMAIN d /\ RegionLast(k) \in DOMAIN d
                     /\ d[RegionFirst(k)].used /\ d[RegionLast(k)].used
    BY <1>3, <2>3 DEF Placed
  <2>6. QED BY <2>4, <2>5 DEF Placed
<1>10. QED BY <1>2, <1>3, <1>5, <1>7, <1>8, <1>9 DEF Rings, d

LEMMA UnlinkKeeps ==
  ASSUME NEW R, Extents(R), NEW c, Rings(c, R),
         NEW a \in DOMAIN c, a \notin FirstsOf(R), a \notin EndsOf(R)
  PROVE  /\ Rings(Unlink(c, a), R) /\ Unlinked(Unlink(c, a), c, a)
         /\ c[a].prev \in DOMAIN c \ {a} /\ c[a].next \in DOMAIN c \ {a}
<1> DEFINE d == Unlink(c, a)
           p == c[a].prev
           n == c[a].next
<1>1. \A x, y \in DOMAIN c :
        /\ x \in Nat /\ c[x].next \in DOMAIN c /\ c[x].prev \in DOMAIN c
        /\ c[x].next = y <=> c[y].prev = x
  BY DEF Rings, Headers, Linked
<1>2. p \in DOMAIN c \ EndsOf(R) /\ n \in DOMAIN c
  BY <1>1, BeforeIsNoEnd
<1>3. \A x \in DOMAIN c \ EndsOf(R) :
        /\ x + 40 <= c[x].next
        /\ \A y \in DOMAIN c : y <= x \/ c[x].next <= y
  BY DEF Rings, Tiled
<1>4. p + 40 <= a /\ a + 40 <= n /\ p # a /\ n # a /\ c[p].next = a /\ c[n].prev = a
  BY <1>1, <1>2, <1>3
<1>0. Unlinked(d, c, a)
  <2>1. Headers(c)
    BY DEF Rings
  <2>2. \A x \in DOMAIN c : (c[x].next = a => x = p) /\ (c[x].prev = a => x = n)
    BY <1>1
  <2>3. QED BY <1>4, <2>1, <2>2, UnlinkIs
<1> HIDE DEF d
<1>5. /\ DOMAIN d = DOMAIN c \ {a}
      /\ Headers(d)
      /\ \A x \in DOMAIN c \ {a} :
           /\ d[x].next = (IF x = p THEN n ELSE c[x].next)
           /\ d[x].prev = (IF x = n THEN p ELSE c[x].prev)
           /\ d[x].used = c[x].used
  BY <1>0 DEF Unlinked
<1>6. Linked(d)
  <2> SUFFICES ASSUME NEW x \in DOMAIN c \ {a}, NEW y \in DOMAIN c \ {a}
               PROVE  d[x].next = y <=> d[y].prev = x
    BY <1>5 DEF Linked
  <2>0. p \in DOMAIN c \ {a} /\ n \in DOMAIN c \ {a}
    BY <1>2, <1>4
  <2>1. CASE x = p
    <3>1. d[x].next = n
      BY <1>5, <2>0, <2>1
    <3>2. CASE y = n
      <4>1. d[y].prev = p
        BY <1>5, <2>0, <3>2
      <4>2. QED BY <2>1, <3>1, <3>2, <4>1
    <3>3. CASE y # n
      <4>1. d[y].prev = c[y].prev /\ c[p].next # y
        BY <1>4, <1>5, <3>3
      <4>2. c[y].prev # p
        BY <1>1, <2>0, <4>1
      <4>3. QED BY <2>1, <3>1, <3>3, <4>1, <4>2
    <3>4. QED BY <3>2, <3>3
  <2>2. CASE y = n /\ x # p
    <3>1. d[y].prev = p
      BY <1>5, <2>0, <2>2
    <3>2. d[x].next = c[x].next /\ c[n].prev # x
      BY <1>4, <1>5, <2>2
    <3>3. c[x].next # n
      BY <1>1, <2>0, <3>2
    <3>4. QED BY <2>2, <3>1, <3>2, <3>3
  <2>3. CASE x # p /\ y # n
    BY <1>1, <1>5, <2>3
  <2>4. QED BY <2>1, <2>2, <2>3
<1>7. Tiled(d, R)
  <2>0. p \in Nat /\ n \in Nat /\ a \in Nat
    BY <1>1, <1>2
  <2>1. d[p].next = n /\ p + 40 <= n
    <3>1. d[p].next = n
      BY <1>2, <1>4, <1>5
    <3>2. QED BY <1>4, <2>0, <3>1
  <2>2. ASSUME NEW y \in DOMAIN d PROVE y <= p \/ n <= y
    <3>1. y \in DOMAIN c /\ y # a /\ y \in Nat
      BY <1>1, <1>5
    <3>2. (y <= p \/ a <= y) /\ (y <= a \/ n <= y)
      BY <1>2, <1>3, <1>4, <3>1
    <3>3. QED BY <2>0, <3>1, <3>2
  <2>3. QED BY <1>3, <1>5, <2>1, <2>2 DEF Tiled
<1>8. Closed(d, R)
  BY <1>2, <1>5 DEF Closed, Rings
<1>9. Placed(d, R)
  <2>1. \A m \in R : RegionFirst(m) # a /\ RegionLast(m) # a
    BY DEF FirstsOf, EndsOf
  <2>2. Placed(c, R)
    BY DEF Rings
  <2>3. QED BY <1>5, <2>1, <2>2 DEF Placed
<1>10. Rings(d, R)
  BY <1>5, <1>6, <1>7, <1>8, <1>9 DEF Rings
<1>11. QED BY <1>0, <1>2, <1>4, <1>10 DEF d

\* d is c with u in a's used field.
Marked(d, c, a, u) ==
  /\ DOMAIN d = DOMAIN c /\ Headers(d)
  /\ \A x \in DOMAIN c :
       /\ d[x].next = c[x].next /\ d[x].prev = c[x].prev
       /\ d[x].used = IF x = a THEN u ELSE c[x].used

LEMMA MarkIs ==
  ASSUME NEW c, Headers(c), NEW a \in DOMAIN c, NEW u \in BOOLEAN
  PROVE  Marked([c EXCEPT ![a].used = u], c, a, u)
<1> DEFINE d == [c EXCEPT ![a].used = u]
<1>1. /\ DOMAIN d = DOMAIN c
      /\ \A x \in DOMAIN c :
           /\ d[x] \in [next : DOMAIN c, prev : DOMAIN c, used : BOOLEAN]
           /\ d[x].next = c[x].next /\ d[x].prev = c[x].prev
           /\ d[x].used = (IF x = a THEN u ELSE c[x].used)
  BY DEF Headers
<1> HIDE DEF d
<1>2. Headers(d)
  BY <1>1 DEF Headers
<1>3. Marked(d, c, a, u)
  BY <1>1, <1>2 DEF Marked
<1>4. QED BY <1>3 DEF d

LEMMA UseKeeps ==
  ASSUME NEW R, NEW c, Rings(c, R), NEW a \in DOMAIN c, NEW u \in BOOLEAN,
         u \/ (a \notin FirstsOf(R) /\ a \notin EndsOf(R))
  PROVE  Rings([c EXCEPT ![a].used = u], R) /\ Marked([c EXCEPT ![a].used = u], c, a, u)
<1> DEFINE d == [c EXCEPT ![a].used = u]
<1>1. Headers(c)
  BY DEF Rings
<1>2. Marked(d, c, a, u)
  BY <1>1, MarkIs
<1> HIDE DEF d
<1>3. Linked(d)
  <2>1. Linked(c)
    BY DEF Rings
  <2> SUFFICES ASSUME NEW x \in DOMAIN c, NEW y \in DOMAIN c
               PROVE  d[x].next = y <=> d[y].prev = x
    BY <1>2 DEF Marked, Linked
  <2>2. d[x].next = c[x].next /\ d[y].prev = c[y].prev
    BY <1>2 DEF Marked
  <2>3. QED BY <2>1, <2>2 DEF Linked
<1>4. Tiled(d, R) /\ Closed(d, R)
  BY <1>2 DEF Marked, Rings, Tiled, Closed
<1>5. Placed(d, R)
  <2>1. \A m \in R : u \/ (RegionFirst(m) # a /\ RegionLast(m) # a)
    BY DEF FirstsOf, EndsOf
  <2>2. Placed(c, R)
    BY DEF Rings
  <2>3. QED BY <1>2, <2>1, <2>2 DEF Marked, Placed
<1>6. Rings(d, R)
  BY <1>2, <1>3, <1>4, <1>5 DEF Marked, Rings
<1>7. QED BY <1>2, <1>6 DEF d

-----------------------------------------------------------------------------
(* Regions                                                                 *)

Added(m) == m.usable /\ m.size # 0 /\ RegionFits(m)

LEMMA RegionBounds ==
  ASSUME NEW i \in DOMAIN MemoryMap, Added(MemoryMap[i])
  PROVE  LET m == MemoryMap[i]
         IN  /\ m.base \in Nat \ {0} /\ m.size \in Nat
             /\ RegionFirst(m) \in Nat \ {0} /\ RegionFirst(m) % 4 = 0
             /\ RegionLast(m) \in Nat /\ RegionLast(m) % 4 = 0
             /\ RegionFirst(m) + 80 <= RegionLast(m)
             /\ m.base <= RegionFirst(m)
             /\ RegionLast(m) + 40 <= m.base + m.size
<1> DEFINE m == MemoryMap[i]
<1>1. m.base \in Nat \ {0} /\ m.size \in Nat
  <2>1. MemoryMap \in Seq([base : Nat \ {0}, size : Nat, usable : BOOLEAN])
    BY HeapConstants
  <2>2. DOMAIN MemoryMap = 1 .. Len(MemoryMap)
    BY <2>1, LenProperties
  <2>3. m \in [base : Nat \ {0}, size : Nat, usable : BOOLEAN]
    BY <2>1, <2>2, ElementOfSeq
  <2>4. QED BY <2>3
<1> HIDE DEF m
<1>2. /\ RegionFirst(m) \in Nat /\ m.base <= RegionFirst(m) /\ RegionFirst(m) % 4 = 0
  BY <1>1, RoundedUp, Sizeof DEF RegionFirst
<1> DEFINE q == (m.base + m.size) \div 4
<1>3. q \in Nat /\ q * 4 <= m.base + m.size
  BY <1>1
<1>4. RegionEnd(m) = q * 4
  BY Sizeof DEF RegionEnd
<1> HIDE DEF q
<1>5. RegionEnd(m) - RegionFirst(m) >= 120
  BY Sizeof DEF Added, RegionFits, m
<1>6. RegionLast(m) = q * 4 - 40
  BY <1>4, Sizeof DEF RegionLast
<1>7. /\ RegionLast(m) \in Nat /\ RegionLast(m) + 40 <= m.base + m.size
      /\ RegionFirst(m) + 80 <= RegionLast(m)
  BY <1>1, <1>2, <1>3, <1>4, <1>5, <1>6
<1>8. RegionLast(m) % 4 = 0
  BY <1>3, <1>6, <1>7
<1>9. QED BY <1>1, <1>2, <1>7, <1>8 DEF m

LEMMA TwoRegions ==
  ASSUME NEW i \in DOMAIN MemoryMap, NEW j \in DOMAIN MemoryMap, i < j,
         Added(MemoryMap[i]), Added(MemoryMap[j])
  PROVE  \/ RegionLast(MemoryMap[i]) + 40 <= RegionFirst(MemoryMap[j])
         \/ RegionLast(MemoryMap[j]) + 40 <= RegionFirst(MemoryMap[i])
<1> DEFINE m == MemoryMap[i]
           k == MemoryMap[j]
<1>1. m.base + m.size <= k.base \/ k.base + k.size <= m.base
  BY MapAssumption DEF Added
<1>2. /\ m.base \in Nat /\ m.size \in Nat /\ RegionFirst(m) \in Nat
      /\ RegionLast(m) \in Nat
      /\ m.base <= RegionFirst(m) /\ RegionLast(m) + 40 <= m.base + m.size
  BY RegionBounds
<1>3. /\ k.base \in Nat /\ k.size \in Nat /\ RegionFirst(k) \in Nat
      /\ RegionLast(k) \in Nat
      /\ k.base <= RegionFirst(k) /\ RegionLast(k) + 40 <= k.base + k.size
  BY RegionBounds
<1> HIDE DEF m, k
<1>4. RegionLast(m) + 40 <= RegionFirst(k) \/ RegionLast(k) + 40 <= RegionFirst(m)
  BY <1>1, <1>2, <1>3
<1>5. QED BY <1>4 DEF m, k

LEMMA MapDomain == Len(MemoryMap) \in Nat /\ DOMAIN MemoryMap = 1 .. Len(MemoryMap)
BY HeapConstants, LenProperties

LEMMA EntriesBefore ==
  ASSUME NEW n \in 1 .. Len(MemoryMap) + 1
  PROVE  n - 1 \in 0 .. Len(MemoryMap) /\ \A i \in 1 .. n - 1 : i \in DOMAIN MemoryMap
BY MapDomain

\* The regions among the first n entries.
RegionsTo(n) == {MemoryMap[i] : i \in {j \in 1 .. n : Added(MemoryMap[j])}}

LEMMA RegionsAre == Regions = RegionsTo(entry - 1)
BY DEF Regions, RegionsTo, Added

LEMMA RegionsExtend ==
  ASSUME NEW n \in 0 .. Len(MemoryMap)
  PROVE  Extents(RegionsTo(n))
<1>1. \A i \in 1 .. n : i \in DOMAIN MemoryMap
  BY MapDomain
<1>2. ASSUME NEW m \in RegionsTo(n)
      PROVE  /\ RegionFirst(m) \in Nat \ {0} /\ RegionFirst(m) % 4 = 0
             /\ RegionLast(m) \in Nat /\ RegionLast(m) % 4 = 0
             /\ RegionFirst(m) + 80 <= RegionLast(m)
  <2>1. PICK i \in 1 .. n : Added(MemoryMap[i]) /\ m = MemoryMap[i]
    BY DEF RegionsTo
  <2>2. QED BY <1>1, <2>1, RegionBounds
<1>3. ASSUME NEW m \in RegionsTo(n), NEW k \in RegionsTo(n), m # k
      PROVE  \/ RegionLast(m) + 40 <= RegionFirst(k)
             \/ RegionLast(k) + 40 <= RegionFirst(m)
  <2>1. PICK i \in 1 .. n : Added(MemoryMap[i]) /\ m = MemoryMap[i]
    BY DEF RegionsTo
  <2>2. PICK j \in 1 .. n : Added(MemoryMap[j]) /\ k = MemoryMap[j]
    BY DEF RegionsTo
  <2>3. i < j \/ j < i
    BY <1>3, <2>1, <2>2
  <2>4. QED BY <1>1, <2>1, <2>2, <2>3, TwoRegions
<1>4. QED BY <1>2, <1>3 DEF Extents

LEMMA NextRegion ==
  ASSUME NEW n \in 1 .. Len(MemoryMap)
  PROVE  LET m == MemoryMap[n]
         IN  IF Added(m)
               THEN RegionsTo(n) = RegionsTo(n - 1) \cup {m} /\ m \notin RegionsTo(n - 1)
               ELSE RegionsTo(n) = RegionsTo(n - 1)
<1> DEFINE m == MemoryMap[n]
<1>1. 1 .. n = (1 .. n - 1) \cup {n} /\ n \in DOMAIN MemoryMap
      /\ \A i \in 1 .. n - 1 : i \in DOMAIN MemoryMap /\ i < n
  BY MapDomain
<1>2. CASE ~Added(m)
  BY <1>1, <1>2 DEF RegionsTo
<1>3. CASE Added(m)
  <2>1. RegionsTo(n) = RegionsTo(n - 1) \cup {m}
    BY <1>1, <1>3 DEF RegionsTo
  <2>2. ASSUME m \in RegionsTo(n - 1) PROVE FALSE
    <3>1. PICK i \in 1 .. n - 1 : Added(MemoryMap[i]) /\ m = MemoryMap[i]
      BY <2>2 DEF RegionsTo
    <3>2. RegionLast(m) + 40 <= RegionFirst(m)
      BY <1>1, <1>3, <3>1, TwoRegions
    <3>3. /\ RegionFirst(m) \in Nat /\ RegionLast(m) \in Nat
          /\ RegionFirst(m) + 80 <= RegionLast(m)
      BY <1>1, <1>3, RegionBounds
    <3>4. QED BY <3>2, <3>3
  <2>3. QED BY <1>3, <2>1, <2>2
<1>4. QED BY <1>2, <1>3

\* The ring of a new region: a sentinel, all of the memory, a sentinel.
LEMMA RingIs ==
  ASSUME NEW m, Extents({m})
  PROVE  LET c == Ring(m)
             b == RegionFirst(m) + 40
         IN  /\ DOMAIN c = {RegionFirst(m), b, RegionLast(m)}
             /\ Rings(c, {m}) /\ Unused(c) = {b}
             /\ c[RegionLast(m)].next = RegionFirst(m) /\ c[b].next = RegionLast(m)
             /\ c[RegionFirst(m)].next = b
<1> DEFINE a == RegionFirst(m)
           b == a + 40
           z == RegionLast(m)
           c0 == [x \in {a} |-> Alone(x)]
           c1 == InsertAfter(c0, a, b)
           c2 == InsertAfter(c1, b, z)
           c3 == [c2 EXCEPT ![a].used = TRUE]
           c == [c3 EXCEPT ![z].used = TRUE]
<1>1. /\ a \in Nat \ {0} /\ b \in Nat \ {0} /\ z \in Nat \ {0}
      /\ a % 4 = 0 /\ b % 4 = 0 /\ z % 4 = 0
      /\ a + 40 <= b /\ b + 40 <= z /\ a # b /\ a # z /\ b # z
  <2>1. a \in Nat \ {0} /\ a % 4 = 0 /\ z \in Nat /\ z % 4 = 0 /\ a + 80 <= z
    BY DEF Extents
  <2>2. QED BY <2>1
<1>2. DOMAIN c0 = {a} /\ c0[a].next = a /\ c0[a].prev = a /\ ~c0[a].used /\ Headers(c0)
  BY <1>1 DEF Alone, Headers
<1> HIDE DEF c0, a, b, z
<1>3. Inserted(c1, c0, a, b)
  BY <1>1, <1>2, InsertIs
<1> HIDE DEF c1
<1>4. /\ DOMAIN c1 = {a, b} /\ Headers(c1)
      /\ c1[a].next = b /\ c1[a].prev = b /\ c1[b].next = a /\ c1[b].prev = a
      /\ ~c1[a].used /\ ~c1[b].used
  BY <1>2, <1>3 DEF Inserted
<1>5. Inserted(c2, c1, b, z)
  BY <1>1, <1>4, InsertIs
<1> HIDE DEF c2
<1>6. /\ DOMAIN c2 = {a, b, z} /\ Headers(c2)
      /\ c2[a].next = b /\ c2[a].prev = z /\ c2[b].next = z /\ c2[b].prev = a
      /\ c2[z].next = a /\ c2[z].prev = b
      /\ ~c2[a].used /\ ~c2[b].used /\ ~c2[z].used
  BY <1>1, <1>4, <1>5 DEF Inserted
<1>7. Ring(m) = c
  BY Sizeof DEF Ring, RegionLast, c, c3, c2, c1, c0, a, b, z
<1>8. Marked(c3, c2, a, TRUE)
  BY <1>6, MarkIs
<1> HIDE DEF c3
<1>9. Marked(c, c3, z, TRUE)
  BY <1>6, <1>8, MarkIs DEF Marked
<1> HIDE DEF c
<1>10. /\ DOMAIN c = {a, b, z} /\ Headers(c)
       /\ c[a].next = b /\ c[a].prev = z /\ c[b].next = z /\ c[b].prev = a
       /\ c[z].next = a /\ c[z].prev = b
       /\ c[a].used /\ ~c[b].used /\ c[z].used
  <2>1. /\ DOMAIN c3 = {a, b, z}
        /\ c3[a].next = b /\ c3[a].prev = z /\ c3[b].next = z /\ c3[b].prev = a
        /\ c3[z].next = a /\ c3[z].prev = b
        /\ c3[a].used /\ ~c3[b].used
    BY <1>1, <1>6, <1>8 DEF Marked
  <2>2. /\ DOMAIN c = {a, b, z} /\ Headers(c)
        /\ \A x \in {a, b, z} :
             /\ c[x].next = c3[x].next /\ c[x].prev = c3[x].prev
             /\ c[x].used = IF x = z THEN TRUE ELSE c3[x].used
    BY <1>9, <2>1 DEF Marked
  <2>3. QED BY <1>1, <2>1, <2>2
<1>11. Linked(c)
  BY <1>1, <1>10 DEF Linked
<1>12. EndsOf({m}) = {z}
  BY DEF EndsOf, z
<1>13. Tiled(c, {m})
  <2>1. DOMAIN c \ EndsOf({m}) = {a, b}
    BY <1>1, <1>10, <1>12
  <2>2. a + 40 <= b /\ b + 40 <= z /\ a <= a /\ b <= b /\ z <= z /\ a <= b /\ b <= z
    BY <1>1
  <2>3. QED BY <1>10, <2>1, <2>2 DEF Tiled
<1>14. Closed(c, {m})
  BY <1>10, <1>12 DEF Closed, a, z
<1>15. Placed(c, {m})
  <2>1. RegionFirst(m) = a /\ RegionLast(m) = z
    BY DEF a, z
  <2>2. QED BY <1>1, <1>10, <2>1 DEF Placed
<1>16. Unused(c) = {b}
  BY <1>10 DEF Unused
<1>17. QED BY <1>7, <1>10, <1>11, <1>13, <1>14, <1>15, <1>16 DEF Rings, a, b, z

\* The chunks of e beside those of c.
Joined(e, c) == [a \in DOMAIN e \cup DOMAIN c |-> IF a \in DOMAIN e THEN e[a] ELSE c[a]]

WellJoined(e, c, R) ==
  /\ DOMAIN e \cap DOMAIN c = {}
  /\ Rings(Joined(e, c), R)
  /\ \A x \in DOMAIN c : Joined(e, c)[x] = c[x]

LEMMA JoinKeeps ==
  ASSUME NEW R, NEW m, m \notin R, Extents(R \cup {m}), NEW c, Rings(c, R),
         NEW e, Rings(e, {m})
  PROVE  WellJoined(e, c, R \cup {m})
<1> DEFINE d == Joined(e, c)
           S == R \cup {m}
<1>1. \A x \in DOMAIN c :
        /\ x \in Nat \ {0} /\ c[x].next \in DOMAIN c /\ c[x].prev \in DOMAIN c
        /\ c[x] \in [next : DOMAIN c, prev : DOMAIN c, used : BOOLEAN]
  BY DEF Rings, Headers
<1>2. \A x \in DOMAIN e :
        /\ x \in Nat \ {0} /\ e[x].next \in DOMAIN e /\ e[x].prev \in DOMAIN e
        /\ e[x] \in [next : DOMAIN e, prev : DOMAIN e, used : BOOLEAN]
  BY DEF Rings, Headers
<1>3. \A x \in DOMAIN e : RegionFirst(m) <= x /\ x <= RegionLast(m)
  BY DEF Rings, Placed
<1>4. /\ RegionFirst(m) \in Nat /\ RegionLast(m) \in Nat
      /\ RegionFirst(m) <= RegionLast(m)
  BY DEF Extents
<1>5. ASSUME NEW x \in DOMAIN c
      PROVE  \E k \in R : /\ RegionFirst(k) <= x /\ x <= RegionLast(k)
                          /\ \/ RegionLast(k) + 40 <= RegionFirst(m)
                             \/ RegionLast(m) + 40 <= RegionFirst(k)
                          /\ RegionFirst(k) \in Nat /\ RegionLast(k) \in Nat
  <2>1. PICK k \in R : RegionFirst(k) <= x /\ x <= RegionLast(k)
    BY DEF Rings, Placed
  <2>2. QED BY <2>1 DEF Extents
<1>6. \A x \in DOMAIN c : x + 40 <= RegionFirst(m) \/ RegionLast(m) + 40 <= x
  BY <1>1, <1>4, <1>5
<1>7. DOMAIN e \cap DOMAIN c = {}
  BY <1>2, <1>3, <1>4, <1>6
<1>8. /\ DOMAIN d = DOMAIN e \cup DOMAIN c
      /\ \A x \in DOMAIN e : d[x] = e[x]
      /\ \A x \in DOMAIN c : d[x] = c[x]
  BY <1>7 DEF Joined
<1> HIDE DEF d
<1>9. Headers(d)
  <2>1. ASSUME NEW x \in DOMAIN c
        PROVE  d[x] \in [next : DOMAIN d, prev : DOMAIN d, used : BOOLEAN]
    BY <1>1, <1>8
  <2>2. ASSUME NEW x \in DOMAIN e
        PROVE  d[x] \in [next : DOMAIN d, prev : DOMAIN d, used : BOOLEAN]
    BY <1>2, <1>8
  <2>3. QED BY <1>1, <1>2, <1>8, <2>1, <2>2 DEF Headers
<1>10. Linked(d)
  <2> SUFFICES ASSUME NEW x \in DOMAIN d, NEW y \in DOMAIN d
               PROVE  d[x].next = y <=> d[y].prev = x
    BY DEF Linked
  <2>1. CASE x \in DOMAIN c /\ y \in DOMAIN c
    BY <1>8, <2>1 DEF Rings, Linked
  <2>2. CASE x \in DOMAIN e /\ y \in DOMAIN e
    BY <1>8, <2>2 DEF Rings, Linked
  <2>3. CASE x \in DOMAIN c /\ y \in DOMAIN e
    <3>1. d[x].next \in DOMAIN c /\ d[y].prev \in DOMAIN e
      BY <1>1, <1>2, <1>8, <2>3
    <3>2. QED BY <1>7, <2>3, <3>1
  <2>4. CASE x \in DOMAIN e /\ y \in DOMAIN c
    <3>1. d[x].next \in DOMAIN e /\ d[y].prev \in DOMAIN c
      BY <1>1, <1>2, <1>8, <2>4
    <3>2. QED BY <1>7, <2>4, <3>1
  <2>5. QED BY <1>8, <2>1, <2>2, <2>3, <2>4
<1>11. EndsOf(S) = EndsOf(R) \cup EndsOf({m})
  BY DEF EndsOf
<1>12. RegionLast(m) \in DOMAIN e
  BY DEF Rings, Placed
<1>13. Tiled(d, S)
  <2>1. ASSUME NEW x \in DOMAIN e \ EndsOf(S)
        PROVE  /\ x + 40 <= d[x].next
               /\ \A y \in DOMAIN d : y <= x \/ d[x].next <= y
    <3>1. /\ d[x].next = e[x].next /\ x + 40 <= e[x].next
          /\ \A y \in DOMAIN e : y <= x \/ e[x].next <= y
      BY <1>8, <1>11 DEF Rings, Tiled
    <3>2. /\ x \in Nat /\ e[x].next \in Nat
          /\ RegionFirst(m) <= x /\ e[x].next <= RegionLast(m)
      BY <1>2, <1>3
    <3>3. ASSUME NEW y \in DOMAIN c PROVE y <= x \/ e[x].next <= y
      <4>1. y \in Nat /\ (y + 40 <= RegionFirst(m) \/ RegionLast(m) + 40 <= y)
        BY <1>1, <1>6
      <4>2. QED BY <1>4, <3>2, <4>1
    <3>4. QED BY <1>8, <3>1, <3>3
  <2>2. ASSUME NEW x \in DOMAIN c \ EndsOf(S)
        PROVE  /\ x + 40 <= d[x].next
               /\ \A y \in DOMAIN d : y <= x \/ d[x].next <= y
    <3>1. /\ d[x].next = c[x].next /\ x + 40 <= c[x].next
          /\ \A y \in DOMAIN c : y <= x \/ c[x].next <= y
      BY <1>8, <1>11 DEF Rings, Tiled
    <3>2. Extents(R)
      BY DEF Extents
    <3>3. PICK k \in R : RegionFirst(k) <= x /\ c[x].next <= RegionLast(k)
      BY <1>11, <3>2, EndAfter
    <3>4. /\ \/ RegionLast(k) + 40 <= RegionFirst(m)
             \/ RegionLast(m) + 40 <= RegionFirst(k)
          /\ RegionFirst(k) \in Nat /\ RegionLast(k) \in Nat
      BY DEF Extents
    <3>5. x \in Nat /\ c[x].next \in Nat
      BY <1>1
    <3>6. ASSUME NEW y \in DOMAIN e PROVE y <= x \/ c[x].next <= y
      <4>1. y \in Nat /\ RegionFirst(m) <= y /\ y <= RegionLast(m)
        BY <1>2, <1>3
      <4>2. QED BY <1>4, <3>3, <3>4, <3>5, <4>1
    <3>7. QED BY <1>8, <3>1, <3>6
  <2>3. QED BY <1>8, <2>1, <2>2 DEF Tiled
<1>14. Closed(d, S)
  <2>1. ASSUME NEW x \in DOMAIN d, x \in EndsOf(S)
        PROVE  \E k \in S : x = RegionLast(k) /\ d[x].next = RegionFirst(k)
    <3>1. CASE x \in DOMAIN c
      <4>1. x \in EndsOf(R)
        BY <1>7, <1>11, <1>12, <2>1, <3>1 DEF EndsOf
      <4>2. QED BY <1>8, <3>1, <4>1 DEF Rings, Closed
    <3>2. CASE x \in DOMAIN e
      <4>1. x \in EndsOf({m})
        <5>1. \A k \in R : RegionLast(k) \in DOMAIN c
          BY DEF Rings, Placed
        <5>2. QED BY <1>7, <1>11, <2>1, <3>2, <5>1 DEF EndsOf
      <4>2. QED BY <1>8, <3>2, <4>1 DEF Rings, Closed
    <3>3. QED BY <1>8, <3>1, <3>2
  <2>2. QED BY <2>1 DEF Closed
<1>15. Placed(d, S)
  <2>1. Placed(c, R) /\ Placed(e, {m})
    BY DEF Rings
  <2>2. QED BY <1>8, <2>1 DEF Placed
<1>16. QED BY <1>7, <1>8, <1>9, <1>10, <1>13, <1>14, <1>15 DEF Rings, d, WellJoined

-----------------------------------------------------------------------------
(* The chunk structure of the heap                                         *)

Used(c) == {a \in DOMAIN c : c[a].used}

NoNeighbours(c) == \A a \in DOMAIN c : c[a].used \/ c[c[a].next].used

Sound(c, lists, R) ==
  Rings(c, R) /\ Filed(lists, c, Unused(c)) /\ NoNeighbours(c)

\* Every unused chunk lies between the sentinels of its region.
LEMMA UnusedInside ==
  ASSUME NEW R, NEW c, Rings(c, R), NEW a \in Unused(c)
  PROVE  a \in DOMAIN c /\ ~c[a].used /\ a \notin FirstsOf(R) /\ a \notin EndsOf(R)
BY DEF Rings, Placed, Unused, FirstsOf, EndsOf

LEMMA AddSound ==
  ASSUME NEW R, NEW m, m \notin R, Extents(R \cup {m}),
         NEW c, NEW lists, Sound(c, lists, R)
  PROVE  LET e == Ring(m)
             d == Joined(e, c)
         IN  /\ Sound(d, PushFree(lists, d, RegionFirst(m) + 40), R \cup {m})
             /\ Used(d) = Used(c) \cup {RegionFirst(m), RegionLast(m)}
             /\ \A x \in DOMAIN c : x \in DOMAIN d /\ d[x] = c[x]
             /\ RegionFirst(m) \notin DOMAIN c /\ RegionLast(m) \notin DOMAIN c
<1> DEFINE e == Ring(m)
           b == RegionFirst(m) + 40
           d == Joined(e, c)
<1>1. Extents({m})
  BY DEF Extents
<1>2. /\ DOMAIN e = {RegionFirst(m), b, RegionLast(m)}
      /\ Rings(e, {m}) /\ Unused(e) = {b}
      /\ e[RegionLast(m)].next = RegionFirst(m) /\ e[b].next = RegionLast(m)
      /\ e[RegionFirst(m)].next = b
  BY <1>1, RingIs
<1> HIDE DEF e
<1>3. /\ DOMAIN e \cap DOMAIN c = {} /\ Rings(d, R \cup {m})
      /\ \A x \in DOMAIN c : d[x] = c[x]
  <2>1. Rings(c, R) /\ Rings(e, {m})
    BY <1>2 DEF Sound
  <2>2. WellJoined(e, c, R \cup {m})
    BY <2>1, JoinKeeps
  <2>3. QED BY <2>2 DEF WellJoined
<1>4. DOMAIN d = DOMAIN e \cup DOMAIN c /\ \A x \in DOMAIN e : d[x] = e[x]
  BY DEF Joined
<1> HIDE DEF d
<1>5. e[RegionFirst(m)].used /\ e[RegionLast(m)].used /\ ~e[b].used
  BY <1>2 DEF Rings, Placed, Unused
<1>6. Unused(d) = Unused(c) \cup {b} /\ b \in DOMAIN d /\ b \notin Unused(c)
  BY <1>2, <1>3, <1>4 DEF Unused
<1>7. Used(d) = Used(c) \cup {RegionFirst(m), RegionLast(m)}
  BY <1>2, <1>3, <1>4, <1>5 DEF Used
<1>8. Filed(lists, d, Unused(c))
  BY <1>3, SameFiled DEF Sound, Unused
<1>9. Filed(PushFree(lists, d, b), d, Unused(d))
  <2>1. Headers(d) /\ Unused(c) \in SUBSET DOMAIN d
    BY <1>3, <1>4 DEF Rings, Unused
  <2>2. QED BY <1>6, <1>8, <2>1, AddFiled
<1>10. NoNeighbours(d)
  <2>1. ASSUME NEW x \in DOMAIN c PROVE d[x].used \/ d[d[x].next].used
    <3>1. c[x].next \in DOMAIN c
      BY DEF Sound, Rings, Headers
    <3>2. QED BY <1>3, <3>1 DEF Sound, NoNeighbours
  <2>2. ASSUME NEW x \in DOMAIN e PROVE d[x].used \/ d[d[x].next].used
    BY <1>2, <1>4, <1>5
  <2>3. QED BY <1>4, <2>1, <2>2 DEF NoNeighbours
<1>11. QED BY <1>2, <1>3, <1>4, <1>7, <1>9, <1>10 DEF Sound, d, e

\* A chunk mrvn_malloc finds is unused and large enough.
LEMMA FoundFits ==
  ASSUME NEW R, Sound(chunk, free_chunk, R), NEW size \in Nat, NEW a \in Found(size)
  PROVE  a \in Unused(chunk) /\ Needed(size) <= ChunkSize(chunk, a)
<1>1. PICK n \in Fitting(size) : a = Head(free_chunk[n])
  BY DEF Found
<1>2. n \in Slots /\ n > Slot(Needed(size) - 1) /\ free_chunk[n] # <<>>
  BY <1>1 DEF Fitting
<1>3. Filed(free_chunk, chunk, Unused(chunk)) /\ Headers(chunk)
  BY DEF Sound, Rings
<1>4. free_chunk[n] \in Seq(Nat)
  BY <1>2, <1>3 DEF Filed
<1>5. 1 \in DOMAIN free_chunk[n] /\ a = free_chunk[n][1]
  BY <1>1, <1>2, <1>4, EmptySeq, LenProperties
<1>6. a \in Elements(free_chunk[n])
  BY <1>5 DEF Elements
<1>7. a \in Unused(chunk) /\ Bucket(ChunkSize(chunk, a)) = n
  BY <1>2, <1>3, <1>6 DEF Filed
<1>8. Needed(size) \in Nat /\ Needed(size) >= 16
  BY NeededIs
<1>9. ChunkSize(chunk, a) \in Int
  BY <1>3, <1>7, SizeIsNumber DEF Unused
<1>10. QED BY <1>2, <1>7, <1>8, <1>9, ClassFits

\* What mrvn_malloc does to the chunks: a is used and large enough; no other
\* chunk in use changes.
LEMMA MallocSound ==
  ASSUME NEW R, Extents(R), Sound(chunk, free_chunk, R),
         NEW size \in Nat, NEW a \in Found(size), Malloc(size, a)
  PROVE  /\ Sound(chunk', free_chunk', R)
         /\ DOMAIN chunk \subseteq DOMAIN chunk'
         /\ Used(chunk') = Used(chunk) \cup {a} /\ a \in Unused(chunk)
         /\ \A x \in Used(chunk) : chunk'[x].next = chunk[x].next
         /\ a + 24 + size <= chunk'[a].next
<1> DEFINE U == Unused(chunk)
           popped == RemoveFree(free_chunk, chunk, a)
           rest == a + 24 + Needed(size)
           c == InsertAfter(chunk, a, rest)
<1>1. a \in U /\ Needed(size) <= ChunkSize(chunk, a)
  BY FoundFits
<1>2. a \in DOMAIN chunk /\ ~chunk[a].used /\ a \notin FirstsOf(R) /\ a \notin EndsOf(R)
  BY <1>1, UnusedInside DEF Sound
<1>3. Headers(chunk) /\ Rings(chunk, R) /\ U \in SUBSET DOMAIN chunk
  BY DEF Sound, Rings, Unused
<1>4. a \in Nat /\ chunk[a].next \in Nat
  BY <1>2, <1>3, SizeIsNumber
<1>5. /\ Needed(size) \in Nat /\ Needed(size) >= 16 /\ size <= Needed(size)
      /\ Needed(size) % 4 = 0
  BY NeededIs
<1>6. ChunkSize(chunk, a) = chunk[a].next - a - 24
  BY Sizeof DEF ChunkSize
<1>7. Filed(popped, chunk, U \ {a})
  BY <1>1, <1>3, DropFiled DEF Sound
<1>8. CASE Needed(size) + 40 <= ChunkSize(chunk, a)
  <2>1. chunk' = [c EXCEPT ![a].used = TRUE] /\ free_chunk' = PushFree(popped, c, rest)
    BY <1>8, Sizeof DEF Malloc, Splits, Split
  <2>2. rest \in Nat /\ rest % 4 = 0 /\ a + 40 <= rest /\ rest + 40 <= chunk[a].next
    <3>1. a % 4 = 0
      BY <1>2, <1>3 DEF Rings, Placed
    <3>2. QED BY <1>4, <1>5, <1>6, <1>8, <3>1
  <2> HIDE DEF rest
  <2>3. rest \notin DOMAIN chunk /\ Rings(c, R)
    BY <1>2, <1>3, <2>2, InsertKeeps
  <2>4. Inserted(c, chunk, a, rest)
    BY <1>2, <1>3, <1>4, <2>2, <2>3, InsertIs
  <2> HIDE DEF c, popped
  <2>5. Rings(chunk', R) /\ Marked(chunk', c, a, TRUE)
    BY <1>2, <2>1, <2>3, <2>4, UseKeeps DEF Inserted
  <2>6. /\ DOMAIN chunk' = DOMAIN chunk \cup {rest} /\ rest # a
        /\ chunk'[a].next = rest /\ chunk'[a].used
        /\ chunk'[rest].next = chunk[a].next /\ ~chunk'[rest].used
        /\ \A x \in DOMAIN chunk \ {a} :
             chunk'[x].next = chunk[x].next /\ chunk'[x].used = chunk[x].used
    <3>1. /\ DOMAIN c = DOMAIN chunk \cup {rest} /\ rest # a
          /\ c[a].next = rest
          /\ c[rest].next = chunk[a].next /\ ~c[rest].used
          /\ \A x \in DOMAIN chunk \ {a} :
               c[x].next = chunk[x].next /\ c[x].used = chunk[x].used
      BY <1>2, <2>3, <2>4 DEF Inserted
    <3>2. /\ DOMAIN chunk' = DOMAIN c
          /\ \A x \in DOMAIN c : /\ chunk'[x].next = c[x].next
                                  /\ chunk'[x].used = IF x = a THEN TRUE ELSE c[x].used
      BY <2>5 DEF Marked
    <3>3. QED BY <1>2, <2>3, <3>1, <3>2
  <2>7. Unused(chunk') = (U \ {a}) \cup {rest} /\ Used(chunk') = Used(chunk) \cup {a}
    BY <1>2, <2>3, <2>6 DEF Unused, Used
  <2>8. Filed(free_chunk', c, Unused(chunk'))
    <3>1. \A x \in U \ {a} : c[x].next = chunk[x].next
      BY <1>3, <2>4 DEF Inserted
    <3>2. Filed(popped, c, U \ {a})
      BY <1>7, <3>1, SameFiled
    <3>3. /\ Headers(c) /\ U \ {a} \in SUBSET DOMAIN c
          /\ rest \in DOMAIN c /\ rest \notin U \ {a}
      BY <1>3, <2>3, <2>4 DEF Inserted
    <3>4. Filed(PushFree(popped, c, rest), c, (U \ {a}) \cup {rest})
      BY <3>2, <3>3, AddFiled
    <3>5. QED BY <2>1, <2>7, <3>4
  <2>9. Filed(free_chunk', chunk', Unused(chunk'))
    <3>1. \A x \in Unused(chunk') : chunk'[x].next = c[x].next
      BY <2>5 DEF Marked, Unused
    <3>2. QED BY <2>8, <3>1, SameFiled
  <2>10. NoNeighbours(chunk')
    <3>1. chunk[a].next \in DOMAIN chunk /\ chunk[chunk[a].next].used
      BY <1>2, <1>3 DEF Sound, NoNeighbours, Headers
    <3>2. chunk'[chunk'[rest].next].used
      BY <1>2, <2>6, <3>1
    <3>3. ASSUME NEW x \in DOMAIN chunk \ {a}
          PROVE  chunk'[x].used \/ chunk'[chunk'[x].next].used
      <4>1. chunk[x].next \in DOMAIN chunk /\ (chunk[x].used \/ chunk[chunk[x].next].used)
        BY <1>3 DEF Sound, NoNeighbours, Headers
      <4>2. QED BY <2>6, <4>1
    <3>4. QED BY <2>6, <3>2, <3>3 DEF NoNeighbours
  <2>11. a + 24 + size <= chunk'[a].next
    BY <1>4, <1>5, <2>6 DEF rest
  <2>12. QED BY <1>1, <1>2, <2>5, <2>6, <2>7, <2>9, <2>10, <2>11 DEF Sound, Used
<1>9. CASE ~(Needed(size) + 40 <= ChunkSize(chunk, a))
  <2>1. chunk' = [chunk EXCEPT ![a].used = TRUE] /\ free_chunk' = popped
    BY <1>9, Sizeof DEF Malloc, Splits
  <2> HIDE DEF popped
  <2>2. Rings(chunk', R) /\ Marked(chunk', chunk, a, TRUE)
    BY <1>2, <1>3, <2>1, UseKeeps
  <2>3. /\ DOMAIN chunk' = DOMAIN chunk /\ chunk'[a].used
        /\ \A x \in DOMAIN chunk : chunk'[x].next = chunk[x].next
        /\ \A x \in DOMAIN chunk \ {a} : chunk'[x].used = chunk[x].used
    BY <1>2, <2>2 DEF Marked
  <2>4. Unused(chunk') = U \ {a} /\ Used(chunk') = Used(chunk) \cup {a}
    BY <1>2, <2>3 DEF Unused, Used
  <2>5. Filed(free_chunk', chunk', Unused(chunk'))
    BY <1>3, <1>7, <2>1, <2>3, <2>4, SameFiled
  <2>6. NoNeighbours(chunk')
    <3>1. ASSUME NEW x \in DOMAIN chunk
          PROVE  chunk'[x].used \/ chunk'[chunk'[x].next].used
      <4>1. chunk[x].next \in DOMAIN chunk /\ (chunk[x].used \/ chunk[chunk[x].next].used)
        BY <1>3 DEF Sound, NoNeighbours, Headers
      <4>2. QED BY <2>3, <4>1
    <3>2. QED BY <2>3, <3>1 DEF NoNeighbours
  <2>7. a + 24 + size <= chunk'[a].next
    BY <1>1, <1>2, <1>4, <1>5, <1>6, <2>3
  <2>8. QED BY <1>1, <2>2, <2>3, <2>4, <2>5, <2>6, <2>7 DEF Sound, Used
<1>10. QED BY <1>8, <1>9

\* What mrvn_free does first: the chunk after a is a used one then.
LEMMA MergeNextSound ==
  ASSUME NEW R, Extents(R), Sound(chunk, free_chunk, R),
         NEW a \in Used(chunk), a \notin FirstsOf(R), a \notin EndsOf(R)
  PROVE  LET c == AfterNext(a)[1]
         IN  /\ Sound(c, AfterNext(a)[2], R)
             /\ Used(c) = Used(chunk) /\ c[c[a].next].used
             /\ \A x \in Used(chunk) \ {a} : c[x].next = chunk[x].next
<1> DEFINE n == chunk[a].next
<1>1. /\ Headers(chunk) /\ Rings(chunk, R) /\ a \in DOMAIN chunk
      /\ n \in DOMAIN chunk /\ chunk[n].prev = a
  BY DEF Sound, Rings, Headers, Linked, Used
<1>2. CASE chunk[n].used
  BY <1>2 DEF AfterNext
<1>3. CASE ~chunk[n].used
  <2> DEFINE c == Unlink(chunk, n)
             lists == RemoveFree(free_chunk, chunk, n)
  <2>1. AfterNext(a) = <<c, lists>>
    BY <1>3 DEF AfterNext
  <2> HIDE DEF c, lists
  <2>2. n \in Unused(chunk) /\ n \notin FirstsOf(R) /\ n \notin EndsOf(R)
    BY <1>1, <1>3, UnusedInside DEF Unused
  <2>3. Rings(c, R) /\ Unlinked(c, chunk, n) /\ chunk[n].next \in DOMAIN chunk \ {n}
    BY <1>1, <2>2, UnlinkKeeps DEF c
  <2>4. chunk[chunk[n].next].used
    BY <1>1, <1>3 DEF Sound, NoNeighbours
  <2>5. /\ DOMAIN c = DOMAIN chunk \ {n} /\ a # n
        /\ c[a].next = chunk[n].next
        /\ \A x \in DOMAIN c : c[x].used = chunk[x].used
        /\ \A x \in DOMAIN c \ {a} : c[x].next = chunk[x].next
    BY <1>1, <1>3, <2>3 DEF Unlinked, Used
  <2>6. Used(c) = Used(chunk) /\ Unused(c) = Unused(chunk) \ {n}
    BY <1>1, <1>3, <2>5 DEF Used, Unused
  <2>7. c[c[a].next].used
    BY <2>3, <2>4, <2>5
  <2>8. Filed(lists, c, Unused(c))
    <3>1. Filed(lists, chunk, Unused(chunk) \ {n})
      BY <1>1, <2>2, DropFiled DEF Sound, Unused, lists
    <3>2. \A x \in Unused(chunk) \ {n} : c[x].next = chunk[x].next
      BY <2>5 DEF Unused, Used
    <3>3. QED BY <2>6, <3>1, <3>2, SameFiled
  <2>9. NoNeighbours(c)
    <3>1. ASSUME NEW x \in DOMAIN c, x # a
          PROVE  c[x].used \/ c[c[x].next].used
      <4>1. /\ chunk[x].next \in DOMAIN chunk
            /\ chunk[x].used \/ chunk[chunk[x].next].used
        BY <1>1, <2>5 DEF Sound, NoNeighbours, Headers
      <4>2. chunk[x].next # n
        BY <1>1, <2>5, <3>1 DEF Rings, Linked
      <4>3. QED BY <2>5, <3>1, <4>1, <4>2
    <3>2. QED BY <2>5, <2>7, <3>1 DEF NoNeighbours
  <2>10. \A x \in Used(chunk) \ {a} : c[x].next = chunk[x].next
    BY <1>3, <2>5 DEF Used
  <2>11. Sound(c, lists, R)
    BY <2>3, <2>8, <2>9 DEF Sound
  <2>12. QED BY <2>1, <2>6, <2>7, <2>10, <2>11
<1>4. QED BY <1>2, <1>3

\* Then a leaves the ring, or becomes an unused chunk.
LEMMA MergePrevSound ==
  ASSUME NEW R, Extents(R), NEW c, NEW lists, Sound(c, lists, R),
         NEW a \in Used(c), a \notin FirstsOf(R), a \notin EndsOf(R), c[c[a].next].used
  PROVE  LET d == AfterPrev(c, lists, a)[1]
         IN  /\ Sound(d, AfterPrev(c, lists, a)[2], R)
             /\ Used(d) = Used(c) \ {a}
             /\ \A x \in Used(d) : d[x].next = c[x].next
<1> DEFINE p == c[a].prev
           n == c[a].next
<1>1. /\ Headers(c) /\ Rings(c, R) /\ a \in DOMAIN c /\ c[a].used
      /\ n \in DOMAIN c /\ p \in DOMAIN c /\ c[p].next = a
  BY DEF Sound, Rings, Headers, Linked, Used
<1>2. \A x \in DOMAIN c :
        c[x].next \in DOMAIN c /\ (c[x].used \/ c[c[x].next].used) /\ (c[x].next = a <=> x = p)
  BY <1>1 DEF Sound, NoNeighbours, Headers, Rings, Linked
<1>3. a + 40 <= n /\ a \in Nat /\ n \in Nat /\ a # n
  <2>1. a + 40 <= n
    BY <1>1 DEF Rings, Tiled
  <2>2. a \in Nat /\ n \in Nat
    BY <1>1 DEF Headers
  <2>3. QED BY <2>1, <2>2
<1>4. CASE c[p].used
  <2> DEFINE d == [c EXCEPT ![a].used = FALSE]
  <2>1. AfterPrev(c, lists, a) = <<d, PushFree(lists, d, a)>>
    <3>1. \A x \in DOMAIN c : d[x].next = c[x].next
      BY <1>1, MarkIs DEF Marked
    <3>2. ChunkSize(d, a) = ChunkSize(c, a)
      BY <1>1, <3>1 DEF ChunkSize
    <3>3. QED BY <1>4, <3>2 DEF AfterPrev, PushFree
  <2>2. Rings(d, R) /\ Marked(d, c, a, FALSE)
    BY <1>1, UseKeeps
  <2> HIDE DEF d
  <2>3. /\ DOMAIN d = DOMAIN c /\ Headers(d) /\ ~d[a].used
        /\ \A x \in DOMAIN c : d[x].next = c[x].next
        /\ \A x \in DOMAIN c \ {a} : d[x].used = c[x].used
    BY <1>1, <2>2 DEF Marked
  <2>4. Used(d) = Used(c) \ {a} /\ Unused(d) = Unused(c) \cup {a} /\ a \notin Unused(c)
    BY <1>1, <2>3 DEF Used, Unused
  <2>5. Filed(PushFree(lists, d, a), d, Unused(d))
    <3>1. Filed(lists, d, Unused(c))
      BY <2>3, SameFiled DEF Sound, Unused
    <3>2. Unused(c) \in SUBSET DOMAIN d /\ a \in DOMAIN d
      BY <1>1, <2>3 DEF Unused
    <3>3. QED BY <2>3, <2>4, <3>1, <3>2, AddFiled
  <2>6. NoNeighbours(d)
    <3>1. d[d[a].next].used
      BY <1>1, <1>3, <2>3
    <3>2. ASSUME NEW x \in DOMAIN c, x # a PROVE d[x].used \/ d[d[x].next].used
      <4>1. CASE x = p
        BY <1>1, <1>4, <2>3, <3>2, <4>1
      <4>2. CASE x # p
        BY <1>2, <2>3, <3>2, <4>2
      <4>3. QED BY <4>1, <4>2
    <3>3. QED BY <2>3, <3>1, <3>2 DEF NoNeighbours
  <2>7. Sound(d, PushFree(lists, d, a), R)
    BY <2>2, <2>5, <2>6 DEF Sound
  <2>8. \A x \in Used(d) : d[x].next = c[x].next
    BY <2>3 DEF Used
  <2>9. QED BY <2>1, <2>4, <2>7, <2>8
<1>5. CASE ~c[p].used
  <2> DEFINE d == Unlink(c, a)
             popped == RemoveFree(lists, c, p)
  <2>1. AfterPrev(c, lists, a) = <<d, PushFree(popped, d, p)>>
    BY <1>5 DEF AfterPrev
  <2>2. Rings(d, R) /\ Unlinked(d, c, a)
    BY <1>1, UnlinkKeeps
  <2>3. Filed(popped, c, Unused(c) \ {p}) /\ p \in Unused(c)
    BY <1>1, <1>5, DropFiled DEF Sound, Unused
  <2> HIDE DEF d, popped
  <2>4. /\ DOMAIN d = DOMAIN c \ {a} /\ Headers(d) /\ p # a
        /\ d[p].next = n
        /\ \A x \in DOMAIN d : d[x].used = c[x].used
        /\ \A x \in DOMAIN d \ {p} : d[x].next = c[x].next
    BY <1>1, <1>5, <2>2 DEF Unlinked
  <2>5. Used(d) = Used(c) \ {a} /\ Unused(d) = Unused(c)
    BY <1>1, <2>4 DEF Used, Unused
  <2>6. Filed(PushFree(popped, d, p), d, Unused(d))
    <3>1. \A x \in Unused(c) \ {p} : d[x].next = c[x].next
      BY <1>1, <2>4 DEF Unused
    <3>2. Filed(popped, d, Unused(c) \ {p})
      BY <2>3, <3>1, SameFiled
    <3>3. /\ Unused(c) \ {p} \in SUBSET DOMAIN d /\ p \in DOMAIN d
          /\ p \notin Unused(c) \ {p} /\ (Unused(c) \ {p}) \cup {p} = Unused(d)
      BY <1>1, <2>3, <2>4, <2>5 DEF Unused
    <3>4. QED BY <2>4, <3>2, <3>3, AddFiled
  <2>7. NoNeighbours(d)
    <3>1. d[d[p].next].used
      BY <1>1, <1>3, <2>4
    <3>2. ASSUME NEW x \in DOMAIN d, x # p PROVE d[x].used \/ d[d[x].next].used
      <4>1. d[x].next = c[x].next /\ c[x].next \in DOMAIN d
        BY <1>2, <2>4, <3>2
      <4>2. QED BY <1>2, <2>4, <4>1
    <3>3. QED BY <2>4, <3>1, <3>2 DEF NoNeighbours
  <2>8. Sound(d, PushFree(popped, d, p), R)
    BY <2>2, <2>6, <2>7 DEF Sound
  <2>9. \A x \in Used(d) : d[x].next = c[x].next
    BY <1>5, <2>4 DEF Used
  <2>10. QED BY <2>1, <2>5, <2>8, <2>9
<1>6. QED BY <1>4, <1>5

-----------------------------------------------------------------------------
(* Blocks and their chunks                                                 *)

Home(p) == Raw(p) - HEADER_SIZE

\* Every block of a caller is in a chunk of its own, behind the header and, where
\* there is one, the tag; every other chunk in use is a sentinel.
Blocked ==
  /\ \A p \in DOMAIN live :
       /\ live[p] \in Requests
       /\ Home(p) \in DOMAIN chunk
       /\ Home(p) \notin FirstsOf(Regions) \cup EndsOf(Regions)
       /\ Home(p) + 24 <= p
       /\ p \in DOMAIN tag => Home(p) + 40 <= p
       /\ p \in Nat /\ p + live[p][1] <= chunk[Home(p)].next
  /\ \A p, q \in DOMAIN live : Home(p) = Home(q) => p = q
  /\ Used(chunk) = FirstsOf(Regions) \cup EndsOf(Regions) \cup {Home(p) : p \in DOMAIN live}

HeapInv ==
  /\ entry \in 1 .. Len(MemoryMap) + 1
  /\ Sound(chunk, free_chunk, Regions)
  /\ Blocked

LEMMA RequestsAre ==
  ASSUME NEW r \in Requests
  PROVE  r[1] \in Nat \ {0} /\ r[2] \in Nat \ {0}
BY HeapConstants, Sizeof DEF Requests, Bytes

LEMMA RegionsExist ==
  ASSUME entry \in 1 .. Len(MemoryMap) + 1
  PROVE  Extents(Regions)
<1>1. entry - 1 \in 0 .. Len(MemoryMap)
  BY MapDomain
<1>2. QED BY <1>1, RegionsExtend, RegionsAre

LEMMA RegionsNext == Regions' = RegionsTo(entry' - 1)
BY DEF Regions, RegionsTo, Added

\* No chunk begins in or after the block in another chunk, up to its end.
LEMMA NothingInBlock ==
  ASSUME NEW R, NEW c, Rings(c, R), NEW x \in DOMAIN c \ EndsOf(R), NEW y \in DOMAIN c
  PROVE  y <= x \/ c[x].next <= y
BY DEF Rings, Tiled

\* A chunk mrvn_malloc returned becomes a block; its caller may have put a tag
\* before the pointer it returns.
LEMMA TakeKeeps ==
  ASSUME HeapInv, UNCHANGED entry,
         NEW size \in Nat, NEW a \in Found(size), Malloc(size, a),
         NEW p \in Nat, NEW r \in Requests,
         live' = With(live, p, r),
         \/ p = a + 24 /\ tag' = TagsAfterHeaders(Written(a))
         \/ a + 40 <= p /\ tag' = With(TagsAfterHeaders(Written(a)), p, a + 24),
         p + r[1] <= a + 24 + size
  PROVE  HeapInv' /\ p \notin DOMAIN live
<1> DEFINE R == Regions
<1>1. Extents(R) /\ R' = R /\ Sound(chunk, free_chunk, R)
  <2>1. R' = R
    BY RegionsNext, RegionsAre
  <2>2. QED BY <2>1, RegionsExist DEF HeapInv
<1>2. /\ Sound(chunk', free_chunk', R)
      /\ DOMAIN chunk \subseteq DOMAIN chunk'
      /\ Used(chunk') = Used(chunk) \cup {a} /\ a \in Unused(chunk)
      /\ \A x \in Used(chunk) : chunk'[x].next = chunk[x].next
      /\ a + 24 + size <= chunk'[a].next
  BY <1>1, MallocSound
<1> HIDE DEF R
<1>3. /\ a \in DOMAIN chunk /\ ~chunk[a].used
      /\ a \notin FirstsOf(R) /\ a \notin EndsOf(R)
  BY <1>1, <1>2, UnusedInside DEF Sound
<1>4. \A x \in DOMAIN chunk' : x \in Nat /\ chunk'[x].next \in Nat
  BY <1>2 DEF Sound, Rings, Headers
<1>5. r[1] \in Nat \ {0}
  BY RequestsAre
<1>6. a + 24 <= p /\ p < chunk'[a].next /\ p + r[1] <= chunk'[a].next /\ a \in Nat
  BY <1>2, <1>3, <1>4, <1>5
<1>7. ASSUME NEW q \in DOMAIN live
      PROVE  /\ live[q] \in Requests /\ Home(q) \in DOMAIN chunk'
             /\ Home(q) \notin FirstsOf(R) \cup EndsOf(R)
             /\ Home(q) # a
             /\ Home(q) + 24 <= q /\ (q \in DOMAIN tag => Home(q) + 40 <= q)
             /\ q \in Nat /\ q + live[q][1] <= chunk'[Home(q)].next
             /\ Home(q) \in Nat /\ q < chunk'[Home(q)].next
  <2>1. /\ live[q] \in Requests /\ Home(q) \in Used(chunk)
        /\ Home(q) \notin FirstsOf(R) \cup EndsOf(R)
        /\ Home(q) + 24 <= q /\ (q \in DOMAIN tag => Home(q) + 40 <= q)
        /\ q \in Nat /\ q + live[q][1] <= chunk[Home(q)].next
    BY DEF HeapInv, Blocked, R
  <2>2. Home(q) # a /\ Home(q) \in DOMAIN chunk' /\ chunk'[Home(q)].next = chunk[Home(q)].next
    BY <1>2, <1>3, <2>1 DEF Used
  <2>3. live[q][1] \in Nat \ {0}
    BY <2>1, RequestsAre
  <2>4. q < chunk'[Home(q)].next /\ Home(q) \in Nat
    BY <1>4, <2>1, <2>2, <2>3
  <2>5. QED BY <2>1, <2>2, <2>4
<1>8. ASSUME NEW q \in DOMAIN live, NEW y \in DOMAIN chunk'
      PROVE  y <= Home(q) \/ chunk'[Home(q)].next <= y
  BY <1>2, <1>7, NothingInBlock DEF Sound
<1>9. \A y \in DOMAIN chunk' : y <= a \/ chunk'[a].next <= y
  BY <1>2, <1>3, NothingInBlock DEF Sound
<1>10. p \notin DOMAIN live
  <2> SUFFICES ASSUME p \in DOMAIN live PROVE FALSE
    OBVIOUS
  <2> DEFINE x == Home(p)
  <2>1. /\ x \in DOMAIN chunk' /\ x # a /\ x + 24 <= p /\ p < chunk'[x].next /\ x \in Nat
    BY <1>7
  <2>2. (a <= x \/ chunk'[x].next <= a) /\ (x <= a \/ chunk'[a].next <= x)
    BY <1>2, <1>3, <1>8, <1>9, <2>1
  <2> HIDE DEF x
  <2>3. chunk'[x].next \in Nat /\ chunk'[a].next \in Nat
    BY <1>2, <1>3, <1>4, <2>1
  <2>4. QED BY <1>6, <2>1, <2>2, <2>3
<1>11. ASSUME NEW q \in DOMAIN live
       PROVE  (q \in DOMAIN tag' <=> q \in DOMAIN tag) /\ Raw(q)' = Raw(q)
  <2>1. q # p
    BY <1>10
  <2>2. q \in DOMAIN tag => q - 24 \notin Written(a)
    <3> SUFFICES ASSUME q \in DOMAIN tag, q - 24 \in DOMAIN chunk' PROVE FALSE
      BY <1>2, <1>3 DEF Written
    <3> DEFINE x == Home(q)
    <3>1. /\ x \in DOMAIN chunk' /\ x + 40 <= q /\ q < chunk'[x].next
          /\ x \in Nat /\ q \in Nat
      BY <1>7
    <3>2. q - 24 <= x \/ chunk'[x].next <= q - 24
      BY <1>8
    <3> HIDE DEF x
    <3>3. chunk'[x].next \in Nat
      BY <1>4, <3>1
    <3>4. QED BY <3>1, <3>2, <3>3
  <2> DEFINE t == TagsAfterHeaders(Written(a))
  <2>3. (q \in DOMAIN t <=> q \in DOMAIN tag) /\ (q \in DOMAIN tag => t[q] = tag[q])
    BY <2>2, Sizeof DEF TagsAfterHeaders
  <2> HIDE DEF t
  <2>4. tag' = t \/ tag' = With(t, p, a + 24)
    BY DEF t
  <2>5. (q \in DOMAIN tag' <=> q \in DOMAIN t) /\ (q \in DOMAIN t => tag'[q] = t[q])
    BY <2>1, <2>4 DEF With
  <2>6. QED BY <2>3, <2>5 DEF Raw
<1>12. Raw(p)' = a + 24 /\ (p \in DOMAIN tag' => a + 40 <= p)
  <2>1. CASE p = a + 24 /\ tag' = TagsAfterHeaders(Written(a))
    <3>1. p \notin DOMAIN tag'
      BY <1>6, <2>1, Sizeof DEF TagsAfterHeaders, Written
    <3>2. QED BY <2>1, <3>1 DEF Raw
  <2>2. CASE a + 40 <= p /\ tag' = With(TagsAfterHeaders(Written(a)), p, a + 24)
    BY <2>2 DEF Raw, With
  <2>3. QED BY <2>1, <2>2
<1>13. DOMAIN live' = DOMAIN live \cup {p} /\ live'[p] = r
       /\ \A q \in DOMAIN live : live'[q] = live[q]
  BY <1>10 DEF With
<1>14. Home(p)' = a /\ \A q \in DOMAIN live : Home(q)' = Home(q)
  BY <1>6, <1>11, <1>12, Sizeof DEF Home
<1>15. Blocked'
  <2>1. ASSUME NEW q \in DOMAIN live'
        PROVE  /\ live'[q] \in Requests /\ Home(q)' \in DOMAIN chunk'
               /\ Home(q)' \notin FirstsOf(R) \cup EndsOf(R)
               /\ Home(q)' + 24 <= q /\ (q \in DOMAIN tag' => Home(q)' + 40 <= q)
               /\ q \in Nat /\ q + live'[q][1] <= chunk'[Home(q)'].next
    <3>1. CASE q = p
      BY <1>2, <1>3, <1>6, <1>12, <1>13, <1>14, <3>1
    <3>2. CASE q \in DOMAIN live
      BY <1>7, <1>11, <1>13, <1>14, <3>2
    <3>3. QED BY <1>13, <3>1, <3>2
  <2>2. ASSUME NEW q \in DOMAIN live', NEW w \in DOMAIN live', Home(q)' = Home(w)'
        PROVE  q = w
    BY <1>7, <1>13, <1>14, <2>2 DEF HeapInv, Blocked
  <2>3. Used(chunk)' = FirstsOf(R) \cup EndsOf(R) \cup {Home(q)' : q \in DOMAIN live'}
    <3>1. Used(chunk) = FirstsOf(R) \cup EndsOf(R) \cup {Home(q) : q \in DOMAIN live}
      BY DEF HeapInv, Blocked, R
    <3>2. {Home(q)' : q \in DOMAIN live'} = {Home(q) : q \in DOMAIN live} \cup {a}
      BY <1>13, <1>14
    <3>3. Used(chunk)' = Used(chunk')
      BY DEF Used
    <3>4. QED BY <1>2, <3>1, <3>2, <3>3
  <2>4. R' = Regions' /\ R' = R
    BY <1>1 DEF R
  <2>5. QED BY <2>1, <2>2, <2>3, <2>4 DEF Blocked
<1>16. Sound(chunk, free_chunk, Regions)'
  BY <1>1, <1>2 DEF R
<1>17. QED BY <1>10, <1>15, <1>16 DEF HeapInv

LEMMA FreeKeeps ==
  ASSUME HeapInv, NEW p \in DOMAIN live, Free(p)
  PROVE  HeapInv'
<1> DEFINE R == Regions
           a == Home(p)
           merged == AfterNext(a)
           freed == AfterPrev(merged[1], merged[2], a)
<1>1. Extents(R) /\ Sound(chunk, free_chunk, R) /\ R' = R
  <2>1. R' = R
    BY RegionsNext, RegionsAre DEF Free
  <2>2. QED BY <2>1, RegionsExist DEF HeapInv
<1>2. /\ chunk' = freed[1] /\ free_chunk' = freed[2] /\ tag' = tag
      /\ live' = [q \in DOMAIN live \ {p} |-> live[q]]
  BY DEF Free, Home
<1>3. a \in Used(chunk) /\ a \notin FirstsOf(R) /\ a \notin EndsOf(R)
  BY DEF HeapInv, Blocked
<1> HIDE DEF R
<1>4. /\ Sound(merged[1], merged[2], R) /\ Used(merged[1]) = Used(chunk)
      /\ merged[1][merged[1][a].next].used
      /\ \A x \in Used(chunk) \ {a} : merged[1][x].next = chunk[x].next
  BY <1>1, <1>3, MergeNextSound
<1> HIDE DEF merged, a
<1>5. /\ Sound(freed[1], freed[2], R) /\ Used(freed[1]) = Used(merged[1]) \ {a}
      /\ \A x \in Used(freed[1]) : freed[1][x].next = merged[1][x].next
  BY <1>1, <1>3, <1>4, MergePrevSound
<1>6. /\ Sound(chunk', free_chunk', R) /\ Used(chunk') = Used(chunk) \ {a}
      /\ \A x \in Used(chunk') : chunk'[x].next = chunk[x].next
  BY <1>2, <1>4, <1>5
<1>7. DOMAIN live' = DOMAIN live \ {p} /\ \A q \in DOMAIN live' : live'[q] = live[q]
  BY <1>2
<1>8. \A q : Home(q)' = Home(q)
  BY <1>2 DEF Home, Raw
<1>9. \A q \in DOMAIN live' :
        /\ live[q] \in Requests /\ Home(q) \in Used(chunk')
        /\ Home(q) \notin FirstsOf(R) \cup EndsOf(R)
        /\ Home(q) + 24 <= q /\ (q \in DOMAIN tag => Home(q) + 40 <= q)
        /\ q \in Nat /\ q + live[q][1] <= chunk[Home(q)].next
  BY <1>6, <1>7 DEF HeapInv, Blocked, R, a
<1>10. Blocked'
  <2>1. ASSUME NEW q \in DOMAIN live'
        PROVE  /\ live'[q] \in Requests /\ Home(q)' \in DOMAIN chunk'
               /\ Home(q)' \notin FirstsOf(R) \cup EndsOf(R)
               /\ Home(q)' + 24 <= q /\ (q \in DOMAIN tag' => Home(q)' + 40 <= q)
               /\ q \in Nat /\ q + live'[q][1] <= chunk'[Home(q)'].next
    BY <1>2, <1>6, <1>7, <1>8, <1>9 DEF Used
  <2>2. ASSUME NEW q \in DOMAIN live', NEW w \in DOMAIN live', Home(q)' = Home(w)'
        PROVE  q = w
    BY <1>7, <1>8, <2>2 DEF HeapInv, Blocked
  <2>3. Used(chunk)' = FirstsOf(R) \cup EndsOf(R) \cup {Home(q)' : q \in DOMAIN live'}
    <3>1. Used(chunk) = FirstsOf(R) \cup EndsOf(R) \cup {Home(q) : q \in DOMAIN live}
      BY DEF HeapInv, Blocked, R
    <3>2. {Home(q)' : q \in DOMAIN live'} = {Home(q) : q \in DOMAIN live} \ {a}
      BY <1>7, <1>8 DEF HeapInv, Blocked, a
    <3>3. Used(chunk)' = Used(chunk')
      BY DEF Used
    <3>4. QED BY <1>3, <1>6, <3>1, <3>2, <3>3
  <2>4. Regions' = R
    BY <1>1 DEF R
  <2>5. QED BY <2>1, <2>2, <2>3, <2>4 DEF Blocked
<1>11. Sound(chunk, free_chunk, Regions)' /\ entry' = entry
  BY <1>1, <1>6 DEF R, Free
<1>12. QED BY <1>10, <1>11 DEF HeapInv

LEMMA AddKeeps ==
  ASSUME HeapInv, AddRegion
  PROVE  HeapInv'
<1> DEFINE m == MemoryMap[entry]
           e == Ring(m)
<1>1. /\ entry \in 1 .. Len(MemoryMap) /\ entry' = entry + 1
      /\ entry' \in 1 .. Len(MemoryMap) + 1
      /\ tag' = tag /\ live' = live
  BY MapDomain DEF AddRegion, HeapInv
<1>2. Regions = RegionsTo(entry - 1) /\ Regions' = RegionsTo(entry)
  BY <1>1, RegionsAre, RegionsNext
<1>3. Extents(RegionsTo(entry))
  <2>1. entry \in 0 .. Len(MemoryMap)
    BY <1>1, MapDomain
  <2>2. QED BY <2>1, RegionsExtend
<1>4. \A q : Home(q)' = Home(q)
  BY <1>1 DEF Home, Raw
<1> HIDE DEF m
<1>5. CASE ~Added(m)
  <2>1. Regions' = Regions
    BY <1>1, <1>2, <1>5, NextRegion DEF m
  <2>2. chunk' = chunk /\ free_chunk' = free_chunk
    BY <1>5 DEF AddRegion, Added, m
  <2>3. Sound(chunk, free_chunk, Regions)'
    BY <2>1, <2>2 DEF HeapInv
  <2>4. Blocked'
    BY <1>1, <1>4, <2>1, <2>2 DEF HeapInv, Blocked, Used
  <2>5. QED BY <1>1, <2>3, <2>4 DEF HeapInv
<1>6. CASE Added(m)
  <2>1. Regions' = Regions \cup {m} /\ m \notin Regions
    BY <1>1, <1>2, <1>6, NextRegion DEF m
  <2>2. /\ chunk' = [a \in DOMAIN e \cup DOMAIN chunk |->
                        IF a \in DOMAIN e THEN e[a] ELSE chunk[a]]
        /\ free_chunk' = PushFree(free_chunk, chunk', RegionFirst(m) + 40)
    BY <1>6, Sizeof DEF AddRegion, Added, m
  <2> DEFINE a == RegionFirst(m)
             z == RegionLast(m)
  <2>3. /\ Sound(chunk', free_chunk', Regions')
        /\ Used(chunk') = Used(chunk) \cup {a, z}
        /\ \A x \in DOMAIN chunk : x \in DOMAIN chunk' /\ chunk'[x] = chunk[x]
        /\ a \notin DOMAIN chunk /\ z \notin DOMAIN chunk
    <3>1. Extents(Regions \cup {m}) /\ Sound(chunk, free_chunk, Regions)
      BY <1>2, <1>3, <2>1 DEF HeapInv
    <3> DEFINE d == Joined(e, chunk)
    <3>2. /\ Sound(d, PushFree(free_chunk, d, RegionFirst(m) + 40), Regions \cup {m})
          /\ Used(d) = Used(chunk) \cup {a, z}
          /\ \A x \in DOMAIN chunk : x \in DOMAIN d /\ d[x] = chunk[x]
          /\ a \notin DOMAIN chunk /\ z \notin DOMAIN chunk
      BY <2>1, <3>1, AddSound
    <3>3. chunk' = d /\ free_chunk' = PushFree(free_chunk, d, RegionFirst(m) + 40)
      BY <2>2 DEF Joined
    <3> HIDE DEF d
    <3>4. QED BY <2>1, <3>2, <3>3
  <2>4. /\ FirstsOf(Regions') = FirstsOf(Regions) \cup {a}
        /\ EndsOf(Regions') = EndsOf(Regions) \cup {z}
    BY <2>1 DEF FirstsOf, EndsOf
  <2> HIDE DEF a, z
  <2>5. Blocked'
    <3>1. ASSUME NEW q \in DOMAIN live
          PROVE  /\ live[q] \in Requests /\ Home(q) \in DOMAIN chunk'
                 /\ Home(q) \notin FirstsOf(Regions') \cup EndsOf(Regions')
                 /\ Home(q) + 24 <= q /\ (q \in DOMAIN tag => Home(q) + 40 <= q)
                 /\ q \in Nat /\ q + live[q][1] <= chunk'[Home(q)].next
      BY <2>3, <2>4 DEF HeapInv, Blocked
    <3>2. Used(chunk') = FirstsOf(Regions') \cup EndsOf(Regions')
                           \cup {Home(q) : q \in DOMAIN live}
      BY <2>3, <2>4 DEF HeapInv, Blocked
    <3>3. \A p, q \in DOMAIN live : Home(p) = Home(q) => p = q
      BY DEF HeapInv, Blocked
    <3>4. Used(chunk)' = Used(chunk')
      BY DEF Used
    <3>5. {Home(q)' : q \in DOMAIN live'} = {Home(q) : q \in DOMAIN live}
      BY <1>1, <1>4
    <3>6. FirstsOf(Regions)' = FirstsOf(Regions') /\ EndsOf(Regions)' = EndsOf(Regions')
      BY DEF FirstsOf, EndsOf, RegionFirst, RegionLast, RegionEnd
    <3>7. QED BY <1>1, <1>4, <3>1, <3>2, <3>3, <3>4, <3>5, <3>6 DEF Blocked
  <2>6. Sound(chunk, free_chunk, Regions)'
    BY <2>3
  <2>7. QED BY <1>1, <2>5, <2>6 DEF HeapInv
<1>7. QED BY <1>5, <1>6

LEMMA InitHolds == Init => HeapInv
<1> SUFFICES ASSUME Init PROVE HeapInv
  OBVIOUS
<1>1. entry \in 1 .. Len(MemoryMap) + 1
  BY MapDomain DEF Init
<1>2. DOMAIN chunk = {} /\ DOMAIN live = {}
  BY DEF Init
<1>3. Regions = {}
  BY DEF Regions, Init
<1>4. Rings(chunk, {})
  BY <1>2 DEF Rings, Headers, Linked, Tiled, Closed, Placed
<1>5. Filed(free_chunk, chunk, {})
  <2>1. <<>> \in Seq(Nat) /\ DOMAIN <<>> = {}
    OBVIOUS
  <2>2. Distinct(<<>>) /\ Elements(<<>>) = {}
    BY <2>1 DEF Distinct, Elements
  <2>3. DOMAIN free_chunk = Slots /\ \A n \in Slots : free_chunk[n] = <<>>
    BY DEF Init
  <2>4. QED BY <2>1, <2>2, <2>3 DEF Filed
<1>6. Unused(chunk) = {} /\ Used(chunk) = {} /\ NoNeighbours(chunk)
  BY <1>2 DEF Unused, Used, NoNeighbours
<1>7. Blocked
  BY <1>2, <1>3, <1>6 DEF Blocked, FirstsOf, EndsOf
<1>8. QED BY <1>1, <1>3, <1>4, <1>5, <1>6, <1>7 DEF HeapInv, Sound

\* What a call takes from the heap, for the invariant and for Blocks: p is the
\* pointer the caller gets, r what it asked for.
Takes(p, r) ==
  /\ p \in Nat \ DOMAIN live /\ r \in Requests /\ p % r[2] = 0
  /\ live' = With(live, p, r)

LEMMA AllocateTakes ==
  ASSUME HeapInv, NEW size \in Sizes, Allocate(size)
  PROVE  HeapInv' /\ \E p, r : Takes(p, r)
<1> DEFINE r == <<Bytes(size), ALIGN>>
<1>1. PICK a \in Found(Bytes(size)) :
        /\ Malloc(Bytes(size), a)
        /\ tag' = TagsAfterHeaders(Written(a))
        /\ live' = With(live, a + HEADER_SIZE, r)
        /\ entry' = entry
  BY DEF Allocate
<1>2. r \in Requests /\ r[1] = Bytes(size) /\ r[2] = 4
  BY Sizeof DEF Requests
<1>3. Bytes(size) \in Nat
  BY HeapConstants DEF Bytes
<1>4. a \in Nat /\ a % 4 = 0
  <2>1. a \in Unused(chunk) /\ Rings(chunk, Regions)
    BY <1>3, FoundFits DEF HeapInv, Sound
  <2>2. QED BY <2>1 DEF Rings, Placed, Headers, Unused
<1> HIDE DEF r
<1>5. a + 24 \in Nat /\ (a + 24) % 4 = 0 /\ a + 24 + r[1] <= a + 24 + Bytes(size)
  BY <1>2, <1>3, <1>4
<1>6. HeapInv' /\ a + 24 \notin DOMAIN live
  BY <1>1, <1>2, <1>3, <1>5, TakeKeeps, Sizeof
<1>7. Takes(a + 24, r)
  BY <1>1, <1>2, <1>5, <1>6, Sizeof DEF Takes
<1>8. QED BY <1>6, <1>7

LEMMA AllocateAlignedTakes ==
  ASSUME HeapInv, NEW s \in Aligned, AllocateAligned(s[1], s[2])
  PROVE  HeapInv' /\ \E p, r : Takes(p, r)
<1> DEFINE alignment == Alignment(s[2])
           total == Total(Bytes(s[1]), alignment)
           r == <<Bytes(s[1]), s[2]>>
<1>1. PICK a \in Found(total) :
        LET aligned == RoundUp(a + HEADER_SIZE + ALIGNED_HEADER, alignment)
        IN  /\ Malloc(total, a)
            /\ tag' = With(TagsAfterHeaders(Written(a)), aligned, a + HEADER_SIZE)
            /\ live' = With(live, aligned, r)
            /\ entry' = entry
  BY DEF AllocateAligned
<1>2. s[1] \in Nat /\ s[2] \in Nat \ {0} /\ (s[2] < 8 => s[2] \in {1, 2, 4})
  BY HeapConstants, AlignmentAssumption
<1>3. r \in Requests /\ r[1] = Bytes(s[1]) /\ r[2] = s[2] /\ Bytes(s[1]) \in Nat
  BY <1>2 DEF Requests, Bytes
<1>4. alignment \in Nat \ {0} /\ total = Bytes(s[1]) + alignment + 15 /\ total \in Nat
  BY <1>2, <1>3, Sizeof DEF Alignment, Total
<1>5. a \in Nat
  <2>1. a \in Unused(chunk) /\ Headers(chunk)
    BY <1>4, FoundFits DEF HeapInv, Sound, Rings
  <2>2. QED BY <2>1 DEF Headers, Unused
<1> DEFINE p == RoundUp(a + 40, alignment)
<1>6. p \in Nat /\ a + 40 <= p /\ p <= a + 40 + alignment - 1 /\ p % alignment = 0
  <2>1. a + 40 \in Nat
    BY <1>5
  <2> HIDE DEF alignment
  <2>2. p \in Nat /\ a + 40 <= p /\ p <= (a + 40) + alignment - 1 /\ p % alignment = 0
    BY <1>4, <2>1, RoundedUp
  <2>3. QED BY <2>2
<1>7. /\ Malloc(total, a)
      /\ tag' = With(TagsAfterHeaders(Written(a)), p, a + 24)
      /\ live' = With(live, p, r)
      /\ entry' = entry
  <2>1. a + HEADER_SIZE + ALIGNED_HEADER = a + 40 /\ a + HEADER_SIZE = a + 24
    BY <1>5, Sizeof
  <2>2. QED BY <1>1, <2>1
<1>8. p % s[2] = 0
  <2>1. CASE s[2] < 8
    <3>1. alignment = 8
      BY <2>1 DEF Alignment
    <3>2. QED BY <1>2, <1>6, <2>1, <3>1
  <2>2. CASE ~(s[2] < 8)
    BY <1>6, <2>2 DEF Alignment
  <2>3. QED BY <2>1, <2>2
<1> HIDE DEF p, alignment, total, r
<1>9. p + r[1] <= a + 24 + total
  BY <1>3, <1>4, <1>5, <1>6
<1>10. HeapInv' /\ p \notin DOMAIN live
  BY <1>3, <1>4, <1>6, <1>7, <1>9, TakeKeeps
<1>11. Takes(p, r)
  BY <1>3, <1>6, <1>7, <1>8, <1>10 DEF Takes
<1>12. QED BY <1>10, <1>11

LEMMA StepHolds == HeapInv /\ [Next]_vars => HeapInv'
<1> SUFFICES ASSUME HeapInv, [Next]_vars PROVE HeapInv'
  OBVIOUS
<1>1. CASE AddRegion
  BY <1>1, AddKeeps
<1>2. ASSUME NEW size \in Sizes, Allocate(size) PROVE HeapInv'
  BY <1>2, AllocateTakes
<1>3. ASSUME NEW s \in Aligned, AllocateAligned(s[1], s[2]) PROVE HeapInv'
  BY <1>3, AllocateAlignedTakes
<1>4. ASSUME NEW p \in DOMAIN live, Free(p) PROVE HeapInv'
  BY <1>4, FreeKeeps
<1>5. CASE UNCHANGED vars
  <2>1. Regions' = Regions
    BY <1>5, RegionsAre, RegionsNext DEF vars
  <2>2. \A q : Home(q)' = Home(q)
    BY <1>5 DEF vars, Home, Raw
  <2>3. Blocked'
    BY <1>5, <2>1, <2>2 DEF HeapInv, Blocked, vars, Used
  <2>4. QED BY <1>5, <2>1, <2>3 DEF HeapInv, vars
<1>6. QED BY <1>1, <1>2, <1>3, <1>4, <1>5 DEF Next

LEMMA HeapCorrect == Spec => []HeapInv
BY InitHolds, StepHolds, PTL DEF Spec

-----------------------------------------------------------------------------
(* What the invariant says                                                 *)

\* The entry looked at, the chunks' fields, the lists and the blocks have
\* their types, for any memory map and any requests.
THEOREM TypeCorrect == Spec => []TypeOK
<1>1. HeapInv => TypeOK
  <2> SUFFICES ASSUME HeapInv PROVE TypeOK
    OBVIOUS
  <2>1. \A a \in DOMAIN chunk :
          /\ a \in Nat \ {NULL}
          /\ chunk[a] \in [next : DOMAIN chunk, prev : DOMAIN chunk, used : BOOLEAN]
    BY Sizeof DEF HeapInv, Sound, Rings, Headers
  <2>2. ASSUME NEW n \in Slots PROVE ToSet(free_chunk[n]) \subseteq DOMAIN chunk
    <3>1. Elements(free_chunk[n]) \subseteq DOMAIN chunk
      BY DEF HeapInv, Sound, Filed, Unused
    <3>2. QED BY <3>1 DEF ToSet, Elements
  <2>3. QED BY <2>1, <2>2 DEF TypeOK, HeapInv, Blocked
<1>2. QED BY <1>1, HeapCorrect, PTL

\* An unused chunk is once on the list of its class and on no other.
LEMMA ListsExact == HeapInv => FreeListsExact
<1> SUFFICES ASSUME HeapInv, NEW a \in DOMAIN chunk, NEW n \in Slots
             PROVE  Cardinality({i \in DOMAIN free_chunk[n] : free_chunk[n][i] = a})
                      = IF ~chunk[a].used /\ n = Bucket(ChunkSize(chunk, a)) THEN 1 ELSE 0
  BY DEF FreeListsExact
<1> DEFINE s == free_chunk[n]
           I == {i \in DOMAIN s : s[i] = a}
<1>1. /\ Distinct(s)
      /\ a \in Elements(s) <=> ~chunk[a].used /\ n = Bucket(ChunkSize(chunk, a))
  BY DEF HeapInv, Sound, Filed, Unused
<1> HIDE DEF s
<1>2. CASE a \in Elements(s)
  <2>1. PICK k \in DOMAIN s : s[k] = a
    BY <1>2 DEF Elements
  <2>2. I = {k}
    BY <1>1, <2>1 DEF Distinct
  <2>3. Cardinality(I) = 1
    BY <2>2, FS_Singleton
  <2>4. QED BY <1>1, <1>2, <2>3 DEF s
<1>3. CASE a \notin Elements(s)
  <2>1. I = {}
    BY <1>3 DEF Elements
  <2>2. Cardinality(I) = 0
    BY <2>1, FS_EmptySet
  <2>3. QED BY <1>1, <1>3, <2>2 DEF s
<1>4. QED BY <1>2, <1>3

LEMMA RingsAreSound == HeapInv => RingsSound
<1> SUFFICES ASSUME HeapInv, NEW a \in DOMAIN chunk
             PROVE  /\ chunk[chunk[a].next].prev = a
                    /\ chunk[chunk[a].prev].next = a
                    /\ IF a \in Ends
                         THEN \E m \in Regions : /\ a = RegionEnd(m) - CHUNK_SIZE
                                                 /\ chunk[a].next = RegionFirst(m)
                         ELSE /\ ChunkSize(chunk, a) >= MIN_SIZE
                              /\ \A b \in DOMAIN chunk : ~(a < b /\ b < chunk[a].next)
  BY DEF RingsSound
<1>1. /\ a \in Nat /\ chunk[a].next \in DOMAIN chunk /\ chunk[a].prev \in DOMAIN chunk
      /\ chunk[a].next \in Nat
  BY DEF HeapInv, Sound, Rings, Headers
<1>2. chunk[chunk[a].next].prev = a /\ chunk[chunk[a].prev].next = a
  BY <1>1 DEF HeapInv, Sound, Rings, Linked
<1>3. Ends = EndsOf(Regions)
  BY DEF Ends, EndsOf, RegionLast
<1>4. CASE a \in Ends
  BY <1>2, <1>3, <1>4 DEF HeapInv, Sound, Rings, Closed, RegionLast
<1>5. CASE a \notin Ends
  <2>1. a + 40 <= chunk[a].next /\ \A b \in DOMAIN chunk : b <= a \/ chunk[a].next <= b
    BY <1>3, <1>5 DEF HeapInv, Sound, Rings, Tiled
  <2>2. ChunkSize(chunk, a) >= MIN_SIZE
    BY <1>1, <2>1, Sizeof DEF ChunkSize
  <2>3. \A b \in DOMAIN chunk : b \in Nat
    BY DEF HeapInv, Sound, Rings, Headers
  <2>4. \A b \in DOMAIN chunk : ~(a < b /\ b < chunk[a].next)
    BY <1>1, <2>1, <2>3
  <2>5. QED BY <1>2, <1>5, <2>2, <2>4
<1>6. QED BY <1>4, <1>5

\* The rings tile the regions, the free lists hold the unused chunks and no two
\* unused chunks are neighbours, whatever is split and merged in whatever order.
THEOREM HeapStaysSound == Spec => []HeapSound
<1>1. HeapInv => HeapSound
  BY ListsExact, RingsAreSound DEF HeapSound, HeapInv, Sound, NoNeighbours, Coalesced
<1>2. QED BY <1>1, HeapCorrect, PTL

\* The chunks in use are the sentinels and, one for one, the callers' blocks:
\* free finds the chunk of every pointer, tagged or not.
THEOREM NothingLeaks == Spec => []NothingLeaked
<1>1. HeapInv => NothingLeaked
  <2> SUFFICES ASSUME HeapInv PROVE NothingLeaked
    OBVIOUS
  <2>1. Sentinels = FirstsOf(Regions) \cup EndsOf(Regions)
    BY DEF Sentinels, Ends, FirstsOf, EndsOf, RegionLast
  <2>2. {a \in DOMAIN chunk : chunk[a].used}
          = Sentinels \cup {Raw(p) - HEADER_SIZE : p \in DOMAIN live}
    BY <2>1 DEF HeapInv, Blocked, Used, Home
  <2>3. \A p, q \in DOMAIN live : Raw(p) = Raw(q) => p = q
    BY DEF HeapInv, Blocked, Home
  <2>4. QED BY <2>2, <2>3 DEF NothingLeaked
<1>2. QED BY <1>1, HeapCorrect, PTL

\* A block and the chunk around it.
InChunks ==
  \A p \in DOMAIN live :
    /\ p \in Nat /\ live[p] \in Requests /\ live[p][1] \in Nat \ {0}
    /\ Home(p) \in DOMAIN chunk \ EndsOf(Regions) /\ chunk[Home(p)].used
    /\ Home(p) \in Nat /\ chunk[Home(p)].next \in Nat
    /\ Home(p) + 24 <= p /\ (p \in DOMAIN tag => Home(p) + 40 <= p)
    /\ p + live[p][1] <= chunk[Home(p)].next
    /\ \A a \in DOMAIN chunk : a <= Home(p) \/ chunk[Home(p)].next <= a

LEMMA BlocksInChunks == HeapInv => InChunks
<1> SUFFICES ASSUME HeapInv, NEW p \in DOMAIN live
             PROVE  /\ p \in Nat /\ live[p] \in Requests /\ live[p][1] \in Nat \ {0}
                    /\ Home(p) \in DOMAIN chunk \ EndsOf(Regions) /\ chunk[Home(p)].used
                    /\ Home(p) \in Nat /\ chunk[Home(p)].next \in Nat
                    /\ Home(p) + 24 <= p /\ (p \in DOMAIN tag => Home(p) + 40 <= p)
                    /\ p + live[p][1] <= chunk[Home(p)].next
                    /\ \A a \in DOMAIN chunk : a <= Home(p) \/ chunk[Home(p)].next <= a
  BY DEF InChunks
<1>1. /\ live[p] \in Requests /\ Home(p) \in DOMAIN chunk \ EndsOf(Regions)
      /\ Home(p) \in Used(chunk)
      /\ Home(p) + 24 <= p /\ (p \in DOMAIN tag => Home(p) + 40 <= p)
      /\ p \in Nat /\ p + live[p][1] <= chunk[Home(p)].next
  BY DEF HeapInv, Blocked
<1>2. Rings(chunk, Regions) /\ Headers(chunk)
  BY DEF HeapInv, Sound, Rings
<1>3. Home(p) \in Nat /\ chunk[Home(p)].next \in Nat
  BY <1>1, <1>2 DEF Headers
<1>4. \A a \in DOMAIN chunk : a <= Home(p) \/ chunk[Home(p)].next <= a
  BY <1>1, <1>2, NothingInBlock
<1>5. QED BY <1>1, <1>3, <1>4, RequestsAre DEF Used

\* No header, no link of an unused chunk and no tag is in a caller's block.
THEOREM MetadataStaysApart == Spec => []MetadataApart
<1>1. HeapInv => MetadataApart
  <2> SUFFICES ASSUME HeapInv, NEW p \in DOMAIN live
               PROVE  /\ \A a \in DOMAIN chunk :
                           LET size == IF chunk[a].used THEN HEADER_SIZE ELSE CHUNK_SIZE
                           IN  a + size <= p \/ p + live[p][1] <= a
                      /\ \A q \in DOMAIN live \cap DOMAIN tag :
                           \/ q - ALIGNED_HEADER + ALIGNED_HEADER <= p
                           \/ p + live[p][1] <= q - ALIGNED_HEADER
    BY DEF MetadataApart
  <2> DEFINE x == Home(p)
             size == live[p][1]
  <2>1. /\ p \in Nat /\ size \in Nat /\ x \in DOMAIN chunk /\ chunk[x].used
        /\ x \in Nat /\ chunk[x].next \in Nat
        /\ x + 24 <= p /\ p + size <= chunk[x].next
        /\ \A a \in DOMAIN chunk : a <= x \/ chunk[x].next <= a
    BY BlocksInChunks DEF InChunks
  <2>2. Extents(Regions) /\ Rings(chunk, Regions)
    BY RegionsExist DEF HeapInv, Sound
  <2> HIDE DEF x, size
  <2>3. ASSUME NEW a \in DOMAIN chunk
        PROVE  a + (IF chunk[a].used THEN 24 ELSE 40) <= p \/ p + size <= a
    <3>1. a \in Nat
      BY <2>2 DEF Rings, Headers
    <3>2. CASE a < x
      <4>1. a + 40 <= x
        BY <2>1, <2>2, <3>2, ChunksApart
      <4>2. QED BY <2>1, <3>1, <4>1
    <3>3. CASE a = x
      BY <2>1, <3>3
    <3>4. CASE x < a
      BY <2>1, <3>1, <3>4
    <3>5. QED BY <2>1, <3>1, <3>2, <3>3, <3>4
  <2>4. ASSUME NEW q \in DOMAIN live, q \in DOMAIN tag
        PROVE  q <= p \/ p + size <= q - 16
    <3> DEFINE y == Home(q)
    <3>1. /\ q \in Nat /\ live[q][1] \in Nat /\ y \in DOMAIN chunk /\ y \in Nat
          /\ y + 40 <= q /\ q + live[q][1] <= chunk[y].next /\ chunk[y].next \in Nat
          /\ \A a \in DOMAIN chunk : a <= y \/ chunk[y].next <= a
      BY <2>4, BlocksInChunks DEF InChunks
    <3>2. y = x => q = p
      BY DEF HeapInv, Blocked, x
    <3> HIDE DEF y
    <3>3. (y <= x \/ chunk[x].next <= y) /\ (x <= y \/ chunk[y].next <= x)
      BY <2>1, <3>1
    <3>4. QED BY <2>1, <3>1, <3>2, <3>3
  <2>5. \A q \in DOMAIN live : q \in Nat
    BY BlocksInChunks DEF InChunks
  <2>6. QED BY <2>3, <2>4, <2>5, Sizeof DEF size
<1>2. QED BY <1>1, HeapCorrect, PTL

-----------------------------------------------------------------------------
(* The heap implements Blocks                                              *)

BlockAt(p) == [base |-> p, size |-> live[p][1], alignment |-> live[p][2]]
BlocksNow == {BlockAt(p) : p \in DOMAIN live}
Usable == {MemoryMap[i] : i \in {j \in DOMAIN MemoryMap : MemoryMap[j].usable}}

LEMMA TakesIsTake ==
  ASSUME HeapInv', InChunks', NEW p, NEW r, Takes(p, r)
  PROVE  Abstract!Take
<1> DEFINE b == [base |-> p, size |-> r[1], alignment |-> r[2]]
           R == Regions'
<1>1. /\ DOMAIN live' = DOMAIN live \cup {p} /\ p \notin DOMAIN live /\ p \in Nat
      /\ live'[p] = r /\ r \in Requests /\ p % r[2] = 0
      /\ \A q \in DOMAIN live : live'[q] = live[q]
  BY DEF Takes, With
<1>2. BlocksNow' = BlocksNow \cup {b} /\ BlockAt(p)' = b
  BY <1>1 DEF BlocksNow, BlockAt
<1>3. b \in BlocksNow'
  BY <1>2
<1>4. b.size = r[1] /\ b.alignment = r[2] /\ b.base = p
  OBVIOUS
<1> HIDE DEF R, b
<1>5. \E e \in Usable : Abstract!Within(b, e)
  <2> DEFINE x == Home(p)'
  <2>1. /\ x \in DOMAIN chunk' \ EndsOf(R)
        /\ x + 24 <= p /\ p + r[1] <= chunk'[x].next
        /\ x \in Nat /\ chunk'[x].next \in Nat /\ p \in Nat /\ r[1] \in Nat
    BY <1>1 DEF InChunks, R
  <2>2. R = RegionsTo(entry' - 1)
    BY RegionsNext DEF R
  <2>3. /\ entry' - 1 \in 0 .. Len(MemoryMap)
        /\ \A i \in 1 .. entry' - 1 : i \in DOMAIN MemoryMap
    <3>1. entry' \in 1 .. Len(MemoryMap) + 1
      BY DEF HeapInv
    <3>2. QED BY <3>1, EntriesBefore
  <2>4. Extents(R) /\ Rings(chunk', R)
    <3>1. Extents(R)
      BY <2>2, <2>3, RegionsExtend
    <3>2. QED BY <3>1 DEF HeapInv, Sound, R
  <2> HIDE DEF x
  <2>5. PICK m \in R : RegionFirst(m) <= x /\ chunk'[x].next <= RegionLast(m)
    BY <2>1, <2>4, EndAfter
  <2>6. PICK i \in DOMAIN MemoryMap : m = MemoryMap[i] /\ Added(m)
    BY <2>5, <2>2, <2>3 DEF RegionsTo
  <2>7. /\ m.base \in Nat /\ m.size \in Nat
        /\ RegionFirst(m) \in Nat /\ m.base <= RegionFirst(m)
        /\ RegionLast(m) \in Nat /\ RegionLast(m) + 40 <= m.base + m.size
    BY <2>6, RegionBounds
  <2>8. Abstract!Within(b, m)
    <3>1. m.base <= p /\ p + r[1] <= m.base + m.size
      BY <2>1, <2>5, <2>7
    <3>2. QED BY <1>4, <3>1 DEF Abstract!Within
  <2>9. m \in Usable
    BY <2>6 DEF Usable, Added
  <2>10. QED BY <2>8, <2>9
<1>6. \A c \in BlocksNow : Abstract!Apart(b, c)
  <2> SUFFICES ASSUME NEW q \in DOMAIN live
               PROVE  Abstract!Apart(b, BlockAt(q))
    BY DEF BlocksNow
  <2>1. p \in DOMAIN live' /\ q \in DOMAIN live' /\ p # q /\ live'[q] = live[q]
    BY <1>1
  <2> DEFINE x == Home(p)'
             y == Home(q)'
  <2>2. /\ x \in DOMAIN chunk' /\ x \in Nat /\ chunk'[x].next \in Nat
        /\ x + 24 <= p /\ p + r[1] <= chunk'[x].next
        /\ \A a \in DOMAIN chunk' : a <= x \/ chunk'[x].next <= a
        /\ r[1] \in Nat
    BY <1>1, <2>1 DEF InChunks
  <2>3. /\ y \in DOMAIN chunk' /\ y \in Nat /\ chunk'[y].next \in Nat /\ q \in Nat
        /\ y + 24 <= q /\ q + live[q][1] <= chunk'[y].next
        /\ \A a \in DOMAIN chunk' : a <= y \/ chunk'[y].next <= a
        /\ live[q][1] \in Nat
    BY <2>1 DEF InChunks
  <2>4. x # y
    BY <2>1 DEF HeapInv, Blocked
  <2> HIDE DEF x, y
  <2>5. p + r[1] <= q \/ q + live[q][1] <= p
    BY <1>1, <2>2, <2>3, <2>4
  <2>6. QED BY <1>4, <2>5 DEF Abstract!Apart, BlockAt
<1>7. <<b.size, b.alignment>> \in Requests /\ b.base % b.alignment = 0
  <2>1. r = <<r[1], r[2]>>
    BY <1>1 DEF Requests
  <2>2. QED BY <1>1, <1>4, <2>1
<1>8. QED BY <1>2, <1>3, <1>5, <1>6, <1>7 DEF Abstract!Take, BlocksNow, BlockAt, Usable

LEMMA FreeIsRelease ==
  ASSUME NEW p \in DOMAIN live, Free(p)
  PROVE  Abstract!Release
<1>1. DOMAIN live' = DOMAIN live \ {p} /\ \A q \in DOMAIN live' : live'[q] = live[q]
  BY DEF Free
<1>2. BlocksNow' = BlocksNow \ {BlockAt(p)} /\ BlockAt(p) \in BlocksNow
  BY <1>1 DEF BlocksNow, BlockAt
<1>3. QED BY <1>2 DEF Abstract!Release, BlocksNow, BlockAt

\* The heap does what operator new and delete promise the kernel: blocks inside
\* one usable region, aligned, and apart from every other block in use.
THEOREM Refinement == Spec => ImplementsBlocks
<1>1. Init => Abstract!Init
  BY DEF Init, Abstract!Init
<1>2. HeapInv /\ HeapInv' /\ InChunks' /\ [Next]_vars => [Abstract!Next]_BlocksNow
  <2> SUFFICES ASSUME HeapInv, HeapInv', InChunks', [Next]_vars
               PROVE  [Abstract!Next]_BlocksNow
    OBVIOUS
  <2>1. CASE AddRegion
    BY <2>1 DEF AddRegion, BlocksNow, BlockAt
  <2>2. ASSUME NEW size \in Sizes, Allocate(size) PROVE Abstract!Next
    <3>1. PICK p, r : Takes(p, r)
      BY <2>2, AllocateTakes
    <3>2. QED BY <3>1, TakesIsTake DEF Abstract!Next
  <2>3. ASSUME NEW s \in Aligned, AllocateAligned(s[1], s[2]) PROVE Abstract!Next
    <3>1. PICK p, r : Takes(p, r)
      BY <2>3, AllocateAlignedTakes
    <3>2. QED BY <3>1, TakesIsTake DEF Abstract!Next
  <2>4. ASSUME NEW p \in DOMAIN live, Free(p) PROVE Abstract!Next
    BY <2>4, FreeIsRelease DEF Abstract!Next
  <2>5. CASE UNCHANGED vars
    BY <2>5 DEF vars, BlocksNow, BlockAt
  <2>6. QED BY <2>1, <2>2, <2>3, <2>4, <2>5 DEF Next
<1>3. QED
  BY <1>1, <1>2, HeapCorrect, BlocksInChunks, PTL
     DEF Spec, ImplementsBlocks, Abstract!Spec, BlocksNow, BlockAt
=============================================================================
