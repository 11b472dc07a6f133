--------------------------- MODULE ElfLoad_proof ---------------------------
(***************************************************************************)
(* Loader, for every image and wherever its calls fail.                    *)
(*                                                                         *)
(* First: it gives back what it took, on every way out of                  *)
(* load_elf_into_new_process.  A ledger of what Loader holds at each step, *)
(* and of what it has still to release, is an invariant.                   *)
(*                                                                         *)
(* Second: the thread it starts finds the program its file describes.      *)
(* Numbers have least elements, which gives Min, Max and induction along a *)
(* list of program headers or of pages; the copy loop leaves in each word  *)
(* what the last segment says that covers it; and at each step the child's *)
(* pages show exactly the image's pages that were mapped so far.           *)
(***************************************************************************)
EXTENDS UserRuntime_proof, WellFoundedInduction

\* What Loader takes handles to, the releases it may owe, and in what form.
Things == {File, Image, Stack, Child, ChildThread}
Duties == [op : {"close", "unmap"}, of : Things]
C(x) == [op |-> "close", of |-> x]
U(x) == [op |-> "unmap", of |-> x]

\* A duty there is reason for: a handle, or a mapping, is there.
Due(d) == IF d.op = "close" THEN Held(d.of) # {} ELSE Mapped(d.of) # {}

Listed(s) == {s[i] : i \in 1 .. Len(s)}
Distinct(s) == \A i, j \in 1 .. Len(s) : s[i] = s[j] => i = j

\* What a return code leaves behind for good.
Forgotten(c) ==
  (IF c \in ForgetsProcess THEN {C(Child)} ELSE {})
    \cup (IF c = 8 THEN {U(Image), C(Image)} ELSE {})
    \cup (IF c = 0 THEN {C(ChildThread)} ELSE {})

TakenFile == {U(File), C(File)}
Begun == TakenFile \cup {C(Child)}

\* What Loader holds at a step, beside what `releases` lists.
Kept(s, c) ==
  CASE s \in {"find", "fetch"} -> {}
    [] s = "mapModule" -> {C(File)}
    [] s \in {"check", "create"} -> TakenFile
    [] s \in {"grant", "layout", "stack", "thread"} -> Begun
    [] s = "mapImage" -> Begun \cup {C(Image)}
    [] s \in {"copy", "pages"} -> Begun \cup {C(Image), U(Image)}
    [] s = "mapStack" -> Begun \cup {C(Stack)}
    [] s = "start" -> Begun \cup {C(ChildThread)}
    [] OTHER -> Forgotten(c)

\* Each duty is there once: to be kept, or in the list.
WellListed(s, c, r) ==
  /\ r \in Seq(Duties) /\ Distinct(r)
  /\ Kept(s, c) \cap Listed(r) = {}

Ledger ==
  \A d \in Duties : Due(d) <=> d \in Kept(step, code) \cup Listed(releases)

\* Loader never has two handles to a thing, or maps it twice.
Once ==
  \A x \in Things :
    /\ \A g, h \in Held(x) : g = h
    /\ \A m, n \in Mapped(x) : m = n

OnceStarted ==
  started =>
    /\ step \in {"answer", "done"} /\ code = 0
    /\ \A d \in Listed(releases) : d.of \notin {Image, Stack}

LoadInv ==
  /\ WellListed(step, code, releases)
  /\ step = "done" => releases = <<>>
  /\ Ledger /\ Once /\ OnceStarted

-----------------------------------------------------------------------------
(* Lists of releases *)

LEMMA ThingsDiffer ==
  /\ File # Image /\ File # Stack /\ Image # Stack
  /\ Child \notin {File, Image, Stack} /\ ChildThread \notin {File, Image, Stack}
  /\ Child # ChildThread /\ Child # Loader
  /\ Things \subseteq Referents
BY IdentityAssumption, LoadAssumption DEF Loader, Objects, Referents, Things

LEMMA DutiesAre ==
  /\ \A x \in Things : C(x) \in Duties /\ U(x) \in Duties
  /\ \A d \in Duties : d = C(d.of) \/ d = U(d.of)
  /\ \A x, y : C(x) # U(y)
  /\ \A x, y : C(x) = C(y) <=> x = y
  /\ \A x, y : U(x) = U(y) <=> x = y
<1>1. \A x \in Things : C(x) \in Duties /\ U(x) \in Duties
  BY DEF C, U, Duties
<1>2. \A d \in Duties : d = C(d.of) \/ d = U(d.of)
  BY DEF C, U, Duties
<1>3. \A x, y : C(x).op = "close" /\ U(y).op = "unmap" /\ C(x).of = x /\ U(y).of = y
  BY DEF C, U
<1>4. QED BY <1>1, <1>2, <1>3

LEMMA NoRelease == <<>> \in Seq(Duties) /\ Distinct(<<>>) /\ Listed(<<>>) = {}
BY DEF Distinct, Listed

LEMMA OneRelease ==
  ASSUME NEW x \in Things
  PROVE  Close(x) \in Seq(Duties) /\ Distinct(Close(x)) /\ Listed(Close(x)) = {C(x)}
BY DutiesAre DEF Close, C, Distinct, Listed

\* Two lists with nothing in common, one after the other.
LEMMA Joined ==
  ASSUME NEW r \in Seq(Duties), NEW s \in Seq(Duties), Distinct(r), Distinct(s),
         Listed(r) \cap Listed(s) = {}
  PROVE  r \o s \in Seq(Duties) /\ Distinct(r \o s)
         /\ Listed(r \o s) = Listed(r) \cup Listed(s)
<1>1. /\ r \o s \in Seq(Duties) /\ Len(r \o s) = Len(r) + Len(s)
      /\ Len(r) \in Nat /\ Len(s) \in Nat
      /\ \A i \in 1 .. Len(r) : (r \o s)[i] = r[i]
      /\ \A i \in 1 .. Len(s) : (r \o s)[Len(r) + i] = s[i]
  OBVIOUS
<1>2. \A i \in 1 .. Len(r \o s) :
        i \in 1 .. Len(r) \/ \E k \in 1 .. Len(s) : i = Len(r) + k
  <2> TAKE i \in 1 .. Len(r \o s)
  <2>1. CASE i <= Len(r)
    BY <1>1, <2>1
  <2>2. CASE i > Len(r)
    <3>1. i - Len(r) \in 1 .. Len(s) /\ i = Len(r) + (i - Len(r))
      BY <1>1, <2>2
    <3>2. QED BY <3>1
  <2>3. QED BY <1>1, <2>1, <2>2
<1>3. \A i \in 1 .. Len(s) : Len(r) + i \in 1 .. Len(r \o s)
  BY <1>1
<1>4. \A i \in 1 .. Len(r) : i \in 1 .. Len(r \o s)
  BY <1>1
<1>5. Listed(r \o s) = Listed(r) \cup Listed(s)
  BY <1>1, <1>2, <1>3, <1>4 DEF Listed
<1>6. Distinct(r \o s)
  <2> SUFFICES ASSUME NEW i \in 1 .. Len(r \o s), NEW j \in 1 .. Len(r \o s),
                      (r \o s)[i] = (r \o s)[j]
               PROVE  i = j
    BY DEF Distinct
  <2>1. CASE i \in 1 .. Len(r) /\ j \in 1 .. Len(r)
    BY <1>1, <2>1 DEF Distinct
  <2>2. ASSUME NEW k \in 1 .. Len(s), NEW l \in 1 .. Len(s),
               i = Len(r) + k, j = Len(r) + l
        PROVE  i = j
    BY <1>1, <2>2 DEF Distinct
  <2>3. ASSUME NEW a \in 1 .. Len(r), NEW k \in 1 .. Len(s)
        PROVE  (r \o s)[a] # (r \o s)[Len(r) + k]
    BY <1>1 DEF Listed
  <2>4. QED BY <1>2, <2>1, <2>2, <2>3
<1>7. QED BY <1>1, <1>5, <1>6

\* The first release is no longer listed once it is made.
LEMMA Released ==
  ASSUME NEW r \in Seq(Duties), r # <<>>, Distinct(r)
  PROVE  /\ Head(r) \in Listed(r) /\ Head(r) \in Duties
         /\ Tail(r) \in Seq(Duties) /\ Distinct(Tail(r))
         /\ Listed(Tail(r)) = Listed(r) \ {Head(r)}
<1>1. /\ Len(r) \in Nat \ {0} /\ Head(r) = r[1] /\ Head(r) \in Duties
      /\ Tail(r) \in Seq(Duties) /\ Len(Tail(r)) = Len(r) - 1
      /\ \A i \in 1 .. Len(Tail(r)) : Tail(r)[i] = r[i + 1]
  OBVIOUS
<1>2. Head(r) \in Listed(r)
  BY <1>1 DEF Listed
<1>3. Distinct(Tail(r))
  BY <1>1 DEF Distinct
<1>4. \A i \in 2 .. Len(r) : i - 1 \in 1 .. Len(Tail(r)) /\ r[i] = Tail(r)[i - 1]
  BY <1>1
<1>5. \A i \in 1 .. Len(Tail(r)) : r[i + 1] # r[1] /\ i + 1 \in 1 .. Len(r)
  BY <1>1 DEF Distinct
<1>6. Listed(Tail(r)) \subseteq Listed(r) \ {Head(r)}
  BY <1>1, <1>5 DEF Listed
<1>7. Listed(r) \ {Head(r)} \subseteq Listed(Tail(r))
  <2> SUFFICES ASSUME NEW i \in 1 .. Len(r), r[i] # r[1]
               PROVE  r[i] \in Listed(Tail(r))
    BY <1>1 DEF Listed
  <2>1. i \in 2 .. Len(r)
    BY <1>1
  <2>2. QED BY <1>4, <2>1 DEF Listed
<1>8. QED BY <1>1, <1>2, <1>3, <1>6, <1>7

-----------------------------------------------------------------------------
(* What a syscall does to the ledger *)

LEMMA KeptAre ==
  ASSUME NEW c
  PROVE  /\ Kept("find", c) = {} /\ Kept("fetch", c) = {}
         /\ Kept("mapModule", c) = {C(File)}
         /\ Kept("check", c) = TakenFile /\ Kept("create", c) = TakenFile
         /\ Kept("grant", c) = Begun /\ Kept("layout", c) = Begun
         /\ Kept("stack", c) = Begun /\ Kept("thread", c) = Begun
         /\ Kept("mapImage", c) = Begun \cup {C(Image)}
         /\ Kept("copy", c) = Begun \cup {C(Image), U(Image)}
         /\ Kept("pages", c) = Begun \cup {C(Image), U(Image)}
         /\ Kept("mapStack", c) = Begun \cup {C(Stack)}
         /\ Kept("start", c) = Begun \cup {C(ChildThread)}
         /\ Kept("answer", c) = Forgotten(c) /\ Kept("done", c) = Forgotten(c)
BY DEF Kept

Untouched == \A x \in Things : Held(x)' = Held(x) /\ Mapped(x)' = Mapped(x)

LEMMA UntouchedKeeps ==
  ASSUME Untouched
  PROVE  /\ \A d \in Duties : Due(d)' <=> Due(d)
         /\ Once => Once'
<1>1. \A d \in Duties : d.of \in Things
  BY DEF Duties
<1>2. QED BY <1>1 DEF Untouched, Due, Once

LEMMA SameRecords == UNCHANGED <<handles, mappings>> => Untouched
BY DEF Untouched, Held, Mapped

\* A call that fails: before it changes anything, or a mapping half way.
Fails ==
  \/ Refused
  \/ \E h, n : MemoryMapFailed(Loader, h, n)
  \/ \E g, h, n, b : ProcessMemoryMapFailed(Loader, g, h, n, b)

LEMMA FailsUntouched == Fails => UNCHANGED <<handles, mappings>> /\ Untouched
<1>1. Fails => UNCHANGED <<handles, mappings>>
  BY DEF Fails, Refused, vars, MemoryMapFailed, ProcessMemoryMapFailed, FailMap
<1>2. QED BY <1>1, SameRecords

\* A new handle of Loader.
LEMMA OpenDue ==
  ASSUME NEW x \in Things, Open(Loader, x), UNCHANGED mappings, Held(x) = {}, Once
  PROVE  /\ \A d \in Duties : Due(d)' <=> Due(d) \/ d = C(x)
         /\ Once'
<1> DEFINE new == [id |-> nextHandle, owner |-> Loader, object |-> x]
<1>1. handles' = handles \cup {new}
  BY DEF Open
<1>2. new.owner = Loader /\ new.object = x
  OBVIOUS
<1> HIDE DEF new
<1>3. Held(x)' = {new}
  BY <1>1, <1>2 DEF Held
<1>4. \A y \in Things : y # x => Held(y)' = Held(y)
  BY <1>1, <1>2 DEF Held
<1>5. \A y \in Things : Mapped(y)' = Mapped(y)
  BY DEF Mapped
<1>6. \A d \in Duties : Due(d)' <=> Due(d) \/ d = C(x)
  <2> SUFFICES ASSUME NEW d \in Duties PROVE Due(d)' <=> Due(d) \/ d = C(x)
    OBVIOUS
  <2>1. d.of \in Things /\ d.op \in {"close", "unmap"}
    BY DEF Duties
  <2>2. d.op = "close" /\ d.of = x <=> d = C(x)
    BY DEF Duties, C
  <2>3. QED BY <1>3, <1>4, <1>5, <2>1, <2>2 DEF Due
<1>7. Once'
  BY <1>3, <1>4, <1>5 DEF Once
<1>8. QED BY <1>6, <1>7

\* A new mapping of Loader.
LEMMA MapDue ==
  ASSUME NEW x \in Things, NEW h \in Held(x), NEW n,
         MemoryMapped(Loader, h, n), Mapped(x) = {}, Once
  PROVE  /\ \A d \in Duties : Due(d)' <=> Due(d) \/ d = U(x)
         /\ Once'
<1>1. Map(Loader, Loader, x, n, 0)
  BY DEF MemoryMapped, Held
<1>2. PICK base : mappings' = mappings \cup
        {[process |-> Loader, base |-> base, count |-> n, object |-> x]}
  BY <1>1 DEF Map
<1> DEFINE new == [process |-> Loader, base |-> base, count |-> n, object |-> x]
<1>3. new.process = Loader /\ new.object = x /\ mappings' = mappings \cup {new}
  BY <1>2
<1> HIDE DEF new
<1>4. Mapped(x)' = {new}
  BY <1>3 DEF Mapped
<1>5. \A y \in Things : y # x => Mapped(y)' = Mapped(y)
  BY <1>3 DEF Mapped
<1>6. \A y \in Things : Held(y)' = Held(y)
  BY <1>1 DEF Held, Map
<1>7. \A d \in Duties : Due(d)' <=> Due(d) \/ d = U(x)
  <2> SUFFICES ASSUME NEW d \in Duties PROVE Due(d)' <=> Due(d) \/ d = U(x)
    OBVIOUS
  <2>1. d.of \in Things /\ d.op \in {"close", "unmap"}
    BY DEF Duties
  <2>2. d.op = "unmap" /\ d.of = x <=> d = U(x)
    BY DEF Duties, U
  <2>3. QED BY <1>4, <1>5, <1>6, <2>1, <2>2 DEF Due
<1>8. Once'
  BY <1>4, <1>5, <1>6 DEF Once
<1>9. QED BY <1>7, <1>8

\* A mapping in the child is none of Loader's.
LEMMA MapChildDue ==
  ASSUME NEW g \in Held(Child), NEW h \in handles, NEW n, NEW b,
         ProcessMemoryMapped(Loader, g, h, n, b)
  PROVE  Untouched
<1>1. Map(Loader, Child, h.object, n, b)
  BY DEF ProcessMemoryMapped, Held
<1>2. PICK base : mappings' = mappings \cup
        {[process |-> Child, base |-> base, count |-> n, object |-> h.object]}
  BY <1>1 DEF Map
<1>3. QED BY <1>1, <1>2, ThingsDiffer DEF Untouched, Held, Mapped, Map

LEMMA CloseDue ==
  ASSUME NEW x \in Things, NEW h \in Held(x), HandleClose(Loader, h), Once
  PROVE  /\ \A d \in Duties : Due(d)' <=> Due(d) /\ d # C(x)
         /\ Once'
<1>1. handles' = handles \ {h} /\ mappings' = mappings
  BY DEF HandleClose
<1>2. h.object = x /\ \A g \in Held(x) : g = h
  BY DEF Once, Held
<1>3. Held(x)' = {}
  BY <1>1, <1>2 DEF Held
<1>4. \A y \in Things : y # x => Held(y)' = Held(y)
  BY <1>1, <1>2 DEF Held
<1>5. \A y \in Things : Mapped(y)' = Mapped(y)
  BY <1>1 DEF Mapped
<1>6. \A d \in Duties : Due(d)' <=> Due(d) /\ d # C(x)
  <2> SUFFICES ASSUME NEW d \in Duties PROVE Due(d)' <=> Due(d) /\ d # C(x)
    OBVIOUS
  <2>1. d.of \in Things /\ d.op \in {"close", "unmap"}
    BY DEF Duties
  <2>2. d.op = "close" /\ d.of = x <=> d = C(x)
    BY DEF Duties, C
  <2>3. QED BY <1>3, <1>4, <1>5, <2>1, <2>2 DEF Due
<1>7. Once'
  BY <1>3, <1>4, <1>5 DEF Once
<1>8. QED BY <1>6, <1>7

LEMMA UnmapDue ==
  ASSUME PresentInv, NEW x \in Things, NEW m \in Mapped(x), MemoryUnmap(Loader, m), Once
  PROVE  /\ \A d \in Duties : Due(d)' <=> Due(d) /\ d # U(x)
         /\ Once'
<1>1. handles' = handles /\ mappings' = mappings \ {m}
  BY UnmapForgets DEF MemoryUnmap, Mapped
<1>2. m.object = x /\ \A n \in Mapped(x) : n = m
  BY DEF Once, Mapped
<1>3. Mapped(x)' = {}
  BY <1>1, <1>2 DEF Mapped
<1>4. \A y \in Things : y # x => Mapped(y)' = Mapped(y)
  BY <1>1, <1>2 DEF Mapped
<1>5. \A y \in Things : Held(y)' = Held(y)
  BY <1>1 DEF Held
<1>6. \A d \in Duties : Due(d)' <=> Due(d) /\ d # U(x)
  <2> SUFFICES ASSUME NEW d \in Duties PROVE Due(d)' <=> Due(d) /\ d # U(x)
    OBVIOUS
  <2>1. d.of \in Things /\ d.op \in {"close", "unmap"}
    BY DEF Duties
  <2>2. d.op = "unmap" /\ d.of = x <=> d = U(x)
    BY DEF Duties, U
  <2>3. QED BY <1>3, <1>4, <1>5, <2>1, <2>2 DEF Due
<1>7. Once'
  BY <1>3, <1>4, <1>5 DEF Once
<1>8. QED BY <1>6, <1>7

\* The program it starts touches none of Loader's handles and mappings.
LEMMA ProgramUntouched == PresentInv /\ RuntimeStep => Untouched
<1> SUFFICES ASSUME PresentInv, RuntimeStep PROVE Untouched
  OBVIOUS
<1>1. CASE UNCHANGED vars
  BY <1>1, SameRecords DEF vars
<1>2. ASSUME NEW x, Open(Child, x), UNCHANGED mappings PROVE Untouched
  BY <1>2, ThingsDiffer DEF Open, Untouched, Held, Mapped
<1>3. ASSUME NEW h \in handles, HandleClose(Child, h) PROVE Untouched
  BY <1>3, ThingsDiffer DEF HandleClose, Owns, Untouched, Held, Mapped
<1>4. ASSUME NEW m \in mappings, MemoryUnmap(Child, m) PROVE Untouched
  BY <1>4, UnmapForgets, ThingsDiffer DEF MemoryUnmap, Untouched, Held, Mapped
<1>5. ASSUME NEW h, NEW n, MemoryMap(Child, h, n) PROVE Untouched
  <2>1. CASE MemoryMapped(Child, h, n)
    BY <2>1, ThingsDiffer DEF MemoryMapped, Map, Untouched, Held, Mapped
  <2>2. CASE MemoryMapFailed(Child, h, n)
    BY <2>2, SameRecords DEF MemoryMapFailed, FailMap
  <2>3. QED BY <1>5, <2>1, <2>2 DEF MemoryMap
<1>6. CASE GetInfo \/ Exit \/ \E size \in Sizes, alignment \in Alignments :
                                New(size, alignment)
  BY <1>1, <1>6 DEF GetInfo, Exit, New
<1>7. CASE GetProcess
  BY <1>1, <1>2, <1>7 DEF GetProcess, ProcessCurrent
<1>8. CASE CreateBlock
  BY <1>1, <1>2, <1>8 DEF CreateBlock, MemoryCreate
<1>9. CASE MapBlock
  BY <1>1, <1>5, <1>9 DEF MapBlock, MemoryMap
<1>10. CASE GiveUp
  BY <1>3, <1>10 DEF GiveUp, GiveBack, ChildHeld
<1>11. CASE \E block \in blocks : Delete(block)
  BY <1>4, <1>11 DEF Delete, ChildMapped
<1>12. CASE CloseBlock
  BY <1>1, <1>3, <1>12 DEF CloseBlock, ChildHeld
<1>13. QED
  BY <1>6, <1>7, <1>8, <1>9, <1>10, <1>11, <1>12 DEF RuntimeStep

-----------------------------------------------------------------------------
(* The steps of Loader *)

\* Before the answer: no thread of the child runs.
LEMMA NotStarted ==
  ASSUME LoadInv, step \notin {"answer", "done"}
  PROVE  ~started
BY DEF LoadInv, OnceStarted

\* A step on which Loader comes to hold `taken` and goes on, with nothing to
\* release.
LEMMA GoesOn ==
  ASSUME LoadInv, NEW s, NEW t, NEW taken, At(s), Goto(t), started' = started,
         s \notin {"answer", "done"},
         \A d \in Duties : Due(d)' <=> Due(d) \/ d \in taken,
         Once',
         Kept(t, code) = Kept(s, code) \cup taken
  PROVE  LoadInv'
<1>1. releases = <<>> /\ releases' = <<>> /\ step = s /\ step' = t /\ code' = code
  BY DEF At, Goto
<1>2. WellListed(t, code, <<>>)
  BY NoRelease DEF WellListed
<1>3. Ledger'
  BY <1>1, NoRelease DEF LoadInv, Ledger
<1>4. OnceStarted'
  BY <1>1 DEF LoadInv, OnceStarted
<1>5. QED BY <1>1, <1>2, <1>3, <1>4 DEF LoadInv

\* A step on which it holds what it held, and has some of it to release.
LEMMA Turns ==
  ASSUME LoadInv, NEW s, NEW t, NEW c, NEW r, At(s),
         step' = t, code' = c, releases' = r,
         s \notin {"answer", "done"}, t # "done",
         WellListed(t, c, r),
         Kept(t, c) \cup Listed(r) = Kept(s, code),
         \A d \in Duties : Due(d)' <=> Due(d),
         Once', OnceStarted'
  PROVE  LoadInv'
<1>1. releases = <<>> /\ step = s
  BY DEF At
<1>2. Ledger'
  BY <1>1, NoRelease DEF LoadInv, Ledger
<1>3. QED BY <1>1, <1>2 DEF LoadInv

\* What a return releases is the rest of what is held but what its code says
\* is forgotten.
LEMMA ReturnListed ==
  ASSUME NEW c, NEW r \in Seq(Duties), Distinct(r),
         Listed(r) \cap TakenFile = {}, Forgotten(c) \cap (Listed(r) \cup TakenFile) = {}
  PROVE  /\ WellListed("answer", c, r \o Caller)
         /\ Listed(r \o Caller) = Listed(r) \cup TakenFile
<1>1. Caller \in Seq(Duties) /\ Distinct(Caller) /\ Listed(Caller) = TakenFile
  BY DutiesAre DEF Caller, C, U, TakenFile, Duties, Things, Distinct, Listed
<1>2. /\ r \o Caller \in Seq(Duties) /\ Distinct(r \o Caller)
      /\ Listed(r \o Caller) = Listed(r) \cup TakenFile
  BY <1>1, Joined
<1>3. QED BY <1>2, KeptAre DEF WellListed

LEMMA Returns ==
  ASSUME LoadInv, NEW s, NEW c, NEW r \in Seq(Duties), Distinct(r),
         At(s), Return(c, r), Untouched, started' = started,
         s \notin {"answer", "done"},
         Listed(r) \cap TakenFile = {}, Forgotten(c) \cap (Listed(r) \cup TakenFile) = {},
         Kept(s, code) = Forgotten(c) \cup Listed(r) \cup TakenFile
  PROVE  LoadInv'
<1>1. step' = "answer" /\ code' = c /\ releases' = r \o Caller
  BY DEF Return, Answer
<1>2. Once' /\ \A d \in Duties : Due(d)' <=> Due(d)
  BY UntouchedKeeps DEF LoadInv
<1>3. OnceStarted'
  BY DEF LoadInv, OnceStarted, At
<1> DEFINE all == r \o Caller
<1>4. WellListed("answer", c, all) /\ Listed(all) = Listed(r) \cup TakenFile
  BY ReturnListed
<1>5. Kept("answer", c) \cup Listed(all) = Kept(s, code)
  BY <1>4, KeptAre
<1> HIDE DEF all
<1>6. "answer" # "done"
  OBVIOUS
<1>7. releases' = all
  BY <1>1 DEF all
<1>8. QED
  BY <1>1, <1>2, <1>3, <1>4, <1>5, <1>6, <1>7, Turns

\* The releases of a path: the image, or two handles.
LEMMA TwoReleases ==
  /\ UnmapImage \o Close(Image) \in Seq(Duties)
  /\ Distinct(UnmapImage \o Close(Image))
  /\ Listed(UnmapImage \o Close(Image)) = {U(Image), C(Image)}
  /\ \A x \in Things \ {Child} :
       /\ Close(x) \o Close(Child) \in Seq(Duties)
       /\ Distinct(Close(x) \o Close(Child))
       /\ Listed(Close(x) \o Close(Child)) = {C(x), C(Child)}
<1>1. Image \in Things /\ Child \in Things
  BY DEF Things
<1>2. /\ UnmapImage \in Seq(Duties) /\ Distinct(UnmapImage)
      /\ Listed(UnmapImage) = {U(Image)}
  BY <1>1, DutiesAre DEF UnmapImage, U, Distinct, Listed
<1>3. {U(Image)} \cap {C(Image)} = {}
  BY DutiesAre
<1>4. \A x \in Things \ {Child} : {C(x)} \cap {C(Child)} = {}
  BY DutiesAre
<1>5. /\ UnmapImage \o Close(Image) \in Seq(Duties)
      /\ Distinct(UnmapImage \o Close(Image))
      /\ Listed(UnmapImage \o Close(Image)) = {U(Image), C(Image)}
  <2>1. Close(Image) \in Seq(Duties) /\ Distinct(Close(Image))
        /\ Listed(Close(Image)) = {C(Image)}
    BY <1>1, OneRelease
  <2>2. {U(Image)} \cup {C(Image)} = {U(Image), C(Image)}
    OBVIOUS
  <2>3. QED BY <1>2, <1>3, <2>1, <2>2, Joined
<1>6. ASSUME NEW x \in Things \ {Child}
      PROVE  /\ Close(x) \o Close(Child) \in Seq(Duties)
             /\ Distinct(Close(x) \o Close(Child))
             /\ Listed(Close(x) \o Close(Child)) = {C(x), C(Child)}
  <2>1. /\ Close(x) \in Seq(Duties) /\ Distinct(Close(x)) /\ Listed(Close(x)) = {C(x)}
        /\ Close(Child) \in Seq(Duties) /\ Distinct(Close(Child))
        /\ Listed(Close(Child)) = {C(Child)}
    BY <1>1, OneRelease
  <2>2. {C(x)} \cup {C(Child)} = {C(x), C(Child)}
    OBVIOUS
  <2>3. QED BY <1>4, <2>1, <2>2, Joined
<1>7. QED BY <1>5, <1>6

\* All names of duties, told apart.
LEMMA Apart ==
  /\ C(File) # C(Image) /\ C(File) # C(Stack) /\ C(Image) # C(Stack)
  /\ C(Child) \notin {C(File), C(Image), C(Stack), C(ChildThread)}
  /\ C(ChildThread) \notin {C(File), C(Image), C(Stack)}
  /\ U(File) # U(Image)
  /\ \A x, y : C(x) # U(y)
BY ThingsDiffer, DutiesAre

\* What is not held is not there.
LEMMA NotHeld ==
  ASSUME LoadInv, NEW s, At(s), NEW x \in Things
  PROVE  /\ C(x) \notin Kept(s, code) => Held(x) = {}
         /\ U(x) \notin Kept(s, code) => Mapped(x) = {}
<1>1. releases = <<>> /\ step = s
  BY DEF At
<1>2. C(x) \in Duties /\ U(x) \in Duties
  BY DutiesAre
<1>3. C(x).op = "close" /\ C(x).of = x /\ U(x).op = "unmap" /\ U(x).of = x
  BY DEF C, U
<1>4. QED BY <1>1, <1>2, <1>3, NoRelease DEF LoadInv, Ledger, Due

LEMMA ForgottenAre ==
  /\ \A c \in {2, 6, 7, 13, 14, 15, 21, 22, 23} : Forgotten(c) = {}
  /\ \A c \in {11, 12, 16, 17, 18} : Forgotten(c) = {C(Child)}
  /\ Forgotten(8) = {C(Child), U(Image), C(Image)}
  /\ Forgotten(0) = {C(ChildThread)}
BY DEF Forgotten, ForgetsProcess

\* The caller's own errors, before load_elf_into_new_process.
LEMMA CallerFails ==
  ASSUME LoadInv, NEW s, NEW c \in {21, 22, 23}, NEW r \in Seq(Duties), Distinct(r),
         At(s), Answer(c, r), Untouched, started' = started,
         s \notin {"answer", "done"}, Listed(r) = Kept(s, code)
  PROVE  LoadInv'
<1>1. step' = "answer" /\ code' = c /\ releases' = r
  BY DEF Answer
<1>2. Once' /\ \A d \in Duties : Due(d)' <=> Due(d)
  BY UntouchedKeeps DEF LoadInv
<1>3. OnceStarted'
  BY DEF LoadInv, OnceStarted, At
<1>4. Kept("answer", c) = {}
  BY KeptAre, ForgottenAre
<1>5. WellListed("answer", c, r) /\ Kept("answer", c) \cup Listed(r) = Kept(s, code)
  BY <1>4 DEF WellListed
<1>6. "answer" # "done"
  OBVIOUS
<1>7. QED BY <1>1, <1>2, <1>3, <1>5, <1>6, Turns

\* Going on with nothing changed but what is none of Loader's.
LEMMA GoesOnSame ==
  ASSUME LoadInv, NEW s, NEW t, At(s), Goto(t), started' = started,
         s \notin {"answer", "done"}, Untouched, Kept(t, code) = Kept(s, code)
  PROVE  LoadInv'
<1> DEFINE none == {}
<1>1. Once' /\ \A d \in Duties : Due(d)' <=> Due(d) \/ d \in none
  BY UntouchedKeeps DEF LoadInv
<1>2. Kept(t, code) = Kept(s, code) \cup none
  OBVIOUS
<1> HIDE DEF none
<1>3. QED BY <1>1, <1>2, GoesOn

\* Going on with a new handle.
LEMMA GoesOnOpen ==
  ASSUME LoadInv, NEW s, NEW t, NEW x \in Things, At(s), Goto(t), started' = started,
         s \notin {"answer", "done"}, Open(Loader, x), UNCHANGED mappings,
         C(x) \notin Kept(s, code), Kept(t, code) = Kept(s, code) \cup {C(x)}
  PROVE  LoadInv'
<1>1. Held(x) = {}
  BY NotHeld
<1>2. Once' /\ \A d \in Duties : Due(d)' <=> Due(d) \/ d \in {C(x)}
  BY <1>1, OpenDue DEF LoadInv
<1>3. QED BY <1>2, GoesOn

\* Going on with a new mapping.
LEMMA GoesOnMap ==
  ASSUME LoadInv, NEW s, NEW t, NEW x \in Things, At(s), Goto(t),
         started' = started, s \notin {"answer", "done"},
         NEW h \in Held(x), NEW n, MemoryMapped(Loader, h, n),
         U(x) \notin Kept(s, code), Kept(t, code) = Kept(s, code) \cup {U(x)}
  PROVE  LoadInv'
<1>1. Mapped(x) = {}
  BY NotHeld
<1>2. Once' /\ \A d \in Duties : Due(d)' <=> Due(d) \/ d \in {U(x)}
  BY <1>1, MapDue DEF LoadInv
<1>3. QED BY <1>2, GoesOn

\* Up to the creation of the process.
LEMMA EarlySteps ==
  ASSUME LoadInv,
         FindBootModuleById \/ FetchModule \/ MapModule \/ CheckHeader \/ CreateProcess
  PROVE  LoadInv'
<1>a. File \in Things /\ Child \in Things
  BY DEF Things
<1>b. vars' = vars => Untouched
  BY SameRecords DEF vars
<1>c. \A s \in {"find", "fetch", "mapModule", "check", "create"} :
        s \notin {"answer", "done"}
  OBVIOUS
<1>1. CASE FindBootModuleById
  <2>1. CASE At("find") /\ Goto("fetch")
    BY <1>1, <1>b, <1>c, <2>1, KeptAre, GoesOnSame DEF FindBootModuleById
  <2>2. CASE At("find") /\ Answer(21, <<>>)
    BY <1>1, <1>b, <1>c, <2>2, KeptAre, NoRelease, CallerFails DEF FindBootModuleById
  <2>3. QED BY <1>1, <2>1, <2>2 DEF FindBootModuleById
<1>2. CASE FetchModule
  <2>1. CASE BootObjectReply(Loader, File) /\ Goto("mapModule")
    <3>1. Open(Loader, File) /\ UNCHANGED mappings
      BY <2>1 DEF BootObjectReply
    <3>2. /\ C(File) \notin Kept("fetch", code)
          /\ Kept("mapModule", code) = Kept("fetch", code) \cup {C(File)}
      BY KeptAre
    <3>3. QED BY <1>2, <1>a, <1>c, <2>1, <3>1, <3>2, GoesOnOpen DEF FetchModule
  <2>2. CASE Refused /\ Answer(22, <<>>)
    BY <1>2, <1>b, <1>c, <2>2, KeptAre, NoRelease, CallerFails DEF FetchModule, Refused
  <2>3. QED BY <1>2, <2>1, <2>2 DEF FetchModule
<1>3. CASE MapModule
  <2>1. ASSUME NEW h \in Held(File), NEW n, MemoryMapped(Loader, h, n), Goto("check")
        PROVE  LoadInv'
    <3>1. Kept("check", code) = Kept("mapModule", code) \cup {U(File)}
      BY KeptAre DEF TakenFile
    <3>2. U(File) \notin Kept("mapModule", code)
      BY KeptAre, Apart
    <3>3. At("mapModule") /\ started' = started
      BY <1>3 DEF MapModule
    <3>4. QED BY <1>a, <1>c, <2>1, <3>1, <3>2, <3>3, GoesOnMap
  <2>2. CASE Fails /\ Answer(23, Close(File))
    BY <1>3, <1>a, <1>c, <2>2, FailsUntouched, KeptAre, OneRelease, CallerFails
    DEF MapModule
  <2>3. QED BY <1>3, <2>1, <2>2 DEF MapModule, Fails
<1>4. CASE CheckHeader
  <2>1. CASE Goto("create")
    BY <1>4, <1>b, <1>c, <2>1, KeptAre, GoesOnSame DEF CheckHeader
  <2>2. CASE Return(2, <<>>)
    <3>1. /\ Forgotten(2) \cap ({} \cup TakenFile) = {}
          /\ Kept("check", code) = Forgotten(2) \cup {} \cup TakenFile
      BY KeptAre, ForgottenAre
    <3>2. At("check") /\ started' = started /\ Untouched
      BY <1>b, <1>4, <2>2 DEF CheckHeader
    <3>3. QED BY <1>c, <2>2, <3>1, <3>2, NoRelease, Returns
  <2>3. QED BY <1>4, <2>1, <2>2 DEF CheckHeader
<1>5. CASE CreateProcess
  <2>1. CASE ProcessCreate(Loader, Child) /\ Goto("grant")
    <3>1. Open(Loader, Child) /\ UNCHANGED mappings
      BY <2>1 DEF ProcessCreate
    <3>2. /\ C(Child) \notin Kept("create", code)
          /\ Kept("grant", code) = Kept("create", code) \cup {C(Child)}
      BY KeptAre, Apart DEF TakenFile, Begun
    <3>3. QED BY <1>5, <1>a, <1>c, <2>1, <3>1, <3>2, GoesOnOpen DEF CreateProcess
  <2>2. CASE Refused /\ Return(6, <<>>)
    <3>1. /\ Forgotten(6) \cap ({} \cup TakenFile) = {}
          /\ Kept("create", code) = Forgotten(6) \cup {} \cup TakenFile
      BY KeptAre, ForgottenAre
    <3>2. At("create") /\ started' = started /\ Untouched
      BY <1>b, <1>5, <2>2 DEF CreateProcess, Refused
    <3>3. QED BY <1>c, <2>2, <3>1, <3>2, NoRelease, Returns
  <2>3. QED BY <1>5, <2>1, <2>2 DEF CreateProcess
<1>6. QED BY <1>1, <1>2, <1>3, <1>4, <1>5

\* From the capabilities to the last page of the image.
LEMMA ImageSteps ==
  ASSUME LoadInv,
         \/ GrantCapabilities \/ CreateImage \/ MapImage
         \/ CopySegments \/ SkipPage \/ MapRun \/ ImageDone
  PROVE  LoadInv'
<1>a. {File, Image, Child} \subseteq Things
  BY DEF Things
<1>b. vars' = vars => Untouched
  BY SameRecords DEF vars
<1>c. \A s \in {"grant", "layout", "mapImage", "copy", "pages"} :
        s \notin {"answer", "done"}
  OBVIOUS
<1>1. CASE GrantCapabilities
  <2>1. CASE Goto("layout")
    <3>1. Untouched
      BY <1>1, <1>b, <2>1, SameRecords
      DEF GrantCapabilities, ProcessGrantCapabilities, Refused, Return, Answer, Goto
    <3>2. QED BY <1>1, <1>c, <2>1, <3>1, KeptAre, GoesOnSame DEF GrantCapabilities
  <2>2. CASE Refused /\ Return(7, Close(Child))
    <3>1. /\ Listed(Close(Child)) \cap TakenFile = {} /\ Forgotten(7) = {}
          /\ Kept("grant", code) = Forgotten(7) \cup Listed(Close(Child)) \cup TakenFile
      BY <1>a, OneRelease, KeptAre, ForgottenAre, Apart DEF Begun, TakenFile
    <3>2. QED
      BY <1>1, <1>a, <1>b, <1>c, <2>2, <3>1, OneRelease, Returns
      DEF GrantCapabilities, Refused
  <2>3. QED BY <1>1, <2>1, <2>2 DEF GrantCapabilities
<1>2. CASE CreateImage
  <2>1. CASE MemoryCreate(Loader, Image) /\ Goto("mapImage")
    <3>1. Open(Loader, Image) /\ UNCHANGED mappings
      BY <2>1 DEF MemoryCreate
    <3>2. /\ C(Image) \notin Kept("layout", code)
          /\ Kept("mapImage", code) = Kept("layout", code) \cup {C(Image)}
      BY KeptAre, Apart DEF TakenFile, Begun
    <3>3. QED BY <1>2, <1>a, <1>c, <2>1, <3>1, <3>2, GoesOnOpen DEF CreateImage
  <2>2. ASSUME NEW c \in {16, 17}, Refused, Return(c, <<>>) PROVE LoadInv'
    <3>1. /\ Forgotten(c) \cap ({} \cup TakenFile) = {}
          /\ Kept("layout", code) = Forgotten(c) \cup {} \cup TakenFile
      BY KeptAre, ForgottenAre, Apart DEF Begun, TakenFile
    <3>2. At("layout") /\ started' = started /\ Untouched
      BY <1>b, <1>2, <2>2 DEF CreateImage, Refused
    <3>3. QED BY <1>c, <2>2, <3>1, <3>2, NoRelease, Returns
  <2>3. QED BY <1>2, <2>1, <2>2 DEF CreateImage, Refused
<1>3. CASE MapImage
  <2>1. ASSUME NEW h \in Held(Image), NEW n, MemoryMapped(Loader, h, n), Goto("copy")
        PROVE  LoadInv'
    <3>1. /\ U(Image) \notin Kept("mapImage", code)
          /\ Kept("copy", code) = Kept("mapImage", code) \cup {U(Image)}
      BY KeptAre, Apart DEF TakenFile, Begun
    <3>2. At("mapImage") /\ started' = started
      BY <1>3 DEF MapImage
    <3>3. QED BY <1>a, <1>c, <2>1, <3>1, <3>2, GoesOnMap
  <2>2. CASE Fails /\ Return(18, Close(Image))
    <3>1. /\ Listed(Close(Image)) \cap TakenFile = {}
          /\ Forgotten(18) \cap (Listed(Close(Image)) \cup TakenFile) = {}
          /\ Kept("mapImage", code)
               = Forgotten(18) \cup Listed(Close(Image)) \cup TakenFile
      BY <1>a, OneRelease, KeptAre, ForgottenAre, Apart DEF Begun, TakenFile
    <3>2. QED
      BY <1>3, <1>a, <1>c, <2>2, <3>1, FailsUntouched, OneRelease, Returns
      DEF MapImage
  <2>3. QED BY <1>3, <2>1, <2>2 DEF MapImage, Fails
<1>4. CASE CopySegments
  <2>1. CASE Goto("pages")
    <3>1. Kept("pages", code) = Kept("copy", code)
      BY KeptAre
    <3>2. QED BY <1>4, <1>b, <1>c, <2>1, <3>1, GoesOnSame DEF CopySegments
  <2>2. CASE Return(8, <<>>)
    <3>1. /\ Forgotten(8) \cap ({} \cup TakenFile) = {}
          /\ Kept("copy", code) = Forgotten(8) \cup {} \cup TakenFile
      BY KeptAre, ForgottenAre, Apart DEF Begun, TakenFile
    <3>2. At("copy") /\ started' = started /\ Untouched
      BY <1>b, <1>4 DEF CopySegments
    <3>3. QED BY <1>c, <2>2, <3>1, <3>2, NoRelease, Returns
  <2>3. QED BY <1>4, <2>1, <2>2 DEF CopySegments
<1>5. CASE SkipPage
  <2>1. At("pages") /\ Goto("pages") /\ started' = started /\ Untouched
    BY <1>5, <1>b DEF SkipPage, At, Goto
  <2>2. QED BY <1>c, <2>1, GoesOnSame
<1>6. CASE MapRun
  <2>0. At("pages") /\ started' = started
    BY <1>6 DEF MapRun
  <2>1. ASSUME NEW g \in Held(Child), NEW h \in Held(Image), NEW n, NEW b,
               ProcessMemoryMapped(Loader, g, h, n, b), Goto("pages")
        PROVE  LoadInv'
    <3>1. Untouched
      BY <2>1, MapChildDue DEF Held
    <3>2. QED BY <1>c, <2>0, <2>1, <3>1, GoesOnSame
  <2>2. CASE Fails /\ Return(11, UnmapImage \o Close(Image))
    <3> DEFINE r == UnmapImage \o Close(Image)
    <3>1. r \in Seq(Duties) /\ Distinct(r) /\ Listed(r) = {U(Image), C(Image)}
      BY TwoReleases
    <3>2. Untouched /\ Return(11, r)
      BY <2>2, FailsUntouched
    <3> HIDE DEF r
    <3>3. /\ Listed(r) \cap TakenFile = {}
          /\ Forgotten(11) \cap (Listed(r) \cup TakenFile) = {}
          /\ Kept("pages", code) = Forgotten(11) \cup Listed(r) \cup TakenFile
      BY <3>1, KeptAre, ForgottenAre, Apart DEF Begun, TakenFile
    <3>4. QED BY <1>c, <2>0, <3>1, <3>2, <3>3, Returns
  <2>3. QED BY <1>6, <2>1, <2>2 DEF MapRun, Fails
<1>7. CASE ImageDone
  <2> DEFINE r == UnmapImage \o Close(Image)
  <2>1. r \in Seq(Duties) /\ Distinct(r) /\ Listed(r) = {U(Image), C(Image)}
    BY TwoReleases
  <2>2. /\ At("pages") /\ step' = "stack" /\ releases' = r /\ code' = code
        /\ started' = started /\ Untouched
    BY <1>7, <1>b DEF ImageDone
  <2> HIDE DEF r
  <2>3. /\ Kept("stack", code) \cap Listed(r) = {}
        /\ Kept("stack", code) \cup Listed(r) = Kept("pages", code)
    BY <2>1, KeptAre, Apart DEF Begun, TakenFile
  <2>4. WellListed("stack", code, r)
    BY <2>1, <2>3 DEF WellListed
  <2>5. Once' /\ (\A d \in Duties : Due(d)' <=> Due(d)) /\ OnceStarted'
    BY <2>2, UntouchedKeeps DEF LoadInv, OnceStarted, At
  <2>6. "stack" # "done"
    OBVIOUS
  <2>7. QED BY <1>c, <2>2, <2>3, <2>4, <2>5, <2>6, Turns
<1>8. QED BY <1>1, <1>2, <1>3, <1>4, <1>5, <1>6, <1>7

\* From the stack to the start of the thread, and the answer.
LEMMA ThreadSteps ==
  ASSUME LoadInv,
         CreateStack \/ MapStack \/ CreateThread \/ StartThread \/ SendReply
  PROVE  LoadInv'
<1>a. {Stack, Child, ChildThread} \subseteq Things
  BY DEF Things
<1>b. vars' = vars => Untouched
  BY SameRecords DEF vars
<1>c. \A s \in {"stack", "mapStack", "thread", "start"} : s \notin {"answer", "done"}
  OBVIOUS
<1>1. CASE CreateStack
  <2>1. CASE MemoryCreate(Loader, Stack) /\ Goto("mapStack")
    <3>1. Open(Loader, Stack) /\ UNCHANGED mappings
      BY <2>1 DEF MemoryCreate
    <3>2. /\ C(Stack) \notin Kept("stack", code)
          /\ Kept("mapStack", code) = Kept("stack", code) \cup {C(Stack)}
      BY KeptAre, Apart DEF TakenFile, Begun
    <3>3. QED BY <1>1, <1>a, <1>c, <2>1, <3>1, <3>2, GoesOnOpen DEF CreateStack
  <2>2. CASE Refused /\ Return(12, <<>>)
    <3>1. /\ Forgotten(12) \cap ({} \cup TakenFile) = {}
          /\ Kept("stack", code) = Forgotten(12) \cup {} \cup TakenFile
      BY KeptAre, ForgottenAre, Apart DEF Begun, TakenFile
    <3>2. At("stack") /\ started' = started /\ Untouched
      BY <1>b, <1>1, <2>2 DEF CreateStack, Refused
    <3>3. QED BY <1>c, <2>2, <3>1, <3>2, NoRelease, Returns
  <2>3. QED BY <1>1, <2>1, <2>2 DEF CreateStack
<1>2. CASE MapStack
  <2>0. At("mapStack") /\ started' = started
    BY <1>2 DEF MapStack
  <2>1. ASSUME NEW g \in Held(Child), NEW h \in Held(Stack),
               ProcessMemoryMapped(Loader, g, h, 1, StackPage),
               step' = "thread", releases' = Close(Stack), UNCHANGED code
        PROVE  LoadInv'
    <3>1. Untouched
      BY <2>1, MapChildDue DEF Held
    <3>2. /\ Kept("thread", code) \cap Listed(Close(Stack)) = {}
          /\ Kept("thread", code) \cup Listed(Close(Stack)) = Kept("mapStack", code)
      BY <1>a, OneRelease, KeptAre, Apart DEF Begun, TakenFile
    <3>3. WellListed("thread", code, Close(Stack))
      BY <1>a, <3>2, OneRelease DEF WellListed
    <3>4. Once' /\ (\A d \in Duties : Due(d)' <=> Due(d)) /\ OnceStarted'
      BY <2>0, <3>1, UntouchedKeeps DEF LoadInv, OnceStarted, At
    <3>5. "thread" # "done"
      OBVIOUS
    <3>6. QED BY <1>c, <2>0, <2>1, <3>2, <3>3, <3>4, <3>5, Turns
  <2>2. CASE Fails /\ Return(13, Close(Stack) \o Close(Child))
    <3> DEFINE r == Close(Stack) \o Close(Child)
    <3>1. r \in Seq(Duties) /\ Distinct(r) /\ Listed(r) = {C(Stack), C(Child)}
      BY <1>a, ThingsDiffer, TwoReleases
    <3>2. Untouched /\ Return(13, r)
      BY <2>2, FailsUntouched
    <3> HIDE DEF r
    <3>3. /\ Listed(r) \cap TakenFile = {} /\ Forgotten(13) = {}
          /\ Kept("mapStack", code) = Forgotten(13) \cup Listed(r) \cup TakenFile
      BY <3>1, KeptAre, ForgottenAre, Apart DEF Begun, TakenFile
    <3>4. QED BY <1>c, <2>0, <3>1, <3>2, <3>3, Returns
  <2>3. QED BY <1>2, <2>1, <2>2 DEF MapStack, Fails
<1>3. CASE CreateThread
  <2>1. ASSUME NEW g, ThreadCreate(Loader, g, ChildThread), Goto("start")
        PROVE  LoadInv'
    <3>1. Open(Loader, ChildThread) /\ UNCHANGED mappings
      BY <2>1 DEF ThreadCreate
    <3>2. /\ C(ChildThread) \notin Kept("thread", code)
          /\ Kept("start", code) = Kept("thread", code) \cup {C(ChildThread)}
      BY KeptAre, Apart DEF TakenFile, Begun
    <3>3. QED BY <1>3, <1>a, <1>c, <2>1, <3>1, <3>2, GoesOnOpen DEF CreateThread
  <2>2. CASE Refused /\ Return(14, Close(Child))
    <3>1. /\ Listed(Close(Child)) \cap TakenFile = {} /\ Forgotten(14) = {}
          /\ Kept("thread", code) = Forgotten(14) \cup Listed(Close(Child)) \cup TakenFile
      BY <1>a, OneRelease, KeptAre, ForgottenAre, Apart DEF Begun, TakenFile
    <3>2. QED
      BY <1>3, <1>a, <1>b, <1>c, <2>2, <3>1, OneRelease, Returns
      DEF CreateThread, Refused
  <2>3. QED BY <1>3, <2>1, <2>2 DEF CreateThread
<1>4. CASE StartThread
  <2>0. At("start") /\ UNCHANGED vars
    BY <1>4 DEF StartThread
  <2>1. CASE started' = TRUE /\ Return(0, Close(Child))
    <3> DEFINE all == Close(Child) \o Caller
    <3>1. /\ Listed(Close(Child)) = {C(Child)}
          /\ Close(Child) \in Seq(Duties) /\ Distinct(Close(Child))
      BY <1>a, OneRelease
    <3>2. /\ Listed(Close(Child)) \cap TakenFile = {}
          /\ Forgotten(0) \cap (Listed(Close(Child)) \cup TakenFile) = {}
      BY <3>1, ForgottenAre, Apart DEF TakenFile
    <3>3. WellListed("answer", 0, all) /\ Listed(all) = {C(Child)} \cup TakenFile
      BY <3>1, <3>2, ReturnListed
    <3>4. step' = "answer" /\ code' = 0 /\ releases' = all
      BY <2>1 DEF Return, Answer
    <3> HIDE DEF all
    <3>5. Kept("answer", 0) \cup Listed(all) = Kept("start", code)
      BY <3>3, KeptAre, ForgottenAre DEF Begun
    <3>6. \A d \in Listed(all) : d.of \notin {Image, Stack}
      <4>1. \A d \in Listed(all) : d.of \in {Child, File}
        BY <3>3 DEF TakenFile, C, U
      <4>2. QED BY <4>1, ThingsDiffer
    <3>7. OnceStarted'
      BY <3>4, <3>6 DEF OnceStarted
    <3>8. Once' /\ \A d \in Duties : Due(d)' <=> Due(d)
      BY <1>b, <2>0, UntouchedKeeps DEF LoadInv
    <3>9. "answer" # "done"
      OBVIOUS
    <3>10. QED BY <1>c, <2>0, <3>3, <3>4, <3>5, <3>7, <3>8, <3>9, Turns
  <2>2. CASE started' = started /\ Return(15, Close(ChildThread) \o Close(Child))
    <3> DEFINE r == Close(ChildThread) \o Close(Child)
    <3>1. r \in Seq(Duties) /\ Distinct(r) /\ Listed(r) = {C(ChildThread), C(Child)}
      BY <1>a, ThingsDiffer, TwoReleases
    <3>2. started' = started /\ Return(15, r) /\ Untouched
      BY <1>b, <2>0, <2>2
    <3> HIDE DEF r
    <3>3. /\ Listed(r) \cap TakenFile = {} /\ Forgotten(15) = {}
          /\ Kept("start", code) = Forgotten(15) \cup Listed(r) \cup TakenFile
      BY <3>1, KeptAre, ForgottenAre, Apart DEF Begun, TakenFile
    <3>4. QED BY <1>c, <2>0, <3>1, <3>2, <3>3, Returns
  <2>3. QED BY <1>4, <2>1, <2>2 DEF StartThread
<1>5. CASE SendReply
  <2>1. /\ step = "answer" /\ releases = <<>> /\ releases' = releases
        /\ step' = "done" /\ code' = code /\ started' = started /\ Untouched
    BY <1>5, <1>b DEF SendReply, At, Goto
  <2>2. Kept("done", code) = Kept("answer", code)
    BY KeptAre
  <2>3. Once' /\ \A d \in Duties : Due(d)' <=> Due(d)
    BY <2>1, UntouchedKeeps DEF LoadInv
  <2>4. Ledger'
    BY <2>1, <2>2, <2>3 DEF LoadInv, Ledger
  <2>5. WellListed("done", code, <<>>)
    BY NoRelease DEF WellListed
  <2>6. OnceStarted'
    BY <2>1 DEF LoadInv, OnceStarted
  <2>7. QED BY <2>1, <2>3, <2>4, <2>5, <2>6 DEF LoadInv
<1>6. QED BY <1>1, <1>2, <1>3, <1>4, <1>5

\* A release takes its duty off the list and the thing off what is held.
LEMMA ReleaseStep ==
  ASSUME LoadInv, PresentInv, ReleaseNext
  PROVE  LoadInv'
<1> DEFINE next == Head(releases)
<1>1. /\ releases \in Seq(Duties) /\ releases # <<>> /\ Distinct(releases)
      /\ releases' = Tail(releases) /\ step' = step /\ code' = code
      /\ started' = started /\ step # "done"
  BY DEF ReleaseNext, LoadInv, WellListed
<1>2. /\ next \in Listed(releases) /\ next \in Duties
      /\ Tail(releases) \in Seq(Duties) /\ Distinct(Tail(releases))
      /\ Listed(Tail(releases)) = Listed(releases) \ {next}
  BY <1>1, Released
<1>3. IF next.op = "unmap"
      THEN \E m \in Mapped(next.of) : MemoryUnmap(Loader, m)
      ELSE \E h \in Held(next.of) : HandleClose(Loader, h)
  BY DEF ReleaseNext
<1> HIDE DEF next
<1>4. next.of \in Things /\ next = IF next.op = "unmap" THEN U(next.of) ELSE C(next.of)
  BY <1>2 DEF Duties, U, C
<1>5. Once' /\ \A d \in Duties : Due(d)' <=> Due(d) /\ d # next
  <2>1. CASE next.op = "unmap"
    BY <1>3, <1>4, <2>1, UnmapDue DEF LoadInv
  <2>2. CASE next.op # "unmap"
    BY <1>3, <1>4, <2>2, CloseDue DEF LoadInv
  <2>3. QED BY <2>1, <2>2
<1>6. next \notin Kept(step, code)
  BY <1>2 DEF LoadInv, WellListed
<1>7. WellListed(step, code, Tail(releases))
  BY <1>2 DEF LoadInv, WellListed
<1>8. Ledger'
  BY <1>1, <1>2, <1>5, <1>6 DEF LoadInv, Ledger
<1>9. OnceStarted'
  BY <1>1, <1>2 DEF LoadInv, OnceStarted
<1>10. QED BY <1>1, <1>5, <1>7, <1>8, <1>9 DEF LoadInv

-----------------------------------------------------------------------------

LEMMA InitLoadInv == UserInit => LoadInv
<1> SUFFICES ASSUME UserInit PROVE LoadInv
  OBVIOUS
<1>1. /\ step = "find" /\ releases = <<>> /\ started = FALSE
      /\ handles = {} /\ mappings = {}
  BY DEF UserInit, LoadInit, Init
<1>2. \A x \in Things : Held(x) = {} /\ Mapped(x) = {}
  BY <1>1 DEF Held, Mapped
<1>3. \A d \in Duties : ~Due(d)
  BY <1>2 DEF Due, Duties
<1>4. Kept("find", code) = {}
  BY KeptAre
<1>5. WellListed("find", code, <<>>) /\ Ledger
  BY <1>1, <1>3, <1>4, NoRelease DEF WellListed, Ledger
<1>6. Once /\ OnceStarted
  BY <1>1, <1>2 DEF Once, OnceStarted
<1>7. QED BY <1>1, <1>5, <1>6 DEF LoadInv

LEMMA NextLoadInv ==
  ASSUME PresentInv, LoadInv, [UserNext]_userVars
  PROVE  LoadInv'
<1>1. CASE LoadStep
  BY <1>1, EarlySteps, ImageSteps, ThreadSteps, ReleaseStep DEF LoadStep
<1>2. CASE UNCHANGED loader /\ Untouched
  <2>1. UNCHANGED <<step, code, releases, started>>
    BY <1>2 DEF loader
  <2>2. Once' /\ \A d \in Duties : Due(d)' <=> Due(d)
    BY <1>2, UntouchedKeeps DEF LoadInv
  <2>3. Ledger'
    BY <2>1, <2>2 DEF LoadInv, Ledger
  <2>4. QED BY <2>1, <2>2, <2>3 DEF LoadInv, WellListed, OnceStarted
<1>3. CASE UNCHANGED userVars
  BY <1>2, <1>3, SameRecords DEF userVars, vars
<1>4. QED
  BY <1>1, <1>2, <1>3, ProgramUntouched DEF UserNext, LoaderStep, ProgramStep

\* On every way out Loader gives back the file, the image and the stack, but for
\* the image where a bad segment ends the copy; it keeps the new process's
\* handle exactly on the returns that forget it and the thread's on success;
\* and it has no access to image and stack of a program that was started.  For
\* every image and request, wherever calls fail, and whatever the program does.
THEOREM LoaderAlwaysReleases == UserSpec => []LoaderReleases
<1>1. LoadInv => LoaderReleases
  <2> SUFFICES ASSUME LoadInv PROVE LoaderReleases
    OBVIOUS
  <2>1. \A x \in Things :
          /\ Held(x) # {} <=> C(x) \in Kept(step, code) \cup Listed(releases)
          /\ Mapped(x) # {} <=> U(x) \in Kept(step, code) \cup Listed(releases)
    <3> TAKE x \in Things
    <3>1. C(x) \in Duties /\ U(x) \in Duties
      BY DutiesAre
    <3>2. (Due(C(x)) <=> Held(x) # {}) /\ (Due(U(x)) <=> Mapped(x) # {})
      BY DEF Due, C, U
    <3>3. QED BY <3>1, <3>2 DEF LoadInv, Ledger
  <2>2. {File, Image, Stack, Child, ChildThread} \subseteq Things
    BY DEF Things
  <2>3. ASSUME step = "done"
        PROVE  /\ \A x \in {File, Image, Stack} :
                    Held(x) \cup Mapped(x) # {} <=> x = Image /\ code = 8
               /\ Held(Child) # {} <=> code \in ForgetsProcess
               /\ Held(ChildThread) # {} <=> code = 0
    <3>1. \A d : d \in Kept(step, code) \cup Listed(releases) <=> d \in Forgotten(code)
      BY <2>3, NoRelease, KeptAre DEF LoadInv
    <3>2. \A x \in Things :
            /\ C(x) \in Forgotten(code) <=>
                 \/ x = Child /\ code \in ForgetsProcess
                 \/ x = Image /\ code = 8
                 \/ x = ChildThread /\ code = 0
            /\ U(x) \in Forgotten(code) <=> x = Image /\ code = 8
      BY DutiesAre DEF Forgotten
    <3>3. QED BY <2>1, <2>2, <3>1, <3>2, ThingsDiffer
  <2>4. ASSUME started PROVE \A x \in {Image, Stack} : Held(x) \cup Mapped(x) = {}
    <3>1. /\ Kept(step, code) = {C(ChildThread)}
          /\ \A d \in Listed(releases) : d.of \notin {Image, Stack}
      BY <2>4, KeptAre, ForgottenAre DEF LoadInv, OnceStarted
    <3>2. \A x : C(x).of = x /\ U(x).of = x
      BY DEF C, U
    <3>3. QED BY <2>1, <2>2, <3>1, <3>2, ThingsDiffer, DutiesAre
  <2>5. QED BY <2>3, <2>4 DEF LoaderReleases
<1>2. PresentInv /\ LoadInv /\ [UserNext]_userVars => LoadInv'
  BY NextLoadInv
<1>3. UserSpec => []PresentInv
  BY ImplementsKernelObjects, AlwaysPresentInv, PTL
<1>4. QED BY <1>1, <1>2, <1>3, InitLoadInv, PTL DEF UserSpec

-----------------------------------------------------------------------------
(* Numbers *)

\* Every set of numbers with an element has a least one.
LEMMA LeastNumber ==
  ASSUME NEW S, S \subseteq Nat, S # {}
  PROVE  \E x \in S : \A y \in S : x <= y
<1> DEFINE R == {ss \in Nat \X Nat : ss[1] < ss[2]}
<1>1. IsWellFoundedOn(R, Nat)
  BY NatLessThanWellFounded DEF OpToRel
<1> HIDE DEF R
<1>2. PICK x \in S : \A y \in S : ~(<<y, x>> \in R)
  BY <1>1, WFMin
<1>3. \A y \in S : ~(y < x)
  BY <1>2 DEF R
<1>4. QED BY <1>2, <1>3

\* A set of numbers with an upper bound has a greatest one.
LEMMA GreatestNumber ==
  ASSUME NEW S, S \subseteq Nat, S # {}, NEW n \in Nat, \A x \in S : x <= n
  PROVE  \E x \in S : \A y \in S : x >= y
<1> DEFINE D == {n - x : x \in S}
<1>1. \A x \in S : x \in Nat /\ x <= n /\ n - x \in Nat
  OBVIOUS
<1>2. D \subseteq Nat /\ D # {}
  BY <1>1
<1> HIDE DEF D
<1>3. PICK d \in D : \A e \in D : d <= e
  BY <1>2, LeastNumber
<1>4. PICK x \in S : d = n - x
  BY <1>3 DEF D
<1>5. \A y \in S : n - x <= n - y
  BY <1>3, <1>4 DEF D
<1>6. QED BY <1>5

\* What holds of 0, and of every number up to n if of the one before, holds of
\* all up to n.  (A set stands for the property.)
LEMMA UpTo ==
  ASSUME NEW n \in Nat, NEW S, 0 \in S,
         \A i \in 1 .. n : i - 1 \in S => i \in S
  PROVE  \A i \in 0 .. n : i \in S
<1> SUFFICES ASSUME {i \in 0 .. n : i \notin S} # {}
             PROVE  FALSE
  OBVIOUS
<1>1. {i \in 0 .. n : i \notin S} \subseteq Nat
  OBVIOUS
<1>2. PICK i \in {i \in 0 .. n : i \notin S} :
        \A j \in {j \in 0 .. n : j \notin S} : i <= j
  BY <1>1, LeastNumber
<1>3. i \in 1 .. n /\ i - 1 \in 0 .. n /\ ~(i <= i - 1)
  BY <1>2
<1>4. QED BY <1>2, <1>3

\* The numbers in a list have an upper bound.
LEMMA BoundedValues ==
  ASSUME NEW n \in Nat, NEW f \in [1 .. n -> Nat]
  PROVE  \E b \in Nat : \A j \in 1 .. n : f[j] <= b
<1> DEFINE S == {i \in 0 .. n : \E b \in Nat : \A j \in 1 .. i : f[j] <= b}
<1>1. 0 \in S
  OBVIOUS
<1>2. \A i \in 1 .. n : i - 1 \in S => i \in S
  <2> SUFFICES ASSUME NEW i \in 1 .. n, i - 1 \in S PROVE i \in S
    OBVIOUS
  <2>1. PICK b \in Nat : \A j \in 1 .. i - 1 : f[j] <= b
    OBVIOUS
  <2>2. \A j \in 1 .. i : f[j] <= b + f[i]
    <3> TAKE j \in 1 .. i
    <3>1. f[j] \in Nat /\ f[i] \in Nat
      OBVIOUS
    <3>2. CASE j = i
      BY <3>1, <3>2
    <3>3. CASE j # i
      BY <2>1, <3>1, <3>3
    <3>4. QED BY <3>2, <3>3
  <2>3. b + f[i] \in Nat
    OBVIOUS
  <2>4. QED BY <2>2, <2>3
<1> HIDE DEF S
<1>3. \A i \in 0 .. n : i \in S
  BY <1>1, <1>2, UpTo
<1>4. n \in 0 .. n
  OBVIOUS
<1>5. n \in S
  BY <1>3, <1>4
<1>6. QED BY <1>5 DEF S

LEMMA LeastIsMin ==
  ASSUME NEW S, S \subseteq Nat, S # {}
  PROVE  Min(S) \in S /\ \A y \in S : Min(S) <= y
BY LeastNumber DEF Min

LEMMA GreatestIsMax ==
  ASSUME NEW S, S \subseteq Nat, S # {}, NEW n \in Nat, \A x \in S : x <= n
  PROVE  Max(S) \in S /\ \A y \in S : Max(S) >= y
BY GreatestNumber DEF Max

-----------------------------------------------------------------------------
(* The layout of an image *)

LEMMA HeadersAre ==
  ASSUME NEW file \in BootModules
  PROVE  /\ file.size \in Nat \ {0} /\ file.headers \in Seq(ProgramHeaders)
         /\ Len(file.headers) \in Nat
         /\ DOMAIN file.headers = 1 .. Len(file.headers)
         /\ Segments(file) \subseteq 1 .. Len(file.headers)
         /\ \A i \in Segments(file) : file.headers[i] \in ProgramHeaders
         /\ SegmentSet(file) \subseteq ProgramHeaders
<1>1. file.size \in Nat \ {0} /\ file.headers \in Seq(ProgramHeaders)
  BY LoadAssumption
<1>2. /\ Len(file.headers) \in Nat /\ DOMAIN file.headers = 1 .. Len(file.headers)
      /\ \A i \in 1 .. Len(file.headers) : file.headers[i] \in ProgramHeaders
  BY <1>1
<1>3. QED BY <1>1, <1>2 DEF Segments, SegmentSet

LEMMA HeaderNumbers ==
  ASSUME NEW h \in ProgramHeaders
  PROVE  /\ h.vaddr \in Nat /\ h.memsz \in Nat /\ h.filesz \in Nat /\ h.offset \in Nat
         /\ SegmentEnd(h) \in Nat /\ SegmentEnd(h) = h.vaddr + h.memsz
BY DEF ProgramHeaders, SegmentEnd

\* A page size's multiple, next below and next above a number.
LEMMA Aligned ==
  ASSUME NEW n \in Nat
  PROVE  /\ PageSize \in Nat \ {0}
         /\ n \div PageSize \in Nat
         /\ AlignDown(n) = (n \div PageSize) * PageSize
         /\ AlignDown(n) \in Nat /\ AlignDown(n) <= n
         /\ AlignUp(n) \in Nat /\ n <= AlignUp(n)
         /\ AlignUp(n) \div PageSize \in Nat
         /\ AlignUp(n) = (AlignUp(n) \div PageSize) * PageSize
<1>1. PageSize \in Nat \ {0}
  BY LoadAssumption
<1>2. ASSUME NEW m \in Nat
      PROVE  /\ m \div PageSize \in Nat /\ m % PageSize \in 0 .. PageSize - 1
             /\ m = PageSize * (m \div PageSize) + (m % PageSize)
  BY <1>1
<1>3. ASSUME NEW m \in Nat
      PROVE  AlignDown(m) = (m \div PageSize) * PageSize
  BY <1>1, <1>2 DEF AlignDown
<1>4. ASSUME NEW q \in Nat
      PROVE  q * PageSize \in Nat /\ (q * PageSize) \div PageSize = q
  BY <1>1
<1> DEFINE m == n + PageSize - 1
<1>5. m \in Nat /\ AlignUp(n) = AlignDown(m)
  BY <1>1 DEF AlignUp
<1>6. AlignUp(n) = (m \div PageSize) * PageSize /\ m \div PageSize \in Nat
  BY <1>2, <1>3, <1>5
<1>7. AlignUp(n) \div PageSize = m \div PageSize /\ AlignUp(n) \in Nat
  BY <1>4, <1>6
<1>8. n <= AlignUp(n)
  BY <1>1, <1>2, <1>5 DEF AlignDown
<1>9. AlignDown(n) \in Nat /\ AlignDown(n) <= n
  BY <1>1, <1>2 DEF AlignDown
<1>10. QED BY <1>1, <1>2, <1>3, <1>6, <1>7, <1>8, <1>9

\* Where an image begins and ends: all its segments lie in its pages.
LEMMA ImageBounds ==
  ASSUME NEW file \in BootModules, FoundLoad(file)
  PROVE  /\ MinVaddr(file) \in Nat /\ MaxVaddr(file) \in Nat
         /\ \A h \in SegmentSet(file) :
              MinVaddr(file) <= h.vaddr /\ SegmentEnd(h) <= MaxVaddr(file)
<1> DEFINE lows == {h.vaddr : h \in SegmentSet(file)}
           ends == {SegmentEnd(h) : h \in SegmentSet(file)}
           f == [i \in 1 .. Len(file.headers) |->
                   IF i \in Segments(file) THEN SegmentEnd(file.headers[i]) ELSE 0]
<1>1. SegmentSet(file) # {}
  BY DEF FoundLoad
<1>2. lows \subseteq Nat /\ lows # {} /\ ends \subseteq Nat /\ ends # {}
  BY <1>1, HeadersAre, HeaderNumbers
<1>3. f \in [1 .. Len(file.headers) -> Nat] /\ Len(file.headers) \in Nat
  BY HeadersAre, HeaderNumbers
<1>4. PICK b \in Nat : \A i \in 1 .. Len(file.headers) : f[i] <= b
  <2> HIDE DEF f
  <2>1. QED BY <1>3, BoundedValues
<1>5. \A e \in ends : e <= b
  BY <1>4, HeadersAre DEF SegmentSet
<1> HIDE DEF lows, ends
<1>6. Min(lows) \in lows /\ \A x \in lows : Min(lows) <= x
  BY <1>2, LeastIsMin
<1>7. Max(ends) \in ends /\ \A x \in ends : Max(ends) >= x
  BY <1>2, <1>5, GreatestIsMax
<1>8. MinVaddr(file) = Min(lows) /\ MaxVaddr(file) = Max(ends)
  BY DEF MinVaddr, MaxVaddr, lows, ends
<1>9. MinVaddr(file) \in Nat /\ MaxVaddr(file) \in Nat
  BY <1>2, <1>6, <1>7, <1>8
<1>10. ASSUME NEW h \in SegmentSet(file)
       PROVE  MinVaddr(file) <= h.vaddr /\ SegmentEnd(h) <= MaxVaddr(file)
  <2>1. h.vaddr \in lows /\ SegmentEnd(h) \in ends
    BY DEF lows, ends
  <2>2. SegmentEnd(h) \in Nat
    BY <1>2, <2>1
  <2>3. QED BY <1>6, <1>7, <1>8, <1>9, <2>1, <2>2
<1>11. QED BY <1>9, <1>10

BasePage(file) == LoadBase(file) \div PageSize

LEMMA ImagePages ==
  ASSUME NEW file \in BootModules, FoundLoad(file)
  PROVE  /\ BasePage(file) \in Nat /\ PageCount(file) \in Nat
         /\ LoadBase(file) \in Nat /\ TotalSize(file) \in Nat
         /\ LoadBase(file) = BasePage(file) * PageSize
         /\ TotalSize(file) = PageCount(file) * PageSize
         /\ LoadBase(file) <= MinVaddr(file)
         /\ MaxVaddr(file) <= LoadBase(file) + TotalSize(file)
         /\ \A i \in Nat : ImagePage(file, i) = (BasePage(file) + i) * PageSize
<1>1. MinVaddr(file) \in Nat /\ MaxVaddr(file) \in Nat /\ MaxVaddr(file) > MinVaddr(file)
  BY ImageBounds DEF FoundLoad
<1>2. /\ LoadBase(file) \in Nat /\ LoadBase(file) <= MinVaddr(file)
      /\ LoadBase(file) = (MinVaddr(file) \div PageSize) * PageSize
      /\ MinVaddr(file) \div PageSize \in Nat /\ PageSize \in Nat \ {0}
  BY <1>1, Aligned DEF LoadBase
<1>3. \A q \in Nat : (q * PageSize) \div PageSize = q
  BY <1>2
<1>4. BasePage(file) = MinVaddr(file) \div PageSize
  BY <1>2, <1>3 DEF BasePage
<1>5. MaxVaddr(file) - LoadBase(file) \in Nat
  BY <1>1, <1>2
<1>6. /\ TotalSize(file) \in Nat /\ PageCount(file) \in Nat
      /\ TotalSize(file) = PageCount(file) * PageSize
      /\ MaxVaddr(file) - LoadBase(file) <= TotalSize(file)
  BY <1>5, Aligned DEF TotalSize, PageCount
<1>7. \A i \in Nat : ImagePage(file, i) = (BasePage(file) + i) * PageSize
  BY <1>2, <1>4 DEF ImagePage
<1>8. QED BY <1>1, <1>2, <1>4, <1>6, <1>7

\* A run ends inside the image, and its pages need the same flags.
LEMMA RunOfPages ==
  ASSUME NEW file \in BootModules, FoundLoad(file), NEW i \in Nat, Occupied(file, i)
  PROVE  /\ RunEnd(file, i) \in i + 1 .. PageCount(file)
         /\ \A j \in i .. RunEnd(file, i) - 1 :
              /\ Occupied(file, j)
              /\ PageFlags(file, ImagePage(file, j)) = PageFlags(file, ImagePage(file, i))
<1> DEFINE ends == {j \in i + 1 .. PageCount(file) : ~SameRun(file, j, i)}
<1>1. PageCount(file) \in Nat /\ i < PageCount(file)
  BY ImagePages DEF Occupied
<1>2. PageCount(file) \in ends
  BY <1>1 DEF SameRun, Occupied
<1>3. ends \subseteq Nat /\ ends \subseteq i + 1 .. PageCount(file) /\ ends # {}
  BY <1>1, <1>2
<1>4. \A j \in i + 1 .. PageCount(file) : j \notin ends => SameRun(file, j, i)
  OBVIOUS
<1>5. RunEnd(file, i) = Min(ends)
  BY DEF RunEnd
<1> HIDE DEF ends
<1>6. RunEnd(file, i) \in ends /\ \A j \in ends : RunEnd(file, i) <= j
  BY <1>3, <1>5, LeastIsMin
<1> DEFINE end == RunEnd(file, i)
<1>7. end \in i + 1 .. PageCount(file) /\ \A j \in ends : end <= j
  BY <1>3, <1>6
<1> HIDE DEF end
<1>8. ASSUME NEW j \in i .. end - 1
      PROVE  j = i \/ SameRun(file, j, i)
  <2>1. j = i \/ j \in i + 1 .. PageCount(file)
    BY <1>1, <1>7
  <2>2. j \notin ends
    BY <1>7
  <2>3. QED BY <1>4, <2>1, <2>2
<1>9. ASSUME NEW j \in i .. end - 1
      PROVE  /\ Occupied(file, j)
             /\ PageFlags(file, ImagePage(file, j)) = PageFlags(file, ImagePage(file, i))
  BY <1>8 DEF SameRun
<1>10. QED BY <1>7, <1>9 DEF end

-----------------------------------------------------------------------------
(* The copy loop *)

\* What a word holds once the segments at the places S are copied, in order:
\* what the last of them says that covers it.
Covering(file, S, address) ==
  {i \in S : address \in file.headers[i].vaddr .. SegmentEnd(file.headers[i]) - 1}

WordAfter(file, S, address) ==
  LET covers == Covering(file, S, address)
      h == file.headers[Max(covers)]
  IN IF covers = {} \/ address >= h.vaddr + h.filesz THEN 0
     ELSE FileWord(h.offset + (address - h.vaddr))

ImageOf(file, S) ==
  [w \in 0 .. TotalSize(file) - 1 |-> WordAfter(file, S, w + LoadBase(file))]

LEMMA NoSegmentYet ==
  ASSUME NEW file
  PROVE  ImageOf(file, {}) = Zeros(TotalSize(file))
BY DEF ImageOf, WordAfter, Covering, Zeros

LEMMA CopiedWord ==
  ASSUME NEW file, NEW mem, NEW h, NEW w \in DOMAIN mem,
         NEW k, k = w + LoadBase(file) - h.vaddr
  PROVE  CopySegment(file, mem, h)[w] =
           IF k \in 0 .. h.filesz - 1 THEN FileWord(h.offset + k)
           ELSE IF k \in h.filesz .. h.memsz - 1 THEN 0
           ELSE mem[w]
BY Zenon DEF CopySegment

\* One more segment, after all those copied before it.
LEMMA OneMoreSegment ==
  ASSUME NEW file \in BootModules, FoundLoad(file),
         NEW i \in Copied(file), NEW S, S \subseteq 1 .. i - 1
  PROVE  CopySegment(file, ImageOf(file, S), file.headers[i])
           = ImageOf(file, S \cup {i})
<1> DEFINE h == file.headers[i]
           T == S \cup {i}
<1>1. i \in Nat /\ h \in ProgramHeaders /\ S \subseteq Nat
  BY HeadersAre DEF Copied
<1>2. /\ h.vaddr \in Nat /\ h.memsz \in Nat /\ h.filesz \in Nat /\ h.offset \in Nat
      /\ SegmentEnd(h) = h.vaddr + h.memsz
  BY <1>1, HeaderNumbers
<1>3. h.filesz <= h.memsz
  BY <1>1, <1>2 DEF Copied, BadSegment
<1> DEFINE old == ImageOf(file, S)
<1>4. DOMAIN old = 0 .. TotalSize(file) - 1
  BY DEF ImageOf
<1> SUFFICES ASSUME NEW w \in 0 .. TotalSize(file) - 1
             PROVE  CopySegment(file, old, h)[w] = ImageOf(file, T)[w]
  <2>1. QED BY <1>4 DEF CopySegment, ImageOf
<1> DEFINE a == w + LoadBase(file)
           k == a - h.vaddr
<1>5. a \in Nat /\ k \in Int
  BY <1>2, ImagePages
<1>6. CopySegment(file, old, h)[w] =
        IF k \in 0 .. h.filesz - 1 THEN FileWord(h.offset + k)
        ELSE IF k \in h.filesz .. h.memsz - 1 THEN 0
        ELSE WordAfter(file, S, a)
  <2>1. old[w] = WordAfter(file, S, a)
    BY DEF ImageOf
  <2> HIDE DEF old
  <2>2. w \in DOMAIN old
    BY <1>4
  <2>3. CopySegment(file, old, h)[w] =
          IF k \in 0 .. h.filesz - 1 THEN FileWord(h.offset + k)
          ELSE IF k \in h.filesz .. h.memsz - 1 THEN 0
          ELSE old[w]
    <3>1. k = w + LoadBase(file) - h.vaddr
      BY <1>2, ImagePages
    <3> HIDE DEF k, h
    <3>2. QED BY <2>2, <3>1, CopiedWord
  <2>4. QED BY <2>1, <2>3
<1>7. ImageOf(file, T)[w] = WordAfter(file, T, a)
  BY DEF ImageOf
<1>8. i \in Covering(file, T, a) <=> k \in 0 .. h.memsz - 1
  BY <1>2, <1>5 DEF Covering
<1>9. Covering(file, T, a) \subseteq T
  BY DEF Covering
<1>10. CASE k \in 0 .. h.memsz - 1
  <2>1. i \in Covering(file, T, a) /\ \A j \in Covering(file, T, a) : i >= j
    <3>1. \A j \in T : j = i \/ j \in 1 .. i - 1
      OBVIOUS
    <3> HIDE DEF T, k
    <3>2. i \in Covering(file, T, a)
      BY <1>8, <1>10
    <3>3. \A j \in Covering(file, T, a) : i >= j
      BY <1>1, <1>9, <3>1
    <3>4. QED BY <3>2, <3>3
  <2>2. Max(Covering(file, T, a)) = i
    <3>1. \A x \in Covering(file, T, a) : x >= i => x = i
      <4>1. \A x \in Covering(file, T, a) : x = i \/ x \in 1 .. i - 1
        BY <1>9
      <4> HIDE DEF T, k
      <4>2. QED BY <1>1, <4>1
    <3>2. QED BY <2>1, <3>1 DEF Max
  <2>3. WordAfter(file, T, a) =
          IF a >= h.vaddr + h.filesz THEN 0 ELSE FileWord(h.offset + k)
    BY <2>1, <2>2 DEF WordAfter
  <2>4. a >= h.vaddr + h.filesz <=> k \in h.filesz .. h.memsz - 1
    BY <1>2, <1>3, <1>5, <1>10
  <2>5. k \in 0 .. h.filesz - 1 <=> ~(k \in h.filesz .. h.memsz - 1)
    BY <1>2, <1>3, <1>5, <1>10
  <2>6. QED BY <1>6, <1>7, <2>3, <2>4, <2>5
<1>11. CASE k \notin 0 .. h.memsz - 1
  <2>1. Covering(file, T, a) = Covering(file, S, a)
    BY <1>8, <1>11 DEF Covering
  <2>2. WordAfter(file, T, a) = WordAfter(file, S, a)
    BY <2>1 DEF WordAfter
  <2>3. k \notin 0 .. h.filesz - 1 /\ k \notin h.filesz .. h.memsz - 1
    BY <1>2, <1>3, <1>5, <1>11
  <2>4. QED BY <1>6, <1>7, <2>2, <2>3
<1>12. QED BY <1>10, <1>11

CopiedBy(file, i) == Copied(file) \cap 1 .. i

\* The loop of CopyAll has a result, and it is what the last segment says.
LEMMA CopyLoop ==
  ASSUME NEW file \in BootModules, FoundLoad(file)
  PROVE  \A i \in 0 .. Len(file.headers) :
           ImageAfter(file)[i] = ImageOf(file, CopiedBy(file, i))
<1> DEFINE n == Len(file.headers)
           Step(g, i) ==
             IF i = 0 THEN Zeros(TotalSize(file))
             ELSE IF i \in Copied(file) THEN CopySegment(file, g[i - 1], file.headers[i])
             ELSE g[i - 1]
           F == [i \in 0 .. n |-> ImageOf(file, CopiedBy(file, i))]
<1>1. n \in Nat
  BY HeadersAre
<1>2. \A i \in 0 .. n : F[i] = Step(F, i)
  <2> SUFFICES ASSUME NEW i \in 0 .. n PROVE F[i] = Step(F, i)
    OBVIOUS
  <2>0. F[i] = ImageOf(file, CopiedBy(file, i))
    OBVIOUS
  <2>1. CASE i = 0
    <3>1. CopiedBy(file, i) = {}
      BY <2>1 DEF CopiedBy
    <3>2. QED BY <2>0, <2>1, <3>1, NoSegmentYet
  <2>2. CASE i # 0
    <3>1. i - 1 \in 0 .. n /\ i \in 1 .. n /\ F[i - 1] = ImageOf(file, CopiedBy(file, i - 1))
      BY <1>1, <2>2
    <3>2. CASE i \in Copied(file)
      <4>1. CopiedBy(file, i) = CopiedBy(file, i - 1) \cup {i}
        BY <3>1, <3>2 DEF CopiedBy
      <4>2. CopiedBy(file, i - 1) \subseteq 1 .. i - 1
        BY DEF CopiedBy
      <4>3. CopySegment(file, ImageOf(file, CopiedBy(file, i - 1)), file.headers[i])
              = ImageOf(file, CopiedBy(file, i - 1) \cup {i})
        BY <3>2, <4>2, OneMoreSegment
      <4>4. QED BY <2>0, <2>2, <3>1, <3>2, <4>1, <4>3
    <3>3. CASE i \notin Copied(file)
      <4>1. CopiedBy(file, i) = CopiedBy(file, i - 1)
        BY <3>1, <3>3 DEF CopiedBy
      <4>2. QED BY <2>0, <2>2, <3>1, <3>3, <4>1
    <3>4. QED BY <3>2, <3>3
  <2>3. QED BY <2>1, <2>2
<1>3. F = [i \in 0 .. n |-> Step(F, i)]
  BY <1>2
<1>4. ImageAfter(file) = CHOOSE g : g = [i \in 0 .. n |-> Step(g, i)]
  BY DEF ImageAfter
<1> DEFINE G == ImageAfter(file)
<1>5. G = [i \in 0 .. n |-> Step(G, i)]
  <2> HIDE DEF F, Step
  <2>1. QED BY <1>3, <1>4
<1>6. \A i \in 0 .. n : G[i] = Step(G, i)
  <2> HIDE DEF Step
  <2>1. QED BY <1>5
<1> DEFINE S == {i \in 0 .. n : G[i] = F[i]}
<1>7. 0 \in S
  <2>1. 0 \in 0 .. n /\ Step(G, 0) = Zeros(TotalSize(file)) /\ Step(F, 0) = Zeros(TotalSize(file))
    BY <1>1
  <2> HIDE DEF F, G, Step
  <2>2. QED BY <1>2, <1>6, <2>1
<1>8. \A i \in 1 .. n : i - 1 \in S => i \in S
  <2> SUFFICES ASSUME NEW i \in 1 .. n, i - 1 \in S PROVE i \in S
    OBVIOUS
  <2>1. i \in 0 .. n /\ i # 0 /\ G[i - 1] = F[i - 1]
    OBVIOUS
  <2>2. G[i] = Step(G, i) /\ F[i] = Step(F, i)
    BY <1>2, <1>6, <2>1
  <2>3. Step(G, i) = Step(F, i)
    <3> HIDE DEF F, G
    <3>1. QED BY <2>1
  <2>4. QED BY <2>1, <2>2, <2>3
<1>9. \A i \in 0 .. n : i \in S
  <2> HIDE DEF S
  <2>1. QED BY <1>1, <1>7, <1>8, UpTo
<1>10. QED BY <1>9

\* The image after the loop.
LEMMA CopiedImage ==
  ASSUME NEW file \in BootModules, FoundLoad(file)
  PROVE  CopyAll(file) = ImageOf(file, Copied(file))
<1>1. Len(file.headers) \in 0 .. Len(file.headers)
  BY HeadersAre
<1>2. CopiedBy(file, Len(file.headers)) = Copied(file)
  BY HeadersAre DEF CopiedBy, Copied
<1>3. QED BY <1>1, <1>2, CopyLoop DEF CopyAll

\* Each word is a word of the file, or zero.
LEMMA CopiedWords ==
  ASSUME NEW file \in BootModules, NEW address \in Nat
  PROVE  WordAfter(file, Copied(file), address) \in 0 .. file.size
<1> DEFINE covers == Covering(file, Copied(file), address)
           h == file.headers[Max(covers)]
<1>1. file.size \in Nat
  BY HeadersAre
<1>2. CASE covers = {} \/ address >= h.vaddr + h.filesz
  BY <1>1, <1>2 DEF WordAfter
<1>3. CASE covers # {} /\ ~(address >= h.vaddr + h.filesz)
  <2>1. covers \subseteq 1 .. Len(file.headers) /\ Len(file.headers) \in Nat
    BY HeadersAre DEF Covering, Copied
  <2>2. Max(covers) \in covers
    <3> HIDE DEF covers
    <3>1. covers \subseteq Nat /\ \A x \in covers : x <= Len(file.headers)
      BY <2>1
    <3>2. QED BY <1>3, <2>1, <3>1, GreatestIsMax
  <2>3. h \in ProgramHeaders /\ ~BadSegment(file, h)
        /\ address \in h.vaddr .. SegmentEnd(h) - 1
    <3> DEFINE m == Max(covers)
    <3>1. m \in Covering(file, Copied(file), address) /\ h = file.headers[m]
      BY <2>2
    <3> HIDE DEF m, h
    <3>2. m \in Copied(file)
          /\ address \in file.headers[m].vaddr .. SegmentEnd(file.headers[m]) - 1
      BY <3>1 DEF Covering
    <3>3. m \in Segments(file) /\ m \in Nat /\ ~BadSegment(file, file.headers[m])
      BY <3>2, HeadersAre DEF Copied
    <3>4. file.headers[m] \in ProgramHeaders
      BY <3>3, HeadersAre
    <3>5. QED BY <3>1, <3>2, <3>3, <3>4
  <2> HIDE DEF h
  <2>4. h.vaddr \in Nat /\ h.filesz \in Nat /\ h.offset \in Nat
        /\ h.offset + h.filesz <= file.size /\ address >= h.vaddr
    BY <1>1, <2>3, HeaderNumbers DEF BadSegment
  <2>5. FileWord(h.offset + (address - h.vaddr)) \in 0 .. file.size
    BY <1>1, <1>3, <2>4 DEF FileWord
  <2>6. QED BY <1>3, <2>5 DEF WordAfter, h
<1>4. QED BY <1>2, <1>3

\* With no bad segment in the file, all of them are copied.
LEMMA AllCopied ==
  ASSUME NEW file, \A h \in SegmentSet(file) : ~BadSegment(file, h)
  PROVE  /\ Copied(file) = Segments(file)
         /\ \A address : WordAfter(file, Copied(file), address) = WordAt(file, address)
<1>1. Copied(file) = Segments(file)
  BY DEF Copied, SegmentSet
<1>2. QED BY <1>1 DEF WordAfter, WordAt, Covering

-----------------------------------------------------------------------------
(* What Loader knows at a step *)

BeforeCopy ==
  {"find", "fetch", "mapModule", "check", "create", "grant", "layout", "mapImage", "copy"}
AfterCopy == {"pages", "stack", "mapStack", "thread", "start"}

\* The module it found, and what it made of the image so far.
FoundInv ==
  /\ elf \in BootModules \cup {None}
  /\ step \in (BeforeCopy \ {"find"}) \cup AfterCopy => elf \in BootModules
  /\ step \in {"mapImage", "copy"} \cup AfterCopy => FoundLoad(elf)
  /\ step \in BeforeCopy => bytes = <<>> /\ pageIndex = 0
  /\ bytes # <<>> => elf \in BootModules /\ FoundLoad(elf) /\ bytes = CopyAll(elf)
  /\ pageIndex \in Nat /\ code \in Codes /\ started \in BOOLEAN

\* Loader is past the copy, or the program runs.
Copying == step \in AfterCopy \/ started

\* The pages of the image below page n, and no others, show the image.
ShownBelow(n) ==
  \A page \in Pages :
    /\ pte[<<Child, page>>] = Image <=>
         \E i \in 0 .. n - 1 : Occupied(elf, i) /\ page = BasePage(elf) + i
    /\ pte[<<Child, page>>] = Image =>
         window[page] = [index |-> page - BasePage(elf),
                         flags |-> PageFlags(elf, page * PageSize)]

\* Pages of the child show x only where a mapping of x is.
Backed(x) ==
  \A page \in Pages :
    pte[<<Child, page>>] = x =>
      \E m \in mappings : m.process = Child /\ m.object = x /\ page \in MappingSpan(m)

ImageInv ==
  /\ step \in BeforeCopy => \A page \in Pages : pte[<<Child, page>>] # Image
  /\ step \in BeforeCopy \/ Copying => Backed(Image) /\ Backed(Stack)
  /\ Copying =>
       /\ elf \in BootModules /\ FoundLoad(elf) /\ bytes = CopyAll(elf)
       /\ \A h \in SegmentSet(elf) : ~BadSegment(elf, h)
       /\ pageIndex \in 0 .. PageCount(elf)
       /\ step # "pages" => pageIndex = PageCount(elf)
       /\ LoadBase(elf) # 0 => ShownBelow(pageIndex)
  /\ step \in {"thread", "start"} \/ started => pte[<<Child, StackPage>>] = Stack

-----------------------------------------------------------------------------
(* What a step does to the child's pages *)

\* The pages of the child that show x stay the same ones.
SamePages(x) ==
  \A page \in Pages : pte'[<<Child, page>>] = x <=> pte[<<Child, page>>] = x

\* If mappings back them, they do, and mappings go on backing them.
Steady(x) == Backed(x) => SamePages(x) /\ Backed(x)'

\* A new mapping backs the pages it takes, and these were nobody's.
LEMMA MapBacked ==
  ASSUME PresentInv, NEW q \in Processes, NEW p \in Processes, NEW o \in Objects,
         NEW n \in 1 .. ObjectPages, NEW b, Map(p, q, o, n, b),
         NEW x \in Objects, Backed(x)
  PROVE  Backed(x)' /\ (x # o \/ q # Child => SamePages(x))
<1>1. PICK base \in ChosenBase(q, n, b) :
        /\ pte' = SetPages(q, Span(base, n), o)
        /\ mappings' = mappings \cup
             {[process |-> q, base |-> base, count |-> n, object |-> o]}
  BY MapAdds
<1>2. RegionFree(q, base, n)
  BY ChosenIsFree
<1> DEFINE new == [process |-> q, base |-> base, count |-> n, object |-> o]
<1>3. new \in mappings' /\ mappings \subseteq mappings'
  BY <1>1
<1>4. new.process = q /\ new.object = o /\ MappingSpan(new) = Span(base, n)
  BY DEF MappingSpan
<1> HIDE DEF new
<1>5. ASSUME NEW page \in Pages
      PROVE  /\ pte'[<<Child, page>>] = x =>
                  \E m \in mappings' :
                    m.process = Child /\ m.object = x /\ page \in MappingSpan(m)
             /\ x # o \/ q # Child =>
                  (pte'[<<Child, page>>] = x <=> pte[<<Child, page>>] = x)
  <2>1. <<Child, page>> \in DOMAIN pte
    BY LoadAssumption DEF PresentInv, TypeOK
  <2>2. CASE q = Child /\ page \in Span(base, n)
    <3>1. pte'[<<Child, page>>] = o
      BY <1>1, <2>1, <2>2 DEF SetPages
    <3>2. pte[<<Child, page>>] # x
      BY <1>2, <2>2 DEF RegionFree, Backed
    <3>3. QED BY <1>3, <1>4, <2>2, <3>1, <3>2
  <2>3. CASE ~(q = Child /\ page \in Span(base, n))
    <3>1. pte'[<<Child, page>>] = pte[<<Child, page>>]
      BY <1>1, <2>1, <2>3 DEF SetPages
    <3>2. QED BY <1>3, <3>1 DEF Backed
  <2>4. QED BY <2>2, <2>3
<1>6. QED BY <1>5 DEF SamePages, Backed, MappingSpan

\* One that fails half way leaves pages of its own object at most.
LEMMA FailMapSteady ==
  ASSUME PresentInv, NEW q \in Processes, NEW p \in Processes, NEW o \in Objects,
         NEW n \in 1 .. ObjectPages, NEW b, FailMap(p, q, o, n, b),
         NEW x \in Objects, x # o \/ q # Child
  PROVE  Steady(x)
<1> SUFFICES ASSUME Backed(x) PROVE SamePages(x) /\ Backed(x)'
  BY DEF Steady
<1>1. PICK base \in ChosenBase(q, n, b), done \in 1 .. n :
        \E kept \in SUBSET Span(base, done) :
          pte' = [e \in DOMAIN pte |->
                    IF e[1] # q \/ e[2] \notin Span(base, done) THEN pte[e]
                    ELSE IF e[2] \in kept THEN o ELSE None]
  BY DEF FailMap
<1>2. mappings' = mappings
  BY DEF FailMap
<1>3. RegionFree(q, base, n) /\ Span(base, done) \subseteq Span(base, n)
  <2>1. base \in Nat
    BY DEF ChosenBase, UsableBases, Pages
  <2>2. Span(base, done) \subseteq Span(base, n)
    BY <2>1 DEF Span
  <2>3. QED BY <2>2, ChosenIsFree
<1>4. x # None
  BY IdentityAssumption DEF Referents
<1>5. ASSUME NEW page \in Pages
      PROVE  pte'[<<Child, page>>] = x <=> pte[<<Child, page>>] = x
  <2>1. <<Child, page>> \in DOMAIN pte
    BY LoadAssumption DEF PresentInv, TypeOK
  <2>2. CASE q = Child /\ page \in Span(base, done)
    <3>1. pte'[<<Child, page>>] \in {o, None}
      BY <1>1, <2>1, <2>2
    <3>2. pte[<<Child, page>>] # x
      BY <1>3, <2>2 DEF RegionFree, Backed
    <3>3. QED BY <1>4, <2>2, <3>1, <3>2
  <2>3. CASE ~(q = Child /\ page \in Span(base, done))
    BY <1>1, <2>1, <2>3
  <2>4. QED BY <2>2, <2>3
<1>6. QED BY <1>2, <1>5 DEF SamePages, Backed, MappingSpan

\* An unmapping clears pages of its own object, and all of its own.
LEMMA UnmapSteady ==
  ASSUME PresentInv, NEW m \in mappings, Unmap(m), NEW x \in Objects,
         x # m.object \/ m.process # Child
  PROVE  Steady(x)
<1> SUFFICES ASSUME Backed(x) PROVE SamePages(x) /\ Backed(x)'
  BY DEF Steady
<1>1. /\ mappings' = mappings \ {m}
      /\ pte' = SetPages(m.process, MappingSpan(m), None)
  BY UnmapForgets
<1>2. m.object \in Objects /\ m.process \in Processes /\ None \notin Objects
  BY IdentityAssumption DEF PresentInv, TypeOK, MappingRecords, Referents
<1>3. ASSUME NEW page \in Pages
      PROVE  pte'[<<Child, page>>] = x <=> pte[<<Child, page>>] = x
  <2>1. <<Child, page>> \in DOMAIN pte
    BY LoadAssumption DEF PresentInv, TypeOK
  <2>2. CASE m.process = Child /\ page \in MappingSpan(m)
    <3>1. pte'[<<Child, page>>] = None
      BY <1>1, <2>1, <2>2 DEF SetPages
    <3>2. pte[<<Child, page>>] = m.object
      BY <2>2 DEF PresentInv, MappingsPresent
    <3>3. QED BY <1>2, <2>2, <3>1, <3>2
  <2>3. CASE ~(m.process = Child /\ page \in MappingSpan(m))
    BY <1>1, <2>1, <2>3 DEF SetPages
  <2>4. QED BY <2>2, <2>3
<1>4. \A k : k.process = Child /\ k.object = x => k # m
  OBVIOUS
<1>5. QED BY <1>1, <1>3, <1>4 DEF SamePages, Backed, MappingSpan

LEMMA SameTables == ASSUME UNCHANGED <<pte, mappings>>, NEW x PROVE Steady(x)
BY DEF Steady, SamePages, Backed, MappingSpan

\* A mapping of another object, whether it succeeds or fails.
LEMMA OthersSteady ==
  ASSUME PresentInv, NEW q \in Processes, NEW p \in Processes, NEW o, NEW n, NEW b,
         Map(p, q, o, n, b) \/ FailMap(p, q, o, n, b),
         NEW x \in Objects, x # o \/ q # Child
  PROVE  Steady(x)
<1>1. o \in Objects /\ n \in 1 .. ObjectPages
  BY DEF Map, FailMap, MapAllowed
<1>2. QED BY <1>1, MapBacked, FailMapSteady DEF Steady

\* The program's calls concern the objects of its heap only.
LEMMA ProgramSteady ==
  ASSUME PresentInv, HeapInv, RuntimeStep, NEW x \in {Image, Stack}
  PROVE  Steady(x)
<1>1. x \in Objects /\ x \notin HeapObjects
  BY HeapObjectsDiffer, Names
<1>2. CASE UNCHANGED <<pte, mappings>>
  BY <1>2, SameTables
<1>3. CASE MapBlock
  <2>1. CASE UNCHANGED vars
    BY <1>2, <2>1 DEF vars
  <2>2. CASE \E h \in ChildHeld(wanted.object) :
               MemoryMap(Child, h, PagesFor(wanted.size, wanted.alignment))
    <3>1. PICK h \in ChildHeld(wanted.object) :
            MemoryMap(Child, h, PagesFor(wanted.size, wanted.alignment))
      BY <2>2
    <3>2. h.object \in HeapObjects
      BY <1>3, <3>1 DEF MapBlock, HeapInv, ChildHeld
    <3>3. \/ Map(Child, Child, h.object, PagesFor(wanted.size, wanted.alignment), 0)
          \/ FailMap(Child, Child, h.object, PagesFor(wanted.size, wanted.alignment), 0)
      BY <3>1 DEF MemoryMap, MemoryMapped, MemoryMapFailed
    <3>4. QED BY <1>1, <3>2, <3>3, OthersSteady, HeapObjectsDiffer
  <2>3. QED BY <1>3, <2>1, <2>2 DEF MapBlock, MemoryMap
<1>4. ASSUME NEW block \in blocks, Delete(block) PROVE Steady(x)
  <2>1. PICK m \in ChildMapped(block.object) : MemoryUnmap(Child, m)
    BY <1>4 DEF Delete
  <2>2. block.object \in HeapObjects
    BY DEF HeapInv, BlockRecords
  <2>3. m \in mappings /\ m.object = block.object /\ Unmap(m)
    BY <2>1 DEF ChildMapped, MemoryUnmap
  <2>4. QED BY <1>1, <2>2, <2>3, UnmapSteady
<1>5. CASE GetProcess \/ GetInfo \/ CreateBlock \/ GiveUp \/ CloseBlock \/ Exit
           \/ \E size \in Sizes, alignment \in Alignments : New(size, alignment)
  BY <1>2, <1>5
  DEF GetProcess, GetInfo, CreateBlock, GiveUp, CloseBlock, Exit, New, vars,
      ProcessCurrent, MemoryCreate, GiveBack, HandleClose
<1>6. QED BY <1>3, <1>4, <1>5 DEF RuntimeStep

\* Loader maps into the child in two places only.
LEMMA LoaderSteady ==
  ASSUME PresentInv, LoadStep, ~MapRun, ~MapStack, NEW x \in Objects
  PROVE  Steady(x)
<1>1. CASE UNCHANGED <<pte, mappings>>
  BY <1>1, SameTables
<1>2. Loader \in Processes /\ Loader # Child
  BY Names, ThingsDiffer
<1>3. ASSUME NEW h, NEW n, MemoryMap(Loader, h, n) PROVE Steady(x)
  <2>1. Map(Loader, Loader, h.object, n, 0) \/ FailMap(Loader, Loader, h.object, n, 0)
    BY <1>3 DEF MemoryMap, MemoryMapped, MemoryMapFailed
  <2>2. QED BY <1>2, <2>1, OthersSteady
<1>4. CASE MapModule \/ MapImage
  BY <1>1, <1>3, <1>4 DEF MapModule, MapImage, Refused, vars, MemoryMap
<1>5. ASSUME NEW y, NEW m \in Mapped(y), MemoryUnmap(Loader, m) PROVE Steady(x)
  <2>1. m \in mappings /\ m.process = Loader /\ Unmap(m)
    BY <1>5 DEF Mapped, MemoryUnmap
  <2>2. QED BY <1>2, <2>1, UnmapSteady
<1>6. CASE ReleaseNext
  <2>1. CASE \E m \in Mapped(Head(releases).of) : MemoryUnmap(Loader, m)
    BY <1>5, <2>1
  <2>2. CASE \E h \in Held(Head(releases).of) : HandleClose(Loader, h)
    BY <1>1, <2>2 DEF HandleClose
  <2>3. QED BY <1>6, <2>1, <2>2 DEF ReleaseNext
<1>7. CASE FindBootModuleById \/ FetchModule \/ CheckHeader \/ CreateProcess
           \/ GrantCapabilities \/ CreateImage \/ CopySegments \/ SkipPage \/ ImageDone
           \/ CreateStack \/ CreateThread \/ StartThread \/ SendReply
  BY <1>1, <1>7
  DEF FindBootModuleById, FetchModule, CheckHeader, CreateProcess, GrantCapabilities,
      CreateImage, CopySegments, SkipPage, ImageDone, CreateStack, CreateThread,
      StartThread, SendReply, Refused, vars, BootObjectReply, ProcessCreate,
      ProcessGrantCapabilities, MemoryCreate, ThreadCreate
<1>8. QED BY <1>4, <1>6, <1>7 DEF LoadStep

-----------------------------------------------------------------------------
(* The module found, and the copy *)

LEMMA FoundGoes ==
  ASSUME FoundInv, NEW s \in BeforeCopy \cup AfterCopy, NEW t, step = s, Goto(t),
         UNCHANGED <<elf, bytes, pageIndex, started>>,
         t \in BeforeCopy => s \in BeforeCopy,
         t \in (BeforeCopy \ {"find"}) \cup AfterCopy => elf \in BootModules,
         t \in {"mapImage", "copy"} \cup AfterCopy => FoundLoad(elf)
  PROVE  FoundInv'
BY DEF FoundInv, Goto

LEMMA FoundAnswers ==
  ASSUME FoundInv, NEW c \in Codes, NEW r, Answer(c, r),
         UNCHANGED <<elf, bytes, started>>, pageIndex' \in Nat
  PROVE  FoundInv'
BY DEF FoundInv, Answer, BeforeCopy, AfterCopy

LEMMA FoundSteps ==
  ASSUME FoundInv, LoadStep
  PROVE  FoundInv'
<1> USE DEF At
<1>1. ASSUME NEW c \in Codes, NEW r, Return(c, r), UNCHANGED <<elf, bytes, started>>,
             pageIndex' \in Nat
      PROVE  FoundInv'
  BY <1>1, FoundAnswers DEF Return
<1>2. {2} \cup 6 .. 8 \cup 11 .. 18 \cup 21 .. 23 \cup {0} \subseteq Codes
  BY DEF Codes
<1>3. pageIndex \in Nat
  BY DEF FoundInv
<1>4. CASE FindBootModuleById
  <2>1. CASE Goto("fetch")
    BY <1>4, <2>1 DEF FindBootModuleById, FoundInv, Goto, BeforeCopy, AfterCopy, Layout,
       Answer
  <2>2. CASE Answer(21, <<>>) /\ elf' = elf
    BY <1>2, <1>3, <1>4, <2>2, FoundAnswers DEF FindBootModuleById, Layout
  <2>3. QED BY <1>4, <2>1, <2>2 DEF FindBootModuleById
<1>5. CASE FetchModule
  BY <1>2, <1>3, <1>5, FoundGoes, FoundAnswers
  DEF FetchModule, Layout, Asked, FoundInv, BeforeCopy, AfterCopy
<1>6. CASE MapModule
  BY <1>2, <1>3, <1>6, FoundGoes, FoundAnswers
  DEF MapModule, Layout, Asked, FoundInv, BeforeCopy, AfterCopy
<1>7. CASE CheckHeader
  BY <1>1, <1>2, <1>3, <1>7, FoundGoes
  DEF CheckHeader, Layout, Asked, FoundInv, BeforeCopy, AfterCopy
<1>8. CASE CreateProcess
  BY <1>1, <1>2, <1>3, <1>8, FoundGoes
  DEF CreateProcess, Layout, Asked, FoundInv, BeforeCopy, AfterCopy
<1>9. CASE GrantCapabilities
  BY <1>1, <1>2, <1>3, <1>9, FoundGoes
  DEF GrantCapabilities, Layout, Asked, FoundInv, BeforeCopy, AfterCopy
<1>10. CASE CreateImage
  BY <1>1, <1>2, <1>3, <1>10, FoundGoes
  DEF CreateImage, Layout, Asked, FoundInv, BeforeCopy, AfterCopy
<1>11. CASE MapImage
  BY <1>1, <1>2, <1>3, <1>11, FoundGoes
  DEF MapImage, Layout, Asked, FoundInv, BeforeCopy, AfterCopy
<1>12. CASE CopySegments
  <2>1. step = "copy" /\ elf \in BootModules /\ FoundLoad(elf)
    BY <1>12 DEF CopySegments, FoundInv, BeforeCopy
  <2>2. bytes' = CopyAll(elf) /\ UNCHANGED <<pageIndex, elf, started>>
    BY <1>12 DEF CopySegments, Asked
  <2>3. step' \notin BeforeCopy /\ code' \in Codes
    BY <1>2, <1>12
    DEF CopySegments, FoundInv, BeforeCopy, Goto, Return, Answer
  <2>4. QED BY <1>3, <2>1, <2>2, <2>3 DEF FoundInv
<1>13. CASE SkipPage
  BY <1>3, <1>13 DEF SkipPage, NextPage, FoundInv, Asked, BeforeCopy, AfterCopy
<1>14. CASE MapRun
  <2>1. step = "pages" /\ elf \in BootModules /\ FoundLoad(elf)
    BY <1>14 DEF MapRun, FoundInv, AfterCopy
  <2>2. RunEnd(elf, pageIndex) \in Nat
    BY <1>3, <1>14, <2>1, RunOfPages DEF MapRun
  <2>3. CASE pageIndex' = RunEnd(elf, pageIndex) /\ Goto("pages")
    BY <1>14, <2>1, <2>2, <2>3
    DEF MapRun, Goto, FoundInv, Asked, BeforeCopy, AfterCopy
  <2>4. CASE Return(11, UnmapImage \o Close(Image)) /\ UNCHANGED pageIndex
    BY <1>1, <1>2, <1>3, <1>14, <2>4 DEF MapRun, Asked
  <2>5. QED BY <1>14, <2>3, <2>4 DEF MapRun
<1>15. CASE ImageDone
  BY <1>15 DEF ImageDone, Layout, Asked, FoundInv, BeforeCopy, AfterCopy
<1>16. CASE CreateStack
  BY <1>1, <1>2, <1>3, <1>16, FoundGoes
  DEF CreateStack, Layout, Asked, FoundInv, BeforeCopy, AfterCopy
<1>17. CASE MapStack
  <2>1. CASE step' = "thread" /\ UNCHANGED code
    BY <1>17, <2>1 DEF MapStack, Layout, Asked, FoundInv, BeforeCopy, AfterCopy
  <2>2. CASE Return(13, Close(Stack) \o Close(Child))
    BY <1>1, <1>2, <1>3, <1>17, <2>2 DEF MapStack, Layout, Asked
  <2>3. QED BY <1>17, <2>1, <2>2 DEF MapStack
<1>18. CASE CreateThread
  BY <1>1, <1>2, <1>3, <1>18, FoundGoes
  DEF CreateThread, Layout, Asked, FoundInv, BeforeCopy, AfterCopy
<1>19. CASE StartThread
  <2>1. PICK c \in Codes : \E r : Return(c, r)
    BY <1>2, <1>19 DEF StartThread
  <2>2. started' \in BOOLEAN /\ UNCHANGED <<elf, bytes, pageIndex>>
    BY <1>19 DEF StartThread, Layout, Asked, FoundInv
  <2>3. QED BY <2>1, <2>2 DEF FoundInv, Return, Answer, BeforeCopy, AfterCopy
<1>20. CASE ReleaseNext
  BY <1>20 DEF ReleaseNext, Layout, Asked, FoundInv
<1>21. CASE SendReply
  BY <1>21 DEF SendReply, Goto, Layout, Asked, FoundInv, BeforeCopy, AfterCopy
<1>22. QED
  BY <1>4, <1>5, <1>6, <1>7, <1>8, <1>9, <1>10, <1>11, <1>12, <1>13, <1>14, <1>15,
     <1>16, <1>17, <1>18, <1>19, <1>20, <1>21 DEF LoadStep

-----------------------------------------------------------------------------
(* The image in the child's pages *)

\* Loader is not past the copy after a step.
LEMMA ImageIdle ==
  ASSUME ImageInv, ~Copying',
         step' \in BeforeCopy => step \in BeforeCopy /\ Steady(Image) /\ Steady(Stack)
  PROVE  ImageInv'
BY DEF ImageInv, Steady, SamePages, Copying, AfterCopy

LEMMA ShownStays ==
  ASSUME SamePages(Image), UNCHANGED <<elf, window>>, NEW n
  PROVE  ShownBelow(n) => ShownBelow(n)'
BY DEF ShownBelow, SamePages

\* A step that changes nothing of the image, nor turns back.
LEMMA ImageStays ==
  ASSUME ImageInv, Steady(Image), Steady(Stack),
         UNCHANGED <<elf, bytes, pageIndex, window, started>>,
         step' \in BeforeCopy => step \in BeforeCopy,
         step' \in AfterCopy => step \in AfterCopy,
         Copying /\ step' # "pages" => step # "pages" \/ pageIndex = PageCount(elf),
         step' \in {"thread", "start"} => step \in {"thread", "start"}
  PROVE  ImageInv'
<1>1. Copying' => Copying
  BY DEF Copying
<1>2. step' \in BeforeCopy \/ Copying' =>
        /\ SamePages(Image) /\ SamePages(Stack)
        /\ Backed(Image)' /\ Backed(Stack)'
  BY <1>1 DEF ImageInv, Steady
<1>3. step' \in BeforeCopy => \A page \in Pages : pte'[<<Child, page>>] # Image
  BY <1>2 DEF ImageInv, SamePages
<1>4. Copying' => \A n : ShownBelow(n) => ShownBelow(n)'
  BY <1>2, ShownStays
<1>5. step' \in {"thread", "start"} \/ started' => pte'[<<Child, StackPage>>] = Stack
  <2>1. StackPage \in Pages
    BY LoadAssumption
  <2>2. step' \in {"thread", "start"} \/ started' => Copying'
    BY DEF Copying, AfterCopy
  <2>3. QED BY <1>2, <2>1, <2>2 DEF ImageInv, SamePages
<1>6. Copying' =>
        /\ elf' \in BootModules /\ FoundLoad(elf') /\ bytes' = CopyAll(elf')
        /\ \A h \in SegmentSet(elf') : ~BadSegment(elf', h)
        /\ pageIndex' \in 0 .. PageCount(elf')
        /\ step' # "pages" => pageIndex' = PageCount(elf')
        /\ LoadBase(elf') # 0 => ShownBelow(pageIndex)'
  BY <1>1, <1>4 DEF ImageInv
<1>7. QED BY <1>2, <1>3, <1>5, <1>6 DEF ImageInv

LEMMA CopyImage ==
  ASSUME LoadInv, FoundInv, ImageInv, Steady(Image), Steady(Stack), CopySegments
  PROVE  ImageInv'
<1>1. /\ step = "copy" /\ elf \in BootModules /\ FoundLoad(elf) /\ pageIndex = 0
      /\ elf' = elf /\ pageIndex' = 0 /\ started' = started /\ bytes' = CopyAll(elf)
  BY DEF CopySegments, At, FoundInv, BeforeCopy, Asked
<1>2. ~started
  BY <1>1, NotStarted
<1>3. CASE step' = "answer"
  BY <1>1, <1>2, <1>3, ImageIdle DEF Copying, AfterCopy, BeforeCopy
<1>4. CASE step' = "pages" /\ \A h \in SegmentSet(elf) : ~BadSegment(elf, h)
  <2>1. /\ \A page \in Pages : pte'[<<Child, page>>] # Image
        /\ Backed(Image)' /\ Backed(Stack)'
    BY <1>1 DEF ImageInv, BeforeCopy, Steady, SamePages
  <2>2. ShownBelow(0)'
    BY <2>1 DEF ShownBelow
  <2>3. PageCount(elf) \in Nat
    BY <1>1, ImagePages
  <2>4. QED BY <1>1, <1>2, <1>4, <2>1, <2>2, <2>3 DEF ImageInv, Copying, BeforeCopy
<1>5. QED BY <1>3, <1>4 DEF CopySegments, Return, Answer, Goto

LEMMA SkipImage ==
  ASSUME LoadInv, FoundInv, ImageInv, Steady(Image), Steady(Stack), SkipPage
  PROVE  ImageInv'
<1>1. /\ step = "pages" /\ elf \in BootModules /\ FoundLoad(elf) /\ pageIndex \in Nat
      /\ pageIndex < PageCount(elf) /\ ~Occupied(elf, pageIndex)
      /\ pageIndex' = pageIndex + 1
      /\ UNCHANGED <<step, elf, bytes, window, started>>
  BY DEF SkipPage, NextPage, At, FoundInv, AfterCopy, Asked
<1>2. ~started /\ Copying
  BY <1>1, NotStarted DEF Copying, AfterCopy
<1>3. PageCount(elf) \in Nat /\ SamePages(Image) /\ Backed(Image)' /\ Backed(Stack)'
  BY <1>1, <1>2, ImagePages DEF ImageInv, Steady
<1>4. pageIndex + 1 \in 0 .. PageCount(elf)
  BY <1>1, <1>3
<1>5. \A i : i \in 0 .. pageIndex => i \in 0 .. pageIndex - 1 \/ i = pageIndex
  BY <1>1
<1>6. \A i : i \in 0 .. pageIndex - 1 => i \in 0 .. pageIndex
  BY <1>1
<1>7. \A i : i \in 0 .. pageIndex /\ Occupied(elf, i)
         <=> i \in 0 .. pageIndex - 1 /\ Occupied(elf, i)
  BY <1>1, <1>5, <1>6
<1>8. (pageIndex + 1) - 1 = pageIndex
  BY <1>1
<1>9. ShownBelow(pageIndex) => ShownBelow(pageIndex)'
  <2>1. PICK n : n = pageIndex + 1
    OBVIOUS
  <2>2. ShownBelow(pageIndex) => ShownBelow(n)
    BY <1>7, <1>8, <2>1 DEF ShownBelow
  <2>3. ShownBelow(n) => ShownBelow(n)'
    BY <1>1, <1>3, ShownStays
  <2>4. ShownBelow(n)' <=> ShownBelow(pageIndex)'
    BY <1>1, <2>1
  <2>5. QED BY <2>2, <2>3, <2>4
<1>10. QED BY <1>1, <1>2, <1>3, <1>4, <1>9 DEF ImageInv, Copying, AfterCopy, BeforeCopy

\* A run of pages: they are mapped where the image has them, each shows its own
\* page of the image, with the flags it needs.
LEMMA RunShown ==
  ASSUME PresentInv, elf \in BootModules, FoundLoad(elf),
         NEW i \in Nat, NEW end, end = RunEnd(elf, i), Occupied(elf, i),
         LoadBase(elf) # 0, ShownBelow(i), elf' = elf,
         NEW base \in PlacedAt(ImagePage(elf, i), end - i),
         pte' = SetPages(Child, Span(base, end - i), Image),
         window' = WindowAfter(i, base, end - i)
  PROVE  ShownBelow(end)'
<1> DEFINE B == BasePage(elf)
<1>1. /\ B \in Nat /\ B # 0 /\ PageCount(elf) \in Nat /\ PageSize \in Nat \ {0}
      /\ \A j \in Nat : ImagePage(elf, j) = (B + j) * PageSize
  <2>1. PageSize \in Nat \ {0}
    BY LoadAssumption
  <2>2. QED BY <2>1, ImagePages
<1>2. /\ end \in i + 1 .. PageCount(elf)
      /\ \A j \in i .. end - 1 :
           /\ Occupied(elf, j)
           /\ PageFlags(elf, ImagePage(elf, j)) = PageFlags(elf, ImagePage(elf, i))
  BY RunOfPages
<1> HIDE DEF B
<1>3. base = B + i
  <2>1. ImagePage(elf, i) \div PageSize = B + i
    <3>1. ImagePage(elf, i) = (B + i) * PageSize /\ B + i \in Nat
      BY <1>1
    <3>2. \A q \in Nat : (q * PageSize) \div PageSize = q
      BY <1>1
    <3>3. QED BY <3>1, <3>2
  <2>2. B + i # 0
    BY <1>1
  <2>3. QED BY <2>1, <2>2 DEF PlacedAt, ChosenBase
<1>4. end - i \in Nat /\ end \in Nat
  BY <1>1, <1>2
<1> DEFINE run == Span(base, end - i)
<1>5. \A page \in Pages : page \in run <=> page - B \in i .. end - 1
  <2>1. run = base .. base + (end - i) - 1
    BY DEF Span
  <2> HIDE DEF run
  <2>2. B \in Nat
    BY <1>1
  <2>3. \A page \in Nat : page \in run <=> page - B \in i .. end - 1
    BY <1>3, <1>4, <2>1, <2>2
  <2>4. QED BY <2>3 DEF Pages
<1>6. ASSUME NEW page \in Pages
      PROVE  /\ pte'[<<Child, page>>] =
                  IF page \in run THEN Image ELSE pte[<<Child, page>>]
             /\ window'[page] =
                  IF page \in run
                  THEN [index |-> i + (page - base),
                        flags |-> PageFlags(elf, ImagePage(elf, i))]
                  ELSE window[page]
  <2>1. <<Child, page>> \in DOMAIN pte
    BY LoadAssumption DEF PresentInv, TypeOK
  <2>2. QED BY <2>1 DEF SetPages, WindowAfter
<1> HIDE DEF run
<1>7. ASSUME NEW page \in Pages, page \in run
      PROVE  /\ page - B \in 0 .. end - 1 /\ Occupied(elf, page - B)
             /\ page = B + (page - B)
             /\ window'[page] = [index |-> page - B, flags |-> PageFlags(elf, page * PageSize)]
  <2>1. page - B \in i .. end - 1 /\ page \in Nat
    BY <1>5, <1>7 DEF Pages
  <2>2. page = B + (page - B) /\ i + (page - base) = page - B /\ page - B \in Nat
    BY <1>1, <1>3, <2>1
  <2>3. ImagePage(elf, page - B) = page * PageSize
    BY <1>1, <2>2
  <2>4. PageFlags(elf, ImagePage(elf, i)) = PageFlags(elf, page * PageSize)
    BY <1>2, <2>1, <2>3
  <2>5. page - B \in 0 .. end - 1
    BY <2>1, <2>2
  <2>6. QED BY <1>2, <1>6, <1>7, <2>1, <2>2, <2>4, <2>5
<1>8. ASSUME NEW page \in Pages, page \notin run
      PROVE  \A j \in 0 .. end - 1 : page = B + j => j \in 0 .. i - 1
  <2> SUFFICES ASSUME NEW j \in 0 .. end - 1, page = B + j PROVE j \in 0 .. i - 1
    OBVIOUS
  <2>1. page - B = j
    BY <1>1
  <2>2. j \notin i .. end - 1
    BY <1>5, <1>8, <2>1
  <2>3. QED BY <1>4, <2>2
<1>9. \A j \in 0 .. i - 1 : j \in 0 .. end - 1
  BY <1>2
<1>10. ASSUME NEW page \in Pages
       PROVE  /\ pte'[<<Child, page>>] = Image <=>
                   \E j \in 0 .. end - 1 : Occupied(elf, j) /\ page = B + j
              /\ pte'[<<Child, page>>] = Image =>
                   window'[page] = [index |-> page - B,
                                    flags |-> PageFlags(elf, page * PageSize)]
  <2>1. CASE page \in run
    BY <1>6, <1>7, <2>1
  <2>2. CASE page \notin run
    <3>1. /\ pte[<<Child, page>>] = Image <=>
               \E j \in 0 .. i - 1 : Occupied(elf, j) /\ page = B + j
          /\ pte[<<Child, page>>] = Image =>
               window[page] = [index |-> page - B, flags |-> PageFlags(elf, page * PageSize)]
      BY DEF ShownBelow, B
    <3>2. QED BY <1>6, <1>8, <1>9, <2>2, <3>1
  <2>3. QED BY <2>1, <2>2
<1>11. QED BY <1>10 DEF ShownBelow, B

LEMMA RunImage ==
  ASSUME PresentInv, LoadInv, FoundInv, ImageInv, MapRun
  PROVE  ImageInv'
<1>1. /\ step = "pages" /\ elf \in BootModules /\ FoundLoad(elf) /\ pageIndex \in Nat
      /\ Occupied(elf, pageIndex) /\ UNCHANGED <<elf, bytes, started>>
  BY DEF MapRun, At, FoundInv, AfterCopy, Asked
<1>2. ~started /\ Copying
  BY <1>1, NotStarted DEF Copying, AfterCopy
<1>3. CASE step' = "answer"
  BY <1>1, <1>2, <1>3, ImageIdle DEF Copying, AfterCopy, BeforeCopy
<1>4. ASSUME NEW g \in Held(Child), NEW h \in Held(Image),
             ProcessMemoryMapped(Loader, g, h, RunEnd(elf, pageIndex) - pageIndex,
                                 ImagePage(elf, pageIndex) \div PageSize),
             NEW base \in PlacedAt(ImagePage(elf, pageIndex), RunEnd(elf, pageIndex) - pageIndex),
             window' = WindowAfter(pageIndex, base, RunEnd(elf, pageIndex) - pageIndex),
             pageIndex' = RunEnd(elf, pageIndex), step' = "pages"
      PROVE  ImageInv'
  <2> DEFINE count == RunEnd(elf, pageIndex) - pageIndex
             address == ImagePage(elf, pageIndex)
  <2>1. Map(Loader, Child, Image, count, address \div PageSize)
    BY <1>4 DEF ProcessMemoryMapped, Held
  <2>2. PICK b \in ChosenBase(Child, count, address \div PageSize) :
          pte' = SetPages(Child, Span(b, count), Image)
    BY <2>1 DEF Map
  <2>3. b = base
    <3>1. base \in ChosenBase(Child, count, address \div PageSize)
      BY DEF PlacedAt
    <3>2. \A q, n, r : \A x, y \in ChosenBase(q, n, r) : x = y
      BY DEF ChosenBase, UsableBases, Pages
    <3>3. QED BY <2>2, <3>1, <3>2
  <2>4. pte' = SetPages(Child, Span(base, count), Image)
    BY <2>2, <2>3
  <2>5. LoadBase(elf) # 0 => ShownBelow(pageIndex)
    BY <1>2 DEF ImageInv
  <2>6. PICK end : end = RunEnd(elf, pageIndex)
    OBVIOUS
  <2>7. RunEnd(elf, pageIndex) \in 0 .. PageCount(elf)
    <3>1. RunEnd(elf, pageIndex) \in pageIndex + 1 .. PageCount(elf)
      BY <1>1, RunOfPages
    <3>2. QED BY <1>1, <3>1
  <2>8. elf' = elf /\ bytes' = CopyAll(elf) /\ \A h2 \in SegmentSet(elf) : ~BadSegment(elf, h2)
    BY <1>1, <1>2 DEF ImageInv
  <2>9. LoadBase(elf) # 0 => ShownBelow(pageIndex)'
    <3>1. LoadBase(elf) # 0 => ShownBelow(end)'
      BY <1>1, <1>4, <2>4, <2>5, <2>6, RunShown
    <3>2. ShownBelow(end)' <=> ShownBelow(pageIndex)'
      BY <1>4, <2>6
    <3>3. QED BY <3>1, <3>2
  <2>10. ~started'
    BY <1>1, <1>2
  <2>11. Backed(Image)' /\ Backed(Stack)'
    <3>1. Loader \in Processes /\ Child \in Processes /\ {Image, Stack} \subseteq Objects
      BY Names
    <3>2. count \in 1 .. ObjectPages /\ Backed(Image) /\ Backed(Stack)
      BY <1>2, <2>1 DEF Map, MapAllowed, ImageInv
    <3>3. QED BY <2>1, <3>1, <3>2, MapBacked
  <2>12. QED
    BY <1>1, <1>4, <2>7, <2>8, <2>9, <2>10, <2>11 DEF ImageInv, BeforeCopy
<1>5. QED BY <1>3, <1>4 DEF MapRun, Goto, Return, Answer

LEMMA StackImage ==
  ASSUME PresentInv, LoadInv, FoundInv, ImageInv, MapStack
  PROVE  ImageInv'
<1>1. /\ step = "mapStack" /\ UNCHANGED <<elf, bytes, pageIndex, window, started>>
  BY DEF MapStack, At, Asked, Layout
<1>2. ~started /\ Copying /\ StackPage \in Pages
  BY <1>1, NotStarted, LoadAssumption DEF Copying, AfterCopy
<1>3. CASE step' = "answer"
  BY <1>1, <1>2, <1>3, ImageIdle DEF Copying, AfterCopy, BeforeCopy
<1>4. ASSUME NEW g \in Held(Child), NEW h \in Held(Stack),
             ProcessMemoryMapped(Loader, g, h, 1, StackPage), step' = "thread"
      PROVE  ImageInv'
  <2>1. Map(Loader, Child, Stack, 1, StackPage)
    BY <1>4 DEF ProcessMemoryMapped, Held
  <2>2. SamePages(Image) /\ Backed(Image)' /\ Backed(Stack)'
    <3>1. /\ {Image, Stack} \subseteq Objects /\ Image # Stack
          /\ Child \in Processes /\ Loader \in Processes
      BY Names, LoadAssumption
    <3>2. 1 \in 1 .. ObjectPages /\ Backed(Image) /\ Backed(Stack)
      BY <1>2, <2>1 DEF Map, MapAllowed, ImageInv
    <3>3. QED BY <2>1, <3>1, <3>2, MapBacked
  <2>3. pte'[<<Child, StackPage>>] = Stack
    <3>1. PICK b \in ChosenBase(Child, 1, StackPage) : pte' = SetPages(Child, Span(b, 1), Stack)
      BY <2>1 DEF Map
    <3>2. b = StackPage /\ StackPage \in Nat \ {0}
      BY <1>2, <3>1 DEF ChosenBase, UsableBases, Pages
    <3>3. StackPage \in Span(b, 1)
      BY <3>2 DEF Span
    <3>4. <<Child, StackPage>> \in DOMAIN pte
      BY <1>2, LoadAssumption DEF PresentInv, TypeOK
    <3>5. QED BY <3>1, <3>3, <3>4 DEF SetPages
  <2>4. \A n : ShownBelow(n) => ShownBelow(n)'
    BY <1>1, <2>2, ShownStays
  <2>5. /\ elf' \in BootModules /\ FoundLoad(elf') /\ bytes' = CopyAll(elf')
        /\ \A s \in SegmentSet(elf') : ~BadSegment(elf', s)
        /\ pageIndex' \in 0 .. PageCount(elf')
        /\ pageIndex' = PageCount(elf')
        /\ LoadBase(elf') # 0 => ShownBelow(pageIndex)'
    BY <1>1, <1>2, <2>4 DEF ImageInv
  <2>6. QED BY <1>4, <2>2, <2>3, <2>5 DEF ImageInv, BeforeCopy
<1>5. QED BY <1>3, <1>4 DEF MapStack, Return, Answer

\* What Loader does before the copy.
LEMMA EarlyImage ==
  ASSUME PresentInv, LoadInv, ImageInv,
         FindBootModuleById \/ FetchModule \/ MapModule \/ CheckHeader
           \/ CreateProcess \/ GrantCapabilities \/ CreateImage \/ MapImage
  PROVE  ImageInv'
<1>1. /\ step \in BeforeCopy /\ started' = started
      /\ step' \in BeforeCopy \cup {"answer"}
  BY DEF FindBootModuleById, FetchModule, MapModule, CheckHeader, CreateProcess,
     GrantCapabilities, CreateImage, MapImage, At, Goto, Return, Answer, BeforeCopy
<1>2. ~started
  BY <1>1, NotStarted DEF BeforeCopy
<1>3. LoadStep /\ ~MapRun /\ ~MapStack
  BY <1>1 DEF LoadStep, MapRun, MapStack, At, BeforeCopy
<1>4. Steady(Image) /\ Steady(Stack)
  BY <1>3, LoaderSteady, Names
<1>5. ~Copying'
  BY <1>1, <1>2 DEF Copying, BeforeCopy, AfterCopy
<1>6. QED BY <1>1, <1>4, <1>5, ImageIdle

\* What it does after the copy, the mappings in the child apart.
LEMMA LateImage ==
  ASSUME PresentInv, LoadInv, ImageInv,
         ImageDone \/ CreateStack \/ CreateThread \/ ReleaseNext \/ SendReply
  PROVE  ImageInv'
<1>1. /\ UNCHANGED <<elf, bytes, pageIndex, window, started>>
      /\ \/ step = "pages" /\ step' = "stack" /\ pageIndex = PageCount(elf)
         \/ step = "stack" /\ step' = "mapStack"
         \/ step = "thread" /\ step' = "start"
         \/ step \in {"stack", "thread"} /\ step' = "answer"
         \/ step' = step
         \/ step = "answer" /\ step' = "done"
  BY DEF ImageDone, CreateStack, CreateThread, ReleaseNext, SendReply, At, Goto, Return,
     Answer, Layout, Asked
<1>2. ~MapRun /\ ~MapStack
  <2>1. CASE ReleaseNext
    BY <2>1 DEF ReleaseNext, MapRun, MapStack, At
  <2>2. CASE ImageDone
    BY <2>2 DEF ImageDone, MapRun, MapStack, At, Occupied, Goto, Return, Answer
  <2>3. CASE CreateStack \/ CreateThread \/ SendReply
    BY <2>3 DEF CreateStack, CreateThread, SendReply, MapRun, MapStack, At
  <2>4. QED BY <2>1, <2>2, <2>3
<1>3. Steady(Image) /\ Steady(Stack)
  <2>1. LoadStep
    BY DEF LoadStep
  <2>2. QED BY <1>2, <2>1, LoaderSteady, Names
<1>4. CASE step \in {"stack", "thread"} /\ step' = "answer"
  <2>1. ~started
    BY <1>4, NotStarted
  <2>2. QED BY <1>1, <1>3, <1>4, <2>1, ImageIdle DEF Copying, AfterCopy, BeforeCopy
<1>5. CASE ~(step \in {"stack", "thread"} /\ step' = "answer")
  BY <1>1, <1>3, <1>5, ImageStays DEF BeforeCopy, AfterCopy
<1>6. QED BY <1>4, <1>5

LEMMA StartImage ==
  ASSUME LoadInv, ImageInv, StartThread
  PROVE  ImageInv'
<1>1. /\ step = "start" /\ step' = "answer"
      /\ UNCHANGED <<elf, bytes, pageIndex, window, pte, mappings>>
  BY DEF StartThread, At, Return, Answer, Layout, Asked, vars
<1>2. Copying
  BY <1>1 DEF Copying, AfterCopy
<1>3. \A n : ShownBelow(n) => ShownBelow(n)'
  BY <1>1, ShownStays DEF SamePages
<1>4. Backed(Image)' /\ Backed(Stack)'
  BY <1>1, <1>2, SameTables DEF ImageInv, Steady
<1>5. QED BY <1>1, <1>2, <1>3, <1>4 DEF ImageInv, BeforeCopy

LEMMA ProgramImage ==
  ASSUME PresentInv, LoadInv, ImageInv, Steady(Image), Steady(Stack),
         UNCHANGED loader
  PROVE  ImageInv'
<1>1. UNCHANGED <<step, elf, bytes, pageIndex, window, started>>
  BY DEF loader
<1>2. QED BY <1>1, ImageStays DEF ImageInv, Copying

LEMMA NextImageInv ==
  ASSUME PresentInv, HeapInv, LoadInv, FoundInv, ImageInv,
         [UserNext]_userVars
  PROVE  FoundInv' /\ ImageInv'
<1>1. CASE LoadStep
  <2>1. ASSUME CopySegments \/ SkipPage PROVE Steady(Image) /\ Steady(Stack)
    BY <2>1, SameTables DEF CopySegments, SkipPage, vars
  <2>2. QED
    BY <1>1, <2>1, FoundSteps, EarlyImage, CopyImage, SkipImage, RunImage, StackImage,
       LateImage, StartImage DEF LoadStep
<1>2. CASE UNCHANGED loader /\ Steady(Image) /\ Steady(Stack)
  <2>1. FoundInv'
    BY <1>2 DEF loader, FoundInv
  <2>2. QED BY <1>2, <2>1, ProgramImage
<1>3. CASE UNCHANGED userVars
  BY <1>2, <1>3, SameTables DEF userVars, vars
<1>4. QED
  BY <1>1, <1>2, <1>3, ProgramSteady DEF UserNext, LoaderStep, ProgramStep

LEMMA InitImageInv == UserInit => FoundInv /\ ImageInv
<1> SUFFICES ASSUME UserInit PROVE FoundInv /\ ImageInv
  OBVIOUS
<1>1. /\ step = "find" /\ elf = None /\ bytes = <<>> /\ pageIndex = 0
      /\ code \in Codes /\ started = FALSE
      /\ \A page \in Pages : pte[<<Child, page>>] = None
  BY LoadAssumption DEF UserInit, LoadInit, Init, Codes
<1>2. Image # None
  BY Names, IdentityAssumption DEF Referents
<1>3. Stack # None
  BY Names, IdentityAssumption DEF Referents
<1>4. QED
  BY <1>1, <1>2, <1>3 DEF FoundInv, ImageInv, Backed, Copying, BeforeCopy, AfterCopy

-----------------------------------------------------------------------------
(* What the child sees *)

LEMMA FewerPages ==
  ASSUME NEW p \in Nat, NEW q \in Nat, p * PageSize < q * PageSize
  PROVE  p < q
<1>1. PageSize \in Nat \ {0}
  BY LoadAssumption
<1>2. CASE p >= q
  <2>1. PICK d \in Nat : p = q + d
    <3>1. p - q \in Nat /\ p = q + (p - q)
      BY <1>2
    <3>2. QED BY <3>1
  <2>2. p * PageSize = q * PageSize + d * PageSize /\ d * PageSize \in Nat
        /\ q * PageSize \in Nat
    BY <1>1, <2>1
  <2>3. QED BY <2>2
<1>3. QED BY <1>2

LEMMA WithinPage ==
  ASSUME NEW q \in Nat, NEW r \in 0 .. PageSize - 1
  PROVE  (q * PageSize + r) % PageSize = r
<1> DEFINE x == q * PageSize + r
           d == x \div PageSize
           m == x % PageSize
<1>1. PageSize \in Nat \ {0} /\ r \in Nat /\ r < PageSize
  BY LoadAssumption
<1>2. q * PageSize \in Nat /\ x \in Nat
  BY <1>1
<1>3. d \in Nat /\ m \in Nat /\ m < PageSize /\ x = d * PageSize + m
  <2> HIDE DEF x
  <2>1. QED BY <1>1, <1>2
<1>4. d * PageSize \in Nat
  BY <1>1, <1>3
<1>5. (d + 1) * PageSize = d * PageSize + PageSize /\ (q + 1) * PageSize = q * PageSize + PageSize
  BY <1>1, <1>3
<1>6. q * PageSize + r = d * PageSize + m
  BY <1>3
<1> HIDE DEF x, d, m
<1>7. d * PageSize < (q + 1) * PageSize /\ q * PageSize < (d + 1) * PageSize
  BY <1>1, <1>2, <1>3, <1>4, <1>5, <1>6
<1>8. d < q + 1 /\ q < d + 1
  <2>1. d + 1 \in Nat /\ q + 1 \in Nat
    BY <1>3
  <2>2. QED BY <1>3, <1>7, <2>1, FewerPages
<1>9. d = q
  BY <1>3, <1>8
<1>10. m = r
  BY <1>1, <1>2, <1>3, <1>6, <1>9
<1>11. QED BY <1>10 DEF m, x

\* The segments with a word on a page are those the loop finds on it.
LEMMA OnPage ==
  ASSUME NEW file \in BootModules, NEW page \in Nat
  PROVE  {h \in SegmentSet(file) :
            \E a \in Words(page) : a \in h.vaddr .. SegmentEnd(h) - 1}
           = Overlapping(file, page * PageSize)
<1> DEFINE base == page * PageSize
<1>1. PageSize \in Nat \ {0} /\ base \in Nat
  BY LoadAssumption
<1>2. Words(page) = base .. base + PageSize - 1
  BY DEF Words
<1> HIDE DEF base
<1> SUFFICES ASSUME NEW h \in SegmentSet(file)
             PROVE  (\E a \in Words(page) : a \in h.vaddr .. SegmentEnd(h) - 1) <=>
                      /\ h.memsz # 0
                      /\ base < SegmentEnd(h)
                      /\ base + PageSize > h.vaddr
  BY DEF Overlapping, base
<1>3. h.vaddr \in Nat /\ h.memsz \in Nat /\ SegmentEnd(h) = h.vaddr + h.memsz
  BY HeadersAre, HeaderNumbers DEF SegmentEnd
<1>4. ASSUME NEW a \in Words(page), a \in h.vaddr .. SegmentEnd(h) - 1
      PROVE  h.memsz # 0 /\ base < SegmentEnd(h) /\ base + PageSize > h.vaddr
  BY <1>1, <1>2, <1>3, <1>4
<1>5. ASSUME h.memsz # 0, base < SegmentEnd(h), base + PageSize > h.vaddr
      PROVE  \E a \in Words(page) : a \in h.vaddr .. SegmentEnd(h) - 1
  <2>1. CASE h.vaddr <= base
    <3>1. base \in Words(page) /\ base \in h.vaddr .. SegmentEnd(h) - 1
      BY <1>1, <1>2, <1>3, <1>5, <2>1
    <3>2. QED BY <3>1
  <2>2. CASE ~(h.vaddr <= base)
    <3>1. h.vaddr \in Words(page) /\ h.vaddr \in h.vaddr .. SegmentEnd(h) - 1
      BY <1>1, <1>2, <1>3, <1>5, <2>2
    <3>2. QED BY <3>1
  <2>3. QED BY <2>1, <2>2
<1>6. QED BY <1>4, <1>5

\* The pages segments are on are pages of the image.
LEMMA PagesOfImage ==
  ASSUME NEW file \in BootModules, FoundLoad(file), NEW page \in Nat
  PROVE  Overlapping(file, page * PageSize) # {} <=>
           \E i \in 0 .. PageCount(file) - 1 :
             Occupied(file, i) /\ page = BasePage(file) + i
<1> DEFINE B == BasePage(file)
           n == PageCount(file)
<1>1. /\ B \in Nat /\ n \in Nat /\ PageSize \in Nat \ {0}
      /\ B * PageSize <= MinVaddr(file)
      /\ MaxVaddr(file) <= B * PageSize + n * PageSize
      /\ MinVaddr(file) \in Nat /\ MaxVaddr(file) \in Nat
  BY ImagePages, ImageBounds, LoadAssumption
<1>2. \A i \in Nat : ImagePage(file, i) = (B + i) * PageSize
  BY ImagePages
<1>3. \A i : Occupied(file, i) <=> i < n /\ Overlapping(file, ImagePage(file, i)) # {}
  BY DEF Occupied
<1> HIDE DEF B, n
<1>4. ASSUME NEW i \in 0 .. n - 1, Occupied(file, i), page = B + i
      PROVE  Overlapping(file, page * PageSize) # {}
  <2>1. i \in Nat
    BY <1>1
  <2>2. QED BY <1>2, <1>3, <1>4, <2>1
<1>5. ASSUME Overlapping(file, page * PageSize) # {}
      PROVE  \E i \in 0 .. n - 1 : Occupied(file, i) /\ page = B + i
  <2>1. PICK h \in SegmentSet(file) :
          page * PageSize < SegmentEnd(h) /\ page * PageSize + PageSize > h.vaddr
    BY <1>5 DEF Overlapping
  <2>2. /\ MinVaddr(file) <= h.vaddr /\ SegmentEnd(h) <= MaxVaddr(file)
        /\ h.vaddr \in Nat /\ SegmentEnd(h) \in Nat
    BY ImageBounds, HeadersAre, HeaderNumbers
  <2>3. /\ B * PageSize \in Nat /\ page * PageSize \in Nat
        /\ (page + 1) * PageSize = page * PageSize + PageSize
        /\ (B + n) * PageSize = B * PageSize + n * PageSize /\ n * PageSize \in Nat
    BY <1>1
  <2>4. B * PageSize < (page + 1) * PageSize
    BY <1>1, <2>1, <2>2, <2>3
  <2>5. page * PageSize < (B + n) * PageSize
    BY <1>1, <2>1, <2>2, <2>3
  <2>6. B < page + 1 /\ page < B + n
    <3>1. page + 1 \in Nat /\ B + n \in Nat
      BY <1>1
    <3>2. QED BY <1>1, <2>4, <2>5, <3>1, FewerPages
  <2>7. page - B \in 0 .. n - 1 /\ page - B \in Nat /\ page = B + (page - B)
        /\ page - B < n
    BY <1>1, <2>6
  <2>8. ImagePage(file, page - B) = page * PageSize
    BY <1>2, <2>7
  <2>9. QED BY <1>3, <1>5, <2>7, <2>8
<1>6. QED BY <1>4, <1>5 DEF B, n

\* A word of a page is, in the image, where the page is and as far into it.
LEMMA WordOfPage ==
  ASSUME NEW file \in BootModules, FoundLoad(file), NEW i \in 0 .. PageCount(file) - 1,
         NEW page, page = BasePage(file) + i, NEW a \in Words(page)
  PROVE  /\ a \in Nat
         /\ i * PageSize + (a % PageSize) \in 0 .. TotalSize(file) - 1
         /\ i * PageSize + (a % PageSize) + LoadBase(file) = a
<1> DEFINE B == BasePage(file)
           n == PageCount(file)
           k == a - page * PageSize
<1>1. /\ B \in Nat /\ n \in Nat /\ PageSize \in Nat \ {0}
      /\ LoadBase(file) = B * PageSize /\ TotalSize(file) = n * PageSize
  BY ImagePages, LoadAssumption
<1>2. i \in Nat /\ i + 1 <= n /\ page = B + i
  BY <1>1
<1> HIDE DEF B, n
<1>3. /\ page * PageSize = B * PageSize + i * PageSize
      /\ B * PageSize \in Nat /\ i * PageSize \in Nat /\ n * PageSize \in Nat
      /\ (i + 1) * PageSize = i * PageSize + PageSize
  BY <1>1, <1>2
<1>4. a \in Nat /\ k \in 0 .. PageSize - 1 /\ a = page * PageSize + k
  <2>1. a \in page * PageSize .. page * PageSize + PageSize - 1
    BY DEF Words
  <2>2. page * PageSize \in Nat
    BY <1>3
  <2>3. QED BY <1>1, <2>1, <2>2
<1> HIDE DEF k
<1>5. a % PageSize = k
  <2>1. page \in Nat
    BY <1>1, <1>2
  <2>2. QED BY <1>4, <2>1, WithinPage
<1>6. (i + 1) * PageSize <= n * PageSize
  <2>1. PICK d \in Nat : n = (i + 1) + d
    <3>1. n - (i + 1) \in Nat /\ n = (i + 1) + (n - (i + 1))
      BY <1>1, <1>2
    <3>2. QED BY <3>1
  <2>2. /\ n * PageSize = (i + 1) * PageSize + d * PageSize
        /\ d * PageSize \in Nat /\ (i + 1) * PageSize \in Nat
    BY <1>1, <1>2, <2>1
  <2>3. QED BY <2>2
<1>7. i * PageSize + k \in 0 .. TotalSize(file) - 1
  BY <1>1, <1>3, <1>4, <1>6
<1>8. i * PageSize + k + LoadBase(file) = a
  BY <1>1, <1>3, <1>4
<1>9. QED BY <1>4, <1>5, <1>7, <1>8

LEMMA FlagsAsAsked ==
  ASSUME NEW file, NEW base
  PROVE  /\ "Writable" \in PageFlags(file, base)
              <=> \E h \in Overlapping(file, base) : "W" \in h.flags
         /\ "NoExecute" \notin PageFlags(file, base)
              <=> \A h \in Overlapping(file, base) : "X" \in h.flags
BY DEF PageFlags, ElfSegmentFlags

LEMMA ImageRuns == LoadInv /\ ImageInv => RunsWhatWasLoaded
<1> SUFFICES ASSUME LoadInv, ImageInv, started, LoadBase(elf) # 0
             PROVE  /\ pte[<<Child, StackPage>>] = Stack
                    /\ \A page \in Pages :
                         LET on == {h \in SegmentSet(elf) :
                                      \E a \in Words(page) :
                                        a \in h.vaddr .. SegmentEnd(h) - 1}
                             shown == window[page]
                         IN /\ pte[<<Child, page>>] = Image <=> on # {}
                            /\ on # {} =>
                                 /\ "Writable" \in shown.flags
                                      <=> \E h \in on : "W" \in h.flags
                                 /\ "NoExecute" \notin shown.flags
                                      <=> \A h \in on : "X" \in h.flags
                                 /\ \A a \in Words(page) :
                                      bytes[shown.index * PageSize + (a % PageSize)]
                                        = WordAt(elf, a)
  BY DEF RunsWhatWasLoaded
<1>1. /\ elf \in BootModules /\ FoundLoad(elf) /\ bytes = ImageOf(elf, Copied(elf))
      /\ \A a : WordAfter(elf, Copied(elf), a) = WordAt(elf, a)
      /\ ShownBelow(PageCount(elf)) /\ pte[<<Child, StackPage>>] = Stack
  BY CopiedImage, AllCopied DEF LoadInv, OnceStarted, ImageInv, Copying
<1>2. ASSUME NEW page \in Pages
      PROVE  LET on == {h \in SegmentSet(elf) :
                          \E a \in Words(page) : a \in h.vaddr .. SegmentEnd(h) - 1}
                 shown == window[page]
             IN /\ pte[<<Child, page>>] = Image <=> on # {}
                /\ on # {} =>
                     /\ "Writable" \in shown.flags <=> \E h \in on : "W" \in h.flags
                     /\ "NoExecute" \notin shown.flags <=> \A h \in on : "X" \in h.flags
                     /\ \A a \in Words(page) :
                          bytes[shown.index * PageSize + (a % PageSize)] = WordAt(elf, a)
  <2> DEFINE base == page * PageSize
             on == {h \in SegmentSet(elf) :
                      \E a \in Words(page) : a \in h.vaddr .. SegmentEnd(h) - 1}
             shown == window[page]
  <2>1. page \in Nat
    BY DEF Pages
  <2>2. on = Overlapping(elf, base)
    BY <1>1, <2>1, OnPage
  <2> HIDE DEF on
  <2>3. pte[<<Child, page>>] = Image <=>
          \E i \in 0 .. PageCount(elf) - 1 : Occupied(elf, i) /\ page = BasePage(elf) + i
    BY <1>1 DEF ShownBelow
  <2>4. pte[<<Child, page>>] = Image <=> on # {}
    BY <1>1, <2>1, <2>2, <2>3, PagesOfImage
  <2>5. ASSUME on # {}
        PROVE  /\ "Writable" \in shown.flags <=> \E h \in on : "W" \in h.flags
               /\ "NoExecute" \notin shown.flags <=> \A h \in on : "X" \in h.flags
               /\ \A a \in Words(page) :
                    bytes[shown.index * PageSize + (a % PageSize)] = WordAt(elf, a)
    <3>1. shown = [index |-> page - BasePage(elf), flags |-> PageFlags(elf, base)]
      BY <1>1, <2>4, <2>5 DEF ShownBelow
    <3>2. PICK i \in 0 .. PageCount(elf) - 1 : page = BasePage(elf) + i
      BY <2>3, <2>4, <2>5
    <3>3. shown.index = i /\ shown.flags = PageFlags(elf, base)
      BY <1>1, <3>1, <3>2, ImagePages
    <3> HIDE DEF shown, base
    <3>4. ASSUME NEW a \in Words(page)
          PROVE  bytes[shown.index * PageSize + (a % PageSize)] = WordAt(elf, a)
      <4> DEFINE w == i * PageSize + (a % PageSize)
      <4>1. w \in 0 .. TotalSize(elf) - 1 /\ w + LoadBase(elf) = a
        BY <1>1, <3>2, WordOfPage
      <4> HIDE DEF w
      <4>2. bytes[w] = WordAt(elf, a)
        BY <1>1, <4>1 DEF ImageOf
      <4>3. QED BY <3>3, <4>2 DEF w
    <3>5. QED BY <2>2, <3>3, <3>4, FlagsAsAsked
  <2>6. QED BY <2>4, <2>5 DEF on
<1>3. QED BY <1>1, <1>2

-----------------------------------------------------------------------------

PlaceOK == place \in Places

LEMMA NextPlace == PlaceOK /\ [UserNext]_userVars => PlaceOK'
<1>1. RuntimeStep /\ PlaceOK => PlaceOK'
  BY DEF RuntimeStep, PlaceOK, Places, GetProcess, GetInfo, Call, CreateBlock, NullReturned,
     MapBlock, GiveUp, New, Delete, CloseBlock, Exit
<1>2. QED
  BY <1>1 DEF UserNext, LoaderStep, ProgramStep, userVars, runtime, PlaceOK

LEMMA ImageWords ==
  ASSUME FoundInv, NEW w \in DOMAIN bytes
  PROVE  bytes[w] \in 0 .. elf.size
<1>1. CASE bytes = <<>>
  BY <1>1
<1>2. CASE bytes # <<>>
  <2>1. elf \in BootModules /\ FoundLoad(elf) /\ bytes = ImageOf(elf, Copied(elf))
    BY <1>2, CopiedImage DEF FoundInv
  <2>2. w \in 0 .. TotalSize(elf) - 1
        /\ bytes[w] = WordAfter(elf, Copied(elf), w + LoadBase(elf))
    BY <2>1 DEF ImageOf
  <2>3. w + LoadBase(elf) \in Nat
    BY <2>1, <2>2, ImagePages
  <2>4. QED BY <2>1, <2>2, <2>3, CopiedWords
<1>3. QED BY <1>1, <1>2

LEMMA ProgramTypes == Request /\ FoundInv /\ PlaceOK /\ HeapInv => UserTypeOK
BY ImageWords DEF UserTypeOK, Request, FoundInv, PlaceOK, HeapInv, Calls

LEMMA AlwaysImageInv ==
  UserSpec => [](HeapInv /\ LoadInv /\ FoundInv /\ ImageInv)
<1>1. IInv /\ PresentInv /\ HeapInv /\ [UserNext]_userVars => HeapInv'
  BY NextHeap
<1>2. PresentInv /\ LoadInv /\ [UserNext]_userVars => LoadInv'
  BY NextLoadInv
<1>3. PresentInv /\ HeapInv /\ LoadInv /\ FoundInv /\ ImageInv /\ [UserNext]_userVars
        => FoundInv' /\ ImageInv'
  BY NextImageInv
<1>4. UserSpec => []IInv
  BY ImplementsKernelObjects, AlwaysIInv, PTL
<1>5. UserSpec => []PresentInv
  BY ImplementsKernelObjects, AlwaysPresentInv, PTL
<1>6. QED
  BY <1>1, <1>2, <1>3, <1>4, <1>5, InitHeap, InitLoadInv, InitImageInv, PTL DEF UserSpec

\* Types of Loader's and the program's variables: above all, each word of the
\* image is a word of the file, or zero, whatever the program headers say.  The
\* checks on a segment's file part are what keeps the copy inside the file.
THEOREM TypesOfProgram == UserSpec => []UserTypeOK
<1>1. UserInit => PlaceOK
  BY DEF UserInit, PlaceOK, Places
<1>2. UserSpec => []PlaceOK
  BY <1>1, NextPlace, PTL DEF UserSpec
<1>3. QED BY <1>2, AlwaysRequest, AlwaysImageInv, ProgramTypes, PTL

\* For every image whose first page is not page 0, with any number of segments in
\* any order and overlapping as they may, any page size, and whichever calls fail,
\* mappings half way included: while the program that was started runs, its
\* pages show exactly the words its segments say, the last one that covers a
\* word deciding, with the access they ask for together, no other page shows
\* the image, and the stack is in place.
THEOREM RunsTheImage == UserSpec => []RunsWhatWasLoaded
BY AlwaysImageInv, ImageRuns, PTL
=============================================================================
