------------------------ MODULE FrameAllocator_proof ------------------------
(***************************************************************************)
(* The frame allocator implements FrameSet for every bitmap and word size, *)
(* every memory map and every reservation.                                 *)
(***************************************************************************)
EXTENDS FrameAllocator, TLAPS

\* The inductive invariant. FramesAccounted is inductive by itself;
\* HintSound is what shows that a failing scan has missed no frame.
IInv == TypeOK /\ HintSound /\ FramesAccounted

LEMMA InitIInv == Init => IInv
<1> SUFFICES ASSUME Init PROVE IInv
  OBVIOUS
<1>1. TypeOK
  BY SizeAssumption DEF Init, TypeOK, Frames, UsedAfterBoot, UsedAfterInit
<1>2. HintSound
  BY DEF Init, HintSound, Frames
<1>3. FramesAccounted
  BY DEF Init, FramesAccounted
<1>4. QED BY <1>1, <1>2, <1>3 DEF IInv

\* A free frame is at or above the hint, so the first pass sees all of them.
LEMMA FirstPassComplete ==
  ASSUME TypeOK, HintSound
  PROVE  FirstPass = Frames \ used
<1>1. \A f \in Frames \ used : f >= hint
  BY DEF TypeOK, HintSound, Frames
<1>2. QED BY <1>1 DEF FirstPass

\* Hence the frame allocate_page picks is the lowest free one, and it gives up
\* only when no frame is free.
LEMMA ScanComplete ==
  ASSUME TypeOK, HintSound
  PROVE  Scanned = Frames \ used
<1>1. SecondPass \subseteq Frames \ used
  BY DEF SecondPass
<1>2. QED BY <1>1, FirstPassComplete DEF Scanned

LEMMA AllocateIInv == IInv /\ AllocatePage => IInv'
<1> SUFFICES ASSUME IInv, AllocatePage PROVE IInv'
  OBVIOUS
<1> USE DEF IInv
<1>1. PICK f \in Frames \ used :
        /\ \A g \in Frames \ used : f <= g
        /\ used' = used \cup {f}
        /\ held' = held \cup {f}
        /\ hint' = HintAfterAllocate(f)
        /\ result' = f
  BY ScanComplete DEF AllocatePage
<1>2. hint' \in Frames
  BY <1>1, SizeAssumption DEF HintAfterAllocate, Frames
<1>3. TypeOK'
  BY <1>1, <1>2 DEF TypeOK
<1>4. HintSound'
  <2> SUFFICES ASSUME NEW g \in Frames, g < hint' PROVE g \in used'
    BY DEF HintSound
  <2>1. g <= f
    BY <1>1, SizeAssumption DEF HintAfterAllocate, Frames
  <2>2. g = f \/ ~ (f <= g)
    BY <2>1 DEF Frames
  <2>3. QED BY <1>1, <2>2
<1>5. FramesAccounted'
  BY <1>1 DEF FramesAccounted, UsedAfterBoot, UsedAfterInit
<1>6. QED BY <1>3, <1>4, <1>5

LEMMA FreeIInv ==
  ASSUME IInv, NEW f \in Frames, FreePage(f)
  PROVE  IInv'
<1> USE DEF IInv
<1>1. TypeOK'
  BY DEF TypeOK, FreePage, HintAfterFree
<1>2. HintSound'
  BY DEF TypeOK, HintSound, FreePage, HintAfterFree, Frames
<1>3. FramesAccounted'
  BY DEF FramesAccounted, FreePage, UsedAfterBoot, UsedAfterInit
<1>4. QED BY <1>1, <1>2, <1>3

LEMMA NextIInv == IInv /\ [Next]_vars => IInv'
<1> SUFFICES ASSUME IInv, [Next]_vars PROVE IInv'
  OBVIOUS
<1>1. CASE AllocatePage
  BY <1>1, AllocateIInv
<1>2. CASE AllocationFails
  BY <1>2 DEF AllocationFails, IInv, TypeOK, HintSound, FramesAccounted,
              UsedAfterBoot, UsedAfterInit
<1>3. CASE \E f \in Frames : FreePage(f)
  BY <1>3, FreeIInv
<1>4. CASE UNCHANGED vars
  BY <1>4 DEF vars, IInv, TypeOK, HintSound, FramesAccounted, UsedAfterBoot,
              UsedAfterInit
<1>5. QED BY <1>1, <1>2, <1>3, <1>4 DEF Next

\* Whatever the order of allocations and frees, the bits below the hint are set
\* and the bitmap is exactly the reservations plus what callers hold.
THEOREM BitmapCorrect == Spec => [](TypeOK /\ HintSound /\ FramesAccounted)
<1>1. QED BY InitIInv, NextIInv, PTL DEF Spec, IInv

\* For any bitmap: the hint stays a frame, although it wraps at the end, and so
\* does every frame handed out.
THEOREM TypeCorrect == Spec => []TypeOK
BY BitmapCorrect, PTL

\* No free frame is ever below the hint, where no scan would find it again.
THEOREM HintStaysSound == Spec => []HintSound
BY BitmapCorrect, PTL

\* An allocation is a step of the set of available frames.
LEMMA StepImplements ==
  ASSUME IInv, [Next]_vars
  PROVE  [Abstract!Next]_<<Frames \ used, result>>
<1> USE DEF IInv
<1>1. CASE AllocatePage
  <2>1. Abstract!Allocate
    BY <1>1, ScanComplete DEF AllocatePage, Abstract!Allocate
  <2>2. QED BY <2>1 DEF Abstract!Next
<1>2. CASE AllocationFails
  <2>1. Abstract!Fail
    BY <1>2, ScanComplete DEF AllocationFails, Abstract!Fail
  <2>2. QED BY <2>1 DEF Abstract!Next
<1>3. CASE \E f \in Frames : FreePage(f)
  <2>1. PICK f \in Frames : FreePage(f)
    BY <1>3
  <2>2. f \in (Frames \ UsedAfterBoot) \ (Frames \ used)
    BY <2>1 DEF FreePage, FramesAccounted
  <2>3. (Frames \ used)' = (Frames \ used) \cup {f}
    BY <2>1 DEF FreePage
  <2>4. Abstract!Free
    BY <2>1, <2>2, <2>3 DEF FreePage, Abstract!Free
  <2>5. QED BY <2>4 DEF Abstract!Next
<1>4. CASE UNCHANGED vars
  BY <1>4 DEF vars
<1>5. QED BY <1>1, <1>2, <1>3, <1>4 DEF Next

\* The bitmap, its word-wise scan and its hint are invisible to the callers:
\* every behaviour of the allocator is one of the set of available frames.
THEOREM Refinement == Spec => ImplementsFrameSet
<1>1. Init => Abstract!Init
  BY DEF Init, Abstract!Init
<1>2. IInv /\ [Next]_vars => [Abstract!Next]_<<Frames \ used, result>>
  BY StepImplements
<1>3. QED
  BY <1>1, <1>2, InitIInv, NextIInv, PTL
  DEF Spec, ImplementsFrameSet, Abstract!Spec
=============================================================================
