--------------------------- MODULE FrameAllocator ---------------------------
(***************************************************************************)
(* The physical frame allocator (Memory/FrameAllocator.cppm): a bitmap of  *)
(* used frames, scanned a word at a time from a hint.  Also what           *)
(* katline_main does with the boot loader's memory map before the first    *)
(* allocation, including the part of it the kernel heap receives           *)
(* (Memory/MemoryManager.cppm).                                            *)
(*                                                                         *)
(* g_frames_lock is held, with interrupts off, from the first to the last  *)
(* statement of each call, so a call is one step on any processor.         *)
(*                                                                         *)
(* Abstracted: an address is a frame number, and a memory-map entry is the *)
(* set of its frames (the boot loader aligns usable entries to pages).     *)
(***************************************************************************)
EXTENDS Naturals

CONSTANTS
  MaxFrames,    \* max_frames, the size of the bitmap
  WordBits,     \* FrameBits::word_bits
  Usable,       \* the USABLE entries of the memory map
  LowMemory,    \* frames of the first 0x100000 bytes
  KernelImage,  \* frames of the kernel image
  BootStack,    \* frames of the boot processor's stack
  Failed, Idle  \* see FrameSet

Frames == 0 .. (MaxFrames - 1)

ASSUME SizeAssumption == MaxFrames \in Nat \ {0} /\ WordBits \in Nat \ {0}
ASSUME AnswerAssumption == Failed \notin Frames /\ Idle \notin Frames

VARIABLES
  used,   \* the bits set in g_frames
  hint,   \* g_next_free_hint
  held,   \* frames handed out and not freed: what the callers own
  result  \* the answer to the last call

vars == <<used, hint, held, result>>

TypeOK ==
  /\ used \subseteq Frames
  /\ hint \in Frames
  /\ held \subseteq Frames
  /\ result \in Frames \cup {Failed, Idle}

-----------------------------------------------------------------------------
(* Operators named ...Fault are plausible slips in the definition they     *)
(* precede.                                                                *)

(* Boot *)

\* FrameAllocator::init: every frame is used, then low memory is reserved,
\* then each usable entry is freed, low memory or not.
UsedAfterInit == (Frames \cup (LowMemory \cap Frames)) \ (UNION Usable)

\* The two reservations katline_main makes afterwards.
UsedAfterBoot == UsedAfterInit \cup ((KernelImage \cup BootStack) \cap Frames)

\* The entries reserve_mmap_phys_range leaves USABLE.  MemoryManager::init
\* gives each of them to the heap, which writes chunk headers into its first
\* and last frame and allocates from all of it.
HeapEntries ==
  {e \in Usable : e \cap (LowMemory \cup KernelImage \cup BootStack) = {}}

Init ==
  /\ used = UsedAfterBoot
  /\ hint = 0
  /\ held = {}
  /\ result = Idle

-----------------------------------------------------------------------------
(* allocate_page *)

BitmapIgnoredFault == {f \in Frames : f >= hint}

\* Free frames from the hint on: the bits below the hint in its word are masked.
FirstPass == {f \in Frames \ used : f >= hint}

\* Free frames in the words before the hint's word.
SecondPass == {f \in Frames \ used : f \div WordBits < hint \div WordBits}

Scanned == IF FirstPass # {} THEN FirstPass ELSE SecondPass

NoWrapFault(f) == f + 1

HintAfterAllocate(f) == IF f + 1 < MaxFrames THEN f + 1 ELSE 0

AllocatePage ==
  \E f \in Scanned :
    /\ \A g \in Scanned : f <= g
    /\ used' = used \cup {f}
    /\ held' = held \cup {f}
    /\ hint' = HintAfterAllocate(f)
    /\ result' = f

AllocationFails ==
  /\ Scanned = {}
  /\ result' = Failed
  /\ UNCHANGED <<used, hint, held>>

-----------------------------------------------------------------------------
(* free_page *)

HintKeptFault(f) == hint

HintAfterFree(f) == IF f < hint THEN f ELSE hint

\* Callers free what they were given: ~MemoryObject frees its own pages.
FreePage(f) ==
  /\ f \in held
  /\ used' = used \ {f}
  /\ held' = held \ {f}
  /\ hint' = HintAfterFree(f)
  /\ result' = Idle

Next == AllocatePage \/ AllocationFails \/ (\E f \in Frames : FreePage(f))

Spec == Init /\ [][Next]_vars

-----------------------------------------------------------------------------
(* Properties *)

\* Nothing below the hint is free.  allocate_page depends on it: no pass looks
\* at the bits below the hint in the hint's own word.
HintSound == \A f \in Frames : f < hint => f \in used

\* The bitmap and the owners agree at all times: a frame is marked used because
\* somebody holds it or because it was reserved at boot, never for both reasons.
FramesAccounted ==
  /\ used = UsedAfterBoot \cup held
  /\ held \cap UsedAfterBoot = {}

\* The bitmap and hint implement the set of available frames: a used frame is
\* never handed out, and an allocation fails only when every frame is used.
Abstract == INSTANCE FrameSet WITH
  Managed <- Frames \ UsedAfterBoot, available <- Frames \ used
ImplementsFrameSet == Abstract!Spec

\* A frame the heap allocates from is not also handed out as a page: memory has
\* one owner.
HeapFramesKept == held \cap (UNION HeapEntries) = {}
=============================================================================
