------------------------------- MODULE Blocks -------------------------------
(***************************************************************************)
(* What the kernel relies on when it calls operator new: the block it gets *)
(* lies inside one usable region, at the alignment it asked for, and       *)
(* shares no byte with a block that is still in use.  Releasing a block    *)
(* gives up that block and no other.                                       *)
(***************************************************************************)
EXTENDS Integers

CONSTANTS
  Extents,   \* the usable regions, as records [base, size]
  Requests   \* the pairs <<size, alignment>> callers ask for

VARIABLE blocks  \* the blocks in use, as records [base, size, alignment]

Apart(a, b) == a.base + a.size <= b.base \/ b.base + b.size <= a.base

Within(b, e) == e.base <= b.base /\ b.base + b.size <= e.base + e.size

Init == blocks = {}

\* The new block is the one that was not in use before.
Take ==
  \E b \in blocks' :
    /\ blocks' = blocks \cup {b}
    /\ <<b.size, b.alignment>> \in Requests
    /\ b.base % b.alignment = 0
    /\ \E e \in Extents : Within(b, e)
    /\ \A c \in blocks : Apart(b, c)

Release == \E b \in blocks : blocks' = blocks \ {b}

Next == Take \/ Release

Spec == Init /\ [][Next]_blocks
=============================================================================
