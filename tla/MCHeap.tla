------------------------------- MODULE MCHeap -------------------------------
(***************************************************************************)
(* Instance of Heap for TLC: two regions, one that does not begin on the   *)
(* heap's alignment, one entry too small to use and one that is not usable.*)
(***************************************************************************)
EXTENDS Heap

Entry(base, size, usable) == [base |-> base, size |-> size, usable |-> usable]

\* The first region's chunk is too large for the last class, the second's is not.
BootMap == << Entry(512, 128, FALSE), Entry(1026, 244, TRUE),
              Entry(2048, 100, TRUE), Entry(4096, 128, TRUE) >>

\* The second is refused, the third gets the alignment of a pointer.
AlignedRequests == {<<8, 16>>, <<8, 12>>, <<5, 2>>}
=============================================================================
