------------------------------ MODULE FrameSet ------------------------------
(***************************************************************************)
(* What the rest of the kernel relies on when it calls the frame           *)
(* allocator: an allocation returns some available frame and fails only    *)
(* when there is none, and a frame is available again once it is freed.    *)
(***************************************************************************)
CONSTANTS
  Managed,  \* the frames the allocator was given
  Failed,   \* the answer to an allocation that finds nothing
  Idle      \* no answer: nothing was allocated since the last free

VARIABLES
  available,  \* frames an allocation may return
  result      \* the answer to the last call

Init == available = Managed /\ result = Idle

Allocate ==
  \E f \in available :
    /\ available' = available \ {f}
    /\ result' = f

Fail ==
  /\ available = {}
  /\ result' = Failed
  /\ UNCHANGED available

Free ==
  \E f \in Managed \ available :
    /\ available' = available \cup {f}
    /\ result' = Idle

Next == Allocate \/ Fail \/ Free

Spec == Init /\ [][Next]_<<available, result>>
=============================================================================
