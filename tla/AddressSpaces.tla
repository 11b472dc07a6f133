--------------------------- MODULE AddressSpaces ---------------------------
(***************************************************************************)
(* What the rest of the kernel relies on when it uses Paging: an address   *)
(* space is a map from pages to frames with the access the caller asked    *)
(* for; mapping and unmapping a page changes that page of that space and   *)
(* nothing else; a new space sees the kernel and nothing of its creator.   *)
(***************************************************************************)
CONSTANTS
  Spaces,     \* the processes that may have an address space
  UserPages,  \* the pages of the user half
  Kernel,     \* the address space there is from the start
  Offers,     \* what a page can be mapped to
  Unmapped    \* what an access to a page without a mapping finds

VARIABLE view  \* space -> page -> what the processor finds there

Init == DOMAIN view = {Kernel}

\* The space and page of everything a step changes in the spaces there are.
Changed ==
  {x \in UNION {{s} \X DOMAIN view[s] : s \in DOMAIN view} :
     view'[x[1]][x[2]] # view[x[1]][x[2]]}

Create ==
  \E s \in Spaces \ DOMAIN view :
    /\ DOMAIN view' = DOMAIN view \cup {s}
    /\ Changed = {}
    /\ \A v \in UserPages : view'[s][v] = Unmapped
    /\ \A v \in DOMAIN view[Kernel] \ UserPages : view'[s][v] = view[Kernel][v]

Change ==
  /\ DOMAIN view' = DOMAIN view
  /\ \E x \in Changed :
       /\ Changed = {x}
       /\ x[1] # Kernel /\ x[2] \in UserPages
       /\ view'[x[1]][x[2]] \in Offers \cup {Unmapped}

Next == Create \/ Change

Spec == Init /\ [][Next]_view
=============================================================================
