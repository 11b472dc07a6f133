---------------------------- MODULE UserRuntime ----------------------------
(***************************************************************************)
(* A program from its first instruction on, on the thread that ElfLoad     *)
(* starts: _start (Libraries/LibRuntime/RT.cpp), then operators new and    *)
(* delete (OperatorNewDelete.cpp), which give each block a memory object   *)
(* and a mapping of its own, in any order main may call them.  Loader goes *)
(* on meanwhile.                                                           *)
(*                                                                         *)
(* As in ElfLoad memory is counted in words of 8 bytes, which is what      *)
(* sizes are rounded up to.                                                *)
(***************************************************************************)
EXTENDS ElfLoad

CONSTANTS
  HeapObjects,       \* memory objects the program's blocks may get
  Sizes,             \* sizes main asks for
  Alignments,        \* alignments main asks for
  HeaderSize,        \* of AllocationHeader: 4 words
  DefaultAlignment,  \* k_default_alignment: 2 words
  NameLength         \* words of the process's name, its final zero included

ASSUME RuntimeAssumption ==
  /\ HeapObjects \subseteq Allocated \ {BootInfo, File, Image, Stack}
  /\ Sizes \subseteq Nat /\ Alignments \subseteq Nat \ {0}
  /\ HeaderSize \in Nat \ {0} /\ DefaultAlignment \in Nat \ {0}
  /\ NameLength \in Nat

VARIABLES
  place,    \* where the program is
  blocks,   \* what new returned and delete has not been given
  wanted    \* the call of new in progress: size, alignment, and the object

runtime == <<place, blocks, wanted>>
userVars == <<vars, loader, runtime>>

Places == {"start", "info", "create", "map", "giveUp", "main", "close", "exited", "fault"}
NoCall == [size |-> 0, alignment |-> 1, object |-> None, caller |-> "main"]

UserInit ==
  /\ LoadInit
  /\ place = "start" /\ blocks = {} /\ wanted = NoCall

-----------------------------------------------------------------------------
(* Sizes and addresses of blocks *)

RoundTo(n, alignment) == ((n + alignment - 1) \div alignment) * alignment

PowerOfTwo(n) == \E k \in 0 .. n : 2 ^ k = n

\* allocation_alignment: the header's, for what is not a power of two.
AllocationAlignment(alignment) == IF PowerOfTwo(alignment) THEN alignment ELSE 1

NonZero(size) == IF size = 0 THEN 1 ELSE size

NoSlackFault(size, alignment) == NonZero(size) + HeaderSize

\* total_size
TotalFor(size, alignment) ==
  NonZero(size) + AllocationAlignment(alignment) + HeaderSize

PagesFor(size, alignment) == AlignUp(TotalFor(size, alignment)) \div PageSize

HeaderAfterFault(raw, alignment) == RoundTo(raw, AllocationAlignment(alignment))

\* The address new returns, for an object mapped at `raw`; the header is right
\* before it.
UserAddress(raw, alignment) ==
  RoundTo(raw + HeaderSize, AllocationAlignment(alignment))

PageOf(address) == address \div PageSize

-----------------------------------------------------------------------------
(* The steps *)

\* Handles of the program to x, and its mappings of x.
ChildHeld(x) == {h \in handles : h.owner = Child /\ h.object = x}
ChildMapped(x) == {m \in mappings : m.process = Child /\ m.object = x}

Call(size, alignment, caller) ==
  /\ place' = "create"
  /\ wanted' = [size |-> size, alignment |-> alignment,
                object |-> None, caller |-> caller]

\* A null pointer from new: _start writes the name through it and faults, main
\* is assumed to test it.
NullReturned ==
  /\ place' = IF wanted.caller = "start" THEN "fault" ELSE "main"
  /\ wanted' = NoCall

\* The handle of the process, or no memory for it.
GetProcess ==
  /\ place = "start" /\ started
  /\ \/ ProcessCurrent(Child) /\ place' = "info"
     \/ UNCHANGED vars /\ place' = "exited"
  /\ UNCHANGED <<blocks, wanted>>

\* sys_get_process_info, and new for a copy of the name; or no answer that can
\* be used.
GetInfo ==
  /\ place = "info"
  /\ \/ Call(NameLength, DefaultAlignment, "start")
     \/ place' = "exited" /\ UNCHANGED wanted
  /\ UNCHANGED <<vars, blocks>>

\* operator new
New(size, alignment) ==
  /\ place = "main"
  /\ UNCHANGED vars
  /\ Call(size, alignment, "main")
  /\ UNCHANGED blocks

CreateBlock ==
  /\ place = "create"
  /\ \/ \E o \in HeapObjects :
          /\ MemoryCreate(Child, o)
          /\ wanted' = [wanted EXCEPT !.object = o]
          /\ place' = "map"
     \/ UNCHANGED vars /\ NullReturned
  /\ UNCHANGED blocks

\* The block of the call in progress, with its object mapped at page `base`.
BlockAt(base) ==
  [object |-> wanted.object, size |-> wanted.size, alignment |-> wanted.alignment,
   user |-> UserAddress(base * PageSize, wanted.alignment)]

MapBlock ==
  /\ place = "map"
  /\ LET count == PagesFor(wanted.size, wanted.alignment)
     IN \/ /\ \E h \in ChildHeld(wanted.object) : MemoryMapped(Child, h, count)
           /\ \E base \in ChosenBase(Child, count, 0) :
                blocks' = blocks \cup {BlockAt(base)}
           /\ place' = "main" /\ wanted' = NoCall
        \/ /\ \/ UNCHANGED vars
              \/ \E h \in ChildHeld(wanted.object) : MemoryMapFailed(Child, h, count)
           /\ place' = "giveUp" /\ UNCHANGED <<blocks, wanted>>

HandleForgottenFault == UNCHANGED vars

\* What allocate_block gives back when the mapping fails.
GiveBack == \E h \in ChildHeld(wanted.object) : HandleClose(Child, h)

GiveUp ==
  /\ place = "giveUp"
  /\ GiveBack
  /\ NullReturned
  /\ UNCHANGED blocks

\* operator delete, up to the unmap.
Delete(block) ==
  /\ place = "main"
  /\ \E m \in ChildMapped(block.object) : MemoryUnmap(Child, m)
  /\ wanted' = [NoCall EXCEPT !.object = block.object]
  /\ blocks' = blocks \ {block}
  /\ place' = "close"

\* Then it reads the handle from the header, which was in the mapping.  The
\* access to a page that is not mapped is a fault and ends in kpanic.
CloseBlock ==
  /\ place = "close"
  /\ IF ChildMapped(wanted.object) = {}
     THEN UNCHANGED vars /\ place' = "fault"
     ELSE /\ \E h \in ChildHeld(wanted.object) : HandleClose(Child, h)
          /\ place' = "main"
  /\ wanted' = NoCall
  /\ UNCHANGED blocks

\* main returns, _start calls sys_exit; nothing is released.
Exit ==
  /\ place = "main"
  /\ place' = "exited"
  /\ UNCHANGED <<vars, blocks, wanted>>

RuntimeStep ==
  \/ GetProcess \/ GetInfo \/ CreateBlock \/ MapBlock \/ GiveUp
  \/ \E size \in Sizes, alignment \in Alignments : New(size, alignment)
  \/ \E block \in blocks : Delete(block)
  \/ CloseBlock \/ Exit

\* After kpanic nothing runs, Loader included.
LoaderStep == place # "fault" /\ LoadStep /\ UNCHANGED runtime
ProgramStep == place # "fault" /\ RuntimeStep /\ UNCHANGED loader

UserNext == LoaderStep \/ ProgramStep

UserSpec == UserInit /\ [][UserNext]_userVars

\* Loader is a user thread: it is run again and again (Scheduler,
\* EveryThreadRuns) and it does not wait for the program it started.
FairUserSpec == UserSpec /\ WF_userVars(LoaderStep)

-----------------------------------------------------------------------------
(* Properties *)

BlockRecords ==
  [object : HeapObjects, size : Nat, alignment : Nat \ {0}, user : Nat]

UserTypeOK ==
  /\ request \in [id : RequestedIds, caps : RequestedCaps]
  /\ elf \in BootModules \cup {None}
  /\ \A w \in DOMAIN bytes : bytes[w] \in 0 .. elf.size
  /\ pageIndex \in Nat
  /\ code \in Codes /\ started \in BOOLEAN
  /\ place \in Places
  /\ blocks \subseteq BlockRecords
  /\ wanted.object \in HeapObjects \cup {None}

\* The header of a block and the block itself.
Extent(block) == block.user - HeaderSize .. block.user + NonZero(block.size) - 1

\* A block is aligned as asked, and it and its header lie in pages that are
\* mapped to the block's own memory object: nothing else the program has, its
\* image and stack included, is in reach of it.  While no call is in progress
\* the objects the program has handles to, and those it maps, are exactly the
\* blocks': a call of new that failed half way kept nothing.
BlocksExact ==
  /\ \A b \in blocks :
       /\ PowerOfTwo(b.alignment) => b.user % b.alignment = 0
       /\ \A a \in Extent(b) : pte[<<Child, PageOf(a)>>] = b.object
  /\ \A b, c \in blocks : b.object = c.object => b = c
  /\ place = "main" =>
       \A o \in HeapObjects :
         /\ ChildHeld(o) # {} <=> \E b \in blocks : b.object = o
         /\ ChildMapped(o) # {} <=> \E b \in blocks : b.object = o

\* A request is answered, whatever fails: the loops over segments and pages end
\* for every image.  A fault in the new program may stop the machine first.
LoadAnswered == <>(step = "done" \/ place = "fault")
=============================================================================
