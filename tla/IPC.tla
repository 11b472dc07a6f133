-------------------------------- MODULE IPC --------------------------------
(***************************************************************************)
(* Katline's message passing: sys_ipc_send and sys_ipc_receive, the        *)
(* mailbox each process owns, and the messages the kernel answers itself   *)
(* (kernel_handle_ipc_message).                                            *)
(*                                                                         *)
(* Interrupts are masked during a syscall and only the boot processor runs *)
(* user threads, so a syscall is one step.  A receive from an empty        *)
(* mailbox changes nothing and has no action.                              *)
(*                                                                         *)
(* MailSpec lets any process send, ask and receive at any time; modules    *)
(* that extend this one say what the programs really do.                   *)
(*                                                                         *)
(* Abstracted: arguments and handles travel with the status, which is all  *)
(* a receiver branches on besides the fields kept here; what a handle      *)
(* refers to is the business of KernelObjects.                             *)
(***************************************************************************)
EXTENDS Naturals, Sequences

CONSTANTS
  MaxProcesses,  \* bound on the user processes created
  Capacity,      \* slots of Process::ipc_message_queue (256 in the code)
  MayFail        \* kernel requests that may be answered with an error

\* KernelMessageType and BootLoaderMessageType
KernelTypes == {"GetPageSize", "GetBootInfo", "GetBootModule", "GetCmdline",
                "GetFramebuffer"}
UserTypes == {"Ready", "LoadBootModule"}

ASSUME MailAssumption ==
  /\ MaxProcesses \in Nat \ {0} /\ Capacity \in Nat \ {0}
  /\ MayFail \subseteq KernelTypes \ {"GetPageSize"}

VARIABLES
  created,  \* user processes so far: their endpoints are 1 .. created
  mailbox,  \* Process::ipc_message_queue, by endpoint
  nextId    \* g_id_counter

mail == <<created, mailbox, nextId>>

Kernel == 0  \* the endpoint of k_process
Processes == 1 .. MaxProcesses
Endpoints == 1 .. created

Messages ==
  [id : Nat, sender : Processes \cup {Kernel}, replyTo : Nat, cookie : Nat,
   type : KernelTypes \cup UserTypes, status : Nat]

MailTypeOK ==
  /\ created \in Processes
  /\ mailbox \in [Processes -> Seq(Messages)]
  /\ \A e \in Processes : Len(mailbox[e]) <= Capacity
  /\ nextId \in Nat

\* The bootstrap process exists before the first message.
MailInit ==
  /\ created = 1
  /\ mailbox = [e \in Processes |-> << >>]
  /\ nextId = 0

-----------------------------------------------------------------------------
(* Operators named ...Fault are plausible slips in the definition they     *)
(* precede.                                                                *)

MakeRequest(type, cookie) ==
  [id |-> 0, sender |-> Kernel, replyTo |-> 0, cookie |-> cookie,
   type |-> type, status |-> 0]

CookieDroppedFault(request, type, status) ==
  [id |-> 0, sender |-> Kernel, replyTo |-> request.id,
   cookie |-> 0, type |-> type, status |-> status]

CopiedTypeFault(request, type, status) ==
  [id |-> 0, sender |-> Kernel, replyTo |-> request.id,
   cookie |-> request.cookie, type |-> "GetBootInfo", status |-> status]

StatusDroppedFault(request, type, status) ==
  [id |-> 0, sender |-> Kernel, replyTo |-> request.id,
   cookie |-> request.cookie, type |-> type, status |-> 0]

MakeReply(request, type, status) ==
  [id |-> 0, sender |-> Kernel, replyTo |-> request.id,
   cookie |-> request.cookie, type |-> type, status |-> status]

LastIdFault(p, message) == [message EXCEPT !.sender = p, !.id = nextId - 1]

\* The fields sys_ipc_send fills in, whatever the program wrote there.
Stamped(p, message) == [message EXCEPT !.sender = p, !.id = nextId]

InMailbox(e) == {mailbox[e][i] : i \in DOMAIN mailbox[e]}

Full(e) == Len(mailbox[e]) >= Capacity

NewestFirstFault(e, message) ==
  IF Full(e) THEN mailbox ELSE [mailbox EXCEPT ![e] = <<message>> \o @]

\* try_push: a full mailbox refuses the message.
TryPush(e, message) ==
  IF Full(e) THEN mailbox ELSE [mailbox EXCEPT ![e] = Append(@, message)]

-----------------------------------------------------------------------------

\* A process gets the next endpoint and an empty mailbox.
CreateProcess ==
  /\ created < MaxProcesses
  /\ created' = created + 1
  /\ UNCHANGED <<mailbox, nextId>>

\* sys_ipc_send to a process.  The id is consumed even when the endpoint does
\* not exist or its mailbox is full, which the sender is told.
Send(p, e, message) ==
  /\ nextId' = nextId + 1
  /\ mailbox' =
       IF e \in Endpoints THEN TryPush(e, Stamped(p, message)) ELSE mailbox
  /\ UNCHANGED created

\* sys_ipc_send to the kernel, which answers before the call returns.  A reply
\* that finds the mailbox full is dropped, and the sender is not told.
AskKernel(p, message) ==
  LET request == Stamped(p, message)
      statuses == IF request.type \in MayFail THEN {0, 1} ELSE {0}
  IN /\ nextId' = nextId + 1
     /\ IF request.replyTo = 0 /\ request.type \in KernelTypes
        THEN \E status \in statuses :
               mailbox' = TryPush(p, MakeReply(request, request.type, status))
        ELSE mailbox' = mailbox
     /\ UNCHANGED created

\* sys_ipc_receive; a message is consumed even if it cannot be copied out.
Receive(p) ==
  /\ mailbox[p] # << >>
  /\ mailbox' = [mailbox EXCEPT ![p] = Tail(@)]
  /\ UNCHANGED <<created, nextId>>

MailNext ==
  \/ CreateProcess
  \/ \E p \in Endpoints :
       \/ Receive(p)
       \/ \E m \in Messages :
            AskKernel(p, m) \/ \E e \in Processes : Send(p, e, m)

\* Any programs at all.
MailSpec == MailInit /\ [][MailNext]_mail

-----------------------------------------------------------------------------
(* Properties *)

FromUser(m) == m.sender # Kernel

\* A mailbox delivers what it accepted in the order it was sent, each message
\* once: the ids the kernel stamped rise from head to tail.
DeliveredInOrder ==
  \A e \in Processes : \A i, j \in DOMAIN mailbox[e] :
    i < j /\ FromUser(mailbox[e][i]) /\ FromUser(mailbox[e][j]) =>
      mailbox[e][i].id < mailbox[e][j].id
=============================================================================
