------------------------- MODULE BootProtocol_proof -------------------------
(***************************************************************************)
(* For every number of processes and every mailbox size: mailboxes deliver *)
(* in order whatever the programs do, and Bootstrap, Loader and the        *)
(* program Loader starts find what they wait for in them.                  *)
(***************************************************************************)
EXTENDS BootProtocol, FiniteSetTheorems, SequenceTheorems, TLAPS

-----------------------------------------------------------------------------
(* Any programs: MailSpec                                                  *)

\* The ids in the mailboxes are old.
IdsUsed ==
  \A e \in Processes : \A i \in DOMAIN mailbox[e] :
    FromUser(mailbox[e][i]) => mailbox[e][i].id < nextId

MailInv == MailTypeOK /\ DeliveredInOrder /\ IdsUsed

LEMMA StampedType ==
  ASSUME NEW p \in Processes, NEW m \in Messages, nextId \in Nat
  PROVE  /\ Stamped(p, m) \in Messages
         /\ Stamped(p, m).sender = p /\ Stamped(p, m).id = nextId
         /\ Stamped(p, m).type = m.type /\ Stamped(p, m).cookie = m.cookie
         /\ Stamped(p, m).status = m.status
         /\ Stamped(p, m).replyTo = m.replyTo
BY DEF Stamped, Messages

LEMMA ReplyType ==
  ASSUME NEW m \in Messages, NEW type \in KernelTypes \cup UserTypes,
         NEW status \in Nat
  PROVE  /\ MakeReply(m, type, status) \in Messages
         /\ MakeReply(m, type, status).sender = Kernel
         /\ MakeReply(m, type, status).type = type
         /\ MakeReply(m, type, status).cookie = m.cookie
         /\ MakeReply(m, type, status).status = status
BY DEF MakeReply, Messages

LEMMA RequestType ==
  ASSUME NEW type \in KernelTypes \cup UserTypes, NEW n \in Nat
  PROVE  /\ MakeRequest(type, n) \in Messages
         /\ MakeRequest(type, n).replyTo = 0
         /\ MakeRequest(type, n).type = type
         /\ MakeRequest(type, n).cookie = n
BY DEF MakeRequest, Messages

LEMMA MessageType ==
  ASSUME MailTypeOK, NEW e \in Processes, NEW i \in DOMAIN mailbox[e]
  PROVE  /\ mailbox[e] \in Seq(Messages) /\ i \in 1 .. Len(mailbox[e])
         /\ mailbox[e][i] \in Messages
         /\ mailbox[e][i].id \in Nat /\ mailbox[e][i].sender \in Nat
<1>1. /\ mailbox[e] \in Seq(Messages) /\ i \in 1 .. Len(mailbox[e])
      /\ mailbox[e][i] \in Messages
  BY DEF MailTypeOK
<1>2. mailbox[e][i].id \in Nat /\ mailbox[e][i].sender \in Processes \cup {Kernel}
  BY <1>1 DEF Messages
<1>3. QED BY <1>1, <1>2, MailAssumption DEF Processes, Kernel

LEMMA IdsGoUp ==
  ASSUME MailInv, mailbox' = mailbox, created' = created, nextId' = nextId + 1
  PROVE  MailInv'
<1>1. MailTypeOK' /\ DeliveredInOrder'
  BY DEF MailInv, MailTypeOK, DeliveredInOrder, FromUser
<1>2. ASSUME NEW e \in Processes, NEW i \in DOMAIN mailbox[e],
             FromUser(mailbox[e][i])
      PROVE  mailbox[e][i].id < nextId + 1
  <2>1. mailbox[e][i].id \in Nat /\ nextId \in Nat
    BY MessageType DEF MailInv, MailTypeOK
  <2>2. QED BY <1>2, <2>1 DEF MailInv, IdsUsed
<1>3. QED BY <1>1, <1>2 DEF MailInv, IdsUsed, FromUser

\* Pushing a message keeps the types, and the order when the message is the
\* kernel's or carries the newest id.
LEMMA PushKeeps ==
  ASSUME MailInv, NEW e \in Processes, NEW m \in Messages,
         FromUser(m) => m.id = nextId,
         mailbox' = TryPush(e, m), nextId' = nextId + 1, created' = created
  PROVE  MailInv'
<1>1. CASE Full(e)
  BY <1>1, IdsGoUp DEF TryPush
<1>2. CASE ~Full(e)
  <2>1. mailbox' = [mailbox EXCEPT ![e] = Append(mailbox[e], m)]
    BY <1>2 DEF TryPush
  <2>2. /\ mailbox \in [Processes -> Seq(Messages)] /\ nextId \in Nat
        /\ mailbox[e] \in Seq(Messages) /\ Len(mailbox[e]) < Capacity
    BY <1>2, MailAssumption DEF Full, MailInv, MailTypeOK
  <2>3. MailTypeOK'
    <3>1. Append(mailbox[e], m) \in Seq(Messages)
      BY <2>2
    <3>2. Len(Append(mailbox[e], m)) <= Capacity
      BY <2>2, MailAssumption
    <3>3. mailbox' \in [Processes -> Seq(Messages)]
      BY <2>1, <2>2, <3>1
    <3>4. \A f \in Processes : Len(mailbox'[f]) <= Capacity
      BY <2>1, <2>2, <3>2 DEF MailInv, MailTypeOK
    <3>5. QED BY <2>2, <3>3, <3>4 DEF MailInv, MailTypeOK
  <2>4. ASSUME NEW f \in Processes, NEW i \in DOMAIN mailbox'[f]
        PROVE  \/ /\ f = e /\ i = Len(mailbox[e]) + 1
                  /\ mailbox'[f][i] = m
               \/ i \in DOMAIN mailbox[f] /\ mailbox'[f][i] = mailbox[f][i]
    BY <2>1, <2>2
  <2>5. IdsUsed'
    <3> SUFFICES ASSUME NEW f \in Processes, NEW i \in DOMAIN mailbox'[f],
                        mailbox'[f][i].sender # Kernel
                 PROVE  mailbox'[f][i].id < nextId + 1
      BY DEF IdsUsed, FromUser
    <3>1. CASE mailbox'[f][i] = m
      BY <2>2, <3>1 DEF FromUser
    <3>2. CASE i \in DOMAIN mailbox[f] /\ mailbox'[f][i] = mailbox[f][i]
      <4>1. mailbox[f][i].id < nextId
        BY <3>2 DEF MailInv, IdsUsed, FromUser
      <4>2. mailbox[f][i].id \in Nat
        BY <3>2, MessageType DEF MailInv
      <4>3. QED BY <2>2, <3>2, <4>1, <4>2
    <3>3. QED BY <2>4, <3>1, <3>2
  <2>6. DeliveredInOrder'
    <3> SUFFICES ASSUME NEW f \in Processes, NEW i \in DOMAIN mailbox'[f],
                        NEW j \in DOMAIN mailbox'[f], i < j,
                        mailbox'[f][i].sender # Kernel,
                        mailbox'[f][j].sender # Kernel
                 PROVE  mailbox'[f][i].id < mailbox'[f][j].id
      BY DEF DeliveredInOrder, FromUser
    <3>1. i \in DOMAIN mailbox[f] /\ mailbox'[f][i] = mailbox[f][i]
      BY <2>1, <2>2
    <3>2. CASE f = e /\ j = Len(mailbox[e]) + 1 /\ mailbox'[f][j] = m
      BY <2>2, <3>1, <3>2 DEF MailInv, IdsUsed, FromUser
    <3>3. CASE j \in DOMAIN mailbox[f] /\ mailbox'[f][j] = mailbox[f][j]
      BY <3>1, <3>3 DEF MailInv, DeliveredInOrder, FromUser
    <3>4. QED BY <2>4, <3>2, <3>3
  <2>7. QED BY <2>3, <2>5, <2>6 DEF MailInv
<1>3. QED BY <1>1, <1>2

LEMMA ReceiveKeeps ==
  ASSUME MailInv, NEW p \in Processes, Receive(p)
  PROVE  MailInv'
<1>1. /\ mailbox[p] \in Seq(Messages) /\ mailbox[p] # << >>
      /\ mailbox' = [mailbox EXCEPT ![p] = Tail(mailbox[p])]
      /\ created' = created /\ nextId' = nextId
  BY DEF Receive, MailInv, MailTypeOK
<1>2. /\ Tail(mailbox[p]) \in Seq(Messages)
      /\ Len(Tail(mailbox[p])) = Len(mailbox[p]) - 1
      /\ \A i \in 1 .. Len(Tail(mailbox[p])) :
           i + 1 \in DOMAIN mailbox[p] /\ Tail(mailbox[p])[i] = mailbox[p][i + 1]
  BY <1>1
<1>3. MailTypeOK'
  BY <1>1, <1>2, MailAssumption DEF MailInv, MailTypeOK
<1>4. ASSUME NEW f \in Processes, NEW i \in DOMAIN mailbox'[f]
      PROVE  IF f = p THEN /\ i \in 1 .. Len(Tail(mailbox[p]))
                           /\ i + 1 \in DOMAIN mailbox[p]
                           /\ mailbox'[f][i] = mailbox[p][i + 1]
             ELSE i \in DOMAIN mailbox[f] /\ mailbox'[f][i] = mailbox[f][i]
  BY <1>1, <1>2 DEF MailInv, MailTypeOK
<1>5. DeliveredInOrder'
  <2> SUFFICES ASSUME NEW f \in Processes, NEW i \in DOMAIN mailbox'[f],
                      NEW j \in DOMAIN mailbox'[f], i < j,
                      mailbox'[f][i].sender # Kernel,
                      mailbox'[f][j].sender # Kernel
               PROVE  mailbox'[f][i].id < mailbox'[f][j].id
    BY DEF DeliveredInOrder, FromUser
  <2>1. CASE f = p
    <3>1. i + 1 < j + 1
      BY <1>4, <2>1
    <3>2. QED BY <1>4, <2>1, <3>1 DEF MailInv, DeliveredInOrder, FromUser
  <2>2. CASE f # p
    BY <1>4, <2>2 DEF MailInv, DeliveredInOrder, FromUser
  <2>3. QED BY <2>1, <2>2
<1>6. IdsUsed'
  BY <1>1, <1>4 DEF MailInv, IdsUsed, FromUser
<1>7. QED BY <1>3, <1>5, <1>6 DEF MailInv

LEMMA MailStep ==
  ASSUME MailInv, [MailNext]_mail
  PROVE  MailInv'
<1>1. CASE UNCHANGED mail
  BY <1>1 DEF mail, MailInv, MailTypeOK, DeliveredInOrder, IdsUsed, FromUser
<1>2. CASE CreateProcess
  <2>1. created + 1 \in Processes
    BY <1>2, MailAssumption DEF CreateProcess, MailInv, MailTypeOK, Processes
  <2>2. MailTypeOK'
    BY <1>2, <2>1 DEF CreateProcess, MailInv, MailTypeOK
  <2>3. DeliveredInOrder' /\ IdsUsed'
    BY <1>2 DEF CreateProcess, MailInv, DeliveredInOrder, IdsUsed, FromUser
  <2>4. QED BY <2>2, <2>3 DEF MailInv
<1>3. ASSUME NEW p \in Endpoints, Receive(p)
      PROVE  MailInv'
  <2>1. p \in Processes
    BY MailAssumption DEF Endpoints, Processes, MailInv, MailTypeOK
  <2>2. QED BY <1>3, <2>1, ReceiveKeeps
<1>4. ASSUME NEW p \in Endpoints, NEW m \in Messages, AskKernel(p, m)
      PROVE  MailInv'
  <2>1. p \in Processes /\ nextId \in Nat
    BY MailAssumption DEF Endpoints, Processes, MailInv, MailTypeOK
  <2>2. CASE mailbox' = mailbox
    BY <1>4, <2>2, IdsGoUp DEF AskKernel
  <2>3. CASE mailbox' # mailbox
    <3>1. PICK status \in {0, 1} :
            mailbox' = TryPush(p, MakeReply(Stamped(p, m), m.type, status))
      BY <1>4, <2>1, <2>3, StampedType DEF AskKernel
    <3>2. m.type \in KernelTypes \cup UserTypes
      BY DEF Messages
    <3>3. /\ MakeReply(Stamped(p, m), m.type, status) \in Messages
          /\ MakeReply(Stamped(p, m), m.type, status).sender = Kernel
      BY <2>1, <3>2, StampedType, ReplyType
    <3>4. nextId' = nextId + 1 /\ created' = created
      BY <1>4 DEF AskKernel
    <3>5. QED BY <2>1, <3>1, <3>3, <3>4, PushKeeps DEF FromUser
  <2>4. QED BY <2>2, <2>3
<1>5. ASSUME NEW p \in Endpoints, NEW m \in Messages, NEW e \in Processes,
             Send(p, e, m)
      PROVE  MailInv'
  <2>1. p \in Processes /\ nextId \in Nat
    BY MailAssumption DEF Endpoints, Processes, MailInv, MailTypeOK
  <2>2. nextId' = nextId + 1 /\ created' = created
    BY <1>5 DEF Send
  <2>3. CASE e \in Endpoints
    <3>1. mailbox' = TryPush(e, Stamped(p, m))
      BY <1>5, <2>3 DEF Send
    <3>2. Stamped(p, m) \in Messages /\ Stamped(p, m).id = nextId
      BY <2>1, StampedType
    <3>3. QED BY <2>2, <3>1, <3>2, PushKeeps
  <2>4. CASE e \notin Endpoints
    <3>1. mailbox' = mailbox
      BY <1>5, <2>4 DEF Send
    <3>2. QED BY <2>2, <3>1, IdsGoUp
  <2>5. QED BY <2>3, <2>4
<1>6. QED BY <1>1, <1>2, <1>3, <1>4, <1>5 DEF MailNext

LEMMA MailStart == MailInit => MailInv
BY MailAssumption
DEF MailInit, MailInv, MailTypeOK, DeliveredInOrder, IdsUsed, Processes

\* Whatever the programs do, in whatever order: mailboxes keep to their
\* capacity and hand out what users sent in the order it was sent
\* (sys_ipc_send, sys_ipc_receive, kernel_handle_ipc_message).
THEOREM MailInOrder == MailSpec => [](MailTypeOK /\ DeliveredInOrder)
<1>1. MailInit => MailInv
  BY MailStart
<1>2. MailInv /\ [MailNext]_mail => MailInv'
  BY MailStep
<1>3. MailInv => MailTypeOK /\ DeliveredInOrder
  BY DEF MailInv
<1>4. QED BY <1>1, <1>2, <1>3, PTL DEF MailSpec

-----------------------------------------------------------------------------
(* The invariant of the boot protocol                                      *)

Empty(e) == mailbox[e] = << >>
OneMessage(e) == Len(mailbox[e]) = 1
IsLoad(m, from) == m.type = "LoadBootModule" /\ m.sender = from

\* An exchange with the kernel: the answer is all there is in the mailbox.
Exchange(p) ==
  IF awaiting[p] = 0
  THEN Empty(p)
  ELSE /\ OneMessage(p)
       /\ mailbox[p][1].sender = Kernel /\ mailbox[p][1].cookie = awaiting[p]
       /\ mailbox[p][1].type = Asks[pc[p]]

NoManager ==
  pc[Manager] # "running" /\ outstanding[Manager] = 0 /\ Empty(Manager)

\* Loader has not been started.
Alone ==
  /\ NoManager
  /\ pc[Bootstrap] \in {"pageSize", "bootInfo", "create", "module", "start", "failed"}
  /\ pc[LoaderEndpoint] = "unborn"
  /\ Exchange(Bootstrap) /\ Empty(LoaderEndpoint) /\ outstanding[Bootstrap] = 0
  /\ pc[Bootstrap] \in {"pageSize", "bootInfo", "create"} => created = Bootstrap
  /\ pc[Bootstrap] \in {"module", "start"} =>
       created = LoaderEndpoint /\ cell = Bootstrap

\* Loader starts, or ended before it could announce itself, while Bootstrap
\* waits for Ready.
Announcing ==
  /\ NoManager
  /\ pc[Bootstrap] = "waitReady" /\ Empty(Bootstrap) /\ outstanding[Bootstrap] = 0
  /\ pc[LoaderEndpoint] \in {"runtime", "pageSize", "announce", "failed"}
  /\ Exchange(LoaderEndpoint)
  /\ created = LoaderEndpoint /\ cell = Bootstrap

\* Loader is ready and has not been asked for anything.
Announced ==
  /\ NoManager
  /\ pc[LoaderEndpoint] = "serve" /\ Empty(LoaderEndpoint)
  /\ outstanding[Bootstrap] = 0 /\ created = LoaderEndpoint
  /\ \/ /\ pc[Bootstrap] = "waitReady" /\ OneMessage(Bootstrap)
        /\ IsReady(mailbox[Bootstrap][1])
     \/ pc[Bootstrap] \in {"request", "exit", "done"} /\ Empty(Bootstrap)

HasAsked == pc[Bootstrap] \in {"exit", "done"} /\ outstanding[Bootstrap] = 1

\* Loader is working on the request of process p.
Preparing(p) ==
  pc[LoaderEndpoint] \in {"bootInfo", "module", "load"} /\ request.sender = p

Asked ==
  /\ NoManager /\ HasAsked
  /\ Empty(Bootstrap) /\ created = LoaderEndpoint
  /\ \/ /\ pc[LoaderEndpoint] = "serve" /\ OneMessage(LoaderEndpoint)
        /\ IsLoad(mailbox[LoaderEndpoint][1], Bootstrap)
     \/ Preparing(Bootstrap) /\ Exchange(LoaderEndpoint)

\* Loader could not start ProcessManager, and says so.
Refused ==
  /\ NoManager /\ HasAsked
  /\ Empty(LoaderEndpoint) /\ created >= LoaderEndpoint
  /\ \/ /\ Empty(Bootstrap)
        /\ pc[LoaderEndpoint] = "reply" /\ request.sender = Bootstrap /\ result # 0
     \/ /\ OneMessage(Bootstrap) /\ IsLoad(mailbox[Bootstrap][1], LoaderEndpoint)
        /\ mailbox[Bootstrap][1].status # 0
        /\ pc[LoaderEndpoint] = "serve"

\* ProcessManager runs; Bootstrap's reply is due, or there and Loader serves
\* Manager.
BootstrapServed ==
  \/ /\ Empty(Bootstrap)
     /\ pc[LoaderEndpoint] = "reply" /\ request.sender = Bootstrap /\ result = 0
  \/ /\ OneMessage(Bootstrap) /\ IsLoad(mailbox[Bootstrap][1], LoaderEndpoint)
     /\ mailbox[Bootstrap][1].status = 0
     /\ pc[LoaderEndpoint] \in {"serve", "bootInfo", "module", "load", "reply"}
     /\ pc[LoaderEndpoint] # "serve" => request.sender = Manager

\* Whether message m counts as a load request from a sender, and Loader as
\* working on one of Manager's, as a number.
OneIfLoad(m, from) == IF IsLoad(m, from) THEN 1 ELSE 0
OneIfServing == IF Serving(Manager) THEN 1 ELSE 0
OneIfPreparing == IF Preparing(Manager) THEN 1 ELSE 0
OneIfAwaiting == IF awaiting[LoaderEndpoint] # 0 THEN 1 ELSE 0

Loads(e, from) == Cardinality(LoadMessages(e, from))

ManagersRequests ==
  Loads(LoaderEndpoint, Manager) + OneIfServing + Loads(Manager, LoaderEndpoint)

\* What is in the mailboxes of Loader and Manager.
LoaderMail ==
  \A i \in DOMAIN mailbox[LoaderEndpoint] :
    \/ IsLoad(mailbox[LoaderEndpoint][i], Manager)
    \/ /\ mailbox[LoaderEndpoint][i].sender = Kernel
       /\ mailbox[LoaderEndpoint][i].type \in KernelTypes

ManagerMail ==
  \A i \in DOMAIN mailbox[Manager] : IsLoad(mailbox[Manager][i], LoaderEndpoint)

\* Manager waits for each reply: what is in Loader's mailbox is Manager's one
\* request, or the kernel's one answer.
InTurn ==
  /\ outstanding[Manager] <= 1 /\ ManagersRequests = outstanding[Manager]
  /\ Preparing(Manager) => Exchange(LoaderEndpoint)
  /\ pc[LoaderEndpoint] \in {"serve", "reply"} =>
       \A i \in DOMAIN mailbox[LoaderEndpoint] :
          mailbox[LoaderEndpoint][i].sender = Manager

\* Manager does not wait: there is room for the answer Loader will ask for.
AtOnce ==
  /\ ManagersRequests <= outstanding[Manager]
  /\ Len(mailbox[LoaderEndpoint]) + OneIfPreparing
       <= cookie[Manager] + OneIfAwaiting

Up ==
  /\ pc[Manager] = "running" /\ HasAsked /\ created >= Manager
  /\ BootstrapServed /\ LoaderMail /\ ManagerMail
  /\ IF pipelined THEN AtOnce ELSE InTurn

Stages == Alone \/ Announcing \/ Announced \/ Asked \/ Refused \/ Up

BootTyped ==
  /\ TypeOK /\ MailInv
  /\ \A p \in Processes \ {Bootstrap, LoaderEndpoint} : awaiting[p] = 0
  /\ cookie[Manager] <= Requests
  /\ pipelined \in Pipelining

BootInv == BootTyped /\ Stages

-----------------------------------------------------------------------------
(* Numbers of load requests in a sequence of messages                      *)

LoadIn(s, from) == {i \in DOMAIN s : s[i].type = "LoadBootModule" /\ s[i].sender = from}

LEMMA CountType ==
  ASSUME NEW s \in Seq(Messages), NEW from
  PROVE  /\ IsFiniteSet(LoadIn(s, from)) /\ Cardinality(LoadIn(s, from)) \in Nat
         /\ LoadIn(s, from) = {} => Cardinality(LoadIn(s, from)) = 0
         /\ Cardinality(LoadIn(s, from)) = 0 => LoadIn(s, from) = {}
<1>1. LoadIn(s, from) \subseteq 1 .. Len(s) /\ Len(s) \in Nat
  BY DEF LoadIn
<1>2. IsFiniteSet(1 .. Len(s))
  BY <1>1, FS_Interval
<1>3. IsFiniteSet(LoadIn(s, from))
  BY <1>1, <1>2, FS_Subset
<1>4. QED BY <1>3, FS_CardinalityType, FS_EmptySet

LEMMA CountAppend ==
  ASSUME NEW s \in Seq(Messages), NEW m \in Messages, NEW from
  PROVE  Cardinality(LoadIn(Append(s, m), from))
           = Cardinality(LoadIn(s, from)) + OneIfLoad(m, from)
<1> DEFINE t == Append(s, m)
           n == Len(s) + 1
<1>1. /\ Len(s) \in Nat /\ DOMAIN s = 1 .. Len(s)
      /\ DOMAIN t = 1 .. n /\ t[n] = m
      /\ \A i \in 1 .. Len(s) : t[i] = s[i]
  OBVIOUS
<1>2. n \notin LoadIn(s, from)
  BY <1>1 DEF LoadIn
<1>3. CASE IsLoad(m, from)
  <2>1. LoadIn(t, from) = LoadIn(s, from) \cup {n}
    BY <1>1, <1>3 DEF LoadIn, IsLoad
  <2>2. Cardinality(LoadIn(s, from) \cup {n}) = Cardinality(LoadIn(s, from)) + 1
    BY <1>2, CountType, FS_AddElement
  <2>3. QED BY <1>3, <2>1, <2>2 DEF OneIfLoad
<1>4. CASE ~IsLoad(m, from)
  <2>1. LoadIn(t, from) = LoadIn(s, from)
    BY <1>1, <1>4 DEF LoadIn, IsLoad
  <2>2. QED BY <1>4, <2>1, CountType DEF OneIfLoad
<1>5. QED BY <1>3, <1>4

LEMMA CountTail ==
  ASSUME NEW s \in Seq(Messages), s # << >>, NEW from
  PROVE  Cardinality(LoadIn(s, from))
           = Cardinality(LoadIn(Tail(s), from)) + OneIfLoad(s[1], from)
<1> DEFINE t == Tail(s)
           rest == LoadIn(s, from) \ {1}
           shift == [i \in LoadIn(t, from) |-> i + 1]
<1>1. /\ Len(s) \in Nat \ {0} /\ DOMAIN s = 1 .. Len(s)
      /\ t \in Seq(Messages) /\ DOMAIN t = 1 .. (Len(s) - 1)
      /\ \A i \in 1 .. (Len(s) - 1) : t[i] = s[i + 1]
  OBVIOUS
<1>2. \A i \in LoadIn(t, from) : i + 1 \in rest
  BY <1>1 DEF LoadIn
<1>3. \A j \in rest : j - 1 \in LoadIn(t, from) /\ j = (j - 1) + 1
  BY <1>1 DEF LoadIn
<1>4. LoadIn(t, from) \subseteq Nat
  BY <1>1 DEF LoadIn
<1>5. shift \in Bijection(LoadIn(t, from), rest)
  BY <1>2, <1>3, <1>4 DEF Bijection, Injection, Surjection, IsInjective
<1>6. Cardinality(rest) = Cardinality(LoadIn(t, from))
  <2>1. IsFiniteSet(LoadIn(t, from))
    BY <1>1, CountType
  <2>2. ExistsBijection(LoadIn(t, from), rest)
    BY <1>5 DEF ExistsBijection
  <2>3. QED BY <2>1, <2>2, FS_Bijection
<1>7. CASE IsLoad(s[1], from)
  <2>1. 1 \in LoadIn(s, from)
    BY <1>1, <1>7 DEF LoadIn, IsLoad
  <2>2. Cardinality(rest) = Cardinality(LoadIn(s, from)) - 1
    BY <2>1, CountType, FS_RemoveElement
  <2>3. Cardinality(LoadIn(s, from)) \in Nat
    BY CountType
  <2>4. QED BY <1>6, <1>7, <2>2, <2>3 DEF OneIfLoad
<1>8. CASE ~IsLoad(s[1], from)
  <2>1. rest = LoadIn(s, from)
    BY <1>8 DEF LoadIn, IsLoad
  <2>2. Cardinality(LoadIn(t, from)) \in Nat
    BY <1>1, CountType
  <2>3. Cardinality(LoadIn(s, from)) = Cardinality(LoadIn(t, from))
    BY <1>6, <2>1
  <2>4. QED BY <1>8, <2>2, <2>3 DEF OneIfLoad
<1>9. QED BY <1>7, <1>8

-----------------------------------------------------------------------------
(* Every step of the programs is one any programs may take                 *)

LEMMA Programs ==
  /\ Bootstrap \in Processes /\ LoaderEndpoint \in Processes
  /\ Manager \in Processes
  /\ Bootstrap # LoaderEndpoint /\ Bootstrap # Manager /\ LoaderEndpoint # Manager
  /\ Kernel \notin Processes /\ Processes \subseteq Nat
  /\ Requests \in Nat
BY BootAssumption, MailAssumption
DEF Bootstrap, LoaderEndpoint, Manager, Requests, Processes, Kernel

LEMMA AsksTypes ==
  /\ DOMAIN Asks = {"pageSize", "bootInfo", "module"}
  /\ \A place \in DOMAIN Asks : Asks[place] \in KernelTypes
  /\ Asks["pageSize"] \notin MayFail
BY MailAssumption DEF Asks, KernelTypes

LEMMA ActorsExist ==
  ASSUME BootInv
  PROVE  /\ Bootstrap \in Endpoints
         /\ pc[LoaderEndpoint] # "unborn" => LoaderEndpoint \in Endpoints
         /\ pc[Manager] = "running" => Manager \in Endpoints
<1>1. created \in Nat /\ created >= 1
  BY MailAssumption DEF BootInv, BootTyped, TypeOK, MailTypeOK, Processes
<1>2. pc[LoaderEndpoint] # "unborn" => created >= LoaderEndpoint
  BY <1>1
  DEF BootInv, Stages, Alone, Announcing, Announced, Asked, Refused, Up,
      LoaderEndpoint, Manager
<1>3. pc[Manager] = "running" => created >= Manager
  BY DEF BootInv, Stages, Alone, Announcing, Announced, Asked, Refused, Up,
         NoManager
<1>4. QED
  BY <1>1, <1>2, <1>3 DEF Endpoints, Bootstrap, LoaderEndpoint, Manager

\* The request Loader replies to is Bootstrap's or Manager's.
LEMMA ReplyGoesHome ==
  ASSUME BootInv, pc[LoaderEndpoint] = "reply"
  PROVE  request.sender \in {Bootstrap, Manager}
BY DEF BootInv, Stages, Alone, Announcing, Announced, Asked, Refused, Up,
       BootstrapServed, Preparing

LEMMA AskMail ==
  ASSUME BootInv, NEW p \in {Bootstrap, LoaderEndpoint}, Ask(p)
  PROVE  MailNext
<1>1. p \in Endpoints
  BY ActorsExist, AsksTypes DEF Ask
<1>2. p \in Processes /\ cookie[p] + 1 \in Nat
  BY Programs DEF BootInv, BootTyped, TypeOK
<1>3. MakeRequest(Asks[pc[p]], NextCookie(p)) \in Messages
  BY <1>2, AsksTypes, RequestType DEF Ask, NextCookie
<1>4. QED BY <1>1, <1>3 DEF Ask, MailNext

LEMMA ReceiveMail ==
  ASSUME BootInv, NEW p \in {Bootstrap, LoaderEndpoint, Manager},
         p = LoaderEndpoint => pc[p] # "unborn",
         p = Manager => pc[p] = "running",
         Receive(p)
  PROVE  MailNext
BY ActorsExist DEF MailNext

LEMMA DiscardMail ==
  ASSUME BootInv, NEW p \in {Bootstrap, LoaderEndpoint}, Discard(p)
  PROVE  MailNext
<1>1. p \in Processes
  BY Programs
<1>2. pc[p] \in DOMAIN Asks
  BY <1>1 DEF Discard, BootInv, BootTyped, TypeOK
<1>3. pc[p] # "unborn"
  BY <1>2, AsksTypes
<1>4. QED BY <1>3, ReceiveMail, Programs DEF Discard

LEMMA LoadMail ==
  ASSUME BootInv, NEW p \in {Bootstrap, Manager},
         p = Manager => pc[p] = "running", RequestLoad(p)
  PROVE  MailNext
<1>1. p \in Endpoints /\ p \in Processes /\ LoaderEndpoint \in Processes
  BY ActorsExist, Programs
<1>2. cookie[p] + 1 \in Nat
  BY <1>1 DEF BootInv, BootTyped, TypeOK
<1>3. MakeRequest("LoadBootModule", NextCookie(p)) \in Messages
  BY <1>2, RequestType DEF NextCookie, UserTypes
<1>4. QED BY <1>1, <1>3 DEF RequestLoad, MailNext

LEMMA AnnounceMail ==
  ASSUME BootInv, LoaderAnnounce(LoaderEndpoint)
  PROVE  [MailNext]_mail
<1>1. pc[LoaderEndpoint] # "unborn"
  BY DEF LoaderAnnounce
<1>2. LoaderEndpoint \in Endpoints /\ LoaderEndpoint \in Processes
  BY <1>1, ActorsExist, Programs
<1>3. cookie[LoaderEndpoint] + 1 \in Nat /\ cell \in {0, Bootstrap}
  BY <1>2 DEF BootInv, BootTyped, TypeOK
<1>4. MakeRequest("Ready", NextCookie(LoaderEndpoint)) \in Messages
  BY <1>3, RequestType DEF NextCookie, UserTypes
<1>5. CASE UNCHANGED mail
  BY <1>5
<1>6. CASE ~UNCHANGED mail
  <2>1. /\ cell # 0
        /\ Send(LoaderEndpoint, cell, MakeRequest("Ready", NextCookie(LoaderEndpoint)))
    BY <1>6 DEF LoaderAnnounce
  <2>2. cell \in Processes
    BY <1>3, <2>1, Programs
  <2>3. QED BY <1>2, <1>4, <2>1, <2>2 DEF MailNext
<1>7. QED BY <1>5, <1>6

LEMMA ReplyMail ==
  ASSUME BootInv, LoaderReply(LoaderEndpoint)
  PROVE  MailNext
<1>1. pc[LoaderEndpoint] = "reply"
  BY DEF LoaderReply
<1>2. LoaderEndpoint \in Endpoints /\ request.sender \in Processes
  BY <1>1, ActorsExist, ReplyGoesHome, Programs
<1>3. request \in Messages /\ result \in Nat
  BY DEF BootInv, BootTyped, TypeOK
<1>4. MakeReply(request, "LoadBootModule", result) \in Messages
  BY <1>3, ReplyType DEF UserTypes
<1>5. QED BY <1>2, <1>4 DEF LoaderReply, ReplyTarget, MailNext

LEMMA BootMail ==
  ASSUME BootInv, [Next]_vars
  PROVE  [MailNext]_mail
<1>1. CASE UNCHANGED vars
  BY <1>1 DEF vars
<1>2. CASE Ask(Bootstrap) \/ Ask(LoaderEndpoint)
  BY <1>2, AskMail
<1>3. CASE Discard(Bootstrap) \/ Discard(LoaderEndpoint)
  BY <1>3, DiscardMail
<1>4. CASE BootstrapPageSize \/ BootstrapBootInfo \/ BootstrapModule
             \/ BootstrapWaitReady
  BY <1>4, ReceiveMail, Programs
  DEF BootstrapPageSize, BootstrapBootInfo, BootstrapModule, BootstrapWaitReady,
      Answered
<1>5. CASE BootstrapCreate
  BY <1>5 DEF BootstrapCreate, MailNext
<1>6. CASE BootstrapStart \/ BootstrapExit \/ LoaderRuntime(LoaderEndpoint)
  BY <1>6 DEF BootstrapStart, BootstrapExit, LoaderRuntime
<1>7. CASE BootstrapRequest
  BY <1>7, LoadMail, Programs DEF BootstrapRequest
<1>8. CASE \/ LoaderPageSize(LoaderEndpoint) \/ LoaderServe(LoaderEndpoint)
           \/ LoaderBootInfo(LoaderEndpoint) \/ LoaderModule(LoaderEndpoint)
  BY <1>8, ReceiveMail, Programs
  DEF LoaderPageSize, LoaderServe, LoaderBootInfo, LoaderModule, Answered
<1>9. CASE LoaderAnnounce(LoaderEndpoint)
  BY <1>9, AnnounceMail
<1>10. CASE LoaderLoad(LoaderEndpoint)
  BY <1>10 DEF LoaderLoad, MailNext
<1>11. CASE LoaderReply(LoaderEndpoint)
  BY <1>11, ReplyMail
<1>12. CASE ManagerRequest
  BY <1>12, LoadMail DEF ManagerRequest
<1>13. CASE ManagerReply
  BY <1>13, ReceiveMail, Programs DEF ManagerReply
<1>14. QED
  BY <1>1, <1>2, <1>3, <1>4, <1>5, <1>6, <1>7, <1>8, <1>9, <1>10, <1>11, <1>12,
     <1>13
  DEF Next, BootstrapStep, LoaderStep

-----------------------------------------------------------------------------
(* Mailboxes with at most one message                                      *)

LEMMA ReceiveOne ==
  ASSUME MailTypeOK, NEW p \in Processes, OneMessage(p), Receive(p)
  PROVE  /\ mailbox' = [mailbox EXCEPT ![p] = << >>]
         /\ Head(mailbox[p]) = mailbox[p][1]
         /\ mailbox[p][1] \in Messages
<1>1. mailbox[p] \in Seq(Messages) /\ Len(mailbox[p]) = 1
  BY DEF MailTypeOK, OneMessage
<1>2. Tail(mailbox[p]) \in Seq(Messages) /\ Len(Tail(mailbox[p])) = 0
  BY <1>1, HeadTailProperties
<1>3. Tail(mailbox[p]) = << >>
  BY <1>2, EmptySeq
<1>4. Head(mailbox[p]) = mailbox[p][1] /\ mailbox[p][1] \in Messages
  BY <1>1
<1>5. QED BY <1>3, <1>4 DEF Receive

LEMMA PushOne ==
  ASSUME MailTypeOK, NEW e \in Processes, Empty(e), NEW m \in Messages
  PROVE  ~Full(e) /\ TryPush(e, m) = [mailbox EXCEPT ![e] = <<m>>]
<1>1. Len(mailbox[e]) = 0 /\ Append(mailbox[e], m) = <<m>>
  BY DEF Empty
<1>2. ~Full(e)
  BY <1>1, MailAssumption DEF Full
<1>3. QED BY <1>1, <1>2 DEF TryPush

LEMMA SendOne ==
  ASSUME MailTypeOK, NEW p \in Processes, NEW e \in Processes, NEW m \in Messages,
         e <= created, Empty(e), Send(p, e, m)
  PROVE  /\ ~Full(e) /\ created' = created
         /\ mailbox' = [mailbox EXCEPT ![e] = <<Stamped(p, m)>>]
         /\ Stamped(p, m) \in Messages
<1>1. e \in Endpoints /\ nextId \in Nat
  BY MailAssumption DEF MailTypeOK, Endpoints, Processes
<1>2. Stamped(p, m) \in Messages
  BY <1>1, StampedType
<1>3. QED BY <1>1, <1>2, PushOne DEF Send

\* The kernel's answer to a message of send_kernel_message.
LEMMA AnswerType ==
  ASSUME MailTypeOK, NEW p \in Processes, NEW type \in KernelTypes, NEW n \in Nat,
         AskKernel(p, MakeRequest(type, n))
  PROVE  \E a \in Messages :
           /\ a.sender = Kernel /\ a.cookie = n /\ a.type = type
           /\ mailbox' = TryPush(p, a)
<1> DEFINE asked == Stamped(p, MakeRequest(type, n))
<1>1. MakeRequest(type, n) \in Messages /\ nextId \in Nat
  BY RequestType DEF MailTypeOK
<1>2. /\ asked \in Messages /\ asked.type = type /\ asked.cookie = n
      /\ asked.replyTo = 0
  BY <1>1, StampedType, RequestType
<1>3. PICK status \in {0, 1} : mailbox' = TryPush(p, MakeReply(asked, type, status))
  BY <1>2 DEF AskKernel
<1>4. /\ MakeReply(asked, type, status) \in Messages
      /\ MakeReply(asked, type, status).sender = Kernel
      /\ MakeReply(asked, type, status).cookie = n
      /\ MakeReply(asked, type, status).type = type
  BY <1>2, ReplyType
<1>5. QED BY <1>3, <1>4

LEMMA AskOne ==
  ASSUME MailTypeOK, NEW p \in Processes, NEW type \in KernelTypes, NEW n \in Nat,
         Empty(p), AskKernel(p, MakeRequest(type, n))
  PROVE  \E a \in Messages :
           /\ a.sender = Kernel /\ a.cookie = n /\ a.type = type
           /\ mailbox' = [mailbox EXCEPT ![p] = <<a>>]
           /\ created' = created
BY AnswerType, PushOne DEF AskKernel

-----------------------------------------------------------------------------
(* Bootstrap                                                               *)

LEMMA AskTyped ==
  ASSUME BootInv, MailInv', NEW p \in {Bootstrap, LoaderEndpoint}, Ask(p)
  PROVE  BootTyped' /\ p \in Processes /\ NextCookie(p) \in Nat \ {0}
<1>1. p \in Processes /\ cookie[p] \in Nat /\ NextCookie(p) \in Nat \ {0}
  BY Programs DEF BootInv, BootTyped, TypeOK, NextCookie
<1>2. TypeOK'
  BY <1>1 DEF Ask, BootInv, BootTyped, TypeOK, MailInv, local
<1>3. QED
  BY <1>1, <1>2, Programs DEF Ask, BootInv, BootTyped, TypeOK, local

LEMMA AskBootstrap ==
  ASSUME BootInv, MailInv', Ask(Bootstrap)
  PROVE  BootInv'
<1>1. Alone /\ Empty(Bootstrap)
  BY AsksTypes
  DEF Ask, BootInv, Stages, Alone, Announcing, Announced, Asked, Refused, Up,
      HasAsked, Exchange
<1>2. BootTyped' /\ NextCookie(Bootstrap) \in Nat \ {0}
  BY AskTyped
<1>3. PICK a \in Messages :
         /\ a.sender = Kernel /\ a.cookie = NextCookie(Bootstrap)
         /\ a.type = Asks[pc[Bootstrap]]
         /\ mailbox' = [mailbox EXCEPT ![Bootstrap] = <<a>>]
         /\ created' = created
  BY <1>1, <1>2, AskOne, AsksTypes, Programs DEF Ask, BootInv, BootTyped, TypeOK
<1>4. Alone'
  <2>1. /\ mailbox'[Bootstrap] = <<a>> /\ mailbox'[LoaderEndpoint] = << >>
        /\ mailbox'[Manager] = << >>
    BY <1>1, <1>3, Programs
    DEF Alone, Empty, NoManager, BootInv, BootTyped, TypeOK, MailTypeOK
  <2>2. /\ awaiting'[Bootstrap] = NextCookie(Bootstrap)
        /\ UNCHANGED <<pc, outstanding, cell, created>>
    BY <1>3, Programs DEF Ask, local, BootInv, BootTyped, TypeOK
  <2>3. Exchange(Bootstrap)'
    BY <1>2, <1>3, <2>1, <2>2 DEF Exchange, OneMessage
  <2>4. QED
    BY <1>1, <2>1, <2>2, <2>3 DEF Alone, NoManager, Empty
<1>5. QED BY <1>2, <1>4 DEF BootInv, Stages

\* Nothing is thrown away before Manager runs.
LEMMA DiscardBootstrap ==
  ASSUME BootInv, Discard(Bootstrap)
  PROVE  FALSE
<1>1. pc[Bootstrap] \in DOMAIN Asks
  BY Programs DEF Discard, BootInv, BootTyped, TypeOK
<1>2. Exchange(Bootstrap) /\ awaiting[Bootstrap] # 0
  BY <1>1, AsksTypes
  DEF Discard, BootInv, Stages, Alone, Announcing, Announced, Asked, Refused, Up,
      HasAsked
<1>3. OneMessage(Bootstrap) /\ Head(mailbox[Bootstrap]) = mailbox[Bootstrap][1]
  BY <1>2, ReceiveOne, Programs DEF Discard, Exchange, BootInv, BootTyped, TypeOK
<1>4. QED BY <1>2, <1>3 DEF Discard, Accepts, Exchange

\* What holds when Bootstrap gets an answer.
LEMMA AnsweredBootstrap ==
  ASSUME BootInv, NEW place \in DOMAIN Asks, Answered(Bootstrap, place)
  PROVE  /\ Alone /\ pc[Bootstrap] = place
         /\ mailbox' = [mailbox EXCEPT ![Bootstrap] = << >>]
         /\ awaiting' = [awaiting EXCEPT ![Bootstrap] = 0]
         /\ UNCHANGED <<cookie, created, nextId>>
<1>1. Alone
  BY AsksTypes
  DEF Answered, BootInv, Stages, Alone, Announcing, Announced, Asked, Refused, Up,
      HasAsked
<1>2. OneMessage(Bootstrap)
  BY <1>1 DEF Answered, Alone, Exchange
<1>3. QED
  BY <1>1, <1>2, ReceiveOne, Programs
  DEF Answered, Receive, BootInv, BootTyped, TypeOK

LEMMA AnsweredTyped ==
  ASSUME BootInv, MailInv', NEW place \in DOMAIN Asks, NEW to \in Places,
         Answered(Bootstrap, place), Goto(Bootstrap, to), UNCHANGED local
  PROVE  BootTyped'
<1>1. TypeOK'
  BY Programs
  DEF Answered, Goto, BootInv, BootTyped, TypeOK, MailInv, local
<1>2. QED
  BY <1>1, Programs DEF Answered, BootInv, BootTyped, TypeOK, local

LEMMA AnsweredAlone ==
  ASSUME BootInv, MailInv', NEW place \in DOMAIN Asks,
         NEW to \in {"bootInfo", "create", "start", "failed"},
         to = "start" => place = "module",
         to \in {"bootInfo", "create"} => place \in {"pageSize", "bootInfo"},
         Answered(Bootstrap, place), Goto(Bootstrap, to), UNCHANGED local
  PROVE  BootInv'
<1>1. BootTyped'
  BY AnsweredTyped DEF Places
<1>2. Alone'
  <2>1. /\ mailbox'[Bootstrap] = << >> /\ awaiting'[Bootstrap] = 0
        /\ mailbox'[LoaderEndpoint] = mailbox[LoaderEndpoint]
        /\ mailbox'[Manager] = mailbox[Manager]
        /\ UNCHANGED <<outstanding, cell, created>>
    BY AnsweredBootstrap, Programs
    DEF BootInv, BootTyped, TypeOK, MailTypeOK, local
  <2>2. /\ pc'[Bootstrap] = to /\ pc'[LoaderEndpoint] = pc[LoaderEndpoint]
        /\ pc'[Manager] = pc[Manager]
    BY Programs DEF Goto, BootInv, BootTyped, TypeOK
  <2>3. Alone /\ pc[Bootstrap] = place
    BY AnsweredBootstrap
  <2>4. QED
    BY <2>1, <2>2, <2>3 DEF Alone, NoManager, Empty, Exchange
<1>3. QED BY <1>1, <1>2 DEF BootInv, Stages

LEMMA BootstrapAnswers ==
  ASSUME BootInv, MailInv',
         BootstrapPageSize \/ BootstrapBootInfo \/ BootstrapModule
  PROVE  BootInv'
<1>1. CASE BootstrapPageSize
  BY <1>1, AnsweredAlone, AsksTypes DEF BootstrapPageSize
<1>2. CASE BootstrapBootInfo
  BY <1>2, AnsweredAlone, AsksTypes DEF BootstrapBootInfo, Fail
<1>3. CASE BootstrapModule
  BY <1>3, AnsweredAlone, AsksTypes DEF BootstrapModule, Fail
<1>4. QED BY <1>1, <1>2, <1>3

LEMMA CreateKeeps ==
  ASSUME BootInv, MailInv', BootstrapCreate
  PROVE  BootInv'
<1>1. Alone /\ pc[Bootstrap] = "create" /\ created = Bootstrap
  BY DEF BootstrapCreate, BootInv, Stages, Alone, Announcing, Announced, Asked,
         Refused, Up, HasAsked
<1>2. /\ mailbox' = mailbox
      /\ UNCHANGED <<awaiting, cookie, outstanding, found, request, bootData, result,
                     pipelined>>
  BY DEF BootstrapCreate, CreateProcess, mail
<1>3. \/ /\ pc' = [pc EXCEPT ![Bootstrap] = "module"]
         /\ cell' = Bootstrap /\ created' = LoaderEndpoint
      \/ pc' = [pc EXCEPT ![Bootstrap] = "failed"] /\ cell' = cell
  BY <1>1
  DEF BootstrapCreate, CreateProcess, Goto, Fail, Bootstrap, LoaderEndpoint
<1>4. BootTyped'
  <2>1. awaiting[Bootstrap] = 0
    BY <1>1, AsksTypes, Programs DEF BootInv, BootTyped, TypeOK
  <2>2. TypeOK'
    BY <1>2, <1>3, <2>1, Programs DEF BootInv, BootTyped, TypeOK, MailInv, Places
  <2>3. QED BY <1>2, <2>2 DEF BootInv, BootTyped
<1>5. Alone'
  <2>1. /\ pc'[LoaderEndpoint] = pc[LoaderEndpoint] /\ pc'[Manager] = pc[Manager]
        /\ \/ /\ pc'[Bootstrap] = "module"
              /\ cell' = Bootstrap /\ created' = LoaderEndpoint
           \/ pc'[Bootstrap] = "failed"
    BY <1>3, Programs DEF BootInv, BootTyped, TypeOK
  <2>2. awaiting[Bootstrap] = 0
    BY <1>1, AsksTypes, Programs DEF BootInv, BootTyped, TypeOK
  <2>3. QED
    BY <1>1, <1>2, <2>1, <2>2 DEF Alone, NoManager, Empty, Exchange
<1>6. QED BY <1>4, <1>5 DEF BootInv, Stages

LEMMA StartKeeps ==
  ASSUME BootInv, MailInv', BootstrapStart
  PROVE  BootInv'
<1>1. /\ Alone /\ pc[Bootstrap] = "start"
      /\ created = LoaderEndpoint /\ cell = Bootstrap
  BY DEF BootstrapStart, BootInv, Stages, Alone, Announcing, Announced, Asked,
         Refused, Up, HasAsked
<1>2. UNCHANGED <<mailbox, created, awaiting, cookie, local>>
  BY DEF BootstrapStart, mail
<1>3. awaiting[Bootstrap] = 0 /\ awaiting[LoaderEndpoint] = 0
  BY <1>1, AsksTypes, Programs DEF Alone, BootInv, BootTyped, TypeOK
<1>4. \/ pc' = [pc EXCEPT ![Bootstrap] = "waitReady", ![LoaderEndpoint] = "runtime"]
      \/ pc' = [pc EXCEPT ![Bootstrap] = "failed"]
  BY <1>1 DEF BootstrapStart, AfterStart, Fail, Goto
<1>5. pc' \in [Processes -> Places]
  BY <1>4, Programs DEF BootInv, BootTyped, TypeOK, Places
<1>6. BootTyped'
  <2>1. \A p \in Processes : awaiting[p] # 0 => pc'[p] \in DOMAIN Asks
    BY <1>3, <1>4, Programs DEF BootInv, BootTyped, TypeOK
  <2>2. QED
    BY <1>2, <1>5, <2>1 DEF BootInv, BootTyped, TypeOK, MailInv, local
<1>7. Stages'
  <2>1. UNCHANGED <<mailbox, created, awaiting, outstanding, cell>>
    BY <1>2 DEF local
  <2>2. CASE pc' = [pc EXCEPT ![Bootstrap] = "waitReady",
                              ![LoaderEndpoint] = "runtime"]
    <3>1. /\ pc'[Bootstrap] = "waitReady" /\ pc'[LoaderEndpoint] = "runtime"
          /\ pc'[Manager] = pc[Manager]
      BY <2>2, Programs DEF BootInv, BootTyped, TypeOK
    <3>2. Announcing'
      BY <1>1, <1>3, <2>1, <3>1
      DEF Alone, Announcing, NoManager, Empty, Exchange
    <3>3. QED BY <3>2 DEF Stages
  <2>3. CASE pc' = [pc EXCEPT ![Bootstrap] = "failed"]
    <3>1. /\ pc'[Bootstrap] = "failed" /\ pc'[LoaderEndpoint] = pc[LoaderEndpoint]
          /\ pc'[Manager] = pc[Manager]
      BY <2>3, Programs DEF BootInv, BootTyped, TypeOK
    <3>2. Alone'
      BY <1>1, <1>3, <2>1, <3>1 DEF Alone, NoManager, Empty, Exchange
    <3>3. QED BY <3>2 DEF Stages
  <2>4. QED BY <1>4, <2>2, <2>3
<1>8. QED BY <1>6, <1>7 DEF BootInv

LEMMA WaitReadyKeeps ==
  ASSUME BootInv, MailInv', BootstrapWaitReady
  PROVE  BootInv'
<1>1. /\ Announced /\ pc[Bootstrap] = "waitReady" /\ OneMessage(Bootstrap)
      /\ IsReady(mailbox[Bootstrap][1])
  BY DEF BootstrapWaitReady, Receive, BootInv, Stages, Alone, Announcing, Announced,
         Asked, Refused, Up, HasAsked, Empty
<1>2. /\ mailbox' = [mailbox EXCEPT ![Bootstrap] = << >>]
      /\ Head(mailbox[Bootstrap]) = mailbox[Bootstrap][1]
  BY <1>1, ReceiveOne, Programs DEF BootstrapWaitReady, BootInv, BootTyped, TypeOK
<1>3. pc' = [pc EXCEPT ![Bootstrap] = "request"]
  BY <1>1, <1>2 DEF BootstrapWaitReady, Goto
<1>4. UNCHANGED <<created, cookie, awaiting, local>>
  BY DEF BootstrapWaitReady, Receive
<1>5. BootTyped'
  <2>1. awaiting[Bootstrap] = 0
    BY <1>1, AsksTypes, Programs DEF BootInv, BootTyped, TypeOK
  <2>2. TypeOK'
    BY <1>3, <1>4, <2>1, Programs DEF BootInv, BootTyped, TypeOK, MailInv, Places, local
  <2>3. QED BY <1>4, <2>2 DEF BootInv, BootTyped, local
<1>6. Announced'
  <2>1. /\ pc'[Bootstrap] = "request" /\ pc'[LoaderEndpoint] = pc[LoaderEndpoint]
        /\ pc'[Manager] = pc[Manager]
        /\ mailbox'[Bootstrap] = << >>
        /\ mailbox'[LoaderEndpoint] = mailbox[LoaderEndpoint]
        /\ mailbox'[Manager] = mailbox[Manager]
    BY <1>2, <1>3, Programs DEF BootInv, BootTyped, TypeOK, MailTypeOK
  <2>2. QED
    BY <1>1, <1>4, <2>1 DEF Announced, NoManager, Empty, local
<1>7. QED BY <1>5, <1>6 DEF BootInv, Stages

LEMMA RequestKeeps ==
  ASSUME BootInv, MailInv', BootstrapRequest
  PROVE  BootInv'
<1>1. Announced /\ pc[Bootstrap] = "request" /\ Empty(Bootstrap)
  BY DEF BootstrapRequest, BootInv, Stages, Alone, Announcing, Announced,
         Asked, Refused, Up, HasAsked
<1>2. awaiting[Bootstrap] = 0
  BY <1>1, AsksTypes, Programs DEF BootInv, BootTyped, TypeOK
<1>3. UNCHANGED <<created, awaiting, found, cell, request, bootData, result, pipelined>>
  BY DEF BootstrapRequest, RequestLoad, Send, mail
<1>4. PICK m \in Messages :
        /\ IsLoad(m, Bootstrap)
        /\ found => /\ ~Full(LoaderEndpoint)
                    /\ mailbox' = [mailbox EXCEPT ![LoaderEndpoint] = <<m>>]
  <2> DEFINE asked == MakeRequest("LoadBootModule", NextCookie(Bootstrap))
             m == Stamped(Bootstrap, asked)
  <2>1. asked \in Messages /\ asked.type = "LoadBootModule" /\ nextId \in Nat
    <3>1. NextCookie(Bootstrap) \in Nat /\ nextId \in Nat
      BY SMTT(30), Programs DEF NextCookie, BootInv, BootTyped, TypeOK, MailTypeOK
    <3>2. QED BY <3>1, RequestType DEF UserTypes
  <2>2. m \in Messages /\ IsLoad(m, Bootstrap)
    BY <2>1, StampedType, Programs DEF IsLoad
  <2>3. CASE found
    <3>1. Send(Bootstrap, LoaderEndpoint, asked)
      BY <2>3 DEF BootstrapRequest, RequestLoad
    <3>2. Empty(LoaderEndpoint) /\ LoaderEndpoint <= created
      BY <1>1 DEF Announced, LoaderEndpoint
    <3>3. ~Full(LoaderEndpoint) /\ mailbox' = [mailbox EXCEPT ![LoaderEndpoint] = <<m>>]
      BY <2>1, <3>1, <3>2, SendOne, Programs DEF BootInv, BootTyped, TypeOK
    <3>4. QED BY <2>2, <3>3
  <2>4. QED BY <2>2, <2>3
<1>5. /\ pc' = [pc EXCEPT ![Bootstrap] = "exit"]
      /\ IF found
         THEN /\ cookie' = [cookie EXCEPT ![Bootstrap] = NextCookie(Bootstrap)]
              /\ outstanding' = [outstanding EXCEPT ![Bootstrap] = @ + 1]
         ELSE UNCHANGED <<mailbox, cookie, outstanding>>
  BY <1>4 DEF BootstrapRequest, RequestLoad, Goto, mail
<1>6. BootTyped'
  <2>1. cookie' \in [Processes -> Nat] /\ outstanding' \in [Processes -> Nat]
    BY <1>5, Programs DEF NextCookie, BootInv, BootTyped, TypeOK
  <2>2. TypeOK'
    BY <1>2, <1>3, <1>5, <2>1, Programs
    DEF BootInv, BootTyped, TypeOK, MailInv, Places
  <2>3. cookie'[Manager] = cookie[Manager]
    BY <1>5, Programs DEF BootInv, BootTyped, TypeOK
  <2>4. QED BY <1>3, <2>2, <2>3 DEF BootInv, BootTyped
<1>7. Stages'
  <2>1. /\ pc'[Bootstrap] = "exit" /\ pc'[LoaderEndpoint] = pc[LoaderEndpoint]
        /\ pc'[Manager] = pc[Manager]
    BY <1>5, Programs DEF BootInv, BootTyped, TypeOK
  <2>2. CASE found
    <3>1. /\ mailbox'[LoaderEndpoint] = <<m>>
          /\ mailbox'[Bootstrap] = << >> /\ mailbox'[Manager] = mailbox[Manager]
      BY <1>1, <1>4, <2>2, Programs DEF Empty, BootInv, BootTyped, TypeOK, MailTypeOK
    <3>2. outstanding'[Bootstrap] = 1 /\ outstanding'[Manager] = outstanding[Manager]
      BY <1>1, <1>5, <2>2, Programs DEF Announced, BootInv, BootTyped, TypeOK
    <3>3. Asked'
      BY <1>1, <1>3, <1>4, <2>1, <3>1, <3>2
      DEF Announced, Asked, NoManager, HasAsked, Empty, OneMessage, IsLoad
    <3>4. QED BY <3>3 DEF Stages
  <2>3. CASE ~found
    <3>1. UNCHANGED <<mailbox, outstanding>>
      BY <1>5, <2>3
    <3>2. Announced'
      BY <1>1, <1>3, <2>1, <3>1 DEF Announced, NoManager, Empty
    <3>3. QED BY <3>2 DEF Stages
  <2>4. QED BY <2>2, <2>3
<1>8. QED BY <1>6, <1>7 DEF BootInv

LEMMA ExitKeeps ==
  ASSUME BootInv, MailInv', BootstrapExit
  PROVE  BootInv'
<1>1. pc[Bootstrap] = "exit"
  BY DEF BootstrapExit
<1>2. awaiting[Bootstrap] = 0
  BY <1>1, AsksTypes, Programs DEF BootInv, BootTyped, TypeOK
<1>3. UNCHANGED <<mailbox, created, nextId, cookie, awaiting, found, cell, request,
                  bootData, result, pipelined, outstanding>>
  BY DEF BootstrapExit, mail, local
<1>4. /\ pc' = [pc EXCEPT ![Bootstrap] = "done"]
      /\ pc'[Bootstrap] = "done" /\ pc'[LoaderEndpoint] = pc[LoaderEndpoint]
      /\ pc'[Manager] = pc[Manager]
  BY Programs DEF BootstrapExit, Goto, BootInv, BootTyped, TypeOK
<1>5. BootTyped'
  <2>1. TypeOK'
    BY <1>2, <1>3, <1>4, Programs DEF BootInv, BootTyped, TypeOK, MailInv, Places
  <2>2. QED BY <1>3, <2>1 DEF BootInv, BootTyped
<1>6. Stages'
  <2>1. CASE Announced
    <3>1. Announced'
      BY <1>1, <1>3, <1>4, <2>1 DEF Announced, NoManager, Empty
    <3>2. QED BY <3>1 DEF Stages
  <2>2. CASE Asked
    <3>1. Asked'
      BY <1>3, <1>4, <2>2
      DEF Asked, NoManager, HasAsked, Empty, OneMessage, IsLoad, Preparing, Exchange
    <3>2. QED BY <3>1 DEF Stages
  <2>3. CASE Refused
    <3>1. Refused'
      BY <1>3, <1>4, <2>3 DEF Refused, NoManager, HasAsked, Empty, OneMessage, IsLoad
    <3>2. QED BY <3>1 DEF Stages
  <2>4. CASE Up
    <3>1. BootstrapServed' /\ LoaderMail' /\ ManagerMail' /\ HasAsked'
      BY <1>3, <1>4, <2>4
      DEF Up, BootstrapServed, LoaderMail, ManagerMail, HasAsked, Empty, OneMessage,
          IsLoad
    <3>2. (IF pipelined THEN AtOnce ELSE InTurn)'
      BY <1>3, <1>4, <2>4
      DEF Up, AtOnce, InTurn, ManagersRequests, Loads, LoadMessages, Serving,
          Preparing, OneIfServing, OneIfPreparing, OneIfAwaiting, Exchange, Empty,
          OneMessage
    <3>3. QED BY <1>3, <1>4, <2>4, <3>1, <3>2 DEF Up, Stages
  <2>5. QED
    BY <1>1, <2>1, <2>2, <2>3, <2>4 DEF BootInv, Stages, Alone, Announcing
<1>7. QED BY <1>5, <1>6 DEF BootInv

-----------------------------------------------------------------------------
(* Numbers of load requests in the mailboxes                               *)

LEMMA LoadsType ==
  ASSUME MailTypeOK, NEW e \in Processes, NEW from
  PROVE  /\ Loads(e, from) \in Nat
         /\ Loads(e, from) = 0 =>
              \A i \in DOMAIN mailbox[e] : ~IsLoad(mailbox[e][i], from)
<1>1. mailbox[e] \in Seq(Messages) /\ LoadMessages(e, from) = LoadIn(mailbox[e], from)
  BY DEF MailTypeOK, LoadMessages, LoadIn
<1>2. /\ Cardinality(LoadIn(mailbox[e], from)) \in Nat
      /\ Cardinality(LoadIn(mailbox[e], from)) = 0 => LoadIn(mailbox[e], from) = {}
  BY <1>1, CountType
<1>3. QED BY <1>1, <1>2 DEF Loads, LoadIn, IsLoad

LEMMA LoadsSame ==
  ASSUME NEW e \in Processes, NEW from, mailbox'[e] = mailbox[e]
  PROVE  Loads(e, from)' = Loads(e, from)
BY DEF Loads, LoadMessages

LEMMA LoadsTail ==
  ASSUME MailTypeOK, NEW e \in Processes, NEW from,
         mailbox[e] # << >>, mailbox'[e] = Tail(mailbox[e])
  PROVE  Loads(e, from) = Loads(e, from)' + OneIfLoad(mailbox[e][1], from)
<1>1. mailbox[e] \in Seq(Messages)
  BY DEF MailTypeOK
<1>2. /\ LoadMessages(e, from) = LoadIn(mailbox[e], from)
      /\ LoadMessages(e, from)' = LoadIn(Tail(mailbox[e]), from)
  BY DEF LoadMessages, LoadIn
<1>3. QED BY <1>1, <1>2, CountTail DEF Loads

LEMMA LoadsAppend ==
  ASSUME MailTypeOK, NEW e \in Processes, NEW from, NEW m \in Messages,
         mailbox'[e] = Append(mailbox[e], m)
  PROVE  Loads(e, from)' = Loads(e, from) + OneIfLoad(m, from)
<1>1. mailbox[e] \in Seq(Messages)
  BY DEF MailTypeOK
<1>2. /\ LoadMessages(e, from) = LoadIn(mailbox[e], from)
      /\ LoadMessages(e, from)' = LoadIn(Append(mailbox[e], m), from)
  BY DEF LoadMessages, LoadIn
<1>3. Cardinality(LoadIn(Append(mailbox[e], m), from))
        = Cardinality(LoadIn(mailbox[e], from)) + OneIfLoad(m, from)
  BY <1>1, CountAppend
<1>4. QED BY <1>2, <1>3 DEF Loads

LEMMA TailOf ==
  ASSUME MailTypeOK, NEW e \in Processes, Receive(e)
  PROVE  /\ mailbox' = [mailbox EXCEPT ![e] = Tail(mailbox[e])]
         /\ mailbox'[e] = Tail(mailbox[e])
         /\ Head(mailbox[e]) = mailbox[e][1] /\ 1 \in DOMAIN mailbox[e]
         /\ mailbox[e][1] \in Messages
         /\ Len(mailbox[e]) \in Nat \ {0} /\ Len(mailbox'[e]) = Len(mailbox[e]) - 1
         /\ \A i \in DOMAIN mailbox'[e] :
              i + 1 \in DOMAIN mailbox[e] /\ mailbox'[e][i] = mailbox[e][i + 1]
<1>1. mailbox[e] \in Seq(Messages) /\ mailbox[e] # << >>
  BY DEF Receive, MailTypeOK
<1>2. mailbox' = [mailbox EXCEPT ![e] = Tail(mailbox[e])]
  BY DEF Receive
<1>3. mailbox'[e] = Tail(mailbox[e])
  BY <1>2 DEF MailTypeOK
<1>4. /\ Tail(mailbox[e]) \in Seq(Messages)
      /\ Len(Tail(mailbox[e])) = Len(mailbox[e]) - 1
      /\ \A i \in 1 .. Len(Tail(mailbox[e])) : Tail(mailbox[e])[i] = mailbox[e][i + 1]
  BY <1>1, HeadTailProperties
<1>5. /\ Len(mailbox[e]) \in Nat \ {0} /\ DOMAIN mailbox[e] = 1 .. Len(mailbox[e])
      /\ DOMAIN Tail(mailbox[e]) = 1 .. Len(Tail(mailbox[e]))
  BY <1>1, <1>4, EmptySeq
<1>6. Head(mailbox[e]) = mailbox[e][1] /\ mailbox[e][1] \in Messages
  BY <1>1, <1>5
<1>7. ASSUME NEW i \in 1 .. Len(Tail(mailbox[e]))
      PROVE  i + 1 \in DOMAIN mailbox[e]
  BY <1>4, <1>5
<1>8. 1 \in DOMAIN mailbox[e]
  BY <1>5
<1>9. QED BY <1>2, <1>3, <1>4, <1>5, <1>6, <1>7, <1>8

LEMMA PushedOn ==
  ASSUME MailTypeOK, NEW e \in Processes, NEW m \in Messages, ~Full(e),
         mailbox' = TryPush(e, m)
  PROVE  /\ mailbox' = [mailbox EXCEPT ![e] = Append(mailbox[e], m)]
         /\ mailbox'[e] = Append(mailbox[e], m)
         /\ Len(mailbox[e]) \in Nat /\ Len(mailbox'[e]) = Len(mailbox[e]) + 1
         /\ \A i \in DOMAIN mailbox'[e] :
              \/ mailbox'[e][i] = m
              \/ i \in DOMAIN mailbox[e] /\ mailbox'[e][i] = mailbox[e][i]
<1>1. mailbox[e] \in Seq(Messages)
  BY DEF MailTypeOK
<1>2. mailbox' = [mailbox EXCEPT ![e] = Append(mailbox[e], m)]
  BY DEF TryPush
<1>3. mailbox'[e] = Append(mailbox[e], m)
  BY <1>2 DEF MailTypeOK
<1>4. QED BY <1>1, <1>2, <1>3

-----------------------------------------------------------------------------
(* Loader                                                                  *)

LEMMA LoaderPlaces ==
  ASSUME BootInv
  PROVE  /\ pc[LoaderEndpoint] \in {"runtime", "pageSize", "announce"} => Announcing
         /\ pc[LoaderEndpoint] \in {"bootInfo", "module", "load"} =>
              \/ Asked /\ Preparing(Bootstrap) /\ Exchange(LoaderEndpoint)
              \/ Up /\ Preparing(Manager) /\ BootstrapServed /\ ~Empty(Bootstrap)
         /\ pc[LoaderEndpoint] = "reply" =>
              (Refused /\ request.sender = Bootstrap) \/ Up
<1>1. Empty(Bootstrap) => ~OneMessage(Bootstrap)
  BY DEF Empty, OneMessage
<1>2. QED
  BY <1>1
  DEF BootInv, Stages, Alone, Announcing, Announced, Asked, Refused, Up,
      BootstrapServed, Preparing

LEMMA AskLoader ==
  ASSUME BootInv, MailInv', Ask(LoaderEndpoint)
  PROVE  BootInv'
<1> DEFINE L == LoaderEndpoint
<1>1. /\ pc[L] \in {"pageSize", "bootInfo", "module"} /\ awaiting[L] = 0
      /\ L \in Processes /\ cookie[L] \in Nat /\ MailTypeOK
  BY AsksTypes, Programs DEF Ask, BootInv, BootTyped, TypeOK
<1>2. BootTyped' /\ NextCookie(L) \in Nat \ {0}
  BY AskTyped
<1>3. PICK a \in Messages :
        /\ a.sender = Kernel /\ a.cookie = NextCookie(L) /\ a.type = Asks[pc[L]]
        /\ mailbox' = TryPush(L, a)
  BY <1>1, <1>2, AnswerType, AsksTypes DEF Ask
<1>4. Asks[pc[L]] \in KernelTypes
  BY <1>1, AsksTypes
<1>5. /\ UNCHANGED <<created, pc, found, cell, request, bootData, result, pipelined,
                     outstanding>>
      /\ awaiting'[L] = NextCookie(L) /\ cookie'[Manager] = cookie[Manager]
  BY Programs DEF Ask, AskKernel, local, BootInv, BootTyped, TypeOK
<1>6. mailbox'[Bootstrap] = mailbox[Bootstrap] /\ mailbox'[Manager] = mailbox[Manager]
  BY <1>1, <1>3, Programs DEF TryPush, MailTypeOK
<1>7. ASSUME Exchange(L)
      PROVE  /\ Exchange(L)' /\ mailbox'[L] = Append(mailbox[L], a)
             /\ mailbox'[L] = <<a>> /\ Empty(L)
  <2>1. Empty(L)
    BY <1>1, <1>7 DEF Exchange
  <2>2. mailbox' = [mailbox EXCEPT ![L] = <<a>>]
    BY <1>1, <1>3, <2>1, PushOne
  <2>3. mailbox'[L] = <<a>>
    BY <1>1, <2>2 DEF MailTypeOK
  <2>4. Exchange(L)'
    BY <1>2, <1>3, <1>5, <2>3 DEF Exchange, OneMessage
  <2>5. QED BY <2>1, <2>3, <2>4 DEF Empty
<1>8. CASE Announcing
  <2>1. Exchange(L)
    BY <1>8 DEF Announcing
  <2>2. Announcing'
    BY <1>5, <1>6, <1>7, <1>8, <2>1 DEF Announcing, NoManager, Empty
  <2>3. QED BY <1>2, <2>2 DEF BootInv, Stages
<1>9. CASE Asked /\ Preparing(Bootstrap) /\ Exchange(L)
  <2>1. Asked'
    BY <1>5, <1>6, <1>7, <1>9 DEF Asked, NoManager, HasAsked, Preparing, Empty
  <2>2. QED BY <1>2, <2>1 DEF BootInv, Stages
<1>10. CASE Up /\ Preparing(Manager)
  <2>1. ~IsLoad(a, Manager)
    BY <1>3, Programs DEF IsLoad
  <2>2. BootstrapServed' /\ ManagerMail' /\ HasAsked'
    BY <1>5, <1>6, <1>10
    DEF Up, BootstrapServed, ManagerMail, HasAsked, IsLoad, Empty, OneMessage
  <2>3. /\ Loads(Manager, L)' = Loads(Manager, L)
        /\ OneIfServing' = OneIfServing
        /\ Preparing(Manager)' /\ OneIfPreparing = 1
        /\ OneIfPreparing' = 1
        /\ OneIfAwaiting = 0 /\ OneIfAwaiting' = 1
    BY <1>1, <1>2, <1>5, <1>6, <1>10, LoadsSame, Programs DEF Serving, Preparing,
       OneIfServing, OneIfPreparing, OneIfAwaiting
  <2>4. CASE Full(L)
    <3>1. mailbox' = mailbox
      BY <1>3, <2>4 DEF TryPush
    <3>2. ~Empty(L)
      BY <1>1, <2>4, MailAssumption DEF Full, Empty
    <3>3. pipelined
      BY <1>1, <1>10, <3>2 DEF Up, InTurn, Exchange
    <3>4. LoaderMail'
      BY <1>10, <3>1 DEF Up, LoaderMail, IsLoad
    <3>5. AtOnce'
      <4>1. AtOnce
        BY <1>10, <3>3 DEF Up
      <4>2. Loads(L, Manager)' = Loads(L, Manager)
        BY <1>1, <3>1, LoadsSame
      <4>3. Len(mailbox[L]) \in Nat /\ cookie[Manager] \in Nat
        BY <1>1, Programs DEF BootInv, BootTyped, TypeOK, MailTypeOK
      <4>4. QED
        BY <1>5, <2>3, <3>1, <4>1, <4>2, <4>3 DEF AtOnce, ManagersRequests
    <3>6. QED
      BY <1>2, <1>5, <1>10, <2>2, <3>3, <3>4, <3>5 DEF BootInv, Stages, Up
  <2>5. CASE ~Full(L)
    <3>1. /\ mailbox'[L] = Append(mailbox[L], a)
          /\ Len(mailbox[L]) \in Nat /\ Len(mailbox'[L]) = Len(mailbox[L]) + 1
          /\ \A i \in DOMAIN mailbox'[L] :
               \/ mailbox'[L][i] = a
               \/ i \in DOMAIN mailbox[L] /\ mailbox'[L][i] = mailbox[L][i]
      BY <1>1, <1>3, <2>5, PushedOn
    <3>2. LoaderMail'
      BY <1>3, <1>4, <1>10, <3>1 DEF Up, LoaderMail, IsLoad
    <3>3. Loads(L, Manager)' = Loads(L, Manager) + 0
      BY <1>1, <2>1, <3>1, LoadsAppend DEF OneIfLoad
    <3>4. ManagersRequests' = ManagersRequests
      <4>1. Loads(L, Manager) \in Nat
        BY <1>1, LoadsType
      <4>2. QED BY <2>3, <3>3, <4>1 DEF ManagersRequests
    <3>5. CASE pipelined
      <4>1. AtOnce
        BY <1>10, <3>5 DEF Up
      <4>2. cookie[Manager] \in Nat
        BY Programs DEF BootInv, BootTyped, TypeOK
      <4>3. AtOnce'
        BY <1>5, <2>3, <3>1, <3>4, <4>1, <4>2 DEF AtOnce
      <4>4. QED
        BY <1>2, <1>5, <1>10, <2>2, <3>2, <3>5, <4>3 DEF BootInv, Stages, Up
    <3>6. CASE ~pipelined
      <4>1. InTurn /\ Exchange(L)
        BY <1>10, <3>6 DEF Up, InTurn
      <4>2. InTurn'
        BY <1>1, <1>5, <1>7, <3>4, <4>1 DEF InTurn
      <4>3. QED
        BY <1>2, <1>5, <1>10, <2>2, <3>2, <3>6, <4>2 DEF BootInv, Stages, Up
    <3>7. QED BY <3>5, <3>6
  <2>6. QED BY <2>4, <2>5
<1>11. QED BY <1>1, <1>8, <1>9, <1>10, LoaderPlaces

\* Loader takes a message while Manager runs.
LEMMA LoaderTakes ==
  ASSUME BootInv, Receive(LoaderEndpoint)
  PROVE  /\ LoaderMail => LoaderMail'
         /\ Loads(LoaderEndpoint, Manager)
              = Loads(LoaderEndpoint, Manager)'
                  + OneIfLoad(mailbox[LoaderEndpoint][1], Manager)
         /\ Loads(Manager, LoaderEndpoint)' = Loads(Manager, LoaderEndpoint)
         /\ Loads(LoaderEndpoint, Manager)' \in Nat
         /\ Loads(Manager, LoaderEndpoint) \in Nat
         /\ mailbox'[Bootstrap] = mailbox[Bootstrap]
         /\ mailbox'[Manager] = mailbox[Manager]
         /\ Exchange(LoaderEndpoint) => mailbox'[LoaderEndpoint] = << >>
         /\ UNCHANGED created
<1> DEFINE L == LoaderEndpoint
<1>1. L \in Processes /\ MailTypeOK
  BY Programs DEF BootInv, BootTyped, TypeOK
<1>2. /\ mailbox' = [mailbox EXCEPT ![L] = Tail(mailbox[L])]
      /\ mailbox'[L] = Tail(mailbox[L])
      /\ \A i \in DOMAIN mailbox'[L] :
           i + 1 \in DOMAIN mailbox[L] /\ mailbox'[L][i] = mailbox[L][i + 1]
  BY <1>1, TailOf
<1>3. mailbox[L] # << >> /\ UNCHANGED created
  BY DEF Receive
<1>4. LoaderMail => LoaderMail'
  BY <1>2 DEF LoaderMail, IsLoad
<1>5. mailbox'[Bootstrap] = mailbox[Bootstrap] /\ mailbox'[Manager] = mailbox[Manager]
  BY <1>1, <1>2, Programs DEF MailTypeOK
<1>6. Loads(L, Manager) = Loads(L, Manager)' + OneIfLoad(mailbox[L][1], Manager)
  BY <1>1, <1>2, <1>3, LoadsTail
<1>7. Loads(Manager, L)' = Loads(Manager, L) /\ Loads(Manager, L) \in Nat
  BY <1>1, <1>5, LoadsSame, LoadsType, Programs
<1>8. Loads(L, Manager)' \in Nat
  <2>1. Tail(mailbox[L]) \in Seq(Messages)
    BY <1>1, <1>3, HeadTailProperties DEF MailTypeOK
  <2>2. Loads(L, Manager)' = Cardinality(LoadIn(Tail(mailbox[L]), Manager))
    BY <1>2 DEF Loads, LoadMessages, LoadIn
  <2>3. QED BY <2>1, <2>2, CountType
<1>9. ASSUME Exchange(L) PROVE mailbox'[L] = << >>
  <2>1. OneMessage(L)
    BY <1>3, <1>9 DEF Exchange, Empty
  <2>2. QED BY <1>1, <2>1, ReceiveOne DEF MailTypeOK
<1>10. QED BY <1>3, <1>4, <1>5, <1>6, <1>7, <1>8, <1>9

LEMMA DiscardLoader ==
  ASSUME BootInv, MailInv', Discard(LoaderEndpoint)
  PROVE  BootInv'
<1> DEFINE L == LoaderEndpoint
<1>1. /\ L \in Processes /\ MailTypeOK /\ awaiting[L] # 0 /\ Receive(L)
      /\ pc[L] \in {"pageSize", "bootInfo", "module"}
      /\ UNCHANGED <<pc, cookie, awaiting, found, cell, request, bootData, result,
                     pipelined, outstanding>>
  BY AsksTypes, Programs DEF Discard, local, BootInv, BootTyped, TypeOK
<1>2. ~Exchange(L)
  <2> SUFFICES ASSUME Exchange(L) PROVE FALSE
    OBVIOUS
  <2>1. OneMessage(L) /\ mailbox[L][1].cookie = awaiting[L]
    BY <1>1 DEF Exchange
  <2>2. Head(mailbox[L]) = mailbox[L][1]
    BY <1>1, <2>1, ReceiveOne
  <2>3. QED BY <2>1, <2>2 DEF Discard, Accepts
<1>3. Up /\ Preparing(Manager)
  BY <1>1, <1>2, LoaderPlaces DEF Announcing
<1>4. pipelined /\ AtOnce
  BY <1>2, <1>3 DEF Up, InTurn
<1>5. BootTyped'
  <2>1. TypeOK'
    BY <1>1 DEF BootInv, BootTyped, TypeOK, MailInv
  <2>2. QED BY <1>1, <2>1 DEF BootInv, BootTyped
<1>6. BootstrapServed' /\ ManagerMail' /\ HasAsked' /\ LoaderMail'
  BY <1>1, <1>3, LoaderTakes
  DEF Up, BootstrapServed, ManagerMail, HasAsked, IsLoad, Empty, OneMessage
<1>7. AtOnce'
  <2>1. OneIfLoad(mailbox[L][1], Manager) \in {0, 1}
    BY DEF OneIfLoad
  <2>2. /\ OneIfServing' = OneIfServing /\ OneIfServing \in {0, 1}
        /\ OneIfPreparing' = OneIfPreparing /\ OneIfPreparing \in {0, 1}
        /\ OneIfAwaiting' = OneIfAwaiting /\ OneIfAwaiting \in {0, 1}
    BY <1>1 DEF OneIfServing, OneIfPreparing, OneIfAwaiting, Serving, Preparing
  <2>3. ManagersRequests' <= outstanding'[Manager]
    <3>1. outstanding[Manager] \in Nat
      BY Programs DEF BootInv, BootTyped, TypeOK
    <3>2. QED
      BY <1>1, <1>4, <2>1, <2>2, <3>1, LoaderTakes DEF AtOnce, ManagersRequests
  <2>4. Len(mailbox'[L]) = Len(mailbox[L]) - 1 /\ Len(mailbox[L]) \in Nat
    BY <1>1, TailOf
  <2>5. cookie[Manager] \in Nat
    BY Programs DEF BootInv, BootTyped, TypeOK
  <2>6. QED BY <1>1, <1>4, <2>2, <2>3, <2>4, <2>5 DEF AtOnce
<1>8. Up'
  BY <1>1, <1>3, <1>4, <1>6, <1>7, LoaderTakes DEF Up
<1>9. QED BY <1>5, <1>8 DEF BootInv, Stages

LEMMA AnsweredLoader ==
  ASSUME BootInv, MailInv',
         NEW place \in {"bootInfo", "module"}, NEW to \in {"module", "load", "reply"},
         Answered(LoaderEndpoint, place), Goto(LoaderEndpoint, to),
         to = "reply" => result' # 0, result' \in 0 .. 3, bootData' \in BOOLEAN,
         UNCHANGED <<found, cell, request, pipelined, outstanding>>
  PROVE  BootInv'
<1> DEFINE L == LoaderEndpoint
<1>1. /\ L \in Processes /\ MailTypeOK /\ awaiting[L] # 0 /\ Receive(L)
      /\ pc[L] \in {"bootInfo", "module"}
  BY Programs DEF Answered, BootInv, BootTyped, TypeOK
<1>2. /\ awaiting' = [awaiting EXCEPT ![L] = 0] /\ UNCHANGED cookie
      /\ pc' = [pc EXCEPT ![L] = to]
  BY DEF Answered, Goto
<1>3. /\ awaiting'[L] = 0 /\ pc'[L] = to
      /\ pc'[Bootstrap] = pc[Bootstrap] /\ pc'[Manager] = pc[Manager]
  BY <1>1, <1>2, Programs DEF BootInv, BootTyped, TypeOK
<1>4. BootTyped'
  <2>1. TypeOK'
    BY <1>1, <1>2 DEF BootInv, BootTyped, TypeOK, MailInv, Places
  <2>2. QED BY <1>1, <1>2, <2>1 DEF BootInv, BootTyped, TypeOK
<1>5. CASE Asked /\ Preparing(Bootstrap) /\ Exchange(L)
  <2>1. /\ mailbox'[L] = << >> /\ UNCHANGED created
        /\ mailbox'[Bootstrap] = mailbox[Bootstrap]
        /\ mailbox'[Manager] = mailbox[Manager]
    BY <1>1, <1>5, LoaderTakes
  <2>2. CASE to = "reply"
    <3>1. created' >= LoaderEndpoint
      BY <1>5, <2>1 DEF Asked, LoaderEndpoint
    <3>2. Refused'
      BY <1>3, <1>5, <2>1, <2>2, <3>1
      DEF Asked, Refused, NoManager, HasAsked, Empty, Preparing
    <3>3. QED BY <1>4, <3>2 DEF BootInv, Stages
  <2>3. CASE to # "reply"
    <3>1. Asked'
      BY <1>3, <1>5, <2>1, <2>3
      DEF Asked, NoManager, HasAsked, Empty, Preparing, Exchange
    <3>2. QED BY <1>4, <3>1 DEF BootInv, Stages
  <2>4. QED BY <2>2, <2>3
<1>6. CASE Up /\ Preparing(Manager) /\ BootstrapServed /\ ~Empty(Bootstrap)
  <2>1. BootstrapServed' /\ ManagerMail' /\ HasAsked' /\ LoaderMail'
    BY <1>1, <1>3, <1>6, LoaderTakes
    DEF Up, BootstrapServed, ManagerMail, HasAsked, IsLoad, Empty, OneMessage, Preparing
  <2>2. /\ OneIfServing = 1 /\ OneIfServing' = 1
        /\ OneIfPreparing = 1 /\ OneIfPreparing' \in {0, 1}
        /\ OneIfAwaiting = 1 /\ OneIfAwaiting' = 0
    BY <1>1, <1>3, <1>6
    DEF OneIfServing, OneIfPreparing, OneIfAwaiting, Serving, Preparing
  <2>3. OneIfLoad(mailbox[L][1], Manager) \in {0, 1} /\ outstanding[Manager] \in Nat
    BY Programs DEF OneIfLoad, BootInv, BootTyped, TypeOK
  <2>4. /\ ManagersRequests
             = ManagersRequests' + OneIfLoad(mailbox[L][1], Manager)
        /\ ManagersRequests' \in Nat
    BY <1>1, <2>2, <2>3, LoaderTakes DEF ManagersRequests
  <2>5. CASE pipelined
    <3>1. AtOnce
      BY <1>6, <2>5 DEF Up
    <3>2. ManagersRequests' <= outstanding'[Manager]
      BY <2>3, <2>4, <3>1 DEF AtOnce
    <3>3. Len(mailbox'[L]) = Len(mailbox[L]) - 1 /\ Len(mailbox[L]) \in Nat
      BY <1>1, TailOf
    <3>4. cookie[Manager] \in Nat
      BY Programs DEF BootInv, BootTyped, TypeOK
    <3>5. AtOnce'
      BY <1>2, <2>2, <3>1, <3>2, <3>3, <3>4 DEF AtOnce
    <3>6. Up'
      BY <1>1, <1>3, <1>6, <2>1, <2>5, <3>5, LoaderTakes DEF Up
    <3>7. QED BY <1>4, <3>6 DEF BootInv, Stages
  <2>6. CASE ~pipelined
    <3>1. InTurn /\ Exchange(L)
      BY <1>6, <2>6 DEF Up, InTurn
    <3>2. mailbox'[L] = << >>
      BY <1>1, <3>1, LoaderTakes
    <3>3. OneIfLoad(mailbox[L][1], Manager) = 0
      BY <1>1, <3>1, Programs DEF Exchange, OneIfLoad, IsLoad
    <3>4. InTurn'
      BY <1>3, <2>3, <2>4, <3>1, <3>2, <3>3 DEF InTurn, Exchange, Empty
    <3>5. Up'
      BY <1>1, <1>3, <1>6, <2>1, <2>6, <3>4, LoaderTakes DEF Up
    <3>6. QED BY <1>4, <3>5 DEF BootInv, Stages
  <2>7. QED BY <2>5, <2>6
<1>7. QED BY <1>1, <1>5, <1>6, LoaderPlaces

LEMMA LoaderAnswers ==
  ASSUME BootInv, MailInv',
         LoaderBootInfo(LoaderEndpoint) \/ LoaderModule(LoaderEndpoint)
  PROVE  BootInv'
<1>1. bootData \in BOOLEAN /\ result \in 0 .. 3
  BY DEF BootInv, BootTyped, TypeOK
<1>2. CASE LoaderBootInfo(LoaderEndpoint)
  <2>1. PICK to \in {"module", "reply"} :
          Goto(LoaderEndpoint, to) /\ (to = "reply" => result' # 0)
    BY <1>2 DEF LoaderBootInfo
  <2>2. /\ Answered(LoaderEndpoint, "bootInfo")
        /\ UNCHANGED <<found, cell, request, pipelined, outstanding>>
    BY <1>2 DEF LoaderBootInfo
  <2>3. result' \in 0 .. 3
    BY <1>1, <1>2 DEF LoaderBootInfo
  <2>4. bootData' \in BOOLEAN
    BY <1>1, <1>2, Zenon DEF LoaderBootInfo
  <2>5. QED BY <2>1, <2>2, <2>3, <2>4, AnsweredLoader
<1>3. CASE LoaderModule(LoaderEndpoint)
  BY <1>1, <1>3, AnsweredLoader DEF LoaderModule
<1>4. QED BY <1>2, <1>3

LEMMA RuntimeKeeps ==
  ASSUME BootInv, MailInv', LoaderRuntime(LoaderEndpoint)
  PROVE  BootInv'
<1> DEFINE L == LoaderEndpoint
<1>1. /\ L \in Processes /\ pc[L] = "runtime" /\ awaiting[L] = 0
      /\ UNCHANGED <<mailbox, created, awaiting, cookie, found, cell, request, bootData,
                     result, pipelined, outstanding>>
  BY AsksTypes, Programs
  DEF LoaderRuntime, mail, local, BootInv, BootTyped, TypeOK
<1>2. PICK to \in {"pageSize", "failed"} : pc' = [pc EXCEPT ![L] = to]
  BY DEF LoaderRuntime, Fail, Goto
<1>3. Announcing
  BY <1>1, LoaderPlaces
<1>4. pc'[L] = to /\ pc'[Bootstrap] = pc[Bootstrap] /\ pc'[Manager] = pc[Manager]
  BY <1>1, <1>2, Programs DEF BootInv, BootTyped, TypeOK
<1>5. BootTyped'
  <2>1. TypeOK'
    BY <1>1, <1>2 DEF BootInv, BootTyped, TypeOK, MailInv, Places
  <2>2. QED BY <1>1, <2>1 DEF BootInv, BootTyped
<1>6. Announcing'
  BY <1>1, <1>3, <1>4 DEF Announcing, NoManager, Empty, Exchange
<1>7. QED BY <1>5, <1>6 DEF BootInv, Stages

LEMMA PageSizeKeeps ==
  ASSUME BootInv, MailInv', LoaderPageSize(LoaderEndpoint)
  PROVE  BootInv'
<1> DEFINE L == LoaderEndpoint
<1>1. /\ L \in Processes /\ Receive(L)
      /\ pc[L] = "pageSize" /\ awaiting' = [awaiting EXCEPT ![L] = 0]
      /\ pc' = [pc EXCEPT ![L] = "announce"]
      /\ UNCHANGED <<cookie, found, cell, request, bootData, result, pipelined,
                     outstanding>>
  BY Programs DEF LoaderPageSize, Answered, Goto, local
<1>2. Announcing
  BY <1>1, LoaderPlaces
<1>3. /\ mailbox'[L] = << >> /\ UNCHANGED created
      /\ mailbox'[Bootstrap] = mailbox[Bootstrap] /\ mailbox'[Manager] = mailbox[Manager]
  BY <1>1, <1>2, LoaderTakes DEF Announcing
<1>4. /\ awaiting'[L] = 0 /\ pc'[L] = "announce"
      /\ pc'[Bootstrap] = pc[Bootstrap] /\ pc'[Manager] = pc[Manager]
  BY <1>1, Programs DEF BootInv, BootTyped, TypeOK
<1>5. BootTyped'
  <2>1. TypeOK'
    BY <1>1 DEF BootInv, BootTyped, TypeOK, MailInv, Places
  <2>2. QED BY <1>1, <2>1 DEF BootInv, BootTyped, TypeOK
<1>6. Announcing'
  BY <1>1, <1>2, <1>3, <1>4 DEF Announcing, NoManager, Empty, Exchange
<1>7. QED BY <1>5, <1>6 DEF BootInv, Stages

LEMMA AnnounceKeeps ==
  ASSUME BootInv, MailInv', LoaderAnnounce(LoaderEndpoint)
  PROVE  BootInv'
<1> DEFINE L == LoaderEndpoint
           ready == MakeRequest("Ready", NextCookie(L))
<1>1. /\ L \in Processes /\ MailTypeOK /\ pc[L] = "announce" /\ awaiting[L] = 0
      /\ NextCookie(L) \in Nat
  BY AsksTypes, Programs DEF LoaderAnnounce, NextCookie, BootInv, BootTyped, TypeOK
<1>2. Announcing /\ cell = Bootstrap
  BY <1>1, LoaderPlaces DEF Announcing
<1>3. Send(L, Bootstrap, ready)
  BY <1>2 DEF LoaderAnnounce, Bootstrap
<1>4. ready \in Messages /\ ready.type = "Ready" /\ nextId \in Nat
  BY <1>1, RequestType DEF UserTypes, MailTypeOK
<1>5. Stamped(L, ready).sender = L /\ Stamped(L, ready).type = "Ready"
  BY <1>1, <1>4, StampedType
<1>6. /\ ~Full(Bootstrap) /\ created' = created
      /\ mailbox' = [mailbox EXCEPT ![Bootstrap] = <<Stamped(L, ready)>>]
  <2>1. Empty(Bootstrap) /\ Bootstrap <= created
    BY <1>2 DEF Announcing, Bootstrap, LoaderEndpoint
  <2>2. QED BY <1>1, <1>3, <1>4, <2>1, SendOne, Programs
<1>7. /\ pc' = [pc EXCEPT ![L] = "serve"]
      /\ cookie' = [cookie EXCEPT ![L] = NextCookie(L)]
      /\ UNCHANGED <<awaiting, found, cell, request, bootData, result, pipelined,
                     outstanding>>
  BY <1>2, <1>6 DEF LoaderAnnounce, Goto, Bootstrap, local
<1>8. BootTyped'
  <2>1. TypeOK'
    BY <1>1, <1>7 DEF BootInv, BootTyped, TypeOK, MailInv, Places
  <2>2. cookie'[Manager] = cookie[Manager]
    BY <1>7, Programs DEF BootInv, BootTyped, TypeOK
  <2>3. QED BY <1>7, <2>1, <2>2 DEF BootInv, BootTyped
<1>9. Announced'
  <2>1. /\ mailbox'[Bootstrap] = <<Stamped(L, ready)>>
        /\ mailbox'[L] = mailbox[L] /\ mailbox'[Manager] = mailbox[Manager]
    BY <1>1, <1>6, Programs DEF MailTypeOK
  <2>2. /\ pc'[L] = "serve" /\ pc'[Bootstrap] = pc[Bootstrap]
        /\ pc'[Manager] = pc[Manager]
    BY <1>1, <1>7, Programs DEF BootInv, BootTyped, TypeOK
  <2>3. Empty(L)
    BY <1>1, <1>2 DEF Announcing, Exchange
  <2>4. QED
    BY <1>2, <1>5, <1>6, <1>7, <2>1, <2>2, <2>3
    DEF Announcing, Announced, NoManager, Empty, OneMessage, IsReady
<1>10. QED BY <1>8, <1>9 DEF BootInv, Stages

LEMMA ServeKeeps ==
  ASSUME BootInv, MailInv', LoaderServe(LoaderEndpoint)
  PROVE  BootInv'
<1> DEFINE L == LoaderEndpoint
           message == mailbox[L][1]
<1>1. /\ L \in Processes /\ MailTypeOK /\ pc[L] = "serve" /\ awaiting[L] = 0
      /\ Receive(L)
  BY AsksTypes, Programs DEF LoaderServe, BootInv, BootTyped, TypeOK
<1>2. /\ message \in Messages /\ Head(mailbox[L]) = message /\ 1 \in DOMAIN mailbox[L]
      /\ mailbox[L] # << >>
  BY <1>1, TailOf DEF Receive
<1>3. UNCHANGED <<cookie, awaiting, found, cell, bootData, pipelined, outstanding>>
  BY DEF LoaderServe
<1>4. \/ /\ message.type = "LoadBootModule" /\ request' = message
         /\ \E to \in {"module", "bootInfo", "reply"} :
              /\ pc' = [pc EXCEPT ![L] = to]
              /\ result' = IF to = "reply" THEN 1 ELSE result
      \/ message.type # "LoadBootModule" /\ UNCHANGED <<request, pc, result>>
  BY <1>2 DEF LoaderServe, Goto
<1>5. BootTyped'
  <2>1. request' \in Messages /\ pc' \in [Processes -> Places]
    BY <1>1, <1>2, <1>4 DEF BootInv, BootTyped, TypeOK, Places
  <2>2. \A p \in Processes : awaiting'[p] # 0 => pc'[p] \in DOMAIN Asks
    BY <1>1, <1>3, <1>4 DEF BootInv, BootTyped, TypeOK
  <2>3. result' \in 0 .. 3
    BY <1>4 DEF BootInv, BootTyped, TypeOK
  <2>4. QED BY <1>3, <2>1, <2>2, <2>3 DEF BootInv, BootTyped, TypeOK, MailInv
<1>6. CASE Asked
  <2>1. OneMessage(L) /\ IsLoad(message, Bootstrap)
    BY <1>1, <1>6 DEF Asked, Preparing
  <2>2. mailbox' = [mailbox EXCEPT ![L] = << >>] /\ UNCHANGED created
    BY <1>1, <2>1, ReceiveOne DEF Receive
  <2>3. /\ mailbox'[L] = << >> /\ mailbox'[Bootstrap] = mailbox[Bootstrap]
        /\ mailbox'[Manager] = mailbox[Manager]
    BY <1>1, <2>2, Programs DEF MailTypeOK
  <2>4. /\ request'.sender = Bootstrap /\ pc'[L] \in {"module", "bootInfo", "reply"}
        /\ pc'[L] = "reply" => result' = 1
        /\ pc'[Bootstrap] = pc[Bootstrap] /\ pc'[Manager] = pc[Manager]
    BY <1>1, <1>4, <2>1, Programs DEF IsLoad, BootInv, BootTyped, TypeOK
  <2>5. CASE pc'[L] = "reply"
    <3>1. created' >= LoaderEndpoint
      BY <1>6, <2>2 DEF Asked, LoaderEndpoint
    <3>2. Refused'
      BY <1>3, <1>6, <2>2, <2>3, <2>4, <2>5, <3>1
      DEF Asked, Refused, NoManager, HasAsked, Empty
    <3>3. QED BY <1>5, <3>2 DEF BootInv, Stages
  <2>6. CASE pc'[L] # "reply"
    <3>1. Asked'
      BY <1>1, <1>3, <1>6, <2>2, <2>3, <2>4, <2>6
      DEF Asked, NoManager, HasAsked, Empty, Preparing, Exchange
    <3>2. QED BY <1>5, <3>1 DEF BootInv, Stages
  <2>7. QED BY <2>5, <2>6
<1>7. CASE Up
  <2>1. /\ BootstrapServed /\ ~Empty(Bootstrap) /\ HasAsked
        /\ LoaderMail' /\ mailbox'[Bootstrap] = mailbox[Bootstrap]
        /\ mailbox'[Manager] = mailbox[Manager]
        /\ UNCHANGED created
    BY <1>1, <1>7, LoaderTakes DEF Up, BootstrapServed, Empty, OneMessage
  <2>2. \/ IsLoad(message, Manager)
        \/ message.sender = Kernel /\ message.type \in KernelTypes
    BY <1>2, <1>7 DEF Up, LoaderMail
  <2>3. /\ cookie[Manager] \in Nat /\ outstanding[Manager] \in Nat
        /\ Len(mailbox'[L]) = Len(mailbox[L]) - 1 /\ Len(mailbox[L]) \in Nat
    BY <1>1, TailOf, Programs DEF BootInv, BootTyped, TypeOK
  <2>4. ManagerMail'
    BY <1>7, <2>1 DEF Up, ManagerMail, IsLoad
  <2>5. /\ OneIfServing = 0 /\ OneIfPreparing = 0 /\ OneIfAwaiting = 0
        /\ OneIfAwaiting' = 0
    BY <1>1, <1>3
    DEF OneIfServing, OneIfPreparing, OneIfAwaiting, Serving, Preparing
  <2>6. CASE IsLoad(message, Manager)
    <3>1. /\ request'.sender = Manager /\ pc'[L] \in {"module", "bootInfo", "reply"}
          /\ pc'[Bootstrap] = pc[Bootstrap] /\ pc'[Manager] = pc[Manager]
      BY <1>1, <1>4, <2>6, Programs DEF IsLoad, BootInv, BootTyped, TypeOK
    <3>2. BootstrapServed' /\ HasAsked'
      BY <1>1, <1>3, <2>1, <3>1
      DEF BootstrapServed, HasAsked, Empty, OneMessage, IsLoad
    <3>3. /\ OneIfServing' = 1 /\ OneIfPreparing' \in {0, 1}
          /\ OneIfLoad(message, Manager) = 1
      BY <2>6, <3>1 DEF OneIfServing, OneIfPreparing, OneIfLoad, Serving, Preparing
    <3>4. ManagersRequests' = ManagersRequests
      BY <1>1, <2>5, <3>3, LoaderTakes DEF ManagersRequests
    <3>5. CASE pipelined
      <4>1. AtOnce
        BY <1>7, <3>5 DEF Up
      <4>2. AtOnce'
        BY <1>3, <2>3, <2>5, <3>3, <3>4, <4>1 DEF AtOnce
      <4>3. Up'
        BY <1>3, <1>7, <2>1, <2>4, <3>1, <3>2, <3>5, <4>2 DEF Up
      <4>4. QED BY <1>5, <4>3 DEF BootInv, Stages
    <3>6. CASE ~pipelined
      <4>1. InTurn
        BY <1>7, <3>6 DEF Up
      <4>2. Loads(L, Manager)' = 0
        BY <1>1, <2>3, <3>3, <3>4, <4>1, LoaderTakes DEF InTurn, ManagersRequests
      <4>3. \A i \in DOMAIN mailbox'[L] : mailbox'[L][i].sender = Manager
        <5>1. \A i \in DOMAIN mailbox'[L] :
                i + 1 \in DOMAIN mailbox[L] /\ mailbox'[L][i] = mailbox[L][i + 1]
          BY <1>1, TailOf
        <5>2. QED BY <1>1, <4>1, <5>1 DEF InTurn
      <4>4. \A i \in DOMAIN mailbox'[L] : IsLoad(mailbox'[L][i], Manager)
        BY <2>1, <4>3, Programs DEF LoaderMail, IsLoad
      <4>5. mailbox'[L] \in Seq(Messages) /\ MailTypeOK'
        BY <1>1 DEF MailInv, MailTypeOK
      <4>6. \A i \in DOMAIN mailbox'[L] : ~IsLoad(mailbox'[L][i], Manager)
        <5>1. LoadMessages(L, Manager)' = LoadIn(mailbox'[L], Manager)
          BY DEF LoadMessages, LoadIn
        <5>2. LoadIn(mailbox'[L], Manager) = {}
          BY <4>2, <4>5, <5>1, CountType DEF Loads
        <5>3. QED BY <5>2 DEF LoadIn, IsLoad
      <4>7. mailbox'[L] = << >>
        <5>1. 1 \notin DOMAIN mailbox'[L]
          BY <4>4, <4>6
        <5>2. Len(mailbox'[L]) \notin Nat \ {0}
          BY <4>5, <5>1
        <5>3. QED BY <4>5, <5>2, EmptySeq
      <4>8. InTurn'
        BY <1>1, <1>3, <3>1, <3>4, <4>1, <4>7 DEF InTurn, Exchange, Empty
      <4>9. Up'
        BY <1>3, <1>7, <2>1, <2>4, <3>1, <3>2, <3>6, <4>8 DEF Up
      <4>10. QED BY <1>5, <4>9 DEF BootInv, Stages
    <3>7. QED BY <3>5, <3>6
  <2>7. CASE ~IsLoad(message, Manager)
    <3>1. message.type # "LoadBootModule" /\ message.sender # Manager
      BY <2>2, <2>7, Programs DEF KernelTypes
    <3>2. UNCHANGED <<request, pc>>
      BY <1>4, <3>1
    <3>3. pipelined /\ AtOnce
      BY <1>1, <1>2, <1>7, <3>1 DEF Up, InTurn
    <3>4. BootstrapServed' /\ HasAsked'
      BY <1>3, <2>1, <3>2 DEF BootstrapServed, HasAsked, Empty, OneMessage, IsLoad
    <3>5. OneIfServing' = 0 /\ OneIfPreparing' = 0 /\ OneIfLoad(message, Manager) = 0
      BY <1>1, <2>7, <3>2
      DEF OneIfServing, OneIfPreparing, OneIfLoad, Serving, Preparing
    <3>6. ManagersRequests' = ManagersRequests
      BY <1>1, <2>5, <3>5, LoaderTakes DEF ManagersRequests
    <3>7. AtOnce'
      BY <1>3, <2>3, <2>5, <3>3, <3>5, <3>6 DEF AtOnce
    <3>8. Up'
      BY <1>3, <1>7, <2>1, <2>4, <3>2, <3>3, <3>4, <3>7 DEF Up
    <3>9. QED BY <1>5, <3>8 DEF BootInv, Stages
  <2>8. QED BY <2>6, <2>7
<1>8. QED
  BY <1>1, <1>2, <1>6, <1>7
  DEF BootInv, Stages, Alone, Announcing, Announced, Refused, Empty

LEMMA NoLoads ==
  ASSUME NEW e, NEW from, mailbox[e] = << >>
  PROVE  Loads(e, from) = 0
<1>1. LoadMessages(e, from) = {}
  BY DEF LoadMessages
<1>2. QED BY <1>1, FS_EmptySet DEF Loads

\* Loading is over, well or badly; what it created is a new process.
LEMMA LoadOutcomes ==
  ASSUME BootInv, LoaderLoad(LoaderEndpoint)
  PROVE  /\ created \in Nat /\ created' \in Nat
         /\ \/ /\ created' = created + 1 /\ created' \in Processes /\ result' = 0
               /\ pc' = [pc EXCEPT ![LoaderEndpoint] = "reply", ![created'] = "running"]
            \/ /\ created' \in {created, created + 1} /\ result' = 1
               /\ pc' = [pc EXCEPT ![LoaderEndpoint] = "reply"]
         /\ mailbox' = mailbox
<1>1. created \in Nat /\ created \in Processes
  BY MailAssumption DEF BootInv, BootTyped, TypeOK, MailTypeOK, Processes
<1>2. CASE CreateProcess
  <2>1. created' = created + 1 /\ created' \in Processes /\ mailbox' = mailbox
    BY <1>1, <1>2, MailAssumption DEF CreateProcess, Processes
  <2>2. QED BY <1>1, <2>1 DEF LoaderLoad, Goto, mail
<1>3. CASE ~CreateProcess
  BY <1>1, <1>3 DEF LoaderLoad, Goto, mail
<1>4. QED BY <1>2, <1>3

LEMMA LoadKeeps ==
  ASSUME BootInv, MailInv', LoaderLoad(LoaderEndpoint)
  PROVE  BootInv'
<1> DEFINE L == LoaderEndpoint
<1>1. /\ L \in Processes /\ MailTypeOK /\ pc[L] = "load" /\ awaiting[L] = 0
  BY AsksTypes, Programs DEF LoaderLoad, BootInv, BootTyped, TypeOK
<1>2. UNCHANGED <<cookie, awaiting, found, cell, request, bootData, pipelined,
                  outstanding>>
  BY DEF LoaderLoad
<1>3. BootTyped'
  <2>1. pc' \in [Processes -> Places]
    <3>1. pc \in [Processes -> Places]
      BY DEF BootInv, BootTyped, TypeOK
    <3>2. QED BY <3>1, LoadOutcomes DEF Places
  <2>2. \A p \in Processes \ {Bootstrap, L} : awaiting[p] = 0
    BY DEF BootInv, BootTyped
  <2>3. created >= LoaderEndpoint
    BY <1>1, LoaderPlaces, LoadOutcomes DEF Asked, Up, LoaderEndpoint, Manager
  <2>4. \A p \in Processes : awaiting'[p] # 0 => pc'[p] \in DOMAIN Asks
    <3>1. created + 1 \notin {Bootstrap, L} /\ created + 1 # Bootstrap
      BY <2>3, LoadOutcomes DEF Bootstrap, LoaderEndpoint
    <3>2. awaiting[Bootstrap] # 0 => pc'[Bootstrap] \in DOMAIN Asks
      BY <3>1, LoadOutcomes, Programs DEF BootInv, BootTyped, TypeOK
    <3>3. QED BY <1>1, <1>2, <2>2, <3>2
  <2>5. result' \in 0 .. 3
    BY LoadOutcomes
  <2>6. TypeOK'
    BY <1>2, <2>1, <2>4, <2>5 DEF BootInv, BootTyped, TypeOK, MailInv
  <2>7. QED BY <1>2, <2>6 DEF BootInv, BootTyped
<1>4. CASE Asked /\ Preparing(Bootstrap) /\ Exchange(L)
  <2>1. Empty(L) /\ created = LoaderEndpoint
    BY <1>1, <1>4 DEF Exchange, Asked
  <2>2. mailbox' = mailbox
    BY LoadOutcomes
  <2>3. CASE result' = 0
    <3>1. /\ created' = Manager
          /\ pc' = [pc EXCEPT ![L] = "reply", ![Manager] = "running"]
      BY <2>1, <2>3, LoadOutcomes DEF LoaderEndpoint, Manager
    <3>2. /\ pc'[L] = "reply" /\ pc'[Manager] = "running"
          /\ pc'[Bootstrap] = pc[Bootstrap]
      BY <3>1, Programs DEF BootInv, BootTyped, TypeOK
    <3>3. /\ HasAsked' /\ BootstrapServed' /\ created' >= Manager
      BY <1>2, <1>4, <2>2, <2>3, <3>1, <3>2
      DEF Asked, HasAsked, BootstrapServed, Preparing, Empty, Manager
    <3>4. /\ mailbox'[L] = << >> /\ mailbox'[Manager] = << >>
      BY <1>4, <2>1, <2>2 DEF Asked, NoManager, Empty
    <3>5. LoaderMail' /\ ManagerMail'
      BY <3>4 DEF LoaderMail, ManagerMail
    <3>6. Loads(L, Manager)' = 0 /\ Loads(Manager, L)' = 0
      <4>1. LoadMessages(L, Manager)' = {} /\ LoadMessages(Manager, L)' = {}
        BY <3>4 DEF LoadMessages
      <4>2. QED BY <4>1, FS_EmptySet DEF Loads
    <3>7. /\ OneIfServing' = 0 /\ OneIfPreparing' = 0 /\ OneIfAwaiting' = 0
          /\ ~Preparing(Manager)'
      BY <1>1, <1>2, <1>4, <3>2, Programs
      DEF OneIfServing, OneIfPreparing, OneIfAwaiting, Serving, Preparing
    <3>8. outstanding'[Manager] = 0 /\ cookie'[Manager] \in Nat
      BY <1>2, <1>4, Programs DEF Asked, NoManager, BootInv, BootTyped, TypeOK
    <3>9. AtOnce' /\ InTurn'
      BY <3>4, <3>6, <3>7, <3>8 DEF AtOnce, InTurn, ManagersRequests
    <3>10. QED
      BY <1>3, <3>2, <3>3, <3>5, <3>9 DEF BootInv, Stages, Up
  <2>4. CASE result' # 0
    <3>1. /\ pc' = [pc EXCEPT ![L] = "reply"] /\ created' >= LoaderEndpoint
      BY <2>1, <2>4, LoadOutcomes DEF LoaderEndpoint
    <3>2. /\ pc'[L] = "reply" /\ pc'[Bootstrap] = pc[Bootstrap]
          /\ pc'[Manager] = pc[Manager]
      BY <3>1, Programs DEF BootInv, BootTyped, TypeOK
    <3>3. Refused'
      BY <1>2, <1>4, <2>1, <2>2, <2>4, <3>1, <3>2
      DEF Asked, Refused, NoManager, HasAsked, Preparing, Empty
    <3>4. QED BY <1>3, <3>3 DEF BootInv, Stages
  <2>5. QED BY <2>3, <2>4
<1>5. CASE Up /\ Preparing(Manager) /\ BootstrapServed /\ ~Empty(Bootstrap)
  <2>1. mailbox' = mailbox /\ created' >= Manager /\ created + 1 > Manager
    BY <1>5, LoadOutcomes DEF Up, Manager
  <2>2. /\ pc'[L] = "reply" /\ pc'[Bootstrap] = pc[Bootstrap]
        /\ pc'[Manager] = pc[Manager]
    <3>1. created + 1 \notin {Bootstrap, L, Manager}
      BY <2>1, LoadOutcomes DEF Bootstrap, LoaderEndpoint, Manager
    <3>2. QED BY <3>1, LoadOutcomes, Programs DEF BootInv, BootTyped, TypeOK
  <2>3. LoaderMail' /\ ManagerMail'
    BY <1>5, <2>1 DEF Up, LoaderMail, ManagerMail, IsLoad
  <2>4. BootstrapServed' /\ HasAsked'
    BY <1>2, <1>5, <2>1, <2>2
    DEF Up, BootstrapServed, HasAsked, Preparing, Empty, OneMessage, IsLoad
  <2>5. Loads(L, Manager)' = Loads(L, Manager) /\ Loads(Manager, L)' = Loads(Manager, L)
    BY <2>1, LoadsSame, Programs
  <2>6. /\ OneIfServing = 1 /\ OneIfServing' = 1
        /\ OneIfPreparing = 1 /\ OneIfPreparing' = 0
        /\ OneIfAwaiting = 0 /\ OneIfAwaiting' = 0 /\ ~Preparing(Manager)'
    BY <1>1, <1>2, <1>5, <2>2
    DEF OneIfServing, OneIfPreparing, OneIfAwaiting, Serving, Preparing
  <2>7. ManagersRequests' = ManagersRequests
    BY <2>5, <2>6 DEF ManagersRequests
  <2>8. CASE pipelined
    <3>1. AtOnce /\ cookie[Manager] \in Nat /\ Len(mailbox[L]) \in Nat
      BY <1>1, <1>5, <2>8, Programs DEF Up, MailTypeOK, BootInv, BootTyped, TypeOK
    <3>2. AtOnce'
      BY <1>2, <2>1, <2>6, <2>7, <3>1 DEF AtOnce
    <3>3. QED
      BY <1>2, <1>3, <1>5, <2>1, <2>2, <2>3, <2>4, <2>8, <3>2 DEF BootInv, Stages, Up
  <2>9. CASE ~pipelined
    <3>1. InTurn /\ Empty(L)
      BY <1>1, <1>5, <2>9 DEF Up, InTurn, Exchange
    <3>2. InTurn'
      BY <1>2, <2>1, <2>6, <2>7, <3>1 DEF InTurn, Empty
    <3>3. QED
      BY <1>2, <1>3, <1>5, <2>1, <2>2, <2>3, <2>4, <2>9, <3>2 DEF BootInv, Stages, Up
  <2>10. QED BY <2>8, <2>9
<1>6. QED BY <1>1, <1>4, <1>5, LoaderPlaces

LEMMA ReplyKeeps ==
  ASSUME BootInv, MailInv', LoaderReply(LoaderEndpoint)
  PROVE  BootInv'
<1> DEFINE L == LoaderEndpoint
           answer == MakeReply(request, "LoadBootModule", result)
           m == Stamped(L, answer)
<1>1. /\ L \in Processes /\ MailTypeOK /\ pc[L] = "reply" /\ awaiting[L] = 0
      /\ request.sender \in {Bootstrap, Manager} /\ request.sender \in Processes
  BY AsksTypes, Programs, ReplyGoesHome
  DEF LoaderReply, BootInv, BootTyped, TypeOK
<1>2. answer \in Messages /\ answer.status = result /\ answer.type = "LoadBootModule"
  <2>1. request \in Messages /\ result \in Nat
    BY DEF BootInv, BootTyped, TypeOK
  <2>2. QED BY <2>1, ReplyType DEF UserTypes
<1>3. m \in Messages /\ IsLoad(m, L) /\ m.status = result
  BY <1>1, <1>2, StampedType DEF IsLoad, MailTypeOK
<1>4. /\ Send(L, request.sender, answer)
      /\ pc' = [pc EXCEPT ![L] = IF Full(request.sender) THEN "reply" ELSE "serve"]
      /\ UNCHANGED <<created, cookie, awaiting, found, cell, request, bootData, result,
                     pipelined, outstanding>>
  BY DEF LoaderReply, ReplyTarget, AfterReply, Goto, local, Send
<1>5. BootTyped'
  <2>1. pc' \in [Processes -> Places]
    BY <1>1, <1>4 DEF BootInv, BootTyped, TypeOK, Places
  <2>2. \A p \in Processes : awaiting'[p] # 0 => pc'[p] \in DOMAIN Asks
    BY <1>1, <1>4 DEF BootInv, BootTyped, TypeOK
  <2>3. TypeOK'
    BY <1>4, <2>1, <2>2 DEF BootInv, BootTyped, TypeOK, MailInv
  <2>4. QED BY <1>4, <2>3 DEF BootInv, BootTyped
<1>6. pc'[Bootstrap] = pc[Bootstrap] /\ pc'[Manager] = pc[Manager]
  BY <1>1, <1>4, Programs DEF BootInv, BootTyped, TypeOK
<1>7. ASSUME request.sender = Bootstrap, Empty(Bootstrap), created >= Bootstrap
      PROVE  /\ mailbox'[Bootstrap] = <<m>>
             /\ mailbox'[L] = mailbox[L] /\ mailbox'[Manager] = mailbox[Manager]
             /\ pc'[L] = "serve"
  <2>1. Bootstrap <= created
    BY <1>7, MailAssumption DEF BootInv, BootTyped, TypeOK, MailTypeOK, Processes, Bootstrap
  <2>2. /\ ~Full(Bootstrap)
        /\ mailbox' = [mailbox EXCEPT ![Bootstrap] = <<m>>]
    BY <1>1, <1>2, <1>4, <1>7, <2>1, SendOne
  <2>3. QED
    BY <1>1, <1>4, <1>7, <2>2, Programs DEF MailTypeOK, BootInv, BootTyped, TypeOK
<1>8. CASE Refused /\ request.sender = Bootstrap
  <2>1. Empty(Bootstrap) /\ result # 0 /\ created >= Bootstrap
    BY <1>1, <1>8, ActorsExist, Programs DEF Refused, Endpoints
  <2>2. /\ mailbox'[Bootstrap] = <<m>>
        /\ mailbox'[L] = mailbox[L] /\ mailbox'[Manager] = mailbox[Manager]
        /\ pc'[L] = "serve"
    BY <1>7, <1>8, <2>1
  <2>3. OneMessage(Bootstrap)' /\ mailbox'[Bootstrap][1] = m
    BY <2>2 DEF OneMessage
  <2>4. Refused'
    BY <1>3, <1>4, <1>6, <1>8, <2>1, <2>2, <2>3
    DEF Refused, NoManager, HasAsked, Empty, IsLoad
  <2>5. QED BY <1>5, <2>4 DEF BootInv, Stages
<1>9. CASE Up /\ request.sender = Bootstrap
  <2>1. /\ Empty(Bootstrap) /\ result = 0 /\ created >= Bootstrap
    BY <1>1, <1>9, ActorsExist, Programs DEF Up, BootstrapServed, Endpoints
  <2>2. BootstrapServed' /\ HasAsked'
    <3>1. mailbox'[Bootstrap] = <<m>> /\ pc'[L] = "serve"
      BY <1>7, <1>9, <2>1
    <3>2. OneMessage(Bootstrap)' /\ mailbox'[Bootstrap][1] = m
      BY <3>1 DEF OneMessage
    <3>3. QED
      BY <1>3, <1>4, <1>6, <1>9, <2>1, <3>1, <3>2
      DEF Up, BootstrapServed, HasAsked, IsLoad
  <2>3. LoaderMail' /\ ManagerMail'
    BY <1>7, <1>9, <2>1 DEF Up, LoaderMail, ManagerMail, IsLoad
  <2>4. Loads(L, Manager)' = Loads(L, Manager) /\ Loads(Manager, L)' = Loads(Manager, L)
    BY <1>7, <1>9, <2>1, LoadsSame, Programs
  <2>5. /\ OneIfServing = 0 /\ OneIfServing' = 0
        /\ OneIfPreparing = 0 /\ OneIfPreparing' = 0
        /\ OneIfAwaiting = 0 /\ OneIfAwaiting' = 0 /\ ~Preparing(Manager)'
    BY <1>1, <1>4, <1>7, <1>9, <2>1, Programs
    DEF OneIfServing, OneIfPreparing, OneIfAwaiting, Serving, Preparing
  <2>6. ManagersRequests' = ManagersRequests
    BY <2>4, <2>5 DEF ManagersRequests
  <2>7. AtOnce => AtOnce'
    BY <1>4, <1>7, <1>9, <2>1, <2>5, <2>6 DEF AtOnce
  <2>8. InTurn => InTurn'
    BY <1>1, <1>4, <1>7, <1>9, <2>1, <2>5, <2>6 DEF InTurn
  <2>9. QED
    BY <1>4, <1>5, <1>6, <1>9, <2>2, <2>3, <2>7, <2>8 DEF BootInv, Stages, Up
<1>10. CASE Up /\ request.sender = Manager
  <2>1. BootstrapServed /\ ~Empty(Bootstrap) /\ Manager \in Endpoints
    BY <1>10, ActorsExist, Programs DEF Up, BootstrapServed, Empty, OneMessage
  <2>2. mailbox' = TryPush(Manager, m)
    BY <1>4, <1>10, <2>1 DEF Send
  <2>3. mailbox'[L] = mailbox[L] /\ mailbox'[Bootstrap] = mailbox[Bootstrap]
    BY <1>1, <2>2, Programs DEF TryPush, MailTypeOK
  <2>4. /\ Loads(L, Manager)' = Loads(L, Manager)
        /\ LoaderMail'
    BY <1>1, <1>10, <2>3, LoadsSame DEF Up, LoaderMail, IsLoad
  <2>5. /\ OneIfServing = 1 /\ OneIfPreparing = 0 /\ OneIfPreparing' = 0
        /\ OneIfAwaiting = 0 /\ OneIfAwaiting' = 0
        /\ ~Preparing(Manager)' /\ pc'[L] \in {"reply", "serve"}
    BY <1>1, <1>4, <1>10
    DEF OneIfServing, OneIfPreparing, OneIfAwaiting, Serving, Preparing,
        BootInv, BootTyped, TypeOK
  <2>6. BootstrapServed' /\ HasAsked'
    BY <1>4, <1>6, <1>10, <2>1, <2>3, <2>5
    DEF Up, BootstrapServed, HasAsked, Empty, OneMessage, IsLoad
  <2>7. ManagerMail' /\ ManagersRequests' = ManagersRequests
    <3>1. CASE Full(Manager)
      <4>1. mailbox' = mailbox /\ pc'[L] = "reply"
        BY <1>1, <1>4, <1>10, <2>2, <3>1 DEF TryPush, BootInv, BootTyped, TypeOK
      <4>2. OneIfServing' = 1 /\ Loads(Manager, L)' = Loads(Manager, L)
        BY <1>1, <1>4, <1>10, <4>1, LoadsSame, Programs DEF OneIfServing, Serving
      <4>3. ManagerMail'
        BY <1>10, <4>1 DEF Up, ManagerMail, IsLoad
      <4>4. QED BY <2>4, <2>5, <4>2, <4>3 DEF ManagersRequests
    <3>2. CASE ~Full(Manager)
      <4>1. pc'[L] = "serve"
        BY <1>1, <1>4, <1>10, <3>2 DEF BootInv, BootTyped, TypeOK
      <4>2. /\ mailbox'[Manager] = Append(mailbox[Manager], m)
            /\ \A i \in DOMAIN mailbox'[Manager] :
                 \/ mailbox'[Manager][i] = m
                 \/ /\ i \in DOMAIN mailbox[Manager]
                    /\ mailbox'[Manager][i] = mailbox[Manager][i]
        BY <1>1, <1>3, <2>2, <3>2, PushedOn, Programs
      <4>3. ManagerMail'
        BY <1>3, <1>10, <4>2 DEF Up, ManagerMail, IsLoad
      <4>4. Loads(Manager, L)' = Loads(Manager, L) + OneIfLoad(m, L)
        BY <1>1, <1>3, <4>2, LoadsAppend, Programs
      <4>5. OneIfServing' = 0 /\ OneIfLoad(m, L) = 1
        BY <1>3, <4>1 DEF OneIfServing, Serving, OneIfLoad
      <4>6. Loads(L, Manager) \in Nat /\ Loads(Manager, L) \in Nat
        BY <1>1, LoadsType, Programs
      <4>7. QED BY <2>4, <2>5, <4>3, <4>4, <4>5, <4>6 DEF ManagersRequests
    <3>3. QED BY <3>1, <3>2
  <2>8. AtOnce => AtOnce'
    BY <1>4, <2>3, <2>5, <2>7 DEF AtOnce
  <2>9. InTurn => InTurn'
    BY <1>1, <1>4, <2>3, <2>5, <2>7 DEF InTurn
  <2>10. QED
    BY <1>4, <1>5, <1>6, <1>10, <2>4, <2>6, <2>7, <2>8, <2>9 DEF BootInv, Stages, Up
<1>11. QED BY <1>1, <1>8, <1>9, <1>10, LoaderPlaces

-----------------------------------------------------------------------------
(* Manager                                                                 *)

LEMMA ManagerUp ==
  ASSUME BootInv, pc[Manager] = "running"
  PROVE  Up /\ Manager \in Endpoints /\ LoaderEndpoint \in Endpoints
<1>1. Up
  BY DEF BootInv, Stages, Alone, Announcing, Announced, Asked, Refused, NoManager
<1>2. created \in Nat /\ created >= Manager
  BY <1>1, MailAssumption
  DEF Up, BootInv, BootTyped, TypeOK, MailTypeOK, Processes
<1>3. QED BY <1>1, <1>2 DEF Endpoints, Manager, LoaderEndpoint

LEMMA ManagerRequestKeeps ==
  ASSUME BootInv, MailInv', ManagerRequest
  PROVE  BootInv'
<1> DEFINE L == LoaderEndpoint
           asked == MakeRequest("LoadBootModule", NextCookie(Manager))
           m == Stamped(Manager, asked)
<1>1. /\ MailTypeOK /\ cookie[Manager] \in Nat /\ outstanding[Manager] \in Nat
      /\ nextId \in Nat /\ L \in Processes /\ Manager \in Processes
      /\ NextCookie(Manager) = cookie[Manager] + 1
  BY Programs DEF NextCookie, BootInv, BootTyped, TypeOK, MailTypeOK
<1>2. Up /\ L \in Endpoints
  BY ManagerUp DEF ManagerRequest
<1>3. m \in Messages /\ IsLoad(m, Manager)
  <2>1. asked \in Messages /\ asked.type = "LoadBootModule"
    BY <1>1, RequestType DEF UserTypes
  <2>2. QED BY <1>1, <2>1, StampedType DEF IsLoad
<1>4. mailbox' = TryPush(L, m) /\ created' = created
  BY <1>2 DEF ManagerRequest, RequestLoad, Send
<1>5. UNCHANGED <<pc, awaiting, found, cell, request, bootData, result, pipelined>>
  BY DEF ManagerRequest
<1>6. /\ mailbox'[Bootstrap] = mailbox[Bootstrap] /\ mailbox'[Manager] = mailbox[Manager]
  BY <1>1, <1>4, Programs DEF TryPush, MailTypeOK
<1>7. CASE Full(L)
  <2>1. UNCHANGED <<cookie, outstanding>> /\ mailbox' = mailbox
    BY <1>4, <1>7 DEF ManagerRequest, RequestLoad, TryPush
  <2>2. BootTyped'
    <3>1. TypeOK'
      BY <1>5, <2>1 DEF BootInv, BootTyped, TypeOK, MailInv
    <3>2. QED BY <1>5, <2>1, <3>1 DEF BootInv, BootTyped
  <2>3. BootstrapServed' /\ HasAsked' /\ LoaderMail' /\ ManagerMail'
    BY <1>2, <1>5, <2>1
    DEF Up, BootstrapServed, HasAsked, LoaderMail, ManagerMail, Empty, OneMessage, IsLoad
  <2>4. /\ OneIfServing' = OneIfServing /\ OneIfPreparing' = OneIfPreparing
        /\ OneIfAwaiting' = OneIfAwaiting
    BY <1>5
    DEF OneIfServing, OneIfPreparing, OneIfAwaiting, Serving, Preparing
  <2>5. ManagersRequests' = ManagersRequests
    BY <1>1, <2>1, <2>4, LoadsSame DEF ManagersRequests
  <2>6. AtOnce => AtOnce'
    BY <2>1, <2>4, <2>5 DEF AtOnce
  <2>7. InTurn => InTurn'
    BY <1>5, <2>1, <2>5 DEF InTurn, Preparing, Exchange, Empty, OneMessage
  <2>8. QED
    BY <1>2, <1>4, <1>5, <2>2, <2>3, <2>6, <2>7 DEF BootInv, Stages, Up
<1>8. CASE ~Full(L)
  <2>1. /\ cookie' = [cookie EXCEPT ![Manager] = cookie[Manager] + 1]
        /\ outstanding' = [outstanding EXCEPT ![Manager] = outstanding[Manager] + 1]
    BY <1>1, <1>8 DEF ManagerRequest, RequestLoad
  <2>2. /\ cookie'[Manager] = cookie[Manager] + 1 /\ cookie[Manager] < Requests
        /\ outstanding'[Manager] = outstanding[Manager] + 1
        /\ outstanding'[Bootstrap] = outstanding[Bootstrap]
    BY <1>1, <2>1, Programs DEF ManagerRequest, BootInv, BootTyped, TypeOK
  <2>3. BootTyped'
    <3>1. TypeOK'
      BY <1>1, <1>5, <2>1 DEF BootInv, BootTyped, TypeOK, MailInv
    <3>2. cookie'[Manager] <= Requests
      BY <1>1, <2>2, Programs
    <3>3. QED BY <1>5, <3>1, <3>2 DEF BootInv, BootTyped
  <2>4. /\ mailbox'[L] = Append(mailbox[L], m)
        /\ Len(mailbox[L]) \in Nat /\ Len(mailbox'[L]) = Len(mailbox[L]) + 1
        /\ \A i \in DOMAIN mailbox'[L] :
             \/ mailbox'[L][i] = m
             \/ i \in DOMAIN mailbox[L] /\ mailbox'[L][i] = mailbox[L][i]
    BY <1>1, <1>3, <1>4, <1>8, PushedOn
  <2>5. LoaderMail' /\ ManagerMail'
    BY <1>2, <1>3, <1>6, <2>4 DEF Up, LoaderMail, ManagerMail, IsLoad
  <2>6. BootstrapServed' /\ HasAsked'
    BY <1>2, <1>5, <1>6, <2>2
    DEF Up, BootstrapServed, HasAsked, Empty, OneMessage, IsLoad
  <2>7. /\ OneIfServing' = OneIfServing /\ OneIfServing \in {0, 1}
        /\ OneIfPreparing' = OneIfPreparing /\ OneIfPreparing \in {0, 1}
        /\ OneIfAwaiting' = OneIfAwaiting /\ OneIfAwaiting \in {0, 1}
    BY <1>5
    DEF OneIfServing, OneIfPreparing, OneIfAwaiting, Serving, Preparing
  <2>8. ManagersRequests' = ManagersRequests + 1 /\ ManagersRequests \in Nat
    <3>1. Loads(L, Manager)' = Loads(L, Manager) + OneIfLoad(m, Manager)
      BY <1>1, <1>3, <2>4, LoadsAppend
    <3>2. OneIfLoad(m, Manager) = 1
      BY <1>3 DEF OneIfLoad
    <3>3. Loads(Manager, L)' = Loads(Manager, L)
      BY <1>1, <1>6, LoadsSame
    <3>4. Loads(L, Manager) \in Nat /\ Loads(Manager, L) \in Nat
      BY <1>1, LoadsType
    <3>5. QED BY <2>7, <3>1, <3>2, <3>3, <3>4 DEF ManagersRequests
  <2>9. CASE pipelined
    <3>1. AtOnce
      BY <1>2, <2>9 DEF Up
    <3>2. AtOnce'
      BY SMTT(30), <1>1, <2>2, <2>4, <2>7, <2>8, <3>1 DEF AtOnce
    <3>3. QED
      BY <1>2, <1>4, <1>5, <2>3, <2>5, <2>6, <2>9, <3>2 DEF BootInv, Stages, Up
  <2>10. CASE ~pipelined
    <3>1. InTurn /\ outstanding[Manager] = 0
      BY <1>2, <2>10 DEF Up, ManagerRequest, MaySend
    <3>2. OneIfServing = 0
      <4>1. Loads(L, Manager) \in Nat /\ Loads(Manager, L) \in Nat
        BY <1>1, LoadsType
      <4>2. QED BY <2>7, <3>1, <4>1 DEF InTurn, ManagersRequests
    <3>3. ~Preparing(Manager)'
      BY <1>5, <3>2 DEF OneIfServing, Serving, Preparing
    <3>4. pc[L] \in {"serve", "reply"} =>
            \A i \in DOMAIN mailbox'[L] : mailbox'[L][i].sender = Manager
      BY <1>3, <2>4, <3>1 DEF InTurn, IsLoad
    <3>5. InTurn'
      BY <1>5, <2>2, <2>8, <3>1, <3>3, <3>4 DEF InTurn
    <3>6. QED
      BY <1>2, <1>4, <1>5, <2>3, <2>5, <2>6, <2>10, <3>5 DEF BootInv, Stages, Up
  <2>11. QED BY <2>9, <2>10
<1>9. QED BY <1>7, <1>8

LEMMA ManagerReplyKeeps ==
  ASSUME BootInv, MailInv', ManagerReply
  PROVE  BootInv'
<1> DEFINE L == LoaderEndpoint
<1>1. /\ MailTypeOK /\ outstanding[Manager] \in Nat
      /\ L \in Processes /\ Manager \in Processes /\ Receive(Manager)
  BY Programs DEF ManagerReply, BootInv, BootTyped, TypeOK
<1>2. Up
  BY ManagerUp DEF ManagerReply
<1>3. /\ outstanding' = [outstanding EXCEPT ![Manager] = outstanding[Manager] - 1]
      /\ UNCHANGED <<created, pc, cookie, awaiting, found, cell, request, bootData,
                     result, pipelined>>
  BY DEF ManagerReply, Receive
<1>4. /\ mailbox' = [mailbox EXCEPT ![Manager] = Tail(mailbox[Manager])]
      /\ mailbox'[Manager] = Tail(mailbox[Manager])
      /\ mailbox[Manager] # << >> /\ 1 \in DOMAIN mailbox[Manager]
      /\ \A i \in DOMAIN mailbox'[Manager] :
           /\ i + 1 \in DOMAIN mailbox[Manager]
           /\ mailbox'[Manager][i] = mailbox[Manager][i + 1]
  BY <1>1, TailOf DEF Receive
<1>5. mailbox'[L] = mailbox[L] /\ mailbox'[Bootstrap] = mailbox[Bootstrap]
  BY <1>1, <1>4, Programs DEF MailTypeOK
<1>6. /\ OneIfServing' = OneIfServing /\ OneIfServing \in {0, 1}
      /\ OneIfPreparing' = OneIfPreparing /\ OneIfAwaiting' = OneIfAwaiting
  BY <1>3
  DEF OneIfServing, OneIfPreparing, OneIfAwaiting, Serving, Preparing
<1>7. ManagersRequests = ManagersRequests' + 1 /\ ManagersRequests' \in Nat
  <2>1. OneIfLoad(mailbox[Manager][1], L) = 1
    BY <1>2, <1>4 DEF Up, ManagerMail, OneIfLoad
  <2>2. Loads(Manager, L) = Loads(Manager, L)' + OneIfLoad(mailbox[Manager][1], L)
    BY <1>1, <1>4, LoadsTail
  <2>3. Loads(L, Manager)' = Loads(L, Manager) /\ Loads(L, Manager) \in Nat
    BY <1>1, <1>5, LoadsSame, LoadsType
  <2>4. Loads(Manager, L)' \in Nat
    <3>1. MailTypeOK'
      BY DEF MailInv
    <3>2. Cardinality(LoadIn(mailbox'[Manager], L)) \in Nat
      BY <1>1, <3>1, CountType DEF MailTypeOK
    <3>3. QED BY <3>2 DEF Loads, LoadMessages, LoadIn
  <2>5. QED BY <1>6, <2>1, <2>2, <2>3, <2>4 DEF ManagersRequests
<1>8. ManagersRequests <= outstanding[Manager]
  BY <1>1, <1>2, <1>7 DEF Up, AtOnce, InTurn
<1>9. /\ outstanding'[Manager] = outstanding[Manager] - 1
      /\ outstanding[Manager] >= 1
      /\ outstanding'[Bootstrap] = outstanding[Bootstrap]
  BY <1>1, <1>3, <1>7, <1>8, Programs DEF BootInv, BootTyped, TypeOK
<1>10. BootTyped'
  <2>1. outstanding' \in [Processes -> Nat]
    BY <1>1, <1>3, <1>9 DEF BootInv, BootTyped, TypeOK
  <2>2. TypeOK'
    BY <1>3, <2>1 DEF BootInv, BootTyped, TypeOK, MailInv
  <2>3. QED BY <1>3, <2>2 DEF BootInv, BootTyped
<1>11. LoaderMail' /\ ManagerMail'
  BY <1>2, <1>4, <1>5 DEF Up, LoaderMail, ManagerMail, IsLoad
<1>12. BootstrapServed' /\ HasAsked'
  BY <1>2, <1>3, <1>5, <1>9
  DEF Up, BootstrapServed, HasAsked, Empty, OneMessage, IsLoad
<1>13. AtOnce => AtOnce'
  BY <1>1, <1>3, <1>5, <1>6, <1>7, <1>8, <1>9 DEF AtOnce
<1>14. InTurn => InTurn'
  <2>1. /\ Preparing(Manager)' = Preparing(Manager)
        /\ Exchange(L)' = Exchange(L)
    BY <1>3, <1>5 DEF Preparing, Exchange, Empty, OneMessage
  <2>2. InTurn => outstanding'[Manager] <= 1 /\ ManagersRequests' = outstanding'[Manager]
    BY <1>1, <1>7, <1>9 DEF InTurn
  <2>3. QED BY <1>3, <1>5, <2>1, <2>2 DEF InTurn
<1>15. QED
  BY <1>2, <1>3, <1>10, <1>11, <1>12, <1>13, <1>14 DEF BootInv, Stages, Up

-----------------------------------------------------------------------------
(* The invariant holds throughout                                          *)

LEMMA BootStart == Init => BootInv
<1> SUFFICES ASSUME Init PROVE BootInv
  OBVIOUS
<1>1. MailInv
  BY MailStart DEF Init
<1>2. NoRequest \in Messages
  BY RequestType DEF NoRequest, UserTypes
<1>3. TypeOK
  <2>1. pc \in [Processes -> Places] /\ pipelined \in BOOLEAN /\ found \in BOOLEAN
    BY BootAssumption DEF Init, Places
  <2>2. /\ cookie \in [Processes -> Nat] /\ awaiting \in [Processes -> Nat]
        /\ outstanding \in [Processes -> Nat]
        /\ \A p \in Processes : awaiting[p] = 0
    BY DEF Init
  <2>3. cell \in {0, Bootstrap} /\ result \in 0 .. 3 /\ request \in Messages
    BY <1>2 DEF Init
  <2>4. bootData \in BOOLEAN
    BY DEF Init
  <2>5. QED BY <1>1, <2>1, <2>2, <2>3, <2>4 DEF TypeOK, MailInv
<1>4. BootTyped
  BY <1>1, <1>3, Programs DEF Init, BootTyped
<1>5. Alone
  BY Programs DEF Init, MailInit, Alone, NoManager, Exchange, Empty, Bootstrap
<1>6. QED BY <1>4, <1>5 DEF BootInv, Stages

LEMMA BootUnchanged ==
  ASSUME BootInv, UNCHANGED vars
  PROVE  BootInv'
<1>1. UNCHANGED <<created, mailbox, nextId, pc, cookie, awaiting, found, cell, request,
                  bootData, result, pipelined, outstanding>>
  BY DEF vars, mail, local
<1>2. MailInv'
  BY <1>1 DEF BootInv, BootTyped, MailInv, MailTypeOK, DeliveredInOrder, IdsUsed,
              FromUser
<1>3. BootTyped'
  BY <1>1, <1>2 DEF BootInv, BootTyped, TypeOK, MailInv
<1>4. /\ Exchange(Bootstrap)' = Exchange(Bootstrap)
      /\ Exchange(LoaderEndpoint)' = Exchange(LoaderEndpoint)
      /\ Preparing(Bootstrap)' = Preparing(Bootstrap)
      /\ Preparing(Manager)' = Preparing(Manager)
  BY <1>1 DEF Exchange, Preparing, Empty, OneMessage
<1>5. /\ Alone => Alone'
      /\ Announcing => Announcing'
      /\ Announced => Announced'
  BY <1>1, <1>4
  DEF Alone, Announcing, Announced, NoManager, Empty, OneMessage, IsReady
<1>6. /\ Asked => Asked'
      /\ Refused => Refused'
  BY <1>1, <1>4
  DEF Asked, Refused, NoManager, HasAsked, Empty, OneMessage, IsLoad
<1>7. ASSUME Up PROVE Up'
  <2>1. BootstrapServed' /\ HasAsked' /\ LoaderMail' /\ ManagerMail'
    BY <1>1, <1>7
    DEF Up, BootstrapServed, HasAsked, LoaderMail, ManagerMail, Empty, OneMessage, IsLoad
  <2>2. ManagersRequests' = ManagersRequests
    BY <1>1, LoadsSame, Programs DEF ManagersRequests, OneIfServing, Serving
  <2>3. AtOnce => AtOnce'
    BY <1>1, <1>4, <2>2 DEF AtOnce, OneIfPreparing, OneIfAwaiting
  <2>4. InTurn => InTurn'
    BY <1>1, <1>4, <2>2 DEF InTurn
  <2>5. QED BY <1>1, <1>7, <2>1, <2>3, <2>4 DEF Up
<1>8. QED BY <1>3, <1>5, <1>6, <1>7 DEF BootInv, Stages

LEMMA BootStep ==
  ASSUME BootInv, [Next]_vars
  PROVE  BootInv'
<1>1. MailInv'
  BY BootMail, MailStep DEF BootInv, BootTyped
<1>2. CASE UNCHANGED vars
  BY <1>2, BootUnchanged
<1>3. CASE BootstrapStep
  BY <1>1, <1>3, AskBootstrap, DiscardBootstrap, BootstrapAnswers, CreateKeeps,
     StartKeeps, WaitReadyKeeps, RequestKeeps, ExitKeeps
  DEF BootstrapStep
<1>4. CASE LoaderStep(LoaderEndpoint)
  BY <1>1, <1>4, AskLoader, DiscardLoader, RuntimeKeeps, PageSizeKeeps, AnnounceKeeps,
     ServeKeeps, LoaderAnswers, LoadKeeps, ReplyKeeps
  DEF LoaderStep
<1>5. CASE ManagerRequest
  BY <1>1, <1>5, ManagerRequestKeeps
<1>6. CASE ManagerReply
  BY <1>1, <1>6, ManagerReplyKeeps
<1>7. QED BY <1>2, <1>3, <1>4, <1>5, <1>6 DEF Next

LEMMA AlwaysBootInv == Spec => []BootInv
BY BootStart, BootStep, PTL DEF Spec

-----------------------------------------------------------------------------
(* What the programs can rely on                                           *)

\* States keep their types.
THEOREM TypeCorrect == Spec => []TypeOK
<1>1. BootInv => TypeOK
  BY DEF BootInv, BootTyped
<1>2. QED BY <1>1, AlwaysBootInv, PTL

\* The programs never do with their mailboxes what sys_ipc_send and
\* sys_ipc_receive do not allow: they send messages of the right form, in the
\* name of processes that exist.
THEOREM ImplementsMail == Spec => MailSpec
<1>1. Init => MailInit
  BY DEF Init
<1>2. BootInv /\ [Next]_vars => [MailNext]_mail
  BY BootMail
<1>3. QED BY <1>1, <1>2, AlwaysBootInv, PTL DEF Spec, MailSpec

\* Mailboxes deliver in order while the system boots.
THEOREM BootInOrder == Spec => []DeliveredInOrder
<1>1. BootInv => DeliveredInOrder
  BY DEF BootInv, BootTyped, MailInv
<1>2. QED BY <1>1, AlwaysBootInv, PTL

\* A program that waits for the kernel, with nobody sending to it unasked, has
\* the answer and nothing else in its mailbox.
LEMMA WaitingAlone ==
  ASSUME BootInv, NEW p \in Processes, awaiting[p] # 0
  PROVE  /\ p \in {Bootstrap, LoaderEndpoint}
         /\ Exchange(p) \/ (p = LoaderEndpoint /\ Up /\ pipelined)
<1>1. p \in {Bootstrap, LoaderEndpoint}
  BY DEF BootInv, BootTyped
<1>2. pc[p] \in {"pageSize", "bootInfo", "module"}
  BY AsksTypes DEF BootInv, BootTyped, TypeOK
<1>3. CASE p = Bootstrap
  BY <1>2, <1>3
  DEF BootInv, Stages, Alone, Announcing, Announced, Asked, Refused, Up, HasAsked
<1>4. CASE p = LoaderEndpoint
  BY <1>2, <1>4, LoaderPlaces DEF Announcing, Up, InTurn
<1>5. QED BY <1>1, <1>3, <1>4

\* send_kernel_message takes nothing for the kernel's answer but the kernel's
\* answer to the message it has just sent, as long as programs wait for replies.
THEOREM AnswersStayAuthentic == Spec => []AnswersAuthentic
<1>1. ASSUME BootInv PROVE AnswersAuthentic
  <2> SUFFICES ASSUME NEW p \in Processes, NEW m \in InMailbox(p),
                      ~pipelined, awaiting[p] # 0
               PROVE  m.sender = Kernel /\ m.type = Asks[pc[p]]
    BY DEF AnswersAuthentic, FromUser
  <2>1. Exchange(p) /\ mailbox[p] \in Seq(Messages)
    BY <1>1, WaitingAlone DEF BootInv, BootTyped, TypeOK, MailTypeOK
  <2>2. m = mailbox[p][1]
    BY <2>1 DEF Exchange, OneMessage, InMailbox
  <2>3. QED BY <2>1, <2>2 DEF Exchange
<1>2. QED BY <1>1, AlwaysBootInv, PTL

LEMMA OneLoad ==
  ASSUME MailTypeOK, NEW e \in Processes, NEW from,
         Empty(e) \/ OneMessage(e)
  PROVE  Loads(e, from)
           = IF OneMessage(e) /\ IsLoad(mailbox[e][1], from) THEN 1 ELSE 0
<1>1. mailbox[e] \in Seq(Messages)
  BY DEF MailTypeOK
<1>2. CASE Empty(e)
  <2>1. ~OneMessage(e)
    BY <1>2 DEF Empty, OneMessage
  <2>2. Loads(e, from) = 0
    BY <1>2, NoLoads DEF Empty
  <2>3. QED BY <2>1, <2>2
<1>3. CASE OneMessage(e)
  <2>1. DOMAIN mailbox[e] = {1}
    BY <1>1, <1>3 DEF OneMessage
  <2>2. CASE IsLoad(mailbox[e][1], from)
    <3>1. LoadMessages(e, from) = {1}
      BY <2>1, <2>2 DEF LoadMessages, IsLoad
    <3>2. Cardinality({1}) = 1
      BY FS_Singleton
    <3>3. QED BY <1>3, <2>2, <3>1, <3>2 DEF Loads
  <2>3. CASE ~IsLoad(mailbox[e][1], from)
    <3>1. LoadMessages(e, from) = {}
      BY <2>1, <2>3 DEF LoadMessages, IsLoad
    <3>2. Loads(e, from) = 0
      BY <3>1, FS_EmptySet DEF Loads
    <3>3. QED BY <2>3, <3>2
  <2>4. QED BY <2>2, <2>3
<1>4. QED BY <1>2, <1>3

\* Bootstrap's one request, when it has made one, is where the stage says.
LEMMA BootstrapCounted ==
  ASSUME BootInv, ~pipelined
  PROVE  outstanding[Bootstrap]
           = Loads(LoaderEndpoint, Bootstrap)
               + (IF Serving(Bootstrap) THEN 1 ELSE 0)
               + Loads(Bootstrap, LoaderEndpoint)
<1> DEFINE L == LoaderEndpoint
           B == Bootstrap
<1>1. /\ MailTypeOK /\ L \in Processes /\ B \in Processes
      /\ mailbox[L] \in Seq(Messages)
  BY Programs DEF BootInv, BootTyped, TypeOK, MailTypeOK
<1>2. ASSUME NEW e, Empty(e) PROVE ~OneMessage(e)
  BY <1>2 DEF Empty, OneMessage
<1>3. /\ (Empty(L) \/ OneMessage(L)) =>
             Loads(L, B) = IF OneMessage(L) /\ IsLoad(mailbox[L][1], B) THEN 1 ELSE 0
      /\ (Empty(B) \/ OneMessage(B)) =>
             Loads(B, L) = IF OneMessage(B) /\ IsLoad(mailbox[B][1], L) THEN 1 ELSE 0
  BY <1>1, OneLoad
<1>4. ASSUME NEW e \in {B, L}, NEW from \in {B, L}, Exchange(e)
      PROVE  Loads(e, from) = 0
  <2>1. OneMessage(e) => ~IsLoad(mailbox[e][1], from)
    <3>1. CASE awaiting[e] = 0
      BY <1>2, <1>4, <3>1 DEF Exchange
    <3>2. CASE awaiting[e] # 0
      BY <1>4, <3>2, Programs DEF Exchange, IsLoad
    <3>3. QED BY <3>1, <3>2
  <2>2. QED BY <1>1, <1>4, <2>1, OneLoad DEF Exchange
<1>5. CASE Alone
  <2>1. Loads(L, B) = 0 /\ Loads(B, L) = 0
    BY <1>2, <1>3, <1>4, <1>5 DEF Alone
  <2>2. ~Serving(B) /\ outstanding[B] = 0
    BY <1>5 DEF Alone, Serving
  <2>3. QED BY <2>1, <2>2
<1>6. CASE Announcing
  <2>1. Loads(L, B) = 0 /\ Loads(B, L) = 0
    BY <1>2, <1>3, <1>4, <1>6 DEF Announcing
  <2>2. ~Serving(B) /\ outstanding[B] = 0
    BY <1>6 DEF Announcing, Serving
  <2>3. QED BY <2>1, <2>2
<1>7. CASE Announced
  <2>1. Loads(L, B) = 0 /\ Loads(B, L) = 0
    BY <1>2, <1>3, <1>7 DEF Announced, IsReady, IsLoad
  <2>2. ~Serving(B) /\ outstanding[B] = 0
    BY <1>7 DEF Announced, Serving
  <2>3. QED BY <2>1, <2>2
<1>8. CASE Asked
  <2>1. Loads(B, L) = 0 /\ outstanding[B] = 1
    BY <1>2, <1>3, <1>8 DEF Asked, HasAsked
  <2>2. CASE pc[L] = "serve"
    <3>1. OneMessage(L) /\ IsLoad(mailbox[L][1], B)
      BY <1>8, <2>2 DEF Asked, Preparing
    <3>2. Loads(L, B) = 1 /\ ~Serving(B)
      BY <1>3, <2>2, <3>1 DEF Serving
    <3>3. QED BY <2>1, <3>2
  <2>3. CASE pc[L] # "serve"
    <3>1. Preparing(B) /\ Exchange(L)
      BY <1>8, <2>3 DEF Asked
    <3>2. Loads(L, B) = 0 /\ Serving(B)
      BY <1>4, <3>1 DEF Serving, Preparing
    <3>3. QED BY <2>1, <3>2
  <2>4. QED BY <2>2, <2>3
<1>9. CASE Refused
  <2>1. Loads(L, B) = 0 /\ outstanding[B] = 1
    BY <1>2, <1>3, <1>9 DEF Refused, HasAsked
  <2>2. CASE pc[L] = "reply"
    <3>1. Empty(B) /\ Serving(B)
      BY <1>9, <2>2 DEF Refused, Serving
    <3>2. QED BY <1>2, <1>3, <2>1, <3>1
  <2>3. CASE pc[L] # "reply"
    <3>1. OneMessage(B) /\ IsLoad(mailbox[B][1], L) /\ ~Serving(B)
      BY <1>9, <2>3 DEF Refused, Serving
    <3>2. QED BY <1>3, <2>1, <3>1
  <2>4. QED BY <2>2, <2>3
<1>10. CASE Up
  <2>1. Loads(L, B) = 0
    <3>1. \A i \in DOMAIN mailbox[L] : ~IsLoad(mailbox[L][i], B)
      BY <1>10, Programs DEF Up, LoaderMail, IsLoad
    <3>2. LoadMessages(L, B) = {}
      BY <3>1 DEF LoadMessages, IsLoad
    <3>3. QED BY <3>2, FS_EmptySet DEF Loads
  <2>2. outstanding[B] = 1
    BY <1>10 DEF Up, HasAsked
  <2>3. CASE Empty(B)
    <3>1. Serving(B)
      BY <1>2, <1>10, <2>3 DEF Up, BootstrapServed, Serving
    <3>2. QED BY <1>2, <1>3, <2>1, <2>2, <2>3, <3>1
  <2>4. CASE ~Empty(B)
    <3>1. OneMessage(B) /\ IsLoad(mailbox[B][1], L) /\ ~Serving(B)
      BY <1>10, <2>4, Programs DEF Up, BootstrapServed, Serving
    <3>2. QED BY <1>3, <2>1, <2>2, <3>1
  <2>5. QED BY <2>3, <2>4
<1>11. QED
  BY <1>5, <1>6, <1>7, <1>8, <1>9, <1>10 DEF BootInv, Stages

LEMMA ManagerCounted ==
  ASSUME BootInv, ~pipelined
  PROVE  ManagersRequests = outstanding[Manager]
<1> DEFINE L == LoaderEndpoint
<1>1. /\ MailTypeOK /\ L \in Processes /\ Manager \in Processes
      /\ mailbox[L] \in Seq(Messages)
  BY Programs DEF BootInv, BootTyped, TypeOK, MailTypeOK
<1>2. CASE Up
  BY <1>2 DEF Up, InTurn
<1>3. CASE ~Up
  <2>1. NoManager
    BY <1>3
    DEF BootInv, Stages, Alone, Announcing, Announced, Asked, Refused
  <2>2. Loads(Manager, L) = 0
    BY <2>1, NoLoads DEF NoManager, Empty
  <2>3. OneIfServing = 0
    BY <1>3, Programs
    DEF OneIfServing, Serving, BootInv, Stages, Alone, Announcing, Announced, Asked,
        Refused, Preparing
  <2>4. Loads(L, Manager) = 0
    <3>1. Empty(L) \/ OneMessage(L)
      BY <1>3
      DEF BootInv, Stages, Alone, Announcing, Announced, Asked, Refused, Exchange
    <3>2. OneMessage(L) => ~IsLoad(mailbox[L][1], Manager)
      <4>1. Empty(L) => ~OneMessage(L)
        BY DEF Empty, OneMessage
      <4>2. QED
        BY <1>3, <4>1, Programs
        DEF BootInv, Stages, Alone, Announcing, Announced, Asked, Refused, Exchange,
            IsLoad
    <3>3. QED BY <1>1, <3>1, <3>2, OneLoad
  <2>5. QED BY <2>1, <2>2, <2>3, <2>4 DEF ManagersRequests, NoManager
<1>4. QED BY <1>2, <1>3

\* No load request is lost or served twice while programs wait for replies.
THEOREM RequestsStayCounted == Spec => []RequestsSurvive
<1>1. ASSUME BootInv PROVE RequestsSurvive
  <2> SUFFICES ASSUME ~pipelined PROVE AllRequestsSurvive
    BY DEF RequestsSurvive
  <2>1. ManagersRequests = outstanding[Manager]
    BY <1>1, ManagerCounted
  <2>2. QED
    BY <1>1, <2>1, BootstrapCounted
    DEF AllRequestsSurvive, ManagersRequests, OneIfServing, Loads
<1>2. QED BY <1>1, AlwaysBootInv, PTL

\* Bootstrap's reply says success exactly when ProcessManager runs.
THEOREM RepliesStayTruthful == Spec => []ReplyTruthful
<1>1. ASSUME BootInv PROVE ReplyTruthful
  <2> SUFFICES ASSUME NEW i \in LoadMessages(Bootstrap, LoaderEndpoint)
               PROVE  mailbox[Bootstrap][i].status = 0 <=> pc[Manager] = "running"
    BY DEF ReplyTruthful
  <2>1. mailbox[Bootstrap] \in Seq(Messages)
    BY <1>1, Programs DEF BootInv, BootTyped, TypeOK, MailTypeOK
  <2>2. i \in DOMAIN mailbox[Bootstrap] /\ IsLoad(mailbox[Bootstrap][i], LoaderEndpoint)
    BY DEF LoadMessages, IsLoad
  <2>3. ~Empty(Bootstrap)
    BY <2>2 DEF Empty
  <2>4. OneMessage(Bootstrap)
    BY <1>1, <2>3
    DEF BootInv, Stages, Alone, Announcing, Announced, Asked, Refused, Up,
        BootstrapServed, Exchange
  <2>5. i = 1
    BY <2>1, <2>2, <2>4 DEF OneMessage
  <2>6. ~Alone /\ ~Announced
    BY <2>2, <2>3, <2>5, Programs DEF Alone, Announced, Exchange, IsLoad, IsReady
  <2>7. CASE Refused
    BY <2>3, <2>5, <2>7 DEF Refused, NoManager
  <2>8. CASE Up
    BY <2>3, <2>5, <2>8 DEF Up, BootstrapServed
  <2>9. QED
    BY <1>1, <2>3, <2>6, <2>7, <2>8 DEF BootInv, Stages, Announcing, Asked
<1>2. QED BY <1>1, AlwaysBootInv, PTL

-----------------------------------------------------------------------------
(* The answer a program waits for is there                                 *)

\* Manager's requests leave room for the kernel's answers to Loader.
RoomForAnswers == TRUE \in Pipelining => Requests <= Capacity

LEMMA AnswerNotRefused ==
  ASSUME BootInv, RoomForAnswers, Ask(LoaderEndpoint)
  PROVE  ~Full(LoaderEndpoint)
<1> DEFINE L == LoaderEndpoint
<1>1. /\ pc[L] \in {"pageSize", "bootInfo", "module"} /\ awaiting[L] = 0
      /\ L \in Processes /\ mailbox[L] \in Seq(Messages)
  BY AsksTypes, Programs DEF Ask, BootInv, BootTyped, TypeOK, MailTypeOK
<1>2. CASE Exchange(L)
  <2>1. Len(mailbox[L]) = 0
    BY <1>1, <1>2 DEF Exchange, Empty
  <2>2. QED BY <2>1, MailAssumption DEF Full
<1>3. CASE Up /\ Preparing(Manager) /\ pipelined
  <2>1. AtOnce /\ OneIfPreparing = 1 /\ OneIfAwaiting = 0
    BY <1>1, <1>3 DEF Up, OneIfPreparing, OneIfAwaiting
  <2>2. Requests <= Capacity /\ Requests \in Nat /\ Capacity \in Nat
    BY <1>3, MailAssumption, Programs DEF RoomForAnswers, BootInv, BootTyped
  <2>3. cookie[Manager] <= Requests /\ cookie[Manager] \in Nat
    BY Programs DEF BootInv, BootTyped, TypeOK
  <2>4. Len(mailbox[L]) < Capacity
    BY <1>1, <2>1, <2>2, <2>3 DEF AtOnce
  <2>5. QED BY <1>1, <2>2, <2>4 DEF Full
<1>4. QED BY <1>1, <1>2, <1>3, LoaderPlaces DEF Announcing, Up, InTurn

\* What the step has to show: Loader's mailbox while Manager does not wait.
LoaderAnswered ==
  awaiting[LoaderEndpoint] # 0 =>
    \E i \in DOMAIN mailbox[LoaderEndpoint] :
      /\ mailbox[LoaderEndpoint][i].sender = Kernel
      /\ mailbox[LoaderEndpoint][i].cookie = awaiting[LoaderEndpoint]

LEMMA AnswerFound ==
  ASSUME BootInv, LoaderAnswered
  PROVE  AnswerWaiting
<1> SUFFICES ASSUME NEW p \in Processes, awaiting[p] # 0
             PROVE  \E i \in DOMAIN mailbox[p] :
                      /\ mailbox[p][i].sender = Kernel
                      /\ mailbox[p][i].cookie = awaiting[p]
  BY DEF AnswerWaiting, InMailbox, FromUser
<1>1. mailbox[p] \in Seq(Messages)
  BY DEF BootInv, BootTyped, TypeOK, MailTypeOK
<1>2. CASE Exchange(p)
  <2>1. 1 \in DOMAIN mailbox[p]
    BY <1>1, <1>2 DEF Exchange, OneMessage
  <2>2. QED BY <1>2, <2>1 DEF Exchange
<1>3. CASE p = LoaderEndpoint
  BY <1>3 DEF LoaderAnswered
<1>4. QED BY <1>2, <1>3, WaitingAlone

\* Steps that add at most one message to Loader's mailbox and leave Loader
\* waiting as it was.
LEMMA AnswerStays ==
  ASSUME LoaderAnswered, awaiting'[LoaderEndpoint] = awaiting[LoaderEndpoint],
         \A i \in DOMAIN mailbox[LoaderEndpoint] :
           \E j \in DOMAIN mailbox'[LoaderEndpoint] :
             mailbox'[LoaderEndpoint][j] = mailbox[LoaderEndpoint][i]
  PROVE  LoaderAnswered'
BY DEF LoaderAnswered

LEMMA OthersMail ==
  ASSUME BootInv, LoaderAnswered, BootstrapStep \/ ManagerRequest \/ ManagerReply
  PROVE  LoaderAnswered'
<1> DEFINE L == LoaderEndpoint
<1>1. /\ MailTypeOK /\ L \in Processes /\ mailbox[L] \in Seq(Messages)
      /\ L # Bootstrap /\ L # Manager
  BY Programs DEF BootInv, BootTyped, TypeOK, MailTypeOK
<1>2. awaiting'[L] = awaiting[L]
  BY <1>1
  DEF BootstrapStep, Ask, Discard, BootstrapPageSize, BootstrapBootInfo,
      BootstrapCreate, BootstrapModule, BootstrapStart, BootstrapWaitReady,
      BootstrapRequest, BootstrapExit, Answered, ManagerRequest, ManagerReply,
      BootInv, BootTyped, TypeOK
<1>3. CASE mailbox'[L] = mailbox[L]
  BY <1>2, <1>3 DEF LoaderAnswered
<1>4. CASE \E m : mailbox'[L] = Append(mailbox[L], m)
  <2>1. PICK m : mailbox'[L] = Append(mailbox[L], m)
    BY <1>4
  <2>2. \A i \in DOMAIN mailbox[L] :
          i \in DOMAIN mailbox'[L] /\ mailbox'[L][i] = mailbox[L][i]
    BY <1>1, <2>1
  <2>3. QED BY <1>2, <2>2, AnswerStays
<1>5. ASSUME NEW p \in {Bootstrap, Manager}, RequestLoad(p)
      PROVE  mailbox'[L] = mailbox[L] \/ \E m : mailbox'[L] = Append(mailbox[L], m)
  BY <1>1, <1>5 DEF RequestLoad, Send, TryPush, MailTypeOK
<1>6. ASSUME NEW p \in {Bootstrap, Manager}, Receive(p)
      PROVE  mailbox'[L] = mailbox[L]
  BY <1>1, <1>6 DEF Receive, MailTypeOK
<1>7. CASE Ask(Bootstrap)
  <2>1. mailbox'[L] = mailbox[L]
    BY <1>1, <1>7 DEF Ask, AskKernel, TryPush, MailTypeOK
  <2>2. QED BY <1>3, <2>1
<1>8. CASE Discard(Bootstrap) \/ BootstrapPageSize \/ BootstrapBootInfo
             \/ BootstrapModule \/ BootstrapWaitReady \/ ManagerReply
  <2>1. Receive(Bootstrap) \/ Receive(Manager)
    BY <1>8
    DEF Discard, BootstrapPageSize, BootstrapBootInfo, BootstrapModule,
        BootstrapWaitReady, Answered, ManagerReply
  <2>2. QED BY <1>3, <1>6, <2>1
<1>9. CASE BootstrapCreate \/ BootstrapStart \/ BootstrapExit
  <2>1. mailbox' = mailbox
    BY <1>9 DEF BootstrapCreate, CreateProcess, BootstrapStart, BootstrapExit, mail
  <2>2. QED BY <1>3, <2>1
<1>10. CASE BootstrapRequest \/ ManagerRequest
  <2>1. UNCHANGED mailbox \/ RequestLoad(Bootstrap) \/ RequestLoad(Manager)
    BY <1>10 DEF BootstrapRequest, ManagerRequest, mail
  <2>2. QED BY <1>3, <1>4, <1>5, <2>1
<1>11. QED BY <1>7, <1>8, <1>9, <1>10 DEF BootstrapStep

LEMMA LoaderMailStep ==
  ASSUME BootInv, LoaderAnswered, RoomForAnswers, LoaderStep(LoaderEndpoint)
  PROVE  LoaderAnswered'
<1> DEFINE L == LoaderEndpoint
<1>1. /\ MailTypeOK /\ L \in Processes /\ mailbox[L] \in Seq(Messages)
      /\ cookie[L] \in Nat
      /\ awaiting[L] # 0 => pc[L] \in {"pageSize", "bootInfo", "module"}
  BY AsksTypes, Programs DEF BootInv, BootTyped, TypeOK, MailTypeOK
<1>2. CASE Ask(L)
  <2>1. NextCookie(L) \in Nat /\ Asks[pc[L]] \in KernelTypes
    BY <1>1, <1>2, AsksTypes DEF NextCookie, Ask
  <2>2. PICK a \in Messages : /\ a.sender = Kernel /\ a.cookie = NextCookie(L)
                              /\ mailbox' = TryPush(L, a)
    BY <1>1, <1>2, <2>1, AnswerType DEF Ask
  <2>3. mailbox'[L] = Append(mailbox[L], a)
    BY <1>1, <1>2, <2>2, AnswerNotRefused, PushedOn
  <2>4. /\ Len(mailbox[L]) + 1 \in DOMAIN mailbox'[L]
        /\ mailbox'[L][Len(mailbox[L]) + 1] = a
    BY <1>1, <2>3
  <2>5. awaiting'[L] = NextCookie(L)
    BY <1>1, <1>2 DEF Ask, BootInv, BootTyped, TypeOK
  <2>6. QED BY <2>2, <2>4, <2>5 DEF LoaderAnswered
<1>3. CASE Discard(L)
  <2>1. /\ Head(mailbox[L]) = mailbox[L][1] /\ mailbox'[L] = Tail(mailbox[L])
        /\ mailbox[L] # << >>
    BY <1>1, <1>3, TailOf DEF Discard, Receive
  <2>2. awaiting[L] # 0 /\ awaiting' = awaiting /\ mailbox[L][1].cookie # awaiting[L]
    BY <1>3, <2>1 DEF Discard, Accepts
  <2>3. PICK i \in DOMAIN mailbox[L] :
          mailbox[L][i].sender = Kernel /\ mailbox[L][i].cookie = awaiting[L]
    BY <2>2 DEF LoaderAnswered
  <2>4. i \in 1 .. Len(mailbox[L]) /\ i # 1 /\ Len(mailbox[L]) \in Nat
    BY <1>1, <2>2, <2>3
  <2>5. /\ Len(Tail(mailbox[L])) = Len(mailbox[L]) - 1
        /\ Tail(mailbox[L]) \in Seq(Messages)
        /\ \A j \in 1 .. Len(Tail(mailbox[L])) : Tail(mailbox[L])[j] = mailbox[L][j + 1]
    BY <1>1, <2>1, HeadTailProperties
  <2>6. i - 1 \in 1 .. Len(Tail(mailbox[L])) /\ (i - 1) + 1 = i
    BY <2>4, <2>5
  <2>7. i - 1 \in DOMAIN mailbox'[L] /\ mailbox'[L][i - 1] = mailbox[L][i]
    BY <2>1, <2>5, <2>6
  <2>8. QED BY <2>2, <2>3, <2>7 DEF LoaderAnswered
<1>4. CASE LoaderPageSize(L) \/ LoaderBootInfo(L) \/ LoaderModule(L)
  <2>1. awaiting'[L] = 0
    BY <1>1, <1>4
    DEF LoaderPageSize, LoaderBootInfo, LoaderModule, Answered, BootInv, BootTyped, TypeOK
  <2>2. QED BY <2>1 DEF LoaderAnswered
<1>5. CASE \/ LoaderRuntime(L) \/ LoaderAnnounce(L) \/ LoaderServe(L)
           \/ LoaderLoad(L) \/ LoaderReply(L)
  <2>1. awaiting'[L] = 0
    BY <1>1, <1>5
    DEF LoaderRuntime, LoaderAnnounce, LoaderServe, LoaderLoad, LoaderReply
  <2>2. QED BY <2>1 DEF LoaderAnswered
<1>6. QED BY <1>2, <1>3, <1>4, <1>5 DEF LoaderStep

\* Whoever waits for the kernel finds the answer in its mailbox: it is neither
\* refused by a full mailbox nor thrown away in the retry loop.  Of the programs
\* this needs that Manager, when it does not wait, leaves a slot free.
THEOREM AnswersWait == RoomForAnswers /\ Spec => []AnswerWaiting
<1> SUFFICES ASSUME RoomForAnswers PROVE Spec => []AnswerWaiting
  OBVIOUS
<1>1. Init => LoaderAnswered
  BY Programs DEF Init, LoaderAnswered
<1>2. BootInv /\ LoaderAnswered /\ [Next]_vars => LoaderAnswered'
  <2> SUFFICES ASSUME BootInv, LoaderAnswered, [Next]_vars PROVE LoaderAnswered'
    OBVIOUS
  <2>1. CASE UNCHANGED vars
    BY <2>1 DEF vars, mail, LoaderAnswered
  <2>2. CASE BootstrapStep \/ ManagerRequest \/ ManagerReply
    BY <2>2, OthersMail
  <2>3. CASE LoaderStep(LoaderEndpoint)
    BY <2>3, LoaderMailStep
  <2>4. QED BY <2>1, <2>2, <2>3 DEF Next
<1>3. BootInv /\ LoaderAnswered => AnswerWaiting
  BY AnswerFound
<1>4. QED BY <1>1, <1>2, <1>3, AlwaysBootInv, PTL DEF Spec
=============================================================================
