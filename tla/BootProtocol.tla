---------------------------- MODULE BootProtocol ----------------------------
(***************************************************************************)
(* The programs that bring the system up: Bootstrap and Loader, exchanging *)
(* messages with the kernel and each other (Applications/Bootstrap and     *)
(* Applications/Loader).                                                   *)
(*                                                                         *)
(* Each syscall that touches a mailbox is a step; the two programs run as  *)
(* preemptible threads, so their steps interleave.  A receive from an      *)
(* empty mailbox is retried and is no step.  The syscalls in between that  *)
(* only build or map objects are one step, which may fail as a whole.      *)
(*                                                                         *)
(*   Bootstrap  pageSize, bootInfo, create, module, start, waitReady,      *)
(*              request, exit, done                                        *)
(*   Loader     runtime, pageSize, announce, serve, then for each request  *)
(*              bootInfo (once), module, load, reply, serve                *)
(*   Manager    running                                                    *)
(*                                                                         *)
(* A program that ends because something failed is at "failed".            *)
(*                                                                         *)
(* Manager is the program in process 3.  In the source ProcessManager only *)
(* yields; the notes have it load services through Loader, so here it may  *)
(* send Loader load requests, as Bootstrap does.                           *)
(*                                                                         *)
(* A program is known by the endpoint the kernel gives its process.        *)
(* Abstracted: a cookie is its distance from k_boot_cookie_base, which the *)
(* two programs share.                                                     *)
(***************************************************************************)
EXTENDS IPC, FiniteSets

CONSTANTS
  LocalMayFail,    \* whether the other syscalls of a program may fail
  ManagerPresent,  \* possible answers to "is ProcessManager.exe a module"
  Pipelining       \* possible answers to "does Manager send a request before
                   \* the last one is answered"

Bootstrap == 1
LoaderEndpoint == 2  \* k_loader_boot_endpoint, fixed in Bootstrap's text
Manager == 3
Requests == MaxProcesses - Manager  \* bound on Manager's load requests

ASSUME BootAssumption ==
  /\ MaxProcesses >= Manager
  /\ LocalMayFail \in BOOLEAN
  /\ ManagerPresent \subseteq BOOLEAN /\ Pipelining \subseteq BOOLEAN

VARIABLES
  pc,           \* where the program of each process is
  cookie,       \* the static of next_cookie
  awaiting,     \* the cookie send_kernel_message waits for, 0 when it does not
  found,        \* Bootstrap: process_manager_module.found
  cell,         \* the word at k_bootstrap_endpoint_mailbox in Loader's memory
  request,      \* Loader: the request it is serving
  bootData,     \* Loader: boot_info and boot_blob are mapped
  result,       \* Loader: the status of the reply
  pipelined,    \* Manager: whether it does not wait for replies
  outstanding   \* load requests a program sent and saw no reply to

local == <<found, cell, request, bootData, result, pipelined, outstanding>>
vars == <<mail, pc, cookie, awaiting, local>>

NoRequest == MakeRequest("LoadBootModule", 0)

\* The kernel message a program sends at a given place.
Asks == [pageSize |-> "GetPageSize", bootInfo |-> "GetBootInfo",
         module |-> "GetBootModule"]

Places == {"unborn", "runtime", "pageSize", "bootInfo", "create", "module", "start",
           "waitReady", "request", "exit", "done", "announce", "serve", "load",
           "reply", "running", "failed"}

TypeOK ==
  /\ MailTypeOK
  /\ pc \in [Processes -> Places]
  /\ cookie \in [Processes -> Nat]
  /\ awaiting \in [Processes -> Nat]
  /\ \A p \in Processes : awaiting[p] # 0 => pc[p] \in DOMAIN Asks
  /\ found \in BOOLEAN
  /\ cell \in {0, Bootstrap}
  /\ request \in Messages
  /\ bootData \in BOOLEAN
  /\ result \in 0 .. 3
  /\ pipelined \in BOOLEAN
  /\ outstanding \in [Processes -> Nat]

Init ==
  /\ MailInit
  /\ pc = [p \in Processes |-> IF p = Bootstrap THEN "pageSize" ELSE "unborn"]
  /\ cookie = [p \in Processes |-> 0]
  /\ awaiting = [p \in Processes |-> 0]
  /\ found \in ManagerPresent /\ pipelined \in Pipelining
  /\ cell = 0
  /\ request = NoRequest
  /\ bootData = FALSE
  /\ result = 0
  /\ outstanding = [p \in Processes |-> 0]

-----------------------------------------------------------------------------
(* Operators named ...Fault are plausible slips in the definition they     *)
(* precede.                                                                *)

Goto(p, place) == pc' = [pc EXCEPT ![p] = place]

\* fatal
Fail(p) == Goto(p, "failed")

(* send_kernel_message *)

NextCookie(p) == cookie[p] + 1

Ask(p) ==
  /\ pc[p] \in DOMAIN Asks /\ awaiting[p] = 0
  /\ AskKernel(p, MakeRequest(Asks[pc[p]], NextCookie(p)))
  /\ cookie' = [cookie EXCEPT ![p] = NextCookie(p)]
  /\ awaiting' = [awaiting EXCEPT ![p] = NextCookie(p)]
  /\ UNCHANGED <<pc, local>>

Accepts(p, message) == message.cookie = awaiting[p]

\* Messages with another cookie are thrown away.
Discard(p) ==
  /\ awaiting[p] # 0
  /\ Receive(p)
  /\ ~Accepts(p, Head(mailbox[p]))
  /\ UNCHANGED <<pc, cookie, awaiting, local>>

\* The reply arrives and the program goes on; what follows differs.
Answered(p, place) ==
  /\ pc[p] = place /\ awaiting[p] # 0
  /\ Receive(p)
  /\ Accepts(p, Head(mailbox[p]))
  /\ awaiting' = [awaiting EXCEPT ![p] = 0]
  /\ UNCHANGED cookie

Granted(p) == Head(mailbox[p]).status = 0

-----------------------------------------------------------------------------
(* Bootstrap *)

BootstrapPageSize ==
  /\ Answered(Bootstrap, "pageSize")
  /\ Goto(Bootstrap, "bootInfo")
  /\ UNCHANGED local

\* The table is mapped, Loader.exe is looked up.
BootstrapBootInfo ==
  /\ Answered(Bootstrap, "bootInfo")
  /\ \/ Granted(Bootstrap) /\ Goto(Bootstrap, "create")
     \/ (~Granted(Bootstrap) \/ LocalMayFail) /\ Fail(Bootstrap)
  /\ UNCHANGED local

\* The loader process, its capabilities, and the page that tells it Bootstrap's
\* endpoint.
BootstrapCreate ==
  /\ pc[Bootstrap] = "create"
  /\ \/ /\ CreateProcess
        /\ \/ Goto(Bootstrap, "module") /\ cell' = Bootstrap
           \/ LocalMayFail /\ Fail(Bootstrap) /\ UNCHANGED cell
     \/ LocalMayFail /\ Fail(Bootstrap) /\ UNCHANGED <<mail, cell>>
  /\ UNCHANGED <<cookie, awaiting, found, request, bootData, result, pipelined, outstanding>>

BootstrapModule ==
  /\ Answered(Bootstrap, "module")
  /\ \/ Granted(Bootstrap) /\ Goto(Bootstrap, "start")
     \/ (~Granted(Bootstrap) \/ LocalMayFail) /\ Fail(Bootstrap)
  /\ UNCHANGED local

NoWaitFault == "request"

\* Where Bootstrap goes once Loader's thread is started.
AfterStart == "waitReady"

\* start_elf_process
BootstrapStart ==
  /\ pc[Bootstrap] = "start"
  /\ \/ pc' = [pc EXCEPT ![Bootstrap] = AfterStart, ![created] = "runtime"]
     \/ LocalMayFail /\ Fail(Bootstrap)
  /\ UNCHANGED <<mail, cookie, awaiting, local>>

IsReady(message) == message.sender = LoaderEndpoint /\ message.type = "Ready"

BootstrapWaitReady ==
  /\ pc[Bootstrap] = "waitReady"
  /\ Receive(Bootstrap)
  /\ Goto(Bootstrap,
          IF IsReady(Head(mailbox[Bootstrap])) THEN "request" ELSE "waitReady")
  /\ UNCHANGED <<cookie, awaiting, local>>

\* A request to load a module, tried again while Loader's mailbox is full.
RequestLoad(p) ==
  /\ Send(p, LoaderEndpoint,
               MakeRequest("LoadBootModule", NextCookie(p)))
  /\ IF Full(LoaderEndpoint)
     THEN UNCHANGED <<cookie, outstanding>>
     ELSE /\ cookie' = [cookie EXCEPT ![p] = NextCookie(p)]
          /\ outstanding' = [outstanding EXCEPT ![p] = @ + 1]

\* ProcessManager, if it is among the boot modules.
BootstrapRequest ==
  /\ pc[Bootstrap] = "request"
  /\ IF found THEN RequestLoad(Bootstrap)
              ELSE UNCHANGED <<mail, cookie, outstanding>>
  /\ Goto(Bootstrap,
          IF found /\ Full(LoaderEndpoint) THEN "request" ELSE "exit")
  /\ UNCHANGED <<awaiting, found, cell, request, bootData, result, pipelined>>

BootstrapExit ==
  /\ pc[Bootstrap] = "exit"
  /\ Goto(Bootstrap, "done")
  /\ UNCHANGED <<mail, cookie, awaiting, local>>

BootstrapStep ==
  \/ Ask(Bootstrap) \/ Discard(Bootstrap)
  \/ BootstrapPageSize \/ BootstrapBootInfo \/ BootstrapCreate
  \/ BootstrapModule \/ BootstrapStart \/ BootstrapWaitReady
  \/ BootstrapRequest \/ BootstrapExit

-----------------------------------------------------------------------------
(* Loader, running at the endpoint l its process was given *)

\* The _start of LibRuntime, in front of dhos_main: it asks what its process is
\* called and keeps the name in a block of its own, and ends the program, or runs
\* into a null block, when it cannot.  Bootstrap has a _start of its own.
LoaderRuntime(l) ==
  /\ pc[l] = "runtime"
  /\ \/ Goto(l, "pageSize")
     \/ LocalMayFail /\ Fail(l)
  /\ UNCHANGED <<mail, cookie, awaiting, local>>

LoaderPageSize(l) ==
  /\ Answered(l, "pageSize")
  /\ Goto(l, "announce")
  /\ UNCHANGED local

\* Ready, sent to the endpoint found in the cell.
LoaderAnnounce(l) ==
  /\ pc[l] = "announce"
  /\ \/ cell = 0 /\ Fail(l) /\ UNCHANGED <<mail, cookie>>
     \/ /\ cell # 0
        /\ Send(l, cell, MakeRequest("Ready", NextCookie(l)))
        /\ IF Full(cell)
           THEN UNCHANGED <<pc, cookie>>
           ELSE /\ Goto(l, "serve")
                /\ cookie' = [cookie EXCEPT ![l] = NextCookie(l)]
  /\ UNCHANGED <<awaiting, local>>

\* The next message; anything but a load request is thrown away.  The module is
\* looked up in the boot data, here if they were loaded before.
LoaderServe(l) ==
  /\ pc[l] = "serve"
  /\ Receive(l)
  /\ IF Head(mailbox[l]).type = "LoadBootModule"
     THEN /\ request' = Head(mailbox[l])
          /\ \/ Goto(l, IF bootData THEN "module" ELSE "bootInfo") /\ UNCHANGED result
             \/ bootData /\ LocalMayFail /\ result' = 1 /\ Goto(l, "reply")
     ELSE UNCHANGED <<request, pc, result>>
  /\ UNCHANGED <<cookie, awaiting, found, cell, bootData, pipelined, outstanding>>

\* ensure_boot_data_loaded and the lookup of the module.
LoaderBootInfo(l) ==
  /\ Answered(l, "bootInfo")
  /\ \/ /\ Granted(l)
        /\ bootData' = TRUE /\ Goto(l, "module") /\ UNCHANGED result
     \/ /\ ~Granted(l) \/ LocalMayFail
        /\ result' = 2 /\ Goto(l, "reply") /\ UNCHANGED bootData
     \/ /\ Granted(l) /\ LocalMayFail
        /\ bootData' = TRUE /\ result' = 1 /\ Goto(l, "reply")
  /\ UNCHANGED <<found, cell, request, pipelined, outstanding>>

LoaderModule(l) ==
  /\ Answered(l, "module")
  /\ \/ Granted(l) /\ Goto(l, "load") /\ UNCHANGED result
     \/ /\ ~Granted(l) \/ LocalMayFail
        /\ result' = (IF ~Granted(l) THEN 2 ELSE 3)
        /\ Goto(l, "reply")
  /\ UNCHANGED <<found, cell, request, bootData, pipelined, outstanding>>

\* load_elf_into_new_process; a failure may leave a process without a thread.
LoaderLoad(l) ==
  /\ pc[l] = "load"
  /\ \/ /\ CreateProcess
        /\ \/ /\ pc' = [pc EXCEPT ![l] = "reply", ![created + 1] = "running"]
              /\ result' = 0
           \/ LocalMayFail /\ Goto(l, "reply") /\ result' = 1
     \/ LocalMayFail /\ Goto(l, "reply") /\ result' = 1 /\ UNCHANGED mail
  /\ UNCHANGED <<cookie, awaiting, found, cell, request, bootData, pipelined, outstanding>>

ToLastSenderFault(l) == created

\* Where the reply goes: to whoever sent the request.
ReplyTarget(l) == request.sender

\* The reply is tried again while the mailbox is full.
AfterReply(l) == IF Full(ReplyTarget(l)) THEN "reply" ELSE "serve"

LoaderReply(l) ==
  /\ pc[l] = "reply"
  /\ Send(l, ReplyTarget(l),
               MakeReply(request, "LoadBootModule", result))
  /\ Goto(l, AfterReply(l))
  /\ UNCHANGED <<cookie, awaiting, local>>

LoaderStep(l) ==
  \/ Ask(l) \/ Discard(l)
  \/ LoaderRuntime(l) \/ LoaderPageSize(l) \/ LoaderAnnounce(l) \/ LoaderServe(l)
  \/ LoaderBootInfo(l) \/ LoaderModule(l) \/ LoaderLoad(l) \/ LoaderReply(l)

-----------------------------------------------------------------------------

(* Manager *)

\* A program that waits for each reply, or one that does not.
MaySend == pipelined \/ outstanding[Manager] = 0

ManagerRequest ==
  /\ pc[Manager] = "running"
  /\ cookie[Manager] < Requests
  /\ MaySend
  /\ RequestLoad(Manager)
  /\ UNCHANGED <<pc, awaiting, found, cell, request, bootData, result, pipelined>>

ManagerReply ==
  /\ pc[Manager] = "running"
  /\ Receive(Manager)
  /\ outstanding' = [outstanding EXCEPT ![Manager] = @ - 1]
  /\ UNCHANGED <<pc, cookie, awaiting, found, cell, request, bootData, result, pipelined>>

-----------------------------------------------------------------------------

\* Bootstrap may be done, Loader waiting for work, and Manager satisfied.
Next ==
  BootstrapStep \/ LoaderStep(LoaderEndpoint) \/ ManagerRequest \/ ManagerReply

Spec == Init /\ [][Next]_vars

\* Both programs are user threads under the preemptive scheduler, and neither
\* yields while it has something to do (Scheduler, EveryThreadRuns).  Nothing is
\* assumed of Manager.
FairSpec ==
  Spec /\ WF_vars(BootstrapStep) /\ WF_vars(LoaderStep(LoaderEndpoint))

-----------------------------------------------------------------------------
(* Properties *)

\* A program waiting for the kernel finds its answer in the mailbox, so its
\* receive loop ends: the answer was not refused by a full mailbox and was not
\* thrown away while another message was expected.
AnswerWaiting ==
  \A p \in Processes :
    awaiting[p] # 0 =>
      \E m \in InMailbox(p) : ~FromUser(m) /\ m.cookie = awaiting[p]

\* What send_kernel_message accepts is the kernel's answer to the message just
\* sent.  It compares cookies only, and all programs number theirs from the
\* same base, so this rests on programs that wait for their replies.
AnswersAuthentic ==
  \A p \in Processes : \A m \in InMailbox(p) :
    ~pipelined /\ awaiting[p] # 0 /\ m.cookie = awaiting[p] =>
      ~FromUser(m) /\ m.type = Asks[pc[p]]

LoadMessages(e, from) ==
  {i \in DOMAIN mailbox[e] :
     mailbox[e][i].type = "LoadBootModule" /\ mailbox[e][i].sender = from}

Serving(p) ==
  /\ pc[LoaderEndpoint] \in {"bootInfo", "module", "load", "reply"}
  /\ request.sender = p

\* No load request is lost or served twice: each one a program has sent and has
\* no reply to is waiting in Loader's mailbox, is the one being served, or has
\* its reply waiting in the sender's mailbox.
AllRequestsSurvive ==
  \A p \in {Bootstrap, Manager} :
    outstanding[p] = Cardinality(LoadMessages(LoaderEndpoint, p))
                       + (IF Serving(p) THEN 1 ELSE 0)
                       + Cardinality(LoadMessages(p, LoaderEndpoint))

\* That much holds of programs that wait for their replies.
RequestsSurvive == pipelined \/ AllRequestsSurvive

\* Loader's reply tells Bootstrap the truth, although Bootstrap is usually gone:
\* success exactly when ProcessManager was started.
ReplyTruthful ==
  \A i \in LoadMessages(Bootstrap, LoaderEndpoint) :
    mailbox[Bootstrap][i].status = 0 <=> pc[Manager] = "running"

\* Whatever fails, nobody waits for the kernel forever.
NoEndlessWait == \A p \in Processes : awaiting[p] # 0 ~> awaiting[p] = 0

\* Bootstrap exits, successfully or not, with one exception: it was left polling
\* for the announcement of a Loader that ended before it made it, for which the
\* loop has no way out.  Once it has asked for ProcessManager that program runs
\* unless Loader met an error of its own.
BootEnds ==
  /\ <>(\/ pc[Bootstrap] \in {"done", "failed"}
        \/ pc[Bootstrap] = "waitReady" /\ pc[LoaderEndpoint] = "failed")
  /\ found /\ pc[Bootstrap] = "done" ~> pc[Manager] = "running" \/ result # 0

\* A load request of a program that waits for it is answered, well or badly.
RequestsAnswered ==
  \A p \in {Bootstrap, Manager} :
    ~pipelined /\ outstanding[p] > 0 ~>
      LoadMessages(p, LoaderEndpoint) # {} \/ outstanding[p] = 0
=============================================================================
