------------------------------ MODULE Scheduler ------------------------------
(***************************************************************************)
(* The Katline thread scheduler: Katline/Arch/Scheduler.cppm with the      *)
(* register switch of CPUContext::switch_to.                               *)
(*                                                                         *)
(* Each CPU runs its current thread (pc = "run") until that thread makes a *)
(* syscall or the local timer fires.  The kernel runs with interrupts      *)
(* masked, so a CPU never nests two entries; CPUs interleave with each     *)
(* other between the critical sections of the queue locks, and each        *)
(* section is one step here, as is each access start_thread makes outside: *)
(*                                                                         *)
(*   run --Yield, Exit--> (steal)* -> commit -> switch -> run   schedule() *)
(*   run --Timer--> irqsave -> run                    on_timer_interrupt() *)
(*   run --Start--> start -> enqueue -> run                 start_thread() *)
(*                                                                         *)
(* Abstracted: a ready queue is the sequence of its unconsumed, non-null   *)
(* entries (ready_head, null slots and compaction only move them); of a    *)
(* saved context the code selector is kept, which the code branches on,    *)
(* and whose user stack the stack pointer is in; cr3 follows the register  *)
(* switch.  Of a CPU's other registers the model has what syscall_entry    *)
(* trusts: the two GS bases that swapgs exchanges, the kernel stack the    *)
(* next entry will use, and the per-CPU word in which the entry leaves the *)
(* user stack pointer.  A CPU that takes a fault in the kernel stops in    *)
(* kpanic (pc = "panic").                                                  *)
(***************************************************************************)
EXTENDS Naturals, Sequences, FiniteSets

CONSTANTS
  CPUs,          \* processors whose scheduler state is online
  BSP,           \* the boot processor, which starts the first user thread
  BootYielders,  \* processors whose adopted boot thread calls yield()
  UserThreads,   \* threads make_user_thread can produce
  First,         \* the bootstrap thread, started by launch_bootstrap_process
  Yielding,      \* user threads that call sys_yield
  Exiting,       \* user threads that call sys_exit
  Starts,        \* <<s, t>>: user thread s holds the handle through which it
                 \* creates or starts user thread t
  SliceTicks,    \* m_default_slice_ticks (1024 in the code)
  MaxSkip,       \* sizeof(skipped) / sizeof(skipped[0]) (16 in the code)
  NoThread       \* nullptr

ASSUME CpuAssumption ==
  /\ IsFiniteSet(CPUs) /\ BSP \in CPUs
  /\ BootYielders \subseteq CPUs
ASSUME ThreadAssumption ==
  /\ First \in UserThreads
  /\ Yielding \subseteq UserThreads
  /\ Exiting \subseteq UserThreads
  /\ Starts \subseteq UserThreads \X UserThreads
  /\ NoThread \notin UserThreads
ASSUME BoundAssumption == SliceTicks \in Nat \ {0} /\ MaxSkip \in Nat \ {0}

VARIABLES
  tstate,      \* Thread::tstate
  cs,          \* Thread::context.cs
  slice,       \* Thread::slice_remaining
  home,        \* Thread::home_lapic_id
  queue,       \* CPUState::ready_threads from ready_head on
  current,     \* CPUState::current_thread
  handoff,     \* CPUState::handoff_thread
  inSchedule,  \* CPUState::in_schedule
  pc,          \* where the CPU is between critical sections
  next,        \* the local `next` of schedule(), or the argument of start_thread
  scan,        \* victims steal_thread_for_cpu has still to visit
  live,        \* the thread whose registers the CPU holds
  gs,          \* the GS base in use and the one swapgs exchanges it with
  kernelStack, \* whose stack TSS::rsp0 and kernel_stack_top point to
  userRsp,     \* KernelCpuData::user_rsp_on_syscall, as the owner of the stack
  rsp          \* the owner of the user stack a thread's user code is on

vars == <<tstate, cs, slice, home, queue, current, handoff, inSchedule, pc,
          next, scan, live, gs, kernelStack, userRsp, rsp>>
entry == <<gs, kernelStack, userRsp, rsp>>

Idle(c) == <<"idle", c>>
Boot(c) == <<"boot", c>>
IdleThreads == {Idle(c) : c \in CPUs}
Threads == UserThreads \cup IdleThreads \cup {Boot(c) : c \in CPUs}

ASSUME KernelThreadAssumption ==
  \A c \in CPUs : Idle(c) \notin UserThreads /\ Boot(c) \notin UserThreads

ThreadStates == {"None", "Created", "Ready", "Running", "Dead"}
Locations ==
  {"run", "steal", "commit", "switch", "irqsave", "start", "enqueue", "panic"}

TypeOK ==
  /\ tstate \in [Threads -> ThreadStates]
  /\ cs \in [Threads -> {"kernel", "user"}]
  /\ slice \in [Threads -> 0 .. SliceTicks]
  /\ home \in [Threads -> CPUs]
  /\ queue \in [CPUs -> Seq(Threads)]
  /\ current \in [CPUs -> Threads]
  /\ handoff \in [CPUs -> Threads \cup {NoThread}]
  /\ inSchedule \in [CPUs -> BOOLEAN]
  /\ pc \in [CPUs -> Locations]
  /\ next \in [CPUs -> Threads \cup {NoThread}]
  /\ scan \in [CPUs -> SUBSET CPUs]
  /\ live \in [CPUs -> Threads]
  /\ gs \in [CPUs -> {"user", "cpu"} \X {"user", "cpu"}]
  /\ kernelStack \in [CPUs -> Threads \cup {NoThread}]
  /\ userRsp \in [CPUs -> UserThreads \cup {NoThread}]
  /\ rsp \in [UserThreads -> UserThreads \cup {NoThread}]

-----------------------------------------------------------------------------
(* The ready queue. *)

Elements(q) == {q[i] : i \in DOMAIN q}

\* Operators named ...Fault are plausible slips in the definition they precede;
\* replacing that definition by the fault must break the property it protects.

\* enqueue_ready: idle, non-Ready and already queued threads are refused.
EnqueueReady(q, t, ts) ==
  IF t \notin IdleThreads /\ ts[t] = "Ready" /\ t \notin Elements(q)
  THEN Append(q, t) ELSE q

\* dequeue_ready hands out only Ready, non-idle entries and drops the others.
Dequeuable(t, ts) == ts[t] = "Ready" /\ t \notin IdleThreads

HeadNotAdvancedFault(q, at, skipped) == SubSeq(q, at, Len(q)) \o skipped
NoPutBackFault(q, at, skipped) == SubSeq(q, at + 1, Len(q))

\* What the selection leaves queued: the entries behind the one taken, then the
\* candidates it passed over.
QueueAfterPick(q, at, skipped) == SubSeq(q, at + 1, Len(q)) \o skipped

\* Of the positions in S, the one that comes k-th.
Kth(S, k) == CHOOSE i \in S : Cardinality({j \in S : j <= i}) = k

\* The selection loop: take candidates in order until one would resume in user
\* mode; put the kernel-mode ones passed over back at the tail, at most MaxSkip
\* of them, and fall back to the first of those, which stays queued.
PickNext(q, ts) ==
  LET takes == {i \in DOMAIN q : Dequeuable(q[i], ts)}
      users == {i \in takes : cs[q[i]] = "user"}
      found == users # {}
      at == IF found THEN CHOOSE i \in users : \A j \in users : i <= j
                     ELSE Len(q) + 1
      passed == {i \in takes : i < at}
      count == IF Cardinality(passed) > MaxSkip THEN MaxSkip
                                                ELSE Cardinality(passed)
      skipped == [k \in 1 .. count |-> q[Kth(passed, k)]]
  IN [next  |-> IF found THEN q[at]
                ELSE IF skipped # << >> THEN skipped[1] ELSE NoThread,
      queue |-> QueueAfterPick(q, at, skipped)]

\* The requeue of the outgoing thread: only a thread still marked Running whose
\* last saved context is a user one goes back to the queue, as the handoff.
Requeues(c, ts) ==
  /\ ts[current[c]] = "Running"
  /\ current[c] # Idle(c)
  /\ cs[current[c]] = "user"

StatesAfterRequeue(c, ts) ==
  IF Requeues(c, ts) THEN [ts EXCEPT ![current[c]] = "Ready"] ELSE ts

NotEnqueuedFault(c, ts) == queue[c]

QueueAfterRequeue(c, ts) ==
  IF Requeues(c, ts)
  THEN EnqueueReady(queue[c], current[c], StatesAfterRequeue(c, ts))
  ELSE queue[c]

\* clear_handoff_if_current
ClearedHandoff(c) ==
  IF handoff[c] = current[c] THEN NoThread ELSE handoff[c]

HandoffAfterRequeue(c, ts) ==
  IF Requeues(c, ts) THEN current[c] ELSE ClearedHandoff(c)

-----------------------------------------------------------------------------
(* Entry from user mode and return to it *)

\* What prepare_gs_for_user_entry leaves: user code runs with base 0, and the
\* swapgs of the next entry brings in the KernelCpuData of this CPU.
UserGs == <<"user", "cpu">>

Swapgs(g) == <<g[2], g[1]>>

SelectorKeepsBaseFault(g) == <<"cpu", g[2]>>

\* switch_to loads the gs selector, a flat segment: the base becomes 0.
LoadSelector(g) == <<"user", g[2]>>

\* syscall_entry by the thread that runs: the GS bases are exchanged and the
\* user stack pointer goes to the CPU's slot.
EnterSyscall(c) ==
  IF live[c] \in UserThreads
  THEN /\ gs' = [gs EXCEPT ![c] = Swapgs(@)]
       /\ userRsp' = [userRsp EXCEPT ![c] = rsp[live[c]]]
  ELSE UNCHANGED <<gs, userRsp>>

\* The way back to user mode of thread t with GS bases g.  The stack pointer is
\* read from the slot through GS, whose base must be this CPU's; with base 0
\* the read is of address 8, which is not mapped, and the fault ends in kpanic.
\* The slot is not read again before the next entry writes it.
LeaveSyscall(c, t, g) ==
  IF g[1] = "cpu"
  THEN /\ rsp' = [rsp EXCEPT ![t] = userRsp[c]]
       /\ gs' = [gs EXCEPT ![c] = Swapgs(g)]
       /\ userRsp' = [userRsp EXCEPT ![c] = NoThread]
       /\ pc' = [pc EXCEPT ![c] = "run"]
  ELSE /\ pc' = [pc EXCEPT ![c] = "panic"]
       /\ gs' = [gs EXCEPT ![c] = g]
       /\ UNCHANGED <<rsp, userRsp>>

-----------------------------------------------------------------------------
(* The state katline_main has reached when every CPU is online, each boot  *)
(* thread is adopted and launch_bootstrap_process has started First.       *)

Init ==
  /\ tstate = [t \in Threads |->
       IF t = First \/ t \in IdleThreads THEN "Ready"
       ELSE IF t \in UserThreads THEN "None" ELSE "Running"]
  /\ cs = [t \in Threads |-> IF t \in UserThreads THEN "user" ELSE "kernel"]
  /\ slice = [t \in Threads |-> SliceTicks]
  /\ home = [t \in Threads |->
       IF t \in UserThreads THEN BSP
       ELSE CHOOSE c \in CPUs : t \in {Idle(c), Boot(c)}]
  /\ queue = [c \in CPUs |-> IF c = BSP THEN <<First>> ELSE << >>]
  /\ current = [c \in CPUs |-> Boot(c)]
  /\ handoff = [c \in CPUs |-> NoThread]
  /\ inSchedule = [c \in CPUs |-> FALSE]
  /\ pc = [c \in CPUs |-> "run"]
  /\ next = [c \in CPUs |-> NoThread]
  /\ scan = [c \in CPUs |-> {}]
  /\ live = [c \in CPUs |-> Boot(c)]
  /\ gs = [c \in CPUs |-> UserGs]
  /\ kernelStack = [c \in CPUs |-> NoThread]
  /\ userRsp = [c \in CPUs |-> NoThread]
  /\ rsp = [t \in UserThreads |-> t]

-----------------------------------------------------------------------------
(* schedule() *)

\* The first critical section, entered with thread states ts from a syscall or
\* from katline_main; `in_schedule` turns a nested call away.
ScheduleEnter(c, ts) ==
  /\ handoff' = [handoff EXCEPT ![c] =
       IF inSchedule[c] THEN ClearedHandoff(c) ELSE HandoffAfterRequeue(c, ts)]
  /\ IF inSchedule[c]
     THEN /\ tstate' = ts
          /\ UNCHANGED <<queue, inSchedule, pc, next, scan>>
     ELSE LET picked == PickNext(QueueAfterRequeue(c, ts),
                                 StatesAfterRequeue(c, ts))
              victims == IF picked.next = NoThread THEN CPUs \ {c} ELSE {}
          IN /\ tstate' = StatesAfterRequeue(c, ts)
             /\ queue' = [queue EXCEPT ![c] = picked.queue]
             /\ inSchedule' = [inSchedule EXCEPT ![c] = TRUE]
             /\ next' = [next EXCEPT ![c] = picked.next]
             /\ scan' = [scan EXCEPT ![c] = victims]
             /\ pc' = [pc EXCEPT ![c] =
                  IF victims # {} THEN "steal" ELSE "commit"]
  /\ EnterSyscall(c)
  /\ UNCHANGED <<cs, slice, home, current, live, kernelStack, rsp>>

\* sys_yield
Yield(c) ==
  /\ pc[c] = "run"
  /\ current[c] \in Yielding
  /\ ScheduleEnter(c, tstate)

\* The yield() that ends katline_main's bring-up; the loop behind it does not
\* call the scheduler.
BootYield(c) ==
  /\ pc[c] = "run"
  /\ c \in BootYielders /\ current[c] = Boot(c)
  /\ ScheduleEnter(c, tstate)

\* sys_exit: thread_exit marks the thread Dead and schedules.  The zombie list
\* is only ever copied onto itself (reap_zombies) and is left out.
Exit(c) ==
  /\ pc[c] = "run"
  /\ current[c] \in Exiting
  /\ ScheduleEnter(c, [tstate EXCEPT ![current[c]] = "Dead"])

StealsHandoffFault(v, t) == Dequeuable(t, tstate)

\* Entries of victim v that a thief may take: not v's handoff, and Ready.
Stealable(v, t) == Dequeuable(t, tstate) /\ t # handoff[v]

\* steal_thread_for_cpu, one victim at a time under its lock, from the tail.
Steal(c) ==
  /\ pc[c] = "steal"
  /\ \E v \in scan[c] :
       LET slots == {i \in DOMAIN queue[v] : Stealable(v, queue[v][i])}
           slot == CHOOSE i \in slots : \A j \in slots : j <= i
           stolen == queue[v][slot]
       IN IF slots = {}
          THEN /\ scan' = [scan EXCEPT ![c] = @ \ {v}]
               /\ pc' = [pc EXCEPT ![c] =
                    IF scan[c] = {v} THEN "commit" ELSE "steal"]
               /\ UNCHANGED <<queue, home, next>>
          ELSE /\ queue' = [queue EXCEPT ![v] =
                    SubSeq(@, 1, slot - 1) \o SubSeq(@, slot + 1, Len(@))]
               /\ home' = [home EXCEPT ![stolen] = c]
               /\ next' = [next EXCEPT ![c] = stolen]
               /\ scan' = [scan EXCEPT ![c] = {}]
               /\ pc' = [pc EXCEPT ![c] = "commit"]
  /\ UNCHANGED <<tstate, cs, slice, current, handoff, inSchedule, live, entry>>

NoIdleFault(c, t) == t

\* A CPU that finds no thread runs its idle thread.
OrIdle(c, t) == IF t = NoThread THEN Idle(c) ELSE t

\* The second critical section: a last look at the own queue, then idle; the
\* early return when the choice is the running thread; otherwise the new
\* current thread is published, before its registers are loaded.
Commit(c) ==
  /\ pc[c] = "commit"
  /\ LET again == PickNext(queue[c], tstate)
         chosen ==
           OrIdle(c, IF next[c] = NoThread THEN again.next ELSE next[c])
     IN /\ queue' = [queue EXCEPT ![c] =
             IF next[c] = NoThread THEN again.queue ELSE @]
        /\ inSchedule' = [inSchedule EXCEPT ![c] = FALSE]
        /\ IF chosen = current[c]
           THEN /\ IF live[c] \in UserThreads
                   THEN LeaveSyscall(c, live[c], gs[c])
                   ELSE /\ pc' = [pc EXCEPT ![c] = "run"]
                        /\ UNCHANGED <<gs, userRsp, rsp>>
                /\ next' = [next EXCEPT ![c] = NoThread]
                /\ UNCHANGED <<tstate, slice, current>>
           ELSE /\ pc' = [pc EXCEPT ![c] = "switch"]
                /\ next' = [next EXCEPT ![c] = chosen]
                /\ tstate' = [tstate EXCEPT ![chosen] = "Running"]
                /\ slice' = [slice EXCEPT ![chosen] = SliceTicks]
                /\ current' = [current EXCEPT ![c] = chosen]
                /\ UNCHANGED <<gs, userRsp, rsp>>
  /\ UNCHANGED <<cs, home, handoff, scan, live, kernelStack>>

NeverPreparedFault(t, g) == g

\* prepare_gs_for_user_entry, for a thread that will resume in user mode.
PreparedGs(t, g) == IF cs[t] = "user" THEN UserGs ELSE g

StackKeptFault(c) == kernelStack

\* set_kernel_stack_for_current_cpu
KernelStackOfNext(c) == [kernelStack EXCEPT ![c] = next[c]]

\* Save the registers the CPU holds into the outgoing context with the given
\* selector, and load the incoming thread with GS bases g.  A user thread that
\* was saved in the kernel runs on to the end of its syscall.
SwitchTo(c, selector, g) ==
  /\ cs' = [cs EXCEPT ![live[c]] = selector]
  /\ live' = [live EXCEPT ![c] = next[c]]
  /\ next' = [next EXCEPT ![c] = NoThread]
  /\ kernelStack' = KernelStackOfNext(c)
  /\ IF next[c] \in UserThreads /\ cs[next[c]] = "kernel"
     THEN LeaveSyscall(c, next[c], g)
     ELSE /\ pc' = [pc EXCEPT ![c] = "run"]
          /\ gs' = [gs EXCEPT ![c] = g]
          /\ UNCHANGED <<userRsp, rsp>>
  /\ UNCHANGED <<tstate, slice, home, queue, current, handoff, inSchedule, scan>>

\* CPUContext::switch_to saves a kernel return point.
Switch(c) ==
  /\ pc[c] = "switch"
  /\ SwitchTo(c, "kernel", LoadSelector(PreparedGs(next[c], gs[c])))

-----------------------------------------------------------------------------
(* on_timer_interrupt() *)

SliceNotCountedFault(c) == slice[current[c]]

SliceAfterTick(c) ==
  IF current[c] = Idle(c) \/ slice[current[c]] = 0 THEN 0
  ELSE slice[current[c]] - 1

\* can_preempt_from_irq: the interrupted code is idle or in user mode.
Preemptible(c) == current[c] = Idle(c) \/ current[c] \in UserThreads

\* The ticks that do not reach the selection: the current thread is not marked
\* Running, its slice is not used up, or it was interrupted in the kernel.
TimerNoSwitch(c) ==
  /\ pc[c] = "run"
  /\ handoff' = [handoff EXCEPT ![c] = ClearedHandoff(c)]
  /\ \/ /\ tstate[current[c]] # "Running"
        /\ UNCHANGED slice
     \/ /\ tstate[current[c]] = "Running"
        /\ SliceAfterTick(c) # 0
        /\ slice' = [slice EXCEPT ![current[c]] = SliceAfterTick(c)]
     \/ /\ tstate[current[c]] = "Running"
        /\ SliceAfterTick(c) = 0 /\ ~Preemptible(c)
        /\ slice' = [slice EXCEPT ![current[c]] = SliceTicks]
  /\ UNCHANGED <<tstate, cs, home, queue, current, inSchedule, pc, next, scan,
                 live, entry>>

\* The tick that ends a slice: same requeue and selection as schedule(), but in
\* one critical section, with no stealing, and the outgoing thread kept when
\* nothing else is found.
Preempt(c) ==
  /\ pc[c] = "run"
  /\ tstate[current[c]] = "Running"
  /\ SliceAfterTick(c) = 0 /\ Preemptible(c) /\ ~inSchedule[c]
  /\ LET ts == StatesAfterRequeue(c, tstate)
         picked == PickNext(QueueAfterRequeue(c, tstate), ts)
         chosen == IF picked.next = NoThread THEN current[c] ELSE picked.next
     IN /\ handoff' = [handoff EXCEPT ![c] = HandoffAfterRequeue(c, tstate)]
        /\ queue' = [queue EXCEPT ![c] = picked.queue]
        /\ tstate' = [ts EXCEPT ![chosen] = "Running"]
        /\ slice' = [[slice EXCEPT ![current[c]] = 0]
                        EXCEPT ![chosen] = SliceTicks]
        /\ current' = [current EXCEPT ![c] = chosen]
        /\ IF chosen = current[c]
           THEN UNCHANGED <<pc, next>>
           ELSE /\ pc' = [pc EXCEPT ![c] = "irqsave"]
                /\ next' = [next EXCEPT ![c] = chosen]
  /\ UNCHANGED <<cs, home, inSchedule, scan, live, entry>>

\* After the lock: the interrupt frame becomes the outgoing context, with the
\* selector of the interrupted mode, and the frame is loaded from the incoming.
\* No segment register is loaded, and the interrupt entry has no swapgs.
IrqSwitch(c) ==
  /\ pc[c] = "irqsave"
  /\ SwitchTo(c, IF live[c] \in UserThreads THEN "user" ELSE "kernel",
              PreparedGs(next[c], gs[c]))

-----------------------------------------------------------------------------
(* Thread creation *)

\* sys_thread_create: make_user_thread leaves the thread Created, at home here.
CreateThread(c, t) ==
  /\ pc[c] = "run" /\ <<current[c], t>> \in Starts
  /\ tstate[t] = "None"
  /\ tstate' = [tstate EXCEPT ![t] = "Created"]
  /\ cs' = [cs EXCEPT ![t] = "user"]
  /\ slice' = [slice EXCEPT ![t] = SliceTicks]
  /\ home' = [home EXCEPT ![t] = c]
  /\ UNCHANGED <<queue, current, handoff, inSchedule, pc, next, scan, live,
                 entry>>

\* sys_thread_start, start_thread: the test that t is still Created.  It holds no
\* lock, and until the write below another CPU may make the same test.
StartThread(c, t) ==
  /\ pc[c] = "run" /\ <<current[c], t>> \in Starts
  /\ tstate[t] = "Created"
  /\ next' = [next EXCEPT ![c] = t]
  /\ pc' = [pc EXCEPT ![c] = "start"]
  /\ EnterSyscall(c)
  /\ UNCHANGED <<tstate, cs, slice, home, queue, current, handoff, inSchedule,
                 scan, live, kernelStack, rsp>>

\* The write, whatever the state has become since.
StartReady(c) ==
  /\ pc[c] = "start"
  /\ tstate' = [tstate EXCEPT ![next[c]] = "Ready"]
  /\ pc' = [pc EXCEPT ![c] = "enqueue"]
  /\ UNCHANGED <<cs, slice, home, queue, current, handoff, inSchedule, next,
                 scan, live, entry>>

\* The home CPU's queue, under its lock.
StartEnqueue(c) ==
  /\ pc[c] = "enqueue"
  /\ queue' = [queue EXCEPT ![home[next[c]]] = EnqueueReady(@, next[c], tstate)]
  /\ next' = [next EXCEPT ![c] = NoThread]
  /\ LeaveSyscall(c, live[c], gs[c])
  /\ UNCHANGED <<tstate, cs, slice, home, current, handoff, inSchedule, scan,
                 live, kernelStack>>

-----------------------------------------------------------------------------

Timer(c) == TimerNoSwitch(c) \/ Preempt(c)

\* The steps a CPU takes by itself once it is in the kernel.
KernelStep(c) ==
  \/ Steal(c) \/ Commit(c) \/ Switch(c) \/ IrqSwitch(c)
  \/ StartReady(c) \/ StartEnqueue(c)

Next ==
  \E c \in CPUs :
    \/ BootYield(c)
    \/ Yield(c)
    \/ Exit(c)
    \/ Timer(c)
    \/ KernelStep(c)
    \/ \E t \in UserThreads : CreateThread(c, t) \/ StartThread(c, t)

Spec == Init /\ [][Next]_vars

\* Interrupts are enabled whenever pc = "run" and the LAPIC timer is periodic, so
\* the timer of every CPU keeps firing; masked kernel code does not stop half
\* way; the boot processor's bring-up reaches its yield.  Nothing is assumed of
\* user threads, nor of the yield of another processor's boot thread.
FairSpec ==
  /\ Spec
  /\ \A c \in CPUs : WF_vars(Timer(c)) /\ WF_vars(KernelStep(c))
  /\ WF_vars(BootYield(BSP))

-----------------------------------------------------------------------------
(* Properties *)

\* A thread executes on one CPU at most: whenever two CPUs hold registers they
\* belong to different threads, and a CPU in user code runs what it says is
\* current.  Broken by resuming a thread before its old CPU has let go of it.
ExclusiveExecution ==
  /\ \A c, d \in CPUs : c # d => live[c] # live[d] /\ current[c] # current[d]
  /\ \A c \in CPUs : pc[c] = "run" => live[c] = current[c]

\* The queues hold a thread once in all, never an idle thread, and never one
\* that a CPU is executing and that could be dequeued a second time.
QueueDiscipline ==
  \A c \in CPUs :
    /\ \A i, j \in DOMAIN queue[c] : i # j => queue[c][i] # queue[c][j]
    /\ \A d \in CPUs \ {c} : Elements(queue[c]) \cap Elements(queue[d]) = {}
    /\ Elements(queue[c]) \cap IdleThreads = {}
    /\ \A d \in CPUs, t \in Elements(queue[c]) :
         pc[d] = "run" /\ current[d] = t => tstate[t] # "Ready"

\* Whenever user code runs, it is on its own stack, and its next entry into the
\* kernel will find the data of this CPU behind swapgs and the kernel stack of
\* its own thread.  Yields and preemptions in any order, on any CPU, keep it: a
\* thread whose syscall was interrupted by a switch does not come back on the
\* stack pointer another thread left in the slot, it ends in kpanic.
EntryStateOwn ==
  \A c \in CPUs :
    pc[c] = "run" /\ live[c] \in UserThreads =>
      /\ gs[c] = UserGs
      /\ kernelStack[c] = live[c]
      /\ rsp[live[c]] = live[c]

\* A thread the scheduler can still find: some CPU runs it or has chosen it, or
\* it waits in a queue.
Reachable(t) ==
  \E c \in CPUs :
    \/ current[c] = t \/ live[c] = t \/ next[c] = t
    \/ t \in Elements(queue[c]) /\ tstate[t] = "Ready"

\* The scheduler never loses a thread that waits: whoever stops being reachable
\* without having exited was executing when the step was taken.  Rotation of
\* the queue, the put-back of skipped candidates and stealing keep the others.
WaitingNeverLost ==
  [][\A t \in UserThreads :
       Reachable(t) /\ ~Reachable(t)' => \E c \in CPUs : live[c] = t]_vars

\* A started thread that waits gets the CPU.  Preemption keeps this; a yield does
\* not, so only configurations without one check it.
EveryThreadRuns ==
  \A t \in UserThreads : tstate[t] = "Ready" ~> \E c \in CPUs : live[c] = t
=============================================================================
