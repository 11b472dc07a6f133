-------------------------- MODULE Scheduler_proof --------------------------
(***************************************************************************)
(* For every set of CPUs and threads, whatever the scheduler has done:     *)
(*   - user code finds its own stack, and its next entry into the kernel   *)
(*     the data of its CPU (EntryInv);                                     *)
(*   - the ready queues hold each thread once and nobody who executes, and *)
(*     a thread saved in user mode has one owner (SchedInv), provided that *)
(*     a thread is started by one other only or one processor schedules;   *)
(*   - a thread that never yields is saved in the kernel only by its exit  *)
(*     (NoYieldInv), so that it executes on one CPU at a time;             *)
(*   - a thread that waits stays reachable while the selection has room    *)
(*     for the candidates it skips (WaitKept).                             *)
(***************************************************************************)
EXTENDS Scheduler, FiniteSetTheorems, SequenceTheorems, TLAPS

-----------------------------------------------------------------------------
(* The invariant                                                           *)

\* The state the entry depends on has a part for every CPU.
PerCpu(f) == f = [c \in CPUs |-> f[c]]

EntryTyped ==
  /\ PerCpu(pc) /\ PerCpu(live) /\ PerCpu(current) /\ PerCpu(next)
  /\ PerCpu(inSchedule)
  /\ cs \in [Threads -> {"kernel", "user"}]
  /\ PerCpu(gs) /\ PerCpu(kernelStack) /\ PerCpu(userRsp)

\* What a CPU has at each location.  A user thread in the kernel has entered by
\* a syscall, which left its stack pointer in the slot, or by an interrupt,
\* which left everything as it was.
EntryKept(c) ==
  /\ pc[c] \in {"run", "steal", "commit", "start", "enqueue"} => live[c] = current[c]
  /\ pc[c] \in {"switch", "irqsave"} => next[c] = current[c]
  /\ inSchedule[c] => pc[c] \in {"steal", "commit"}
  /\ pc[c] \in {"start", "enqueue"} => live[c] \in UserThreads /\ next[c] \in UserThreads
  /\ pc[c] # "panic" /\ live[c] \in UserThreads =>
       /\ kernelStack[c] = live[c]
       /\ pc[c] \in {"run", "irqsave"} => gs[c] = UserGs
       /\ pc[c] \notin {"run", "irqsave"} =>
            gs[c] = Swapgs(UserGs) /\ userRsp[c] = live[c]
  /\ pc[c] # "panic" /\ live[c] \notin UserThreads => gs[c][1] = "user"

\* User code is always on the stack of its own thread.
OwnStacks == rsp = [t \in UserThreads |-> t]

EntryInv == EntryTyped /\ OwnStacks /\ \A c \in CPUs : EntryKept(c)

LEMMA InitEntry == Init => EntryInv
BY KernelThreadAssumption
DEF Init, EntryInv, EntryTyped, PerCpu, OwnStacks, EntryKept, UserGs

-----------------------------------------------------------------------------
(* A step of one CPU does not touch the part of another.                   *)

ThisCpuOnly(c) ==
  \A d \in CPUs \ {c} :
    /\ pc'[d] = pc[d] /\ live'[d] = live[d] /\ current'[d] = current[d]
    /\ inSchedule'[d] = inSchedule[d] /\ next'[d] = next[d] /\ gs'[d] = gs[d]
    /\ kernelStack'[d] = kernelStack[d] /\ userRsp'[d] = userRsp[d]

LEMMA OneCpu ==
  ASSUME EntryInv, NEW c \in CPUs, EntryTyped', OwnStacks', EntryKept(c)',
         ThisCpuOnly(c)
  PROVE  EntryInv'
<1>1. ASSUME NEW d \in CPUs \ {c} PROVE EntryKept(d)'
  BY <1>1 DEF EntryInv, EntryKept, ThisCpuOnly
<1>2. QED BY <1>1 DEF EntryInv

LEMMA EnterEntry ==
  ASSUME EntryInv, NEW c \in CPUs, NEW ts, pc[c] = "run", ScheduleEnter(c, ts)
  PROVE  EntryInv'
<1>1. EntryTyped' /\ OwnStacks' /\ ThisCpuOnly(c)
  BY DEF EntryInv, EntryTyped, PerCpu, OwnStacks, ThisCpuOnly, ScheduleEnter,
         EnterSyscall
<1>2. EntryKept(c)'
  BY DEF EntryInv, EntryTyped, PerCpu, OwnStacks, EntryKept, ScheduleEnter,
         EnterSyscall
<1>3. QED BY <1>1, <1>2, OneCpu

\* A syscall that did not switch threads goes back with what it came with.
LEMMA LeaveEntry ==
  ASSUME EntryInv, NEW c \in CPUs, pc[c] \in {"commit", "enqueue"},
         live[c] \in UserThreads, LeaveSyscall(c, live[c], gs[c])
  PROVE  /\ rsp' = rsp
         /\ gs' = [gs EXCEPT ![c] = UserGs]
         /\ userRsp' = [userRsp EXCEPT ![c] = NoThread]
         /\ pc' = [pc EXCEPT ![c] = "run"]
<1>1. gs[c] = Swapgs(UserGs) /\ userRsp[c] = live[c]
  BY DEF EntryInv, EntryKept
<1>2. gs[c][1] = "cpu" /\ Swapgs(gs[c]) = UserGs
  BY <1>1 DEF Swapgs, UserGs
<1>3. rsp' = [rsp EXCEPT ![live[c]] = live[c]]
  BY <1>1, <1>2 DEF LeaveSyscall
<1>4. rsp' = rsp
  BY <1>3 DEF EntryInv, OwnStacks
<1>5. QED BY <1>2, <1>4 DEF LeaveSyscall

\* The two outcomes of the second critical section.
LEMMA CommitChoice ==
  ASSUME NEW c \in CPUs, Commit(c)
  PROVE  \E chosen :
           IF chosen = current[c]
           THEN /\ IF live[c] \in UserThreads
                   THEN LeaveSyscall(c, live[c], gs[c])
                   ELSE pc' = [pc EXCEPT ![c] = "run"] /\ UNCHANGED <<gs, userRsp, rsp>>
                /\ next' = [next EXCEPT ![c] = NoThread]
                /\ UNCHANGED current
           ELSE /\ pc' = [pc EXCEPT ![c] = "switch"]
                /\ next' = [next EXCEPT ![c] = chosen]
                /\ current' = [current EXCEPT ![c] = chosen]
                /\ UNCHANGED <<gs, userRsp, rsp>>
<1> DEFINE chosen == OrIdle(c, IF next[c] = NoThread THEN PickNext(queue[c], tstate).next
                                                      ELSE next[c])
<1>1. CASE chosen = current[c]
  BY <1>1, Zenon DEF Commit
<1>2. CASE chosen # current[c]
  BY <1>2, Zenon DEF Commit
<1>3. QED BY <1>1, <1>2

LEMMA CommitEntry ==
  ASSUME EntryInv, NEW c \in CPUs, Commit(c)
  PROVE  EntryInv'
<1>1. /\ inSchedule' = [inSchedule EXCEPT ![c] = FALSE]
      /\ UNCHANGED <<cs, live, kernelStack>>
  BY DEF Commit
<1>2. pc[c] = "commit"
  BY DEF Commit
<1>3. CASE pc' = [pc EXCEPT ![c] = "switch"]
  <2>1. PICK chosen : /\ next' = [next EXCEPT ![c] = chosen]
                      /\ current' = [current EXCEPT ![c] = chosen]
                      /\ UNCHANGED <<gs, userRsp, rsp>>
    BY <1>2, <1>3, CommitChoice DEF LeaveSyscall, EntryInv, EntryTyped, PerCpu
  <2>2. EntryTyped' /\ OwnStacks' /\ ThisCpuOnly(c)
    BY <1>1, <1>3, <2>1 DEF EntryInv, EntryTyped, PerCpu, OwnStacks, ThisCpuOnly
  <2>3. EntryKept(c)'
    BY <1>1, <1>2, <1>3, <2>1 DEF EntryInv, EntryTyped, PerCpu, EntryKept
  <2>4. QED BY <2>2, <2>3, OneCpu
<1>4. CASE pc' # [pc EXCEPT ![c] = "switch"]
  <2>1. /\ next' = [next EXCEPT ![c] = NoThread]
        /\ UNCHANGED <<current, rsp>>
        /\ pc' = [pc EXCEPT ![c] = "run"]
        /\ IF live[c] \in UserThreads
           THEN /\ gs' = [gs EXCEPT ![c] = UserGs]
                /\ userRsp' = [userRsp EXCEPT ![c] = NoThread]
           ELSE UNCHANGED <<gs, userRsp>>
    BY <1>2, <1>4, CommitChoice, LeaveEntry
  <2>2. EntryTyped' /\ OwnStacks' /\ ThisCpuOnly(c)
    BY <1>1, <1>2, <2>1 DEF EntryInv, EntryTyped, PerCpu, OwnStacks, ThisCpuOnly
  <2>3. EntryKept(c)'
    BY <1>1, <1>2, <2>1
    DEF EntryInv, EntryTyped, PerCpu, EntryKept
  <2>4. QED BY <2>2, <2>3, OneCpu
<1>5. QED BY <1>3, <1>4

\* A thread saved in the kernel is loaded with a GS base that is the user's and
\* stops there; one saved in user mode has everything prepared.
LEMMA SwitchToEntry ==
  ASSUME EntryInv, NEW c \in CPUs, NEW selector \in {"user", "kernel"}, NEW g,
         pc[c] \in {"switch", "irqsave"},
         SwitchTo(c, selector, g),
         g[1] = "user", cs[next[c]] = "user" => g = UserGs
  PROVE  EntryInv'
<1>1. /\ cs' = [cs EXCEPT ![live[c]] = selector]
      /\ live' = [live EXCEPT ![c] = next[c]]
      /\ next' = [next EXCEPT ![c] = NoThread]
      /\ kernelStack' = [kernelStack EXCEPT ![c] = next[c]]
      /\ gs' = [gs EXCEPT ![c] = g]
      /\ UNCHANGED <<userRsp, rsp, current, inSchedule>>
  BY DEF SwitchTo, LeaveSyscall, KernelStackOfNext
<1>2. pc' = [pc EXCEPT ![c] = IF next[c] \in UserThreads /\ cs[next[c]] = "kernel"
                               THEN "panic" ELSE "run"]
  BY DEF SwitchTo, LeaveSyscall
<1>3. next[c] = current[c] /\ ~inSchedule[c]
  BY DEF EntryInv, EntryKept
<1>4. next[c] \in UserThreads => cs[next[c]] \in {"user", "kernel"}
  BY DEF EntryInv, EntryTyped, Threads
<1>5. EntryTyped' /\ OwnStacks' /\ ThisCpuOnly(c)
  BY <1>1, <1>2 DEF EntryInv, EntryTyped, PerCpu, OwnStacks, ThisCpuOnly
<1>6. EntryKept(c)'
  BY <1>1, <1>2, <1>3, <1>4 DEF EntryInv, EntryTyped, PerCpu, EntryKept
<1>7. QED BY <1>5, <1>6, OneCpu

LEMMA SwitchEntry ==
  ASSUME EntryInv, NEW c \in CPUs, Switch(c)
  PROVE  EntryInv'
<1> DEFINE g == LoadSelector(PreparedGs(next[c], gs[c]))
<1>1. g[1] = "user" /\ (cs[next[c]] = "user" => g = UserGs)
  BY DEF LoadSelector, PreparedGs, UserGs
<1>2. QED BY <1>1, SwitchToEntry DEF Switch

LEMMA IrqSwitchEntry ==
  ASSUME EntryInv, NEW c \in CPUs, IrqSwitch(c)
  PROVE  EntryInv'
<1> DEFINE g == PreparedGs(next[c], gs[c])
<1>1. gs[c][1] = "user"
  BY DEF EntryInv, EntryKept, IrqSwitch, UserGs
<1>2. g[1] = "user" /\ (cs[next[c]] = "user" => g = UserGs)
  BY <1>1 DEF PreparedGs, UserGs
<1>3. QED BY <1>2, SwitchToEntry DEF IrqSwitch

LEMMA StealEntry ==
  ASSUME EntryInv, NEW c \in CPUs, Steal(c)
  PROVE  EntryInv'
<1>1. EntryTyped' /\ OwnStacks' /\ ThisCpuOnly(c)
  BY DEF EntryInv, EntryTyped, PerCpu, OwnStacks, ThisCpuOnly, Steal, entry
<1>2. EntryKept(c)'
  BY DEF EntryInv, EntryTyped, PerCpu, EntryKept, Steal, entry
<1>3. QED BY <1>1, <1>2, OneCpu

LEMMA TimerEntry ==
  ASSUME EntryInv, NEW c \in CPUs, Timer(c)
  PROVE  EntryInv'
<1>1. EntryTyped' /\ OwnStacks' /\ ThisCpuOnly(c)
  BY DEF EntryInv, EntryTyped, PerCpu, OwnStacks, ThisCpuOnly, Timer,
         TimerNoSwitch, Preempt, entry
<1>2. EntryKept(c)'
  BY DEF EntryInv, EntryTyped, PerCpu, EntryKept, Timer, TimerNoSwitch, Preempt,
         entry
<1>3. QED BY <1>1, <1>2, OneCpu

LEMMA CreateEntry ==
  ASSUME EntryInv, NEW c \in CPUs, NEW t \in UserThreads, CreateThread(c, t)
  PROVE  EntryInv'
<1>1. EntryTyped' /\ OwnStacks' /\ ThisCpuOnly(c)
  BY DEF EntryInv, EntryTyped, PerCpu, OwnStacks, ThisCpuOnly, CreateThread, entry
<1>2. EntryKept(c)'
  BY DEF EntryInv, EntryKept, CreateThread, entry
<1>3. QED BY <1>1, <1>2, OneCpu

LEMMA StartEntry ==
  ASSUME EntryInv, NEW c \in CPUs, NEW t \in UserThreads, StartThread(c, t)
  PROVE  EntryInv'
<1>1. live[c] \in UserThreads /\ rsp[live[c]] = live[c]
  BY ThreadAssumption DEF EntryInv, EntryKept, OwnStacks, StartThread
<1>2. EntryTyped' /\ OwnStacks' /\ ThisCpuOnly(c)
  BY DEF EntryInv, EntryTyped, PerCpu, OwnStacks, ThisCpuOnly, StartThread,
         EnterSyscall
<1>3. EntryKept(c)'
  BY <1>1 DEF EntryInv, EntryTyped, PerCpu, EntryKept, StartThread, EnterSyscall
<1>4. QED BY <1>2, <1>3, OneCpu

LEMMA StartReadyEntry ==
  ASSUME EntryInv, NEW c \in CPUs, StartReady(c)
  PROVE  EntryInv'
<1>1. EntryTyped' /\ OwnStacks' /\ ThisCpuOnly(c)
  BY DEF EntryInv, EntryTyped, PerCpu, OwnStacks, ThisCpuOnly, StartReady, entry
<1>2. EntryKept(c)'
  BY DEF EntryInv, EntryTyped, PerCpu, EntryKept, StartReady, entry
<1>3. QED BY <1>1, <1>2, OneCpu

LEMMA StartEnqueueEntry ==
  ASSUME EntryInv, NEW c \in CPUs, StartEnqueue(c)
  PROVE  EntryInv'
<1>1. /\ rsp' = rsp
      /\ gs' = [gs EXCEPT ![c] = UserGs]
      /\ userRsp' = [userRsp EXCEPT ![c] = NoThread]
      /\ pc' = [pc EXCEPT ![c] = "run"]
  BY LeaveEntry DEF EntryInv, EntryKept, StartEnqueue
<1>2. EntryTyped' /\ OwnStacks' /\ ThisCpuOnly(c)
  BY <1>1 DEF EntryInv, EntryTyped, PerCpu, OwnStacks, ThisCpuOnly, StartEnqueue
<1>3. EntryKept(c)'
  BY <1>1 DEF EntryInv, EntryTyped, PerCpu, EntryKept, StartEnqueue
<1>4. QED BY <1>2, <1>3, OneCpu

-----------------------------------------------------------------------------

LEMMA NextEntry == EntryInv /\ [Next]_vars => EntryInv'
<1> SUFFICES ASSUME EntryInv, [Next]_vars PROVE EntryInv'
  OBVIOUS
<1>1. ASSUME NEW c \in CPUs, BootYield(c) \/ Yield(c) \/ Exit(c) PROVE EntryInv'
  BY <1>1, EnterEntry DEF BootYield, Yield, Exit
<1>2. ASSUME NEW c \in CPUs, KernelStep(c) PROVE EntryInv'
  BY <1>2, StealEntry, CommitEntry, SwitchEntry, IrqSwitchEntry, StartReadyEntry,
     StartEnqueueEntry
  DEF KernelStep
<1>3. CASE UNCHANGED vars
  BY <1>3 DEF vars, EntryInv, EntryTyped, PerCpu, OwnStacks, EntryKept
<1>4. QED
  BY <1>1, <1>2, <1>3, TimerEntry, CreateEntry, StartEntry DEF Next

\* A thread in user mode is on its own stack, with its CPU's data behind swapgs
\* and its own kernel stack for the next entry: for any number of CPUs and
\* threads, whatever they do, wherever they are preempted, yield or are stolen.
THEOREM EntryStateStaysOwn == Spec => []EntryStateOwn
<1>1. EntryInv => EntryStateOwn
  BY DEF EntryInv, EntryKept, OwnStacks, EntryStateOwn
<1>2. QED BY <1>1, InitEntry, NextEntry, PTL DEF Spec

-----------------------------------------------------------------------------
(* What a selection takes and what it leaves                               *)

\* The positions of a finite set are numbered without gaps.
LEMMA KthOf ==
  ASSUME NEW n \in Nat, NEW S \in SUBSET (1 .. n)
  PROVE  /\ IsFiniteSet(S) /\ Cardinality(S) \in Nat
         /\ \A k \in 1 .. Cardinality(S) :
              Kth(S, k) \in S /\ Cardinality({j \in S : j <= Kth(S, k)}) = k
         /\ \A i \in S : \E k \in 1 .. Cardinality(S) : Kth(S, k) = i
<1> DEFINE Upto(i) == {j \in S : j <= i}
           rank == [i \in S |-> Cardinality(Upto(i))]
           C == Cardinality(S)
<1>1. IsFiniteSet(S) /\ C \in Nat
  BY FS_Interval, FS_Subset, FS_CardinalityType, 1 \in Int, n \in Int
<1>2. ASSUME NEW i \in S PROVE IsFiniteSet(Upto(i)) /\ rank[i] \in 1 .. C
  <2>1. Upto(i) \in SUBSET S
    OBVIOUS
  <2>2. IsFiniteSet(Upto(i)) /\ Cardinality(Upto(i)) <= C
    BY <1>1, <2>1, FS_Subset
  <2>3. Upto(i) # {}
    BY i <= i
  <2>4. Cardinality(Upto(i)) \in Nat /\ Cardinality(Upto(i)) # 0
    BY <2>2, <2>3, FS_EmptySet, FS_CardinalityType
  <2>5. QED BY <1>1, <2>2, <2>4
<1>3. ASSUME NEW i \in S, NEW j \in S, i < j PROVE rank[i] # rank[j]
  <2>1. Upto(i) \in SUBSET Upto(j) /\ j \in Upto(j) /\ j \notin Upto(i)
    <3>1. S \subseteq Int
      OBVIOUS
    <3>2. \A k \in S : k <= i => k <= j
      BY <1>3, <3>1
    <3>3. i \in Int /\ j \in Int
      BY <3>1
    <3>4. j <= j /\ ~(j <= i)
      BY <1>3, <3>3
    <3>5. QED BY <3>2, <3>4
  <2>2. Upto(i) # Upto(j)
    BY <2>1
  <2>3. Cardinality(Upto(i)) # Cardinality(Upto(j))
    BY <1>2, <2>1, <2>2, FS_Subset
  <2>4. QED BY <2>3
<1>4. ASSUME NEW i \in S, NEW j \in S, rank[i] = rank[j] PROVE i = j
  <2>1. i \in Int /\ j \in Int
    OBVIOUS
  <2>2. QED BY <1>3, <1>4, <2>1
<1>5. rank \in Injection(S, 1 .. C)
  BY <1>2, <1>4 DEF Injection, IsInjective
<1>6. IsFiniteSet(1 .. C) /\ Cardinality(1 .. C) = C
  BY <1>1, FS_Interval
<1>7. rank \in Surjection(S, 1 .. C)
  BY <1>5, <1>6, FS_Injection
<1>8. ASSUME NEW k \in 1 .. C PROVE Kth(S, k) \in S /\ rank[Kth(S, k)] = k
  <2>1. \E i \in S : rank[i] = k
    BY <1>7 DEF Surjection
  <2>2. \E i \in S : Cardinality({j \in S : j <= i}) = k
    BY <2>1
  <2>3. Kth(S, k) \in S /\ Cardinality({j \in S : j <= Kth(S, k)}) = k
    BY <2>2 DEF Kth
  <2>4. QED BY <2>3
<1>9. ASSUME NEW i \in S PROVE \E k \in 1 .. C : Kth(S, k) = i
  <2>1. rank[i] \in 1 .. C
    BY <1>2
  <2>2. Kth(S, rank[i]) = i
    BY <1>4, <1>8, <2>1
  <2>3. QED BY <2>1, <2>2
<1>10. QED BY <1>1, <1>8, <1>9

LEMMA Smallest ==
  ASSUME NEW n \in Nat, NEW S \in SUBSET (1 .. n), S # {}
  PROVE  \E i \in S : \A j \in S : i <= j
<1> DEFINE k == Kth(S, 1)
           Upto == {j \in S : j <= k}
<1>1. Cardinality(S) # 0
  BY KthOf, FS_EmptySet
<1>2. k \in S /\ Cardinality(Upto) = 1
  <2>1. Cardinality(S) \in Nat /\ 1 \in 1 .. Cardinality(S)
    <3>1. Cardinality(S) \in Nat
      BY KthOf
    <3>2. QED BY <1>1, <3>1
  <2>2. QED BY <2>1, KthOf
<1>3. IsFiniteSet(Upto)
  BY KthOf, FS_Subset, Upto \in SUBSET S
<1>4. S \subseteq Int
  OBVIOUS
<1>5. k \in Upto
  <2>1. k \in Int
    BY <1>2, <1>4
  <2>2. k <= k
    BY <2>1
  <2>3. QED BY <1>2, <2>2
<1>6. Upto = {k}
  BY <1>2, <1>3, <1>5, FS_Singleton
<1>7. ASSUME NEW j \in S PROVE k <= j
  <2>1. j <= k => j = k
    BY <1>6
  <2>2. k \in Int /\ j \in Int
    BY <1>2, <1>4
  <2>3. j <= k \/ k <= j
    BY <2>2
  <2>4. QED BY <2>1, <2>2, <2>3
<1>8. QED BY <1>2, <1>7

\* The queue behind the entry taken, then the candidates put back.
Behind(q, at) == IF at <= Len(q) THEN Len(q) - at ELSE 0

LEMMA LeftOver ==
  ASSUME NEW U, NEW q \in Seq(U), NEW at \in 1 .. Len(q) + 1, NEW s \in Seq(U)
  PROVE  LET r == QueueAfterPick(q, at, s)
             m == Behind(q, at)
         IN
         /\ m \in Nat /\ r \in Seq(U) /\ Len(r) = m + Len(s)
         /\ \A i \in 1 .. m : r[i] = q[at + i]
         /\ \A k \in 1 .. Len(s) : r[m + k] = s[k]
<1> DEFINE b == SubSeq(q, at + 1, Len(q))
           m == Behind(q, at)
<1>1. Len(q) \in Nat /\ Len(s) \in Nat
  BY LenProperties
<1>2. b \in Seq(U) /\ Len(b) = m /\ \A i \in 1 .. m : b[i] = q[at + i]
  BY <1>1, SubSeqProperties DEF Behind
<1> HIDE DEF b
<1>3. /\ b \o s \in Seq(U) /\ Len(b \o s) = Len(b) + Len(s)
      /\ \A i \in 1 .. Len(b) + Len(s) :
           (b \o s)[i] = IF i <= Len(b) THEN b[i] ELSE s[i - Len(b)]
  BY <1>2, ConcatProperties
<1>4. m \in Nat
  BY <1>1 DEF Behind
<1>5. \A i \in 1 .. m : (b \o s)[i] = q[at + i]
  BY <1>1, <1>2, <1>3, <1>4
<1>6. ASSUME NEW k \in 1 .. Len(s) PROVE (b \o s)[m + k] = s[k]
  <2>1. m + k \in 1 .. m + Len(s) /\ ~(m + k <= m) /\ (m + k) - m = k
    BY <1>1, <1>4
  <2>2. QED BY <1>2, <1>3, <2>1
<1>7. QED BY <1>2, <1>3, <1>4, <1>5, <1>6 DEF QueueAfterPick, b

Apart(q) == \A i, j \in DOMAIN q : i # j => q[i] # q[j]

LEMMA AppendApart ==
  ASSUME NEW S, NEW q \in Seq(S), Apart(q), NEW x \in S, x \notin Elements(q)
  PROVE  Apart(Append(q, x))
<1> DEFINE r == Append(q, x)
<1>1. /\ Len(q) \in Nat /\ DOMAIN q = 1 .. Len(q) /\ DOMAIN r = 1 .. Len(q) + 1
      /\ \A i \in 1 .. Len(q) : r[i] = q[i]
      /\ r[Len(q) + 1] = x
  BY AppendProperties, LenProperties
<1>2. \A i \in DOMAIN q : q[i] # x
  BY DEF Elements
<1> HIDE DEF r
<1> SUFFICES ASSUME NEW i \in DOMAIN r, NEW j \in DOMAIN r, i # j PROVE r[i] # r[j]
  BY DEF Apart, r
<1>3. CASE i \in DOMAIN q /\ j \in DOMAIN q
  BY <1>1, <1>3 DEF Apart
<1>4. CASE i = Len(q) + 1
  BY <1>1, <1>2, <1>4
<1>5. CASE j = Len(q) + 1
  BY <1>1, <1>2, <1>5
<1>6. QED BY <1>1, <1>3, <1>4, <1>5

\* The candidates a selection may pass over are few enough to be put back.
RoomForSkipped == IsFiniteSet(Yielding) /\ Cardinality(Yielding) <= MaxSkip
PassesYielders(q, ts) ==
  \A t \in Elements(q) : Dequeuable(t, ts) /\ cs[t] # "user" => t \in Yielding

\* What a selection takes is one of the entries, and it takes it out unless it
\* falls back to one that was saved in the kernel.  What it leaves was there
\* before, and it drops nothing that could be taken as long as there is room
\* for every candidate it passes over.
LEMMA Picked ==
  ASSUME NEW U, NEW q \in Seq(U), NEW ts
  PROVE  LET p == PickNext(q, ts) IN
         /\ p.queue \in Seq(U)
         /\ Elements(p.queue) \subseteq Elements(q)
         /\ p.next # NoThread =>
              p.next \in Elements(q) /\ Dequeuable(p.next, ts)
         /\ Apart(q) => Apart(p.queue)
         /\ Apart(q) /\ cs[p.next] = "user" =>
              p.next = NoThread \/ p.next \notin Elements(p.queue)
         /\ p.next = NoThread /\ NoThread \notin U =>
              \A t \in Elements(q) : ~Dequeuable(t, ts)
         /\ RoomForSkipped /\ Apart(q) /\ PassesYielders(q, ts) =>
              \A t \in Elements(q) : Dequeuable(t, ts) =>
                t = p.next \/ t \in Elements(p.queue)
<1> DEFINE takes == {i \in DOMAIN q : Dequeuable(q[i], ts)}
           users == {i \in takes : cs[q[i]] = "user"}
           found == users # {}
           at == IF found THEN CHOOSE i \in users : \A j \in users : i <= j
                          ELSE Len(q) + 1
           passed == {i \in takes : i < at}
           count == IF Cardinality(passed) > MaxSkip THEN MaxSkip
                                                     ELSE Cardinality(passed)
           skipped == [k \in 1 .. count |-> q[Kth(passed, k)]]
           p == PickNext(q, ts)
           m == Behind(q, at)
           r == p.queue
<1> HIDE DEF at, passed, count, skipped, p
<1>1. /\ p.next = IF found THEN q[at]
                  ELSE IF skipped # << >> THEN skipped[1] ELSE NoThread
      /\ p.queue = QueueAfterPick(q, at, skipped)
  BY DEF PickNext, at, passed, count, skipped, p
<1>2. Len(q) \in Nat /\ DOMAIN q = 1 .. Len(q) /\ MaxSkip \in Nat \ {0}
  BY LenProperties, BoundAssumption
<1>3. /\ found => at \in users /\ \A j \in users : at <= j
      /\ ~found => at = Len(q) + 1
      /\ at \in 1 .. Len(q) + 1
  <2>1. CASE found
    <3>1. users \subseteq 1 .. Len(q)
      BY <1>2
    <3>2. \E i \in users : \A j \in users : i <= j
      BY <1>2, <2>1, <3>1, Smallest
    <3>3. at \in users /\ \A j \in users : at <= j
      BY <2>1, <3>2 DEF at
    <3>4. QED BY <1>2, <2>1, <3>1, <3>3
  <2>2. CASE ~found
    BY <1>2, <2>2 DEF at
  <2>3. QED BY <2>1, <2>2
<1>4. /\ passed \in SUBSET (1 .. Len(q))
      /\ Cardinality(passed) \in Nat /\ count \in Nat /\ count <= Cardinality(passed)
      /\ \A k \in 1 .. Cardinality(passed) : Kth(passed, k) \in passed
      /\ \A k, l \in 1 .. Cardinality(passed) : Kth(passed, k) = Kth(passed, l) => k = l
      /\ \A i \in passed : \E k \in 1 .. Cardinality(passed) : Kth(passed, k) = i
  <2>1. passed \in SUBSET (1 .. Len(q))
    BY <1>2 DEF passed
  <2>2. Cardinality(passed) \in Nat
    BY <1>2, <2>1, KthOf
  <2>3. \A k \in 1 .. Cardinality(passed) :
          Kth(passed, k) \in passed
          /\ Cardinality({j \in passed : j <= Kth(passed, k)}) = k
    BY <1>2, <2>1, KthOf
  <2>4. \A i \in passed : \E k \in 1 .. Cardinality(passed) : Kth(passed, k) = i
    BY <1>2, <2>1, KthOf
  <2>5. count \in Nat /\ count <= Cardinality(passed)
    BY <1>2, <2>2 DEF count
  <2>6. QED BY <2>1, <2>2, <2>3, <2>4, <2>5
<1>5. /\ skipped \in Seq(U) /\ Len(skipped) = count
      /\ \A k \in 1 .. count : skipped[k] = q[Kth(passed, k)]
  <2>1. ASSUME NEW k \in 1 .. count PROVE q[Kth(passed, k)] \in U
    <3>1. k \in 1 .. Cardinality(passed)
      BY <1>4
    <3>2. Kth(passed, k) \in 1 .. Len(q)
      BY <1>4, <3>1
    <3>3. QED BY <1>2, <3>2
  <2>2. QED BY <1>4, <2>1 DEF skipped
<1>6. /\ m \in Nat /\ r \in Seq(U) /\ Len(r) = m + count
      /\ \A i \in 1 .. m : r[i] = q[at + i]
      /\ \A k \in 1 .. count : r[m + k] = q[Kth(passed, k)]
  <2>1. at \in 1 .. Len(q) + 1 /\ skipped \in Seq(U)
    BY <1>3, <1>5
  <2> DEFINE l == QueueAfterPick(q, at, skipped)
  <2>2. /\ m \in Nat /\ l \in Seq(U) /\ Len(l) = m + Len(skipped)
        /\ \A i \in 1 .. m : l[i] = q[at + i]
        /\ \A k \in 1 .. Len(skipped) : l[m + k] = skipped[k]
    <3>1. m \in Nat /\ l \in Seq(U) /\ Len(l) = m + Len(skipped)
      BY <2>1, LeftOver
    <3>2. ASSUME NEW i \in 1 .. m PROVE l[i] = q[at + i]
      BY <2>1, LeftOver
    <3>3. ASSUME NEW k \in 1 .. Len(skipped) PROVE l[m + k] = skipped[k]
      BY <2>1, LeftOver
    <3>4. QED BY <3>1, <3>2, <3>3
  <2> HIDE DEF l
  <2>3. r = l
    BY <1>1 DEF l
  <2> HIDE DEF r, m
  <2>4. QED BY <1>5, <2>2, <2>3
<1>7. DOMAIN r = 1 .. m + count
  BY <1>6
<1> DEFINE from(i) == IF i <= m THEN at + i ELSE Kth(passed, i - m)
<1>8. ASSUME NEW i \in DOMAIN r
      PROVE  r[i] = q[from(i)] /\ from(i) \in DOMAIN q /\ from(i) # at
  <2>1. CASE i <= m
    BY <1>2, <1>3, <1>6, <1>7, <2>1 DEF Behind
  <2>2. CASE ~(i <= m)
    <3>1. i - m \in 1 .. count /\ i = m + (i - m)
      BY <1>4, <1>6, <1>7, <2>2
    <3>2. r[i] = q[Kth(passed, i - m)] /\ Kth(passed, i - m) \in passed
      BY <1>4, <1>6, <3>1
    <3>3. Kth(passed, i - m) < at
      BY <3>2 DEF passed
    <3>4. Kth(passed, i - m) \in 1 .. Len(q) /\ Kth(passed, i - m) # at
      <4>1. Kth(passed, i - m) \in 1 .. Len(q)
        BY <1>4, <3>2
      <4>2. QED BY <1>2, <1>3, <3>3, <4>1
    <3>5. QED BY <1>2, <2>2, <3>2, <3>4
  <2>3. QED BY <2>1, <2>2
<1>9. ASSUME NEW i \in DOMAIN r, NEW j \in DOMAIN r, i # j PROVE from(i) # from(j)
  <2>1. \A k \in DOMAIN r : ~(k <= m) =>
          k - m \in 1 .. Cardinality(passed) /\ Kth(passed, k - m) < at
    <3>1. ASSUME NEW k \in DOMAIN r, ~(k <= m)
          PROVE k - m \in 1 .. Cardinality(passed) /\ Kth(passed, k - m) < at
      <4>1. k - m \in 1 .. Cardinality(passed)
        BY <1>4, <1>6, <1>7, <3>1
      <4>2. QED BY <1>4, <4>1 DEF passed
    <3>2. QED BY <3>1
  <2>2. CASE i <= m /\ j <= m
    BY <1>3, <1>6, <1>7, <1>9, <2>2
  <2>3. CASE i <= m /\ ~(j <= m)
    <3>1. Kth(passed, j - m) < at /\ j - m \in 1 .. Cardinality(passed)
      BY <2>1, <2>3
    <3>2. Kth(passed, j - m) \in 1 .. Len(q)
      BY <1>4, <3>1
    <3>3. QED BY <1>3, <1>6, <1>7, <2>3, <3>1, <3>2
  <2>4. CASE ~(i <= m) /\ j <= m
    <3>1. Kth(passed, i - m) < at /\ i - m \in 1 .. Cardinality(passed)
      BY <2>1, <2>4
    <3>2. Kth(passed, i - m) \in 1 .. Len(q)
      BY <1>4, <3>1
    <3>3. QED BY <1>3, <1>6, <1>7, <2>4, <3>1, <3>2
  <2>5. CASE ~(i <= m) /\ ~(j <= m)
    <3>1. i - m # j - m
      BY <1>6, <1>7, <1>9
    <3>2. QED BY <1>4, <2>1, <2>5, <3>1
  <2>6. QED BY <2>2, <2>3, <2>4, <2>5
<1> HIDE DEF from, m
<1>10. Elements(r) \subseteq Elements(q)
  BY <1>8 DEF Elements
<1>11. p.next # NoThread => p.next \in Elements(q) /\ Dequeuable(p.next, ts)
  <2>1. CASE found
    <3>1. at \in DOMAIN q /\ Dequeuable(q[at], ts)
      BY <1>3, <2>1
    <3>2. QED BY <1>1, <2>1, <3>1 DEF Elements
  <2>2. CASE ~found /\ skipped # << >>
    <3>1. count # 0
      BY <1>5, <2>2, EmptySeq, LenProperties
    <3>2. 1 \in 1 .. count /\ 1 \in 1 .. Cardinality(passed)
      BY <1>4, <3>1
    <3>3. Kth(passed, 1) \in passed /\ skipped[1] = q[Kth(passed, 1)]
      BY <1>4, <1>5, <3>2
    <3>4. Kth(passed, 1) \in takes
      BY <3>3 DEF passed
    <3>5. QED BY <1>1, <2>2, <3>3, <3>4 DEF Elements
  <2>3. QED BY <1>1, <2>1, <2>2
<1>12. Apart(q) => Apart(r)
  BY <1>8, <1>9 DEF Apart
<1>13. Apart(q) /\ cs[p.next] = "user" => p.next = NoThread \/ p.next \notin Elements(r)
  <2> SUFFICES ASSUME Apart(q), cs[p.next] = "user", p.next # NoThread
               PROVE  p.next \notin Elements(r)
    OBVIOUS
  <2>1. CASE found
    <3>1. p.next = q[at] /\ at \in DOMAIN q
      BY <1>1, <1>3, <2>1
    <3>2. QED BY <1>8, <3>1 DEF Apart, Elements
  <2>2. CASE ~found
    <3>1. p.next \in Elements(q) /\ Dequeuable(p.next, ts)
      BY <1>11
    <3>2. QED BY <2>2, <3>1 DEF Elements
  <2>3. QED BY <2>1, <2>2
<1>14. ASSUME RoomForSkipped, Apart(q), PassesYielders(q, ts),
              NEW t \in Elements(q), Dequeuable(t, ts)
       PROVE  t = p.next \/ t \in Elements(r)
  <2>1. PICK i \in DOMAIN q : t = q[i]
    BY <1>14 DEF Elements
  <2>2. count = Cardinality(passed)
    <3> DEFINE f == [j \in passed |-> q[j]]
    <3>1. ASSUME NEW j \in passed
          PROVE  j \in DOMAIN q /\ Dequeuable(q[j], ts) /\ cs[q[j]] # "user"
      <4>1. j \in takes /\ j < at
        BY DEF passed
      <4>2. j \notin users
        <5>1. ASSUME j \in users PROVE FALSE
          <6>1. at <= j /\ at \in Int /\ j \in Int
            BY <1>2, <1>3, <5>1
          <6>2. QED BY <4>1, <6>1
        <5>2. QED BY <5>1
      <4>3. QED BY <4>1, <4>2
    <3>2. \A j \in passed : q[j] \in Yielding
      BY <1>14, <3>1 DEF PassesYielders, Elements
    <3>3. \A j, k \in passed : q[j] = q[k] => j = k
      BY <1>14, <3>1 DEF Apart
    <3>4. f \in Injection(passed, Yielding)
      BY <3>2, <3>3 DEF Injection, IsInjective
    <3>5. Cardinality(passed) <= Cardinality(Yielding) /\ Cardinality(Yielding) \in Nat
      BY <1>14, <3>4, FS_Injection, FS_CardinalityType DEF RoomForSkipped
    <3>6. Cardinality(passed) <= MaxSkip
      BY <1>2, <1>4, <1>14, <3>5 DEF RoomForSkipped
    <3>7. QED BY <1>2, <1>4, <3>6 DEF count
  <2>3. CASE i < at
    <3>1. i \in passed
      BY <1>14, <2>1, <2>3 DEF passed
    <3>2. PICK k \in 1 .. count : Kth(passed, k) = i
      BY <1>4, <2>2, <3>1
    <3>3. r[m + k] = q[i] /\ m + k \in DOMAIN r
      BY <1>4, <1>6, <1>7, <3>2
    <3>4. QED BY <2>1, <3>3 DEF Elements
  <2>4. CASE i = at
    BY <1>1, <1>2, <1>3, <2>1, <2>4
  <2>5. CASE i > at
    <3>1. i - at \in 1 .. m /\ at + (i - at) = i
      BY <1>2, <1>3, <2>1, <2>5 DEF m, Behind
    <3>2. r[i - at] = q[i] /\ i - at \in DOMAIN r
      BY <1>4, <1>6, <1>7, <3>1
    <3>3. QED BY <2>1, <3>2 DEF Elements
  <2>6. QED BY <1>2, <1>3, <2>1, <2>3, <2>4, <2>5
<1>15. ASSUME p.next = NoThread, NoThread \notin U, NEW t \in Elements(q),
              Dequeuable(t, ts)
       PROVE  FALSE
  <2>1. PICK i \in DOMAIN q : t = q[i]
    BY DEF Elements
  <2>2. ~found
    <3>1. found => q[at] \in U
      BY <1>2, <1>3
    <3>2. QED BY <1>1, <1>15, <3>1
  <2>3. i \in passed
    BY <1>2, <1>3, <1>15, <2>1, <2>2 DEF passed
  <2>4. Cardinality(passed) # 0
    BY <1>4, <2>3
  <2>5. 1 \in 1 .. count
    BY <1>2, <1>4, <2>4 DEF count
  <2>6. skipped[1] \in U /\ skipped # << >>
    BY <1>5, <2>5, EmptySeq, LenProperties
  <2>7. QED BY <1>1, <1>15, <2>2, <2>6
<1>16. QED BY <1>6, <1>10, <1>11, <1>12, <1>13, <1>14, <1>15 DEF p

-----------------------------------------------------------------------------
(* The types, which no order of steps can break                            *)

LEMMA EnterTyped ==
  ASSUME TypeOK, NEW c \in CPUs, EnterSyscall(c)
  PROVE  /\ gs' \in [CPUs -> {"user", "cpu"} \X {"user", "cpu"}]
         /\ userRsp' \in [CPUs -> UserThreads \cup {NoThread}]
<1>1. /\ gs \in [CPUs -> {"user", "cpu"} \X {"user", "cpu"}]
      /\ userRsp \in [CPUs -> UserThreads \cup {NoThread}]
      /\ rsp \in [UserThreads -> UserThreads \cup {NoThread}]
  BY DEF TypeOK
<1>2. Swapgs(gs[c]) \in {"user", "cpu"} \X {"user", "cpu"}
  BY <1>1 DEF Swapgs
<1>3. CASE live[c] \in UserThreads
  <2>1. /\ gs' = [gs EXCEPT ![c] = Swapgs(gs[c])]
        /\ userRsp' = [userRsp EXCEPT ![c] = rsp[live[c]]]
    BY <1>3 DEF EnterSyscall
  <2>2. QED BY <1>1, <1>2, <1>3, <2>1
<1>4. CASE live[c] \notin UserThreads
  BY <1>1, <1>4 DEF EnterSyscall
<1>5. QED BY <1>3, <1>4

LEMMA LeaveTyped ==
  ASSUME TypeOK, NEW c \in CPUs, NEW t \in UserThreads,
         NEW g \in {"user", "cpu"} \X {"user", "cpu"}, LeaveSyscall(c, t, g)
  PROVE  /\ gs' \in [CPUs -> {"user", "cpu"} \X {"user", "cpu"}]
         /\ userRsp' \in [CPUs -> UserThreads \cup {NoThread}]
         /\ rsp' \in [UserThreads -> UserThreads \cup {NoThread}]
         /\ pc' \in [CPUs -> Locations]
<1>1. /\ gs \in [CPUs -> {"user", "cpu"} \X {"user", "cpu"}]
      /\ userRsp \in [CPUs -> UserThreads \cup {NoThread}]
      /\ rsp \in [UserThreads -> UserThreads \cup {NoThread}]
      /\ pc \in [CPUs -> Locations]
      /\ "run" \in Locations /\ "panic" \in Locations
  BY DEF TypeOK, Locations
<1>2. Swapgs(g) \in {"user", "cpu"} \X {"user", "cpu"}
  BY DEF Swapgs
<1>3. CASE g[1] = "cpu"
  <2>1. /\ rsp' = [rsp EXCEPT ![t] = userRsp[c]]
        /\ gs' = [gs EXCEPT ![c] = Swapgs(g)]
        /\ userRsp' = [userRsp EXCEPT ![c] = NoThread]
        /\ pc' = [pc EXCEPT ![c] = "run"]
    BY <1>3 DEF LeaveSyscall
  <2>2. userRsp[c] \in UserThreads \cup {NoThread}
    BY <1>1
  <2>3. QED BY <1>1, <1>2, <2>1, <2>2
<1>4. CASE g[1] # "cpu"
  BY <1>1, <1>4 DEF LeaveSyscall
<1>5. QED BY <1>3, <1>4

LEMMA Largest ==
  ASSUME NEW n \in Nat, NEW S \in SUBSET (1 .. n), S # {}
  PROVE  \E i \in S : \A j \in S : j <= i
<1> DEFINE k == Kth(S, Cardinality(S))
           Upto == {j \in S : j <= k}
<1>1. IsFiniteSet(S) /\ Cardinality(S) \in Nat
  BY KthOf
<1>2. Cardinality(S) # 0
  BY <1>1, FS_EmptySet
<1>3. Cardinality(S) \in 1 .. Cardinality(S)
  BY <1>1, <1>2
<1>4. k \in S /\ Cardinality(Upto) = Cardinality(S)
  BY <1>3, KthOf
<1>5. Upto \in SUBSET S
  OBVIOUS
<1>6. Upto = S
  BY <1>1, <1>4, <1>5, FS_Subset
<1>7. QED BY <1>4, <1>6

\* Taking one entry out leaves the others.
LEMMA TakenOut ==
  ASSUME NEW U, NEW q \in Seq(U), NEW slot \in DOMAIN q
  PROVE  LET r == SubSeq(q, 1, slot - 1) \o SubSeq(q, slot + 1, Len(q)) IN
         /\ r \in Seq(U)
         /\ Elements(r) \subseteq Elements(q)
         /\ Elements(q) \subseteq Elements(r) \cup {q[slot]}
         /\ Apart(q) => Apart(r) /\ q[slot] \notin Elements(r)
<1> DEFINE a == SubSeq(q, 1, slot - 1)
           b == SubSeq(q, slot + 1, Len(q))
           r == a \o b
<1>1. Len(q) \in Nat /\ DOMAIN q = 1 .. Len(q) /\ slot \in 1 .. Len(q)
  BY LenProperties
<1>2. a \in Seq(U) /\ Len(a) = slot - 1 /\ \A i \in 1 .. slot - 1 : a[i] = q[i]
  <2>1. /\ 1 \in 1 .. Len(q) + 1 /\ slot - 1 \in 0 .. Len(q)
        /\ \A i \in 1 .. slot - 1 : i \in 1 .. Len(q) /\ 1 + i - 1 = i
    BY <1>1
  <2>2. QED BY <1>1, <2>1, SubSeqProperties
<1>3. b \in Seq(U) /\ Len(b) = Len(q) - slot /\ \A i \in 1 .. Len(q) - slot : b[i] = q[slot + i]
  BY <1>1, SubSeqProperties
<1> HIDE DEF a, b
<1>4. /\ r \in Seq(U) /\ Len(r) = Len(q) - 1
      /\ \A i \in 1 .. Len(q) - 1 :
           r[i] = IF i <= slot - 1 THEN a[i] ELSE b[i - (slot - 1)]
  <2>1. /\ r \in Seq(U) /\ Len(r) = Len(a) + Len(b)
        /\ \A i \in 1 .. Len(a) + Len(b) :
             r[i] = IF i <= Len(a) THEN a[i] ELSE b[i - Len(a)]
    BY <1>2, <1>3, ConcatProperties
  <2>2. Len(a) + Len(b) = Len(q) - 1
    BY <1>1, <1>2, <1>3
  <2>3. QED BY <1>2, <2>1, <2>2
<1> HIDE DEF r
<1>5. DOMAIN r = 1 .. Len(q) - 1
  BY <1>4, LenProperties
<1> DEFINE from(i) == IF i < slot THEN i ELSE i + 1
<1>6. ASSUME NEW i \in DOMAIN r PROVE r[i] = q[from(i)] /\ from(i) \in DOMAIN q
  <2>1. CASE i < slot
    BY <1>1, <1>2, <1>4, <1>5, <2>1
  <2>2. CASE ~(i < slot)
    <3>1. i - (slot - 1) \in 1 .. Len(q) - slot /\ slot + (i - (slot - 1)) = i + 1
      BY <1>1, <1>5, <2>2
    <3>2. r[i] = b[i - (slot - 1)]
      BY <1>1, <1>4, <1>5, <2>2
    <3>3. QED BY <1>1, <1>3, <1>5, <2>2, <3>1, <3>2
  <2>3. QED BY <2>1, <2>2
<1>7. \A i, j \in DOMAIN r : from(i) # slot /\ (i # j => from(i) # from(j))
  BY <1>1, <1>5
<1>8. ASSUME NEW i \in DOMAIN q, i # slot PROVE \E j \in DOMAIN r : from(j) = i
  <2>1. CASE i < slot
    BY <1>1, <1>5, <2>1
  <2>2. CASE i > slot
    <3>1. i - 1 \in DOMAIN r /\ from(i - 1) = i
      BY <1>1, <1>5, <2>2
    <3>2. QED BY <3>1
  <2>3. QED BY <1>1, <1>8, <2>1, <2>2
<1> HIDE DEF from
<1>9. Elements(r) \subseteq Elements(q)
  BY <1>6 DEF Elements
<1>10. Elements(q) \subseteq Elements(r) \cup {q[slot]}
  <2>1. ASSUME NEW i \in DOMAIN q, i # slot PROVE q[i] \in Elements(r)
    BY <1>6, <1>8, <2>1 DEF Elements
  <2>2. QED BY <2>1 DEF Elements
<1>11. Apart(q) => Apart(r) /\ q[slot] \notin Elements(r)
  BY <1>6, <1>7 DEF Apart, Elements
<1>12. QED BY <1>4, <1>9, <1>10, <1>11 DEF r, a, b

\* A selection hands out threads and leaves a queue of threads.
LEMMA PickTyped ==
  ASSUME NEW q \in Seq(Threads), NEW ts
  PROVE  /\ PickNext(q, ts).queue \in Seq(Threads)
         /\ PickNext(q, ts).next \in Threads \cup {NoThread}
<1> DEFINE p == PickNext(q, ts)
<1>1. /\ p.queue \in Seq(Threads)
      /\ p.next # NoThread => p.next \in Elements(q)
  BY Picked
<1> HIDE DEF p
<1>2. \A t \in Elements(q) : t \in Threads
  BY DEF Elements
<1>3. p.queue \in Seq(Threads) /\ p.next \in Threads \cup {NoThread}
  BY <1>1, <1>2
<1>4. QED BY <1>3 DEF p

LEMMA RequeueTyped ==
  ASSUME TypeOK, NEW c \in CPUs, NEW ts \in [Threads -> ThreadStates]
  PROVE  /\ StatesAfterRequeue(c, ts) \in [Threads -> ThreadStates]
         /\ QueueAfterRequeue(c, ts) \in Seq(Threads)
         /\ HandoffAfterRequeue(c, ts) \in Threads \cup {NoThread}
         /\ ClearedHandoff(c) \in Threads \cup {NoThread}
<1>1. /\ current[c] \in Threads /\ queue[c] \in Seq(Threads)
      /\ handoff[c] \in Threads \cup {NoThread}
  BY DEF TypeOK
<1>2. StatesAfterRequeue(c, ts) \in [Threads -> ThreadStates]
  BY DEF StatesAfterRequeue, ThreadStates
<1>3. Append(queue[c], current[c]) \in Seq(Threads)
  BY <1>1, AppendProperties
<1>4. QueueAfterRequeue(c, ts) \in Seq(Threads)
  BY <1>1, <1>3 DEF QueueAfterRequeue, EnqueueReady
<1>5. ClearedHandoff(c) \in Threads \cup {NoThread}
  BY <1>1 DEF ClearedHandoff
<1>6. HandoffAfterRequeue(c, ts) \in Threads \cup {NoThread}
  BY <1>1, <1>5 DEF HandoffAfterRequeue
<1>7. QED BY <1>2, <1>4, <1>5, <1>6

LEMMA EnterTypes ==
  ASSUME TypeOK, NEW c \in CPUs, NEW ts \in [Threads -> ThreadStates],
         ScheduleEnter(c, ts)
  PROVE  TypeOK'
<1> DEFINE s == StatesAfterRequeue(c, ts)
           p == PickNext(QueueAfterRequeue(c, ts), s)
           h == HandoffAfterRequeue(c, ts)
<1>1. /\ s \in [Threads -> ThreadStates] /\ h \in Threads \cup {NoThread}
      /\ ClearedHandoff(c) \in Threads \cup {NoThread}
      /\ QueueAfterRequeue(c, ts) \in Seq(Threads)
  BY RequeueTyped
<1>2. p.queue \in Seq(Threads) /\ p.next \in Threads \cup {NoThread}
  BY <1>1, PickTyped
<1> HIDE DEF s, p, h
<1>3. /\ gs' \in [CPUs -> {"user", "cpu"} \X {"user", "cpu"}]
      /\ userRsp' \in [CPUs -> UserThreads \cup {NoThread}]
  BY EnterTyped DEF ScheduleEnter
<1>4. UNCHANGED <<cs, slice, home, current, live, kernelStack, rsp>>
  BY DEF ScheduleEnter
<1>5. handoff' \in [CPUs -> Threads \cup {NoThread}]
  <2>1. handoff' = [handoff EXCEPT ![c] = IF inSchedule[c] THEN ClearedHandoff(c) ELSE h]
    BY DEF ScheduleEnter, h
  <2>2. QED BY <1>1, <2>1 DEF TypeOK
<1>6. CASE inSchedule[c]
  <2>1. tstate' = ts /\ UNCHANGED <<queue, inSchedule, pc, next, scan>>
    BY <1>6 DEF ScheduleEnter
  <2>2. QED BY <1>3, <1>4, <1>5, <2>1 DEF TypeOK
<1>7. CASE ~inSchedule[c]
  <2>1. /\ tstate' = s
        /\ queue' = [queue EXCEPT ![c] = p.queue]
        /\ inSchedule' = [inSchedule EXCEPT ![c] = TRUE]
        /\ next' = [next EXCEPT ![c] = p.next]
        /\ \E w \in SUBSET CPUs : scan' = [scan EXCEPT ![c] = w]
        /\ \E l \in {"steal", "commit"} : pc' = [pc EXCEPT ![c] = l]
    BY <1>7 DEF ScheduleEnter, s, p
  <2>2. queue' \in [CPUs -> Seq(Threads)] /\ inSchedule' \in [CPUs -> BOOLEAN]
    BY <1>2, <2>1 DEF TypeOK
  <2>3. next' \in [CPUs -> Threads \cup {NoThread}] /\ scan' \in [CPUs -> SUBSET CPUs]
    <3>1. next \in [CPUs -> Threads \cup {NoThread}] /\ scan \in [CPUs -> SUBSET CPUs]
      BY DEF TypeOK
    <3>2. next' \in [CPUs -> Threads \cup {NoThread}]
      BY <1>2, <2>1, <3>1
    <3>3. scan' \in [CPUs -> SUBSET CPUs]
      BY <2>1, <3>1
    <3>4. QED BY <3>2, <3>3
  <2>4. pc' \in [CPUs -> Locations]
    BY <2>1 DEF TypeOK, Locations
  <2>5. QED BY <1>1, <1>3, <1>4, <1>5, <2>1, <2>2, <2>3, <2>4 DEF TypeOK
<1>8. QED BY <1>6, <1>7

LEMMA PreemptTypes ==
  ASSUME TypeOK, NEW c \in CPUs, Preempt(c)
  PROVE  TypeOK'
<1> DEFINE x == current[c]
           s == StatesAfterRequeue(c, tstate)
           p == PickNext(QueueAfterRequeue(c, tstate), s)
           h == HandoffAfterRequeue(c, tstate)
           y == IF p.next = NoThread THEN x ELSE p.next
<1>1. tstate \in [Threads -> ThreadStates] /\ x \in Threads
  BY DEF TypeOK
<1>2. /\ s \in [Threads -> ThreadStates] /\ h \in Threads \cup {NoThread}
      /\ QueueAfterRequeue(c, tstate) \in Seq(Threads)
  BY <1>1, RequeueTyped
<1>3. p.queue \in Seq(Threads) /\ p.next \in Threads \cup {NoThread}
  BY <1>2, PickTyped
<1>4. y \in Threads
  BY <1>1, <1>3
<1> HIDE DEF s, p, h
<1>5. /\ tstate' = [s EXCEPT ![y] = "Running"]
      /\ queue' = [queue EXCEPT ![c] = p.queue]
      /\ handoff' = [handoff EXCEPT ![c] = h]
      /\ slice' = [[slice EXCEPT ![x] = 0] EXCEPT ![y] = SliceTicks]
      /\ current' = [current EXCEPT ![c] = y]
      /\ UNCHANGED <<cs, home, inSchedule, scan, live, entry>>
      /\ \/ UNCHANGED <<pc, next>>
         \/ pc' = [pc EXCEPT ![c] = "irqsave"] /\ next' = [next EXCEPT ![c] = y]
  BY DEF Preempt, s, p, h
<1> HIDE DEF y
<1>6. tstate' \in [Threads -> ThreadStates]
  BY <1>2, <1>4, <1>5 DEF ThreadStates
<1>7. slice' \in [Threads -> 0 .. SliceTicks]
  <2>1. 0 \in 0 .. SliceTicks /\ SliceTicks \in 0 .. SliceTicks
    BY BoundAssumption
  <2>2. QED BY <1>5, <2>1 DEF TypeOK
<1>8. queue' \in [CPUs -> Seq(Threads)] /\ handoff' \in [CPUs -> Threads \cup {NoThread}]
  BY <1>2, <1>3, <1>5 DEF TypeOK
<1>9. current' \in [CPUs -> Threads] /\ next' \in [CPUs -> Threads \cup {NoThread}]
  <2>1. current \in [CPUs -> Threads] /\ next \in [CPUs -> Threads \cup {NoThread}]
    BY DEF TypeOK
  <2>2. current' \in [CPUs -> Threads]
    BY <1>4, <1>5, <2>1
  <2>3. next' \in [CPUs -> Threads \cup {NoThread}]
    BY <1>4, <1>5, <2>1
  <2>4. QED BY <2>2, <2>3
<1>10. pc' \in [CPUs -> Locations]
  BY <1>5 DEF TypeOK, Locations
<1>11. QED BY <1>5, <1>6, <1>7, <1>8, <1>9, <1>10 DEF TypeOK, entry

LEMMA TimerNoSwitchTypes ==
  ASSUME TypeOK, NEW c \in CPUs, TimerNoSwitch(c)
  PROVE  TypeOK'
<1>1. current[c] \in Threads /\ slice \in [Threads -> 0 .. SliceTicks]
  BY DEF TypeOK
<1>2. /\ handoff' = [handoff EXCEPT ![c] = ClearedHandoff(c)]
      /\ UNCHANGED <<tstate, cs, home, queue, current, inSchedule, pc, next, scan, live, entry>>
      /\ \/ slice' = slice
         \/ slice' = [slice EXCEPT ![current[c]] = SliceAfterTick(c)]
         \/ slice' = [slice EXCEPT ![current[c]] = SliceTicks]
  BY DEF TimerNoSwitch
<1>3. SliceAfterTick(c) \in 0 .. SliceTicks /\ SliceTicks \in 0 .. SliceTicks
  <2>1. slice[current[c]] \in 0 .. SliceTicks /\ SliceTicks \in Nat
    BY <1>1, BoundAssumption
  <2>2. SliceAfterTick(c) \in 0 .. SliceTicks
    BY <2>1 DEF SliceAfterTick
  <2>3. QED BY <2>1, <2>2
<1>4. slice' \in [Threads -> 0 .. SliceTicks]
  BY <1>1, <1>2, <1>3
<1>5. ClearedHandoff(c) \in Threads \cup {NoThread}
  BY DEF TypeOK, ClearedHandoff
<1>6. handoff' \in [CPUs -> Threads \cup {NoThread}]
  BY <1>2, <1>5 DEF TypeOK
<1>7. QED BY <1>2, <1>4, <1>6 DEF TypeOK, entry

LEMMA StealTypes ==
  ASSUME TypeOK, NEW c \in CPUs, Steal(c)
  PROVE  TypeOK'
<1>1. UNCHANGED <<tstate, cs, slice, current, handoff, inSchedule, live, entry>>
  BY DEF Steal
<1>2. PICK v \in scan[c] :
       LET slots == {i \in DOMAIN queue[v] : Stealable(v, queue[v][i])}
           slot == CHOOSE i \in slots : \A j \in slots : j <= i
           stolen == queue[v][slot]
       IN IF slots = {}
          THEN /\ scan' = [scan EXCEPT ![c] = @ \ {v}]
               /\ pc' = [pc EXCEPT ![c] =
                    IF scan[c] = {v} THEN "commit" ELSE "steal"]
               /\ UNCHANGED <<queue, home, next>>
          ELSE /\ queue' = [queue EXCEPT ![v] =
                    SubSeq(@, 1, slot - 1) \o SubSeq(@, slot + 1, Len(@))]
               /\ home' = [home EXCEPT ![stolen] = c]
               /\ next' = [next EXCEPT ![c] = stolen]
               /\ scan' = [scan EXCEPT ![c] = {}]
               /\ pc' = [pc EXCEPT ![c] = "commit"]
  BY Zenon DEF Steal
<1> DEFINE q == queue[v]
           slots == {i \in DOMAIN q : Stealable(v, q[i])}
           slot == CHOOSE i \in slots : \A j \in slots : j <= i
           r == SubSeq(q, 1, slot - 1) \o SubSeq(q, slot + 1, Len(q))
<1>3. q \in Seq(Threads) /\ v \in CPUs /\ Len(q) \in Nat /\ DOMAIN q = 1 .. Len(q)
  BY LenProperties DEF TypeOK
<1>4. CASE slots = {}
  <2>1. /\ scan' = [scan EXCEPT ![c] = scan[c] \ {v}]
        /\ pc' = [pc EXCEPT ![c] = IF scan[c] = {v} THEN "commit" ELSE "steal"]
        /\ UNCHANGED <<queue, home, next>>
    BY <1>2, <1>4
  <2>2. scan' \in [CPUs -> SUBSET CPUs] /\ pc' \in [CPUs -> Locations]
    BY <2>1 DEF TypeOK, Locations
  <2>3. QED BY <1>1, <2>1, <2>2 DEF TypeOK, entry
<1>5. CASE slots # {}
  <2>1. slots \in SUBSET (1 .. Len(q))
    BY <1>3
  <2>2. \E i \in slots : \A j \in slots : j <= i
    BY <1>3, <1>5, <2>1, Largest
  <2>3. slot \in DOMAIN q /\ q[slot] \in Threads
    <3>1. slot \in slots
      BY <2>2
    <3> HIDE DEF slot
    <3>2. slot \in DOMAIN q
      BY <3>1
    <3> HIDE DEF q
    <3>3. QED BY <1>3, <3>2, ElementOfSeq
  <2>4. r \in Seq(Threads)
    BY <1>3, <2>3, TakenOut
  <2>5. /\ queue' = [queue EXCEPT ![v] = r]
        /\ home' = [home EXCEPT ![q[slot]] = c]
        /\ next' = [next EXCEPT ![c] = q[slot]]
        /\ scan' = [scan EXCEPT ![c] = {}]
        /\ pc' = [pc EXCEPT ![c] = "commit"]
    BY <1>2, <1>5
  <2> HIDE DEF q, slot, r
  <2>6. queue' \in [CPUs -> Seq(Threads)] /\ home' \in [Threads -> CPUs]
    BY <1>3, <2>3, <2>4, <2>5 DEF TypeOK
  <2>7. pc' \in [CPUs -> Locations] /\ scan' \in [CPUs -> SUBSET CPUs]
    BY <2>5 DEF TypeOK, Locations
  <2>8. next' \in [CPUs -> Threads \cup {NoThread}]
    BY <2>3, <2>5 DEF TypeOK
  <2>9. QED BY <1>1, <2>6, <2>7, <2>8 DEF TypeOK, entry
<1>6. QED BY <1>4, <1>5

LEMMA CommitTypes ==
  ASSUME TypeOK, NEW c \in CPUs, Commit(c)
  PROVE  TypeOK'
<1> DEFINE again == PickNext(queue[c], tstate)
           y == OrIdle(c, IF next[c] = NoThread THEN again.next ELSE next[c])
           r == IF next[c] = NoThread THEN again.queue ELSE queue[c]
<1>1. queue[c] \in Seq(Threads) /\ next[c] \in Threads \cup {NoThread}
  BY DEF TypeOK
<1>2. again.queue \in Seq(Threads) /\ again.next \in Threads \cup {NoThread}
  BY <1>1, PickTyped
<1>3. y \in Threads /\ r \in Seq(Threads)
  BY <1>1, <1>2 DEF OrIdle, Threads, IdleThreads
<1>4. /\ queue' = [queue EXCEPT ![c] = r]
      /\ inSchedule' = [inSchedule EXCEPT ![c] = FALSE]
      /\ IF y = current[c]
         THEN /\ IF live[c] \in UserThreads
                 THEN LeaveSyscall(c, live[c], gs[c])
                 ELSE /\ pc' = [pc EXCEPT ![c] = "run"]
                      /\ UNCHANGED <<gs, userRsp, rsp>>
              /\ next' = [next EXCEPT ![c] = NoThread]
              /\ UNCHANGED <<tstate, slice, current>>
         ELSE /\ pc' = [pc EXCEPT ![c] = "switch"]
              /\ next' = [next EXCEPT ![c] = y]
              /\ tstate' = [tstate EXCEPT ![y] = "Running"]
              /\ slice' = [slice EXCEPT ![y] = SliceTicks]
              /\ current' = [current EXCEPT ![c] = y]
              /\ UNCHANGED <<gs, userRsp, rsp>>
      /\ UNCHANGED <<cs, home, handoff, scan, live, kernelStack>>
  BY Zenon DEF Commit
<1> HIDE DEF y, r
<1>5. queue' \in [CPUs -> Seq(Threads)] /\ inSchedule' \in [CPUs -> BOOLEAN]
  BY <1>3, <1>4 DEF TypeOK
<1>6. next' \in [CPUs -> Threads \cup {NoThread}] /\ current' \in [CPUs -> Threads]
  <2>1. next \in [CPUs -> Threads \cup {NoThread}] /\ current \in [CPUs -> Threads]
    BY DEF TypeOK
  <2>2. CASE y = current[c]
    BY <1>4, <2>1, <2>2
  <2>3. CASE y # current[c]
    BY <1>3, <1>4, <2>1, <2>3
  <2>4. QED BY <2>2, <2>3
<1>7. tstate' \in [Threads -> ThreadStates] /\ slice' \in [Threads -> 0 .. SliceTicks]
  <2>1. /\ tstate \in [Threads -> ThreadStates] /\ slice \in [Threads -> 0 .. SliceTicks]
        /\ "Running" \in ThreadStates /\ SliceTicks \in 0 .. SliceTicks
    <3>1. tstate \in [Threads -> ThreadStates] /\ slice \in [Threads -> 0 .. SliceTicks]
      BY DEF TypeOK
    <3>2. "Running" \in ThreadStates /\ SliceTicks \in 0 .. SliceTicks
      BY BoundAssumption DEF ThreadStates
    <3>3. QED BY <3>1, <3>2
  <2>2. CASE y = current[c]
    BY <1>4, <2>1, <2>2
  <2>3. CASE y # current[c]
    BY <1>3, <1>4, <2>1, <2>3
  <2>4. QED BY <2>2, <2>3
<1>8. /\ gs' \in [CPUs -> {"user", "cpu"} \X {"user", "cpu"}]
      /\ userRsp' \in [CPUs -> UserThreads \cup {NoThread}]
      /\ rsp' \in [UserThreads -> UserThreads \cup {NoThread}]
      /\ pc' \in [CPUs -> Locations]
  <2>1. /\ gs \in [CPUs -> {"user", "cpu"} \X {"user", "cpu"}]
        /\ userRsp \in [CPUs -> UserThreads \cup {NoThread}]
        /\ rsp \in [UserThreads -> UserThreads \cup {NoThread}]
        /\ pc \in [CPUs -> Locations]
        /\ "run" \in Locations /\ "switch" \in Locations
    BY DEF TypeOK, Locations
  <2>2. CASE y = current[c] /\ live[c] \in UserThreads
    <3>1. LeaveSyscall(c, live[c], gs[c])
      BY <1>4, <2>2
    <3>2. gs[c] \in {"user", "cpu"} \X {"user", "cpu"}
      BY <2>1
    <3>3. QED BY <2>2, <3>1, <3>2, LeaveTyped
  <2>3. CASE y = current[c] /\ live[c] \notin UserThreads
    BY <1>4, <2>1, <2>3
  <2>4. CASE y # current[c]
    BY <1>4, <2>1, <2>4
  <2>5. QED BY <2>2, <2>3, <2>4
<1>9. QED BY <1>4, <1>5, <1>6, <1>7, <1>8 DEF TypeOK

\* What is loaded is the thread schedule() or the timer made current.
LEMMA SwitchToTypes ==
  ASSUME TypeOK, EntryInv, NEW c \in CPUs, NEW selector \in {"user", "kernel"},
         NEW g \in {"user", "cpu"} \X {"user", "cpu"},
         pc[c] \in {"switch", "irqsave"}, SwitchTo(c, selector, g)
  PROVE  TypeOK'
<1> DEFINE n == next[c]
<1>1. n \in Threads /\ live[c] \in Threads
  <2>1. n = current[c]
    BY DEF EntryInv, EntryKept
  <2>2. QED BY <2>1 DEF TypeOK
<1>2. /\ cs' = [cs EXCEPT ![live[c]] = selector]
      /\ live' = [live EXCEPT ![c] = n]
      /\ next' = [next EXCEPT ![c] = NoThread]
      /\ kernelStack' = [kernelStack EXCEPT ![c] = n]
      /\ IF n \in UserThreads /\ cs[n] = "kernel"
         THEN LeaveSyscall(c, n, g)
         ELSE /\ pc' = [pc EXCEPT ![c] = "run"]
              /\ gs' = [gs EXCEPT ![c] = g]
              /\ UNCHANGED <<userRsp, rsp>>
      /\ UNCHANGED <<tstate, slice, home, queue, current, handoff, inSchedule, scan>>
  BY DEF SwitchTo, KernelStackOfNext
<1> HIDE DEF n
<1>3. cs' \in [Threads -> {"kernel", "user"}] /\ live' \in [CPUs -> Threads]
  BY <1>1, <1>2 DEF TypeOK
<1>4. /\ next' \in [CPUs -> Threads \cup {NoThread}]
      /\ kernelStack' \in [CPUs -> Threads \cup {NoThread}]
  BY <1>1, <1>2 DEF TypeOK
<1>5. /\ gs' \in [CPUs -> {"user", "cpu"} \X {"user", "cpu"}]
      /\ userRsp' \in [CPUs -> UserThreads \cup {NoThread}]
      /\ rsp' \in [UserThreads -> UserThreads \cup {NoThread}]
      /\ pc' \in [CPUs -> Locations]
  <2>1. CASE n \in UserThreads /\ cs[n] = "kernel"
    BY <1>2, <2>1, LeaveTyped
  <2>2. CASE ~(n \in UserThreads /\ cs[n] = "kernel")
    BY <1>2, <2>2 DEF TypeOK, Locations
  <2>3. QED BY <2>1, <2>2
<1>6. QED BY <1>2, <1>3, <1>4, <1>5 DEF TypeOK

LEMMA SwitchTypes ==
  ASSUME TypeOK, EntryInv, NEW c \in CPUs, Switch(c) \/ IrqSwitch(c)
  PROVE  TypeOK'
<1>1. gs[c] \in {"user", "cpu"} \X {"user", "cpu"}
  BY DEF TypeOK
<1> DEFINE g == PreparedGs(next[c], gs[c])
<1>2. g \in {"user", "cpu"} \X {"user", "cpu"} /\ LoadSelector(g) \in {"user", "cpu"} \X {"user", "cpu"}
  BY <1>1 DEF PreparedGs, UserGs, LoadSelector
<1> HIDE DEF g
<1>3. CASE Switch(c)
  BY <1>2, <1>3, SwitchToTypes DEF Switch, g
<1>4. CASE IrqSwitch(c)
  BY <1>2, <1>4, SwitchToTypes DEF IrqSwitch, g
<1>5. QED BY <1>3, <1>4

LEMMA CreateTypes ==
  ASSUME TypeOK, NEW c \in CPUs, NEW y \in UserThreads, CreateThread(c, y)
  PROVE  TypeOK'
<1>1. /\ tstate' = [tstate EXCEPT ![y] = "Created"]
      /\ cs' = [cs EXCEPT ![y] = "user"]
      /\ slice' = [slice EXCEPT ![y] = SliceTicks]
      /\ home' = [home EXCEPT ![y] = c]
      /\ UNCHANGED <<queue, current, handoff, inSchedule, pc, next, scan, live, entry>>
  BY DEF CreateThread
<1>2. tstate' \in [Threads -> ThreadStates] /\ cs' \in [Threads -> {"kernel", "user"}]
  BY <1>1 DEF TypeOK, ThreadStates
<1>3. slice' \in [Threads -> 0 .. SliceTicks]
  <2>1. SliceTicks \in 0 .. SliceTicks
    BY BoundAssumption
  <2>2. QED BY <1>1, <2>1 DEF TypeOK
<1>4. home' \in [Threads -> CPUs]
  BY <1>1 DEF TypeOK
<1>5. QED BY <1>1, <1>2, <1>3, <1>4 DEF TypeOK, entry

LEMMA StartTypes ==
  ASSUME TypeOK, NEW c \in CPUs, NEW y \in UserThreads, StartThread(c, y)
  PROVE  TypeOK'
<1>1. /\ next' = [next EXCEPT ![c] = y]
      /\ pc' = [pc EXCEPT ![c] = "start"]
      /\ EnterSyscall(c)
      /\ UNCHANGED <<tstate, cs, slice, home, queue, current, handoff, inSchedule, scan,
                     live, kernelStack, rsp>>
  BY DEF StartThread
<1>2. next' \in [CPUs -> Threads \cup {NoThread}] /\ pc' \in [CPUs -> Locations]
  BY <1>1 DEF TypeOK, Locations, Threads
<1>3. /\ gs' \in [CPUs -> {"user", "cpu"} \X {"user", "cpu"}]
      /\ userRsp' \in [CPUs -> UserThreads \cup {NoThread}]
  BY <1>1, EnterTyped
<1>4. QED BY <1>1, <1>2, <1>3 DEF TypeOK

LEMMA StartReadyTypes ==
  ASSUME TypeOK, NEW c \in CPUs, StartReady(c)
  PROVE  TypeOK'
<1>1. /\ tstate' = [tstate EXCEPT ![next[c]] = "Ready"]
      /\ pc' = [pc EXCEPT ![c] = "enqueue"]
      /\ UNCHANGED <<cs, slice, home, queue, current, handoff, inSchedule, next,
                     scan, live, entry>>
  BY DEF StartReady
<1>2. tstate' \in [Threads -> ThreadStates] /\ pc' \in [CPUs -> Locations]
  BY <1>1 DEF TypeOK, ThreadStates, Locations
<1>3. QED BY <1>1, <1>2 DEF TypeOK, entry

LEMMA StartEnqueueTypes ==
  ASSUME TypeOK, EntryInv, NEW c \in CPUs, StartEnqueue(c)
  PROVE  TypeOK'
<1> DEFINE y == next[c]
           h == home[y]
           r == EnqueueReady(queue[h], y, tstate)
<1>1. y \in UserThreads /\ live[c] \in UserThreads
  BY DEF EntryInv, EntryKept, StartEnqueue
<1>2. y \in Threads /\ h \in CPUs /\ queue[h] \in Seq(Threads)
  BY <1>1 DEF TypeOK, Threads
<1>3. r \in Seq(Threads)
  BY <1>2, AppendProperties DEF EnqueueReady
<1>4. /\ queue' = [queue EXCEPT ![h] = r]
      /\ next' = [next EXCEPT ![c] = NoThread]
      /\ LeaveSyscall(c, live[c], gs[c])
      /\ UNCHANGED <<tstate, cs, slice, home, current, handoff, inSchedule, scan,
                     live, kernelStack>>
  BY DEF StartEnqueue
<1> HIDE DEF y, h, r
<1>5. queue' \in [CPUs -> Seq(Threads)] /\ next' \in [CPUs -> Threads \cup {NoThread}]
  BY <1>2, <1>3, <1>4 DEF TypeOK
<1>6. /\ gs' \in [CPUs -> {"user", "cpu"} \X {"user", "cpu"}]
      /\ userRsp' \in [CPUs -> UserThreads \cup {NoThread}]
      /\ rsp' \in [UserThreads -> UserThreads \cup {NoThread}]
      /\ pc' \in [CPUs -> Locations]
  <2>1. gs[c] \in {"user", "cpu"} \X {"user", "cpu"}
    BY DEF TypeOK
  <2>2. QED BY <1>1, <1>4, <2>1, LeaveTyped
<1>7. QED BY <1>4, <1>5, <1>6 DEF TypeOK

\* No precondition but the entry's: the pointers a CPU loads or queues through.
LEMMA NextTypes == TypeOK /\ EntryInv /\ [Next]_vars => TypeOK'
<1> SUFFICES ASSUME TypeOK, EntryInv, [Next]_vars PROVE TypeOK'
  OBVIOUS
<1>1. ASSUME NEW c \in CPUs, BootYield(c) \/ Yield(c) \/ Exit(c) PROVE TypeOK'
  <2>1. /\ tstate \in [Threads -> ThreadStates]
        /\ [tstate EXCEPT ![current[c]] = "Dead"] \in [Threads -> ThreadStates]
    BY DEF TypeOK, ThreadStates
  <2>2. QED BY <1>1, <2>1, EnterTypes DEF BootYield, Yield, Exit
<1>2. ASSUME NEW c \in CPUs, KernelStep(c) PROVE TypeOK'
  BY <1>2, StealTypes, CommitTypes, SwitchTypes, StartReadyTypes, StartEnqueueTypes
  DEF KernelStep
<1>3. CASE UNCHANGED vars
  BY <1>3 DEF vars, TypeOK
<1>4. QED
  BY <1>1, <1>2, <1>3, TimerNoSwitchTypes, PreemptTypes, CreateTypes, StartTypes
  DEF Next, Timer

LEMMA InitTypes == Init => TypeOK
<1> SUFFICES ASSUME Init PROVE TypeOK
  OBVIOUS
<1>1. ASSUME NEW t \in Threads, t \notin UserThreads
      PROVE  \E c \in CPUs : t \in {Idle(c), Boot(c)}
  BY <1>1 DEF Threads, IdleThreads
<1>2. home \in [Threads -> CPUs]
  BY <1>1, CpuAssumption DEF Init
<1>3. /\ tstate \in [Threads -> ThreadStates] /\ cs \in [Threads -> {"kernel", "user"}]
      /\ current \in [CPUs -> Threads] /\ live \in [CPUs -> Threads]
  BY DEF Init, ThreadStates, Threads, IdleThreads
<1>4. queue \in [CPUs -> Seq(Threads)]
  <2>1. First \in Threads /\ << >> \in Seq(Threads)
    BY ThreadAssumption, EmptySeq DEF Threads
  <2>2. QED BY <2>1 DEF Init
<1>5. gs \in [CPUs -> {"user", "cpu"} \X {"user", "cpu"}]
  BY DEF Init, UserGs
<1>6. slice \in [Threads -> 0 .. SliceTicks]
  BY BoundAssumption DEF Init
<1>7. QED BY <1>2, <1>3, <1>4, <1>5, <1>6 DEF TypeOK, Init, Locations

\* The fields of threads and CPUs keep their types: in particular a queue holds
\* threads only, and what schedule() makes current is never nullptr, whoever
\* starts whom and however often.
THEOREM TypeCorrect == Spec => []TypeOK
BY InitTypes, NextTypes, InitEntry, NextEntry, PTL DEF Spec

-----------------------------------------------------------------------------
(* Who may have a thread                                                   *)

Holds(c, t) == live[c] = t \/ current[c] = t \/ next[c] = t
Queued(t) == \E c \in CPUs : t \in Elements(queue[c])

\* A queue holds user threads, each once, and no two queues hold the same.
QueuesApart ==
  \A c \in CPUs :
    /\ Elements(queue[c]) \subseteq UserThreads /\ Apart(queue[c])
    /\ \A d \in CPUs \ {c} : Elements(queue[c]) \cap Elements(queue[d]) = {}

\* What the thread pointers of a CPU can be at each location.  The boot and the
\* idle thread stay on their CPU; a user thread that a CPU executes was not saved
\* in the kernel, except the one whose return to user mode ended in kpanic.
Pointers(c) ==
  /\ live[c] \in UserThreads \cup {Idle(c), Boot(c)}
  /\ current[c] \in UserThreads \cup {Idle(c), Boot(c)}
  /\ next[c] \in UserThreads \cup {Idle(c), NoThread}
  /\ pc[c] \in {"run", "steal", "panic"} => next[c] = NoThread
  /\ pc[c] = "commit" => next[c] \in UserThreads \cup {NoThread}
  /\ pc[c] \in {"switch", "irqsave"} => next[c] # live[c]
  /\ pc[c] \in {"start", "enqueue"} =>
       next[c] \in UserThreads /\ next[c] # live[c] /\ cs[next[c]] = "user"
  /\ pc[c] = "start" =>
       tstate[next[c]] = "Created" /\ <<current[c], next[c]>> \in Starts
  /\ pc[c] = "enqueue" => tstate[next[c]] = "Ready"
  /\ pc[c] # "panic" /\ live[c] \in UserThreads => cs[live[c]] = "user"
  /\ pc[c] = "panic" =>
       live[c] = current[c] /\ live[c] \in UserThreads /\ cs[live[c]] = "kernel"
  /\ cs[Idle(c)] = "kernel" /\ cs[Boot(c)] = "kernel"

\* A thread that was not saved in the kernel belongs to one CPU at most.  While a
\* CPU has it, it is in a queue only after that CPU put it there as its handoff
\* and has not saved its registers yet.
SoleOwner(t) ==
  cs[t] = "user" =>
    \A c \in CPUs : Holds(c, t) =>
      /\ \A d \in CPUs \ {c} : ~Holds(d, t) /\ t \notin Elements(queue[d])
      /\ t \in Elements(queue[c]) =>
           /\ live[c] = t /\ handoff[c] = t /\ next[c] # t
           /\ pc[c] \in {"steal", "commit", "switch", "irqsave"}

\* Nobody has a thread that was not started, except who is about to start it.
Fresh(t) ==
  tstate[t] \in {"None", "Created"} =>
    /\ cs[t] = "user" /\ ~Queued(t)
    /\ \A c \in CPUs : Holds(c, t) => pc[c] = "start" /\ next[c] = t

SchedInv ==
  /\ TypeOK /\ EntryInv /\ QueuesApart
  /\ \A c \in CPUs : Pointers(c)
  /\ \A t \in UserThreads : SoleOwner(t) /\ Fresh(t)

\* start_thread tests and writes the state without a lock, so that two CPUs may
\* start a thread twice.  What excludes it is that each thread is started by
\* one other only, which can be on one CPU, or that only one processor gets to
\* its yield and with it to the scheduler.
SingleStarter ==
  \A t \in UserThreads : \A s1, s2 \in UserThreads :
    <<s1, t>> \in Starts /\ <<s2, t>> \in Starts => s1 = s2
OneScheduler == \E b \in CPUs : BootYielders \subseteq {b}
StartsApart == SingleStarter \/ OneScheduler

\* A CPU whose boot thread does not yield never leaves it.
Quiet(c) == pc[c] = "run" /\ live[c] = Boot(c) /\ current[c] = Boot(c)
OthersQuiet == \E b \in CPUs :
  BootYielders \subseteq {b} /\ \A d \in CPUs \ {b} : Quiet(d)
StartInv == SingleStarter \/ OthersQuiet

\* A thread that never yields is saved in the kernel only when it exits; then it
\* is not queued or chosen again, and no CPU holds it.
NeverYield == UserThreads \ Yielding

DeadStay(t) ==
  /\ cs[t] = "kernel" => tstate[t] = "Dead" /\ \A c \in CPUs : ~Holds(c, t)
  /\ tstate[t] = "Dead" => ~Queued(t) /\ \A c \in CPUs : next[c] # t

NoYieldInv ==
  /\ \A t \in NeverYield : DeadStay(t)
  /\ \A c \in CPUs :
       pc[c] \in {"steal", "commit", "switch"} /\ live[c] \in NeverYield =>
         tstate[live[c]] = "Dead"

LEMMA InitSched == Init => SchedInv
<1> SUFFICES ASSUME Init PROVE SchedInv
  OBVIOUS
<1>1. EntryInv
  BY InitEntry
<1>2. \A c \in CPUs : queue[c] = IF c = BSP THEN <<First>> ELSE << >>
  BY DEF Init
<1>3. ASSUME NEW c \in CPUs PROVE Elements(queue[c]) = IF c = BSP THEN {First} ELSE {}
  BY <1>2, EmptySeq DEF Elements
<1>4. QueuesApart
  BY <1>2, <1>3, ThreadAssumption DEF QueuesApart, Apart
<1>5. TypeOK
  BY InitTypes
<1>6. ASSUME NEW c \in CPUs PROVE Pointers(c)
  BY KernelThreadAssumption, <1>5 DEF TypeOK, Init, Pointers, Threads, IdleThreads
<1>7. ASSUME NEW t \in UserThreads, NEW c \in CPUs PROVE ~Holds(c, t)
  BY KernelThreadAssumption, ThreadAssumption DEF Init, Holds
<1>8. ASSUME NEW t \in UserThreads PROVE Fresh(t) /\ SoleOwner(t)
  BY <1>3, <1>7 DEF Fresh, SoleOwner, Queued, Init, Threads
<1>9. QED BY <1>1, <1>4, <1>5, <1>6, <1>8 DEF SchedInv

LEMMA InitStart == StartsApart /\ Init => StartInv
BY DEF StartsApart, OneScheduler, StartInv, OthersQuiet, Quiet, Init

-----------------------------------------------------------------------------
(* What a step of one CPU may do to the threads and to the other CPUs      *)

SameElsewhere(c) ==
  \A d \in CPUs \ {c} :
    /\ live'[d] = live[d] /\ current'[d] = current[d] /\ next'[d] = next[d]
    /\ pc'[d] = pc[d] /\ handoff'[d] = handoff[d]

\* A thread keeps to one owner when the CPU that moves takes only what nobody
\* has, and queues only what it has and lets go of, or what is its handoff.
LEMMA OwnerKept ==
  ASSUME SchedInv, NEW c \in CPUs, SameElsewhere(c), NEW t \in UserThreads,
         cs'[t] = "user" => cs[t] = "user",
         Holds(c, t)' => Holds(c, t) \/ \A d \in CPUs \ {c} : ~Holds(d, t),
         \A d \in CPUs \ {c} : t \in Elements(queue'[d]) =>
           ~Holds(c, t)' /\ (t \in Elements(queue[d]) \/ Holds(c, t)),
         t \in Elements(queue'[c]) =>
           \/ ~Holds(c, t)' /\ (t \in Elements(queue[c]) \/ Holds(c, t))
           \/ /\ Holds(c, t) /\ live'[c] = t /\ handoff'[c] = t /\ next'[c] # t
              /\ pc'[c] \in {"steal", "commit", "switch", "irqsave"}
  PROVE  SoleOwner(t)'
<1> SUFFICES ASSUME cs'[t] = "user", NEW e \in CPUs, Holds(e, t)'
             PROVE  /\ \A d \in CPUs \ {e} : ~Holds(d, t)' /\ t \notin Elements(queue'[d])
                    /\ t \in Elements(queue'[e]) =>
                         /\ live'[e] = t /\ handoff'[e] = t /\ next'[e] # t
                         /\ pc'[e] \in {"steal", "commit", "switch", "irqsave"}
  BY DEF SoleOwner
<1>1. /\ \A d \in CPUs \ {c} : Holds(d, t)' <=> Holds(d, t)
      /\ SoleOwner(t) /\ cs[t] = "user"
  BY DEF SameElsewhere, Holds, SchedInv
<1>2. CASE e = c
  BY <1>1, <1>2 DEF SoleOwner
<1>3. CASE e # c
  <2>1. /\ Holds(e, t) /\ ~Holds(c, t) /\ ~Holds(c, t)'
        /\ \A d \in CPUs \ {e} : ~Holds(d, t) /\ t \notin Elements(queue[d])
    BY <1>1, <1>3 DEF SoleOwner
  <2>2. t \in Elements(queue'[e]) => t \in Elements(queue[e])
    BY <1>3, <2>1
  <2>3. t \in Elements(queue[e]) =>
          /\ live'[e] = t /\ handoff'[e] = t /\ next'[e] # t
          /\ pc'[e] \in {"steal", "commit", "switch", "irqsave"}
    BY <1>1, <1>3, <2>1 DEF SoleOwner, SameElsewhere
  <2>4. QED BY <1>1, <1>3, <2>1, <2>2, <2>3
<1>4. QED BY <1>2, <1>3

\* A thread that was not started stays nobody's.
LEMMA FreshKept ==
  ASSUME SchedInv, NEW c \in CPUs, SameElsewhere(c), NEW t \in UserThreads,
         pc[c] # "start",
         cs'[t] = cs[t] \/ Holds(c, t),
         tstate'[t] \in {"None", "Created"} => tstate[t] \in {"None", "Created"},
         tstate[t] \in {"None", "Created"} => ~Holds(c, t)' \/ Holds(c, t),
         \A d \in CPUs : t \in Elements(queue'[d]) => Queued(t) \/ Holds(c, t)
  PROVE  Fresh(t)'
BY DEF SchedInv, Fresh, SameElsewhere, Holds, Queued

\* The pointers of the other CPUs are not disturbed.
LEMMA PointersKept ==
  ASSUME SchedInv, NEW c \in CPUs, SameElsewhere(c), NEW d \in CPUs \ {c},
         \A t \in UserThreads : SoleOwner(t)',
         \A t \in Threads : cs'[t] # cs[t] => t \in UserThreads /\ Holds(c, t) /\ cs[t] = "user",
         \A t \in UserThreads : tstate'[t] # tstate[t] =>
           Holds(c, t) \/ Holds(c, t)'
  PROVE  Pointers(d)'
<1>1. /\ live'[d] = live[d] /\ current'[d] = current[d] /\ next'[d] = next[d]
      /\ pc'[d] = pc[d] /\ Pointers(d)
  BY DEF SameElsewhere, SchedInv
<1>2. Idle(d) \in Threads \ UserThreads /\ Boot(d) \in Threads \ UserThreads
  BY KernelThreadAssumption DEF Threads, IdleThreads
<1>3. cs'[Idle(d)] = "kernel" /\ cs'[Boot(d)] = "kernel"
  BY <1>1, <1>2 DEF Pointers
<1>4. ASSUME NEW t \in UserThreads, Holds(d, t), cs[t] = "user"
      PROVE  cs'[t] = "user" /\ ~Holds(c, t) /\ ~Holds(c, t)'
  <2>1. ~Holds(c, t)
    BY <1>4 DEF SchedInv, SoleOwner
  <2>2. t \in Threads
    BY DEF Threads
  <2>3. cs'[t] = "user"
    BY <1>4, <2>1, <2>2
  <2>4. Holds(d, t)'
    BY <1>1, <1>4 DEF Holds
  <2>5. QED BY <2>1, <2>3, <2>4 DEF SoleOwner
<1>5. ASSUME NEW t \in UserThreads, cs[t] = "kernel" PROVE cs'[t] = "kernel"
  BY <1>5 DEF Threads
<1>6. pc'[d] \in {"start", "enqueue"} =>
        /\ next'[d] \in UserThreads /\ next'[d] # live'[d] /\ cs'[next'[d]] = "user"
        /\ tstate'[next'[d]] = tstate[next[d]]
  <2>1. pc[d] \in {"start", "enqueue"} => Holds(d, next[d])
    BY DEF Holds
  <2>2. QED BY <1>1, <1>4, <2>1 DEF Pointers
<1>7. pc'[d] # "panic" /\ live'[d] \in UserThreads => cs'[live'[d]] = "user"
  BY <1>1, <1>4 DEF Pointers, Holds
<1>8. pc'[d] = "panic" =>
       live'[d] = current'[d] /\ live'[d] \in UserThreads /\ cs'[live'[d]] = "kernel"
  BY <1>1, <1>5 DEF Pointers
<1> HIDE DEF Idle, Boot
<1>9. QED BY <1>1, <1>3, <1>6, <1>7, <1>8 DEF Pointers

-----------------------------------------------------------------------------
(* schedule() and the end of a slice                                       *)

\* Before a selection the CPU executes its current thread, alone.
LEMMA AtRun ==
  ASSUME SchedInv, NEW c \in CPUs, pc[c] = "run"
  PROVE  /\ live[c] = current[c] /\ next[c] = NoThread
         /\ current[c] \in Threads
         /\ \A d \in CPUs : current[c] \notin Elements(queue[d])
         /\ current[c] \in UserThreads => cs[current[c]] = "user"
         /\ current[c] \notin UserThreads =>
              current[c] \in {Idle(c), Boot(c)} /\ cs[current[c]] = "kernel"
<1>1. live[c] = current[c] /\ next[c] = NoThread /\ current[c] \in Threads
  <2>1. live[c] = current[c]
    BY DEF SchedInv, EntryInv, EntryKept
  <2>2. next[c] = NoThread
    BY DEF SchedInv, Pointers
  <2>3. QED BY <2>1, <2>2 DEF SchedInv, TypeOK
<1>2. /\ current[c] \in UserThreads => cs[current[c]] = "user"
      /\ current[c] \notin UserThreads =>
           current[c] \in {Idle(c), Boot(c)} /\ cs[current[c]] = "kernel"
  BY <1>1 DEF SchedInv, Pointers
<1>3. ASSUME NEW d \in CPUs PROVE current[c] \notin Elements(queue[d])
  <2>1. CASE current[c] \in UserThreads
    <3>1. SoleOwner(current[c]) /\ Holds(c, current[c])
      BY <2>1 DEF SchedInv, Holds
    <3>2. QED BY <1>2, <2>1, <3>1 DEF SoleOwner
  <2>2. CASE current[c] \notin UserThreads
    BY <2>2 DEF SchedInv, QueuesApart
  <2>3. QED BY <2>1, <2>2
<1>4. QED BY <1>1, <1>2, <1>3

\* The requeue adds the current thread, as the handoff, or nothing.
LEMMA Requeued ==
  ASSUME SchedInv, NEW c \in CPUs, pc[c] = "run",
         NEW ts \in [Threads -> ThreadStates]
  PROVE  /\ QueueAfterRequeue(c, ts) \in Seq(UserThreads)
         /\ Apart(QueueAfterRequeue(c, ts))
         /\ Elements(QueueAfterRequeue(c, ts)) \subseteq
              Elements(queue[c]) \cup {current[c]}
         /\ Elements(queue[c]) \subseteq Elements(QueueAfterRequeue(c, ts))
         /\ current[c] \in Elements(QueueAfterRequeue(c, ts)) =>
              /\ current[c] \in UserThreads /\ HandoffAfterRequeue(c, ts) = current[c]
              /\ Dequeuable(current[c], StatesAfterRequeue(c, ts))
         /\ StatesAfterRequeue(c, ts) \in [Threads -> ThreadStates]
         /\ \A t \in Threads \ {current[c]} : StatesAfterRequeue(c, ts)[t] = ts[t]
         /\ StatesAfterRequeue(c, ts)[current[c]] # ts[current[c]] =>
              /\ ts[current[c]] = "Running"
              /\ StatesAfterRequeue(c, ts)[current[c]] = "Ready"
         /\ HandoffAfterRequeue(c, ts) \in Threads \cup {NoThread}
<1> DEFINE x == current[c]
           s == StatesAfterRequeue(c, ts)
           q == QueueAfterRequeue(c, ts)
<1>1. /\ live[c] = x /\ x \in Threads /\ x \notin Elements(queue[c])
      /\ x \in UserThreads => cs[x] = "user"
      /\ x \notin UserThreads => cs[x] = "kernel"
  BY AtRun
<1>2. queue[c] \in Seq(UserThreads) /\ Apart(queue[c])
  <2>1. queue[c] \in Seq(Threads) /\ Elements(queue[c]) \subseteq UserThreads /\ Apart(queue[c])
    BY DEF SchedInv, TypeOK, QueuesApart
  <2>2. queue[c] \in Seq(UserThreads)
    BY <2>1 DEF Elements
  <2>3. QED BY <2>1, <2>2
<1>3. CASE ~Requeues(c, ts)
  <2>1. q = queue[c] /\ s = ts /\ HandoffAfterRequeue(c, ts) = ClearedHandoff(c)
    BY <1>3 DEF QueueAfterRequeue, StatesAfterRequeue, HandoffAfterRequeue
  <2>2. ClearedHandoff(c) \in Threads \cup {NoThread}
    BY DEF ClearedHandoff, SchedInv, TypeOK
  <2>3. QED BY <1>1, <1>2, <2>1, <2>2
<1>4. CASE Requeues(c, ts)
  <2>1. x \in UserThreads /\ ts[x] = "Running"
    BY <1>1, <1>4 DEF Requeues
  <2>2. s = [ts EXCEPT ![x] = "Ready"] /\ HandoffAfterRequeue(c, ts) = x
    BY <1>4 DEF StatesAfterRequeue, HandoffAfterRequeue
  <2>3. s[x] = "Ready" /\ s \in [Threads -> ThreadStates]
    BY <1>1, <2>2 DEF ThreadStates
  <2>4. x \notin IdleThreads
    BY <2>1, KernelThreadAssumption DEF IdleThreads
  <2>5. q = Append(queue[c], x)
    BY <1>1, <1>4, <2>3, <2>4 DEF QueueAfterRequeue, EnqueueReady
  <2>6. /\ q \in Seq(UserThreads) /\ Len(q) = Len(queue[c]) + 1
        /\ \A i \in 1 .. Len(queue[c]) : q[i] = queue[c][i]
        /\ q[Len(queue[c]) + 1] = x
        /\ DOMAIN q = 1 .. Len(queue[c]) + 1
        /\ Len(queue[c]) \in Nat /\ DOMAIN queue[c] = 1 .. Len(queue[c])
    BY <1>2, <2>1, <2>5, AppendProperties, LenProperties
  <2>7. Elements(q) = Elements(queue[c]) \cup {x}
    BY <2>6 DEF Elements
  <2>8. Apart(q)
    BY <1>1, <1>2, <2>1, <2>5, AppendApart
  <2>9. Dequeuable(x, s)
    BY <2>3, <2>4 DEF Dequeuable
  <2>10. QED BY <1>1, <2>1, <2>2, <2>3, <2>6, <2>7, <2>8, <2>9
<1>5. QED BY <1>3, <1>4

\* The states schedule() starts from differ from those before in that the
\* current thread may have exited.
Keeps(c, ts) == \A t \in Threads \ {current[c]} : ts[t] = tstate[t]

\* The thread selected was queued or is the current one, and is Ready.
LEMMA Selected ==
  ASSUME SchedInv, NEW c \in CPUs, pc[c] = "run",
         NEW ts \in [Threads -> ThreadStates],
         NEW p, p = PickNext(QueueAfterRequeue(c, ts), StatesAfterRequeue(c, ts))
  PROVE  /\ p.queue \in Seq(UserThreads) /\ Apart(p.queue)
         /\ Elements(p.queue) \subseteq Elements(queue[c]) \cup {current[c]}
         /\ current[c] \in Elements(p.queue) =>
              /\ current[c] \in UserThreads /\ HandoffAfterRequeue(c, ts) = current[c]
              /\ StatesAfterRequeue(c, ts)[current[c]] = "Ready"
         /\ p.next # NoThread =>
              /\ p.next \in UserThreads
              /\ p.next \in Elements(queue[c]) \cup {current[c]}
              /\ StatesAfterRequeue(c, ts)[p.next] = "Ready"
              /\ cs[p.next] = "user" => p.next \notin Elements(p.queue)
         /\ p.next = NoThread => current[c] \notin Elements(p.queue)
         /\ RoomForSkipped /\ NoYieldInv /\ Keeps(c, ts) =>
              \A t \in Elements(queue[c]) : StatesAfterRequeue(c, ts)[t] = "Ready" =>
                t = p.next \/ t \in Elements(p.queue)
<1> DEFINE q == QueueAfterRequeue(c, ts)
           s == StatesAfterRequeue(c, ts)
<1>1. /\ q \in Seq(UserThreads) /\ Apart(q)
      /\ Elements(q) \subseteq Elements(queue[c]) \cup {current[c]}
      /\ current[c] \in Elements(q) =>
           /\ current[c] \in UserThreads /\ HandoffAfterRequeue(c, ts) = current[c]
           /\ Dequeuable(current[c], s)
      /\ Elements(queue[c]) \subseteq Elements(q)
  BY Requeued
<1>2. Elements(q) \subseteq UserThreads
  BY <1>1 DEF Elements
<1> HIDE DEF q, s
<1>3. p = PickNext(q, s)
  BY DEF q, s
<1>4. /\ p.queue \in Seq(UserThreads)
      /\ Elements(p.queue) \subseteq Elements(q)
      /\ p.next # NoThread => p.next \in Elements(q) /\ Dequeuable(p.next, s)
      /\ Apart(q) => Apart(p.queue)
      /\ Apart(q) /\ cs[p.next] = "user" =>
           p.next = NoThread \/ p.next \notin Elements(p.queue)
      /\ p.next = NoThread => \A t \in Elements(q) : ~Dequeuable(t, s)
      /\ RoomForSkipped /\ PassesYielders(q, s) =>
           \A t \in Elements(q) : Dequeuable(t, s) =>
             t = p.next \/ t \in Elements(p.queue)
  <2>1. q \in Seq(UserThreads)
    BY <1>1
  <2>2. p.queue \in Seq(UserThreads) /\ Elements(p.queue) \subseteq Elements(q)
    BY <1>3, <2>1, Picked
  <2>3. p.next # NoThread => p.next \in Elements(q) /\ Dequeuable(p.next, s)
    BY <1>3, <2>1, Picked
  <2>4. Apart(q) => Apart(p.queue)
    BY <1>3, <2>1, Picked
  <2>5. Apart(q) /\ cs[p.next] = "user" =>
           p.next = NoThread \/ p.next \notin Elements(p.queue)
    BY <1>3, <2>1, Picked
  <2>6. p.next = NoThread => \A t \in Elements(q) : ~Dequeuable(t, s)
    BY <1>3, <2>1, Picked, ThreadAssumption
  <2>7. RoomForSkipped /\ PassesYielders(q, s) =>
           \A t \in Elements(q) : Dequeuable(t, s) =>
             t = p.next \/ t \in Elements(p.queue)
    BY <1>1, <1>3, <2>1, Picked
  <2>8. QED BY <2>2, <2>3, <2>4, <2>5, <2>6, <2>7
<1>5. p.next # NoThread => p.next \in Elements(q) /\ s[p.next] = "Ready"
  BY <1>4 DEF Dequeuable
<1>6. p.next = NoThread => current[c] \notin Elements(p.queue)
  BY <1>1, <1>4
<1>7. \A t \in UserThreads : t \notin IdleThreads
  BY KernelThreadAssumption DEF IdleThreads
<1>8. ASSUME RoomForSkipped, NoYieldInv, Keeps(c, ts),
             NEW t \in Elements(queue[c]), s[t] = "Ready"
      PROVE  t = p.next \/ t \in Elements(p.queue)
  <2>1. ASSUME NEW u \in Elements(q), s[u] = "Ready", cs[u] # "user"
        PROVE  u \in Yielding
    <3>1. u \in Threads /\ cs[u] = "kernel" /\ u \in UserThreads
      BY <1>2, <2>1 DEF Threads, SchedInv, TypeOK
    <3>2. u \notin Yielding => tstate[u] = "Dead" /\ ~Holds(c, u)
      BY <1>8, <3>1 DEF NoYieldInv, NeverYield, DeadStay
    <3>3. u \notin Yielding => u # current[c]
      BY <3>2 DEF Holds
    <3>4. u \notin Yielding => s[u] = ts[u] /\ ts[u] = "Dead"
      BY <1>8, <3>1, <3>2, <3>3, Requeued DEF Keeps, s
    <3>5. QED BY <2>1, <3>4
  <2>2. PassesYielders(q, s)
    BY <2>1 DEF PassesYielders, Dequeuable
  <2>3. QED BY <1>1, <1>2, <1>4, <1>7, <1>8, <2>2 DEF Dequeuable
<1>9. current[c] \in Elements(p.queue) => s[current[c]] = "Ready"
  BY <1>1, <1>4 DEF Dequeuable
<1>10. QED BY <1>1, <1>2, <1>4, <1>5, <1>6, <1>8, <1>9 DEF q, s

\* A queue that gave up entries, or took the current thread of its own CPU,
\* stays apart from the others.
LEMMA ApartKept ==
  ASSUME SchedInv, NEW c \in CPUs, pc[c] = "run", NEW r \in Seq(UserThreads),
         queue' = [queue EXCEPT ![c] = r], Apart(r),
         Elements(r) \subseteq Elements(queue[c]) \cup {current[c]}
  PROVE  QueuesApart' /\ queue' \in [CPUs -> Seq(Threads)]
<1>1. /\ queue'[c] = r /\ \A d \in CPUs \ {c} : queue'[d] = queue[d]
      /\ \A d \in CPUs : current[c] \notin Elements(queue[d])
  BY AtRun DEF SchedInv, TypeOK
<1>2. Elements(r) \subseteq UserThreads
  BY DEF Elements
<1>3. r \in Seq(Threads)
  BY DEF Threads
<1>4. QueuesApart'
  <2>1. ASSUME NEW d \in CPUs, NEW e \in CPUs \ {d}
        PROVE  Elements(queue'[d]) \cap Elements(queue'[e]) = {}
    <3>1. Elements(queue[d]) \cap Elements(queue[e]) = {}
      BY DEF SchedInv, QueuesApart
    <3>2. CASE d = c
      BY <1>1, <3>1, <3>2
    <3>3. CASE e = c
      BY <1>1, <3>1, <3>3
    <3>4. CASE d # c /\ e # c
      BY <1>1, <3>1, <3>4
    <3>5. QED BY <3>2, <3>3, <3>4
  <2>2. ASSUME NEW d \in CPUs
        PROVE  Elements(queue'[d]) \subseteq UserThreads /\ Apart(queue'[d])
    BY <1>1, <1>2 DEF SchedInv, QueuesApart
  <2>3. QED BY <2>1, <2>2 DEF QueuesApart, Apart
<1>5. queue' \in [CPUs -> Seq(Threads)]
  BY <1>3 DEF SchedInv, TypeOK
<1>6. QED BY <1>4, <1>5

LEMMA EnterSched ==
  ASSUME SchedInv, NEW c \in CPUs, pc[c] = "run",
         NEW ts \in [Threads -> ThreadStates],
         \A t \in Threads \ {current[c]} : ts[t] = tstate[t],
         ts[current[c]] \in {tstate[current[c]], "Dead"},
         ScheduleEnter(c, ts)
  PROVE  SchedInv'
<1> DEFINE x == current[c]
           s == StatesAfterRequeue(c, ts)
           p == PickNext(QueueAfterRequeue(c, ts), s)
           h == HandoffAfterRequeue(c, ts)
<1>1. /\ live[c] = x /\ next[c] = NoThread /\ x \in Threads
      /\ \A d \in CPUs : x \notin Elements(queue[d])
      /\ ~inSchedule[c]
  BY AtRun DEF SchedInv, EntryInv, EntryKept
<1>2. /\ p.queue \in Seq(UserThreads) /\ Apart(p.queue)
      /\ Elements(p.queue) \subseteq Elements(queue[c]) \cup {x}
      /\ x \in Elements(p.queue) => x \in UserThreads /\ h = x
      /\ p.next # NoThread =>
           /\ p.next \in UserThreads
           /\ p.next \in Elements(queue[c]) \cup {x}
           /\ s[p.next] = "Ready"
           /\ cs[p.next] = "user" => p.next \notin Elements(p.queue)
  BY Selected
<1>3. /\ s \in [Threads -> ThreadStates] /\ h \in Threads \cup {NoThread}
      /\ \A t \in Threads \ {x} : s[t] = tstate[t]
      /\ s[x] \in {tstate[x], "Dead", "Ready"}
  BY <1>1, Requeued
<1> HIDE DEF s, p, h
<1>4. /\ tstate' = s /\ queue' = [queue EXCEPT ![c] = p.queue]
      /\ handoff' = [handoff EXCEPT ![c] = h]
      /\ inSchedule' = [inSchedule EXCEPT ![c] = TRUE]
      /\ next' = [next EXCEPT ![c] = p.next]
      /\ UNCHANGED <<cs, slice, home, current, live, kernelStack, rsp>>
  BY <1>1 DEF ScheduleEnter, s, p, h
<1>5. \/ pc' = [pc EXCEPT ![c] = "steal"] /\ p.next = NoThread
      \/ pc' = [pc EXCEPT ![c] = "commit"]
  BY <1>1 DEF ScheduleEnter, s, p
<1>6. \E v \in SUBSET CPUs : scan' = [scan EXCEPT ![c] = v]
  <2>1. CPUs \ {c} \in SUBSET CPUs /\ {} \in SUBSET CPUs
    OBVIOUS
  <2>2. QED BY <1>1, <2>1 DEF ScheduleEnter, p, s
<1>7. EntryInv'
  BY EnterEntry DEF SchedInv
<1>8. EnterSyscall(c)
  BY DEF ScheduleEnter
<1>9. TypeOK /\ QueuesApart
  BY DEF SchedInv
<1>10. /\ live' = live /\ current' = current /\ cs' = cs
       /\ queue'[c] = p.queue /\ \A d \in CPUs \ {c} : queue'[d] = queue[d]
       /\ next'[c] = p.next /\ handoff'[c] = h
       /\ pc'[c] \in {"steal", "commit"} /\ (pc'[c] = "steal" => p.next = NoThread)
       /\ SameElsewhere(c)
  <2>1. /\ queue \in [CPUs -> Seq(Threads)] /\ next \in [CPUs -> Threads \cup {NoThread}]
        /\ handoff \in [CPUs -> Threads \cup {NoThread}] /\ pc \in [CPUs -> Locations]
    BY <1>9 DEF TypeOK
  <2>2. /\ queue'[c] = p.queue /\ \A d \in CPUs \ {c} : queue'[d] = queue[d]
        /\ next'[c] = p.next /\ handoff'[c] = h
        /\ \A d \in CPUs \ {c} : next'[d] = next[d] /\ handoff'[d] = handoff[d]
    BY <1>4, <2>1
  <2>3. /\ pc'[c] \in {"steal", "commit"} /\ (pc'[c] = "steal" => p.next = NoThread)
        /\ \A d \in CPUs \ {c} : pc'[d] = pc[d]
    BY <1>5, <2>1
  <2>4. QED BY <1>4, <2>2, <2>3 DEF SameElsewhere
<1>11. QueuesApart' /\ queue' \in [CPUs -> Seq(Threads)]
  BY <1>2, <1>4, ApartKept
<1>12. TypeOK'
  BY EnterTypes DEF SchedInv
<1>13. ASSUME NEW t \in UserThreads PROVE SoleOwner(t)' /\ Fresh(t)'
  <2>1. Holds(c, t)' <=> t = x \/ t = p.next
    BY <1>1, <1>10 DEF Holds
  <2>2. Holds(c, t) <=> t = x
    BY <1>1, ThreadAssumption DEF Holds
  <2>3. t # x /\ t = p.next => t \in Elements(queue[c])
    BY <1>2, ThreadAssumption
  <2>4. t # NoThread
    BY ThreadAssumption
  <2>5. ASSUME cs[t] = "user" PROVE SoleOwner(t)'
    <3>1. t # x /\ t = p.next => \A d \in CPUs \ {c} : ~Holds(d, t) /\ t \notin Elements(queue[d])
      <4>1. SoleOwner(t) /\ QueuesApart
        BY DEF SchedInv
      <4>2. ASSUME NEW d \in CPUs \ {c}, t \in Elements(queue[c])
            PROVE  ~Holds(d, t) /\ t \notin Elements(queue[d])
        BY <2>5, <4>1, <4>2 DEF SoleOwner, QueuesApart
      <4>3. QED BY <2>3, <4>2
    <3>2. Holds(c, t)' => Holds(c, t) \/ \A d \in CPUs \ {c} : ~Holds(d, t)
      BY <2>1, <2>2, <3>1
    <3>3. ASSUME NEW d \in CPUs \ {c}, t \in Elements(queue'[d])
          PROVE  ~Holds(c, t)' /\ (t \in Elements(queue[d]) \/ Holds(c, t))
      BY <1>1, <1>10, <2>1, <3>1, <3>3
    <3>4. ASSUME t \in Elements(queue'[c])
          PROVE  \/ ~Holds(c, t)' /\ (t \in Elements(queue[c]) \/ Holds(c, t))
                 \/ /\ Holds(c, t) /\ live'[c] = t /\ handoff'[c] = t /\ next'[c] # t
                    /\ pc'[c] \in {"steal", "commit", "switch", "irqsave"}
      BY <1>1, <1>2, <1>10, <2>1, <2>2, <2>4, <2>5, <3>4
    <3>5. QED BY <1>10, <2>5, <3>2, <3>3, <3>4, OwnerKept
  <2>6. ASSUME cs[t] # "user" PROVE SoleOwner(t)'
    BY <1>10, <2>6 DEF SoleOwner
  <2>7. Fresh(t)'
    <3>1. \A d \in CPUs : t \in Elements(queue'[d]) => Queued(t) \/ Holds(c, t)
      BY <1>2, <1>10, <2>2 DEF Queued
    <3>2. tstate'[t] \in {"None", "Created"} => tstate[t] \in {"None", "Created"}
      BY <1>3, <1>4 DEF Threads
    <3>3. tstate[t] \in {"None", "Created"} => ~Holds(c, t)' \/ Holds(c, t)
      <4>1. t \in Elements(queue[c]) => tstate[t] \notin {"None", "Created"}
        BY DEF SchedInv, Fresh, Queued
      <4>2. QED BY <2>1, <2>2, <2>3, <4>1
    <3>4. QED BY <1>10, <3>1, <3>2, <3>3, FreshKept
  <2>8. QED BY <2>5, <2>6, <2>7
<1>14. ASSUME NEW d \in CPUs PROVE Pointers(d)'
  <2>1. CASE d = c
    <3>1. p.next \in UserThreads \cup {NoThread}
      BY <1>2
    <3>2. Pointers(c)
      BY DEF SchedInv
    <3>3. QED BY <1>1, <1>10, <2>1, <3>1, <3>2 DEF Pointers
  <2>2. CASE d # c
    <3>1. \A t \in UserThreads : tstate'[t] # tstate[t] => Holds(c, t)
      BY <1>3, <1>4 DEF Threads, Holds
    <3>2. QED BY <1>10, <1>13, <2>2, <3>1, PointersKept
  <2>3. QED BY <2>1, <2>2
<1>15. QED BY <1>7, <1>11, <1>12, <1>13, <1>14 DEF SchedInv

LEMMA PreemptSched ==
  ASSUME SchedInv, NEW c \in CPUs, Preempt(c)
  PROVE  SchedInv'
<1> DEFINE x == current[c]
           s == StatesAfterRequeue(c, tstate)
           p == PickNext(QueueAfterRequeue(c, tstate), s)
           h == HandoffAfterRequeue(c, tstate)
           y == IF p.next = NoThread THEN x ELSE p.next
<1>1. TypeOK /\ QueuesApart /\ pc[c] = "run" /\ tstate \in [Threads -> ThreadStates]
  BY DEF SchedInv, TypeOK, Preempt
<1>2. /\ live[c] = x /\ next[c] = NoThread /\ x \in Threads
      /\ \A d \in CPUs : x \notin Elements(queue[d])
      /\ x \in UserThreads => cs[x] = "user"
  BY <1>1, AtRun
<1>3. /\ p.queue \in Seq(UserThreads) /\ Apart(p.queue)
      /\ Elements(p.queue) \subseteq Elements(queue[c]) \cup {x}
      /\ x \in Elements(p.queue) => x \in UserThreads /\ h = x
      /\ p.next # NoThread =>
           /\ p.next \in UserThreads
           /\ p.next \in Elements(queue[c]) \cup {x}
           /\ s[p.next] = "Ready"
           /\ cs[p.next] = "user" => p.next \notin Elements(p.queue)
      /\ p.next = NoThread => x \notin Elements(p.queue)
  BY <1>1, Selected
<1>4. /\ s \in [Threads -> ThreadStates] /\ h \in Threads \cup {NoThread}
      /\ \A t \in Threads \ {x} : s[t] = tstate[t]
      /\ s[x] \in {tstate[x], "Ready"}
  BY <1>1, <1>2, Requeued
<1> HIDE DEF s, p, h
<1>5. /\ tstate' = [s EXCEPT ![y] = "Running"]
      /\ queue' = [queue EXCEPT ![c] = p.queue]
      /\ handoff' = [handoff EXCEPT ![c] = h]
      /\ slice' = [[slice EXCEPT ![x] = 0] EXCEPT ![y] = SliceTicks]
      /\ current' = [current EXCEPT ![c] = y]
      /\ UNCHANGED <<cs, home, inSchedule, scan, live, entry>>
  BY DEF Preempt, s, p, h
<1>6. /\ y = x => UNCHANGED <<pc, next>>
      /\ y # x => pc' = [pc EXCEPT ![c] = "irqsave"] /\ next' = [next EXCEPT ![c] = y]
  BY DEF Preempt, s, p
<1>7. /\ y \in Threads /\ y \in UserThreads \cup {x} /\ y \in Elements(queue[c]) \cup {x}
      /\ y \in UserThreads /\ cs[y] = "user" => y \notin Elements(p.queue)
  BY <1>2, <1>3 DEF Threads
<1> HIDE DEF y
<1>8. /\ live' = live /\ cs' = cs
      /\ queue'[c] = p.queue /\ \A d \in CPUs \ {c} : queue'[d] = queue[d]
      /\ current'[c] = y /\ handoff'[c] = h
      /\ y = x => pc'[c] = "run" /\ next'[c] = NoThread
      /\ y # x => pc'[c] = "irqsave" /\ next'[c] = y
      /\ SameElsewhere(c)
  <2>1. /\ queue \in [CPUs -> Seq(Threads)] /\ next \in [CPUs -> Threads \cup {NoThread}]
        /\ handoff \in [CPUs -> Threads \cup {NoThread}] /\ pc \in [CPUs -> Locations]
        /\ current \in [CPUs -> Threads]
    BY <1>1 DEF TypeOK
  <2>2. /\ queue'[c] = p.queue /\ \A d \in CPUs \ {c} : queue'[d] = queue[d]
        /\ current'[c] = y /\ handoff'[c] = h
        /\ \A d \in CPUs \ {c} : current'[d] = current[d] /\ handoff'[d] = handoff[d]
    BY <1>5, <2>1
  <2>3. CASE y = x
    BY <1>1, <1>2, <1>5, <1>6, <2>2, <2>3 DEF SameElsewhere
  <2>4. CASE y # x
    <3>1. /\ pc'[c] = "irqsave" /\ next'[c] = y
          /\ \A d \in CPUs \ {c} : pc'[d] = pc[d] /\ next'[d] = next[d]
      BY <1>6, <2>1, <2>4
    <3>2. QED BY <1>5, <2>2, <2>4, <3>1 DEF SameElsewhere
  <2>5. QED BY <2>3, <2>4
<1>9. EntryInv'
  BY TimerEntry DEF SchedInv, Timer
<1>10. QueuesApart' /\ queue' \in [CPUs -> Seq(Threads)]
  BY <1>1, <1>3, <1>5, ApartKept
<1>11. TypeOK'
  BY PreemptTypes DEF SchedInv
<1>12. ASSUME NEW t \in UserThreads PROVE SoleOwner(t)' /\ Fresh(t)'
  <2>1. Holds(c, t)' <=> t = x \/ t = y
    BY <1>2, <1>8, ThreadAssumption DEF Holds
  <2>2. Holds(c, t) <=> t = x
    BY <1>2, ThreadAssumption DEF Holds
  <2>3. t # x /\ t = y => t \in Elements(queue[c])
    BY <1>7
  <2>4. t # NoThread
    BY ThreadAssumption
  <2>5. ASSUME cs[t] = "user" PROVE SoleOwner(t)'
    <3>1. t # x /\ t = y => \A d \in CPUs \ {c} : ~Holds(d, t) /\ t \notin Elements(queue[d])
      <4>1. SoleOwner(t)
        BY DEF SchedInv
      <4>2. ASSUME NEW d \in CPUs \ {c}, t \in Elements(queue[c])
            PROVE  ~Holds(d, t) /\ t \notin Elements(queue[d])
        BY <1>1, <2>5, <4>1, <4>2 DEF SoleOwner, QueuesApart
      <4>3. QED BY <2>3, <4>2
    <3>2. Holds(c, t)' => Holds(c, t) \/ \A d \in CPUs \ {c} : ~Holds(d, t)
      BY <2>1, <2>2, <3>1
    <3>3. ASSUME NEW d \in CPUs \ {c}, t \in Elements(queue'[d])
          PROVE  ~Holds(c, t)' /\ (t \in Elements(queue[d]) \/ Holds(c, t))
      BY <1>2, <1>8, <2>1, <3>1, <3>3
    <3>4. ASSUME t \in Elements(queue'[c])
          PROVE  \/ ~Holds(c, t)' /\ (t \in Elements(queue[c]) \/ Holds(c, t))
                 \/ /\ Holds(c, t) /\ live'[c] = t /\ handoff'[c] = t /\ next'[c] # t
                    /\ pc'[c] \in {"steal", "commit", "switch", "irqsave"}
      BY <1>2, <1>3, <1>7, <1>8, <2>1, <2>2, <2>4, <2>5, <3>4
    <3>5. QED BY <1>8, <2>5, <3>2, <3>3, <3>4, OwnerKept
  <2>6. ASSUME cs[t] # "user" PROVE SoleOwner(t)'
    BY <1>8, <2>6 DEF SoleOwner
  <2>7. Fresh(t)'
    <3>1. \A d \in CPUs : t \in Elements(queue'[d]) => Queued(t) \/ Holds(c, t)
      BY <1>3, <1>8, <2>2 DEF Queued
    <3>2. tstate'[t] \in {"None", "Created"} => tstate[t] \in {"None", "Created"}
      BY <1>4, <1>5 DEF Threads
    <3>3. tstate[t] \in {"None", "Created"} => ~Holds(c, t)' \/ Holds(c, t)
      <4>1. t \in Elements(queue[c]) => tstate[t] \notin {"None", "Created"}
        BY DEF SchedInv, Fresh, Queued
      <4>2. QED BY <2>1, <2>2, <2>3, <4>1
    <3>4. QED BY <1>1, <1>8, <3>1, <3>2, <3>3, FreshKept
  <2>8. QED BY <2>5, <2>6, <2>7
<1>13. ASSUME NEW d \in CPUs PROVE Pointers(d)'
  <2>1. CASE d = c
    <3>1. Pointers(c)
      BY DEF SchedInv
    <3>2. QED BY <1>1, <1>2, <1>7, <1>8, <2>1, <3>1 DEF Pointers
  <2>2. CASE d # c
    <3>1. \A t \in UserThreads : tstate'[t] # tstate[t] => Holds(c, t) \/ Holds(c, t)'
      BY <1>4, <1>5, <1>8 DEF Threads, Holds
    <3>2. QED BY <1>8, <1>12, <2>2, <3>1, PointersKept
  <2>3. QED BY <2>1, <2>2
<1>14. QED BY <1>9, <1>10, <1>11, <1>12, <1>13 DEF SchedInv

LEMMA TimerNoSwitchSched ==
  ASSUME SchedInv, NEW c \in CPUs, TimerNoSwitch(c)
  PROVE  SchedInv'
<1>1. TypeOK /\ QueuesApart /\ pc[c] = "run" /\ current[c] \in Threads
  BY DEF SchedInv, TypeOK, TimerNoSwitch
<1>2. /\ handoff' = [handoff EXCEPT ![c] = ClearedHandoff(c)]
      /\ UNCHANGED <<tstate, cs, home, queue, current, inSchedule, pc, next, scan, live, entry>>
  BY DEF TimerNoSwitch
<1>3. EntryInv'
  BY TimerEntry DEF SchedInv, Timer
<1>4. TypeOK'
  BY TimerNoSwitchTypes DEF SchedInv
<1>5. SameElsewhere(c)
  BY <1>1, <1>2 DEF TypeOK, SameElsewhere
<1>6. QueuesApart' /\ \A d \in CPUs : Pointers(d)'
  BY <1>1, <1>2 DEF SchedInv, QueuesApart, Pointers
<1>7. ASSUME NEW t \in UserThreads PROVE SoleOwner(t)' /\ Fresh(t)'
  <2>1. Holds(c, t)' <=> Holds(c, t)
    BY <1>2 DEF Holds
  <2>2. SoleOwner(t) /\ Fresh(t)
    BY DEF SchedInv
  <2>3. Fresh(t)'
    BY <1>2, <2>2 DEF Fresh, Holds, Queued
  <2>4. cs[t] = "user" => SoleOwner(t)'
    <3>1. cs[t] = "user" /\ Holds(c, t) => \A d \in CPUs : t \notin Elements(queue[d])
      BY <1>1, <2>2 DEF SoleOwner
    <3>2. QED BY <1>2, <1>5, <2>1, <3>1, OwnerKept
  <2>5. cs[t] # "user" => SoleOwner(t)'
    BY <1>2 DEF SoleOwner
  <2>6. QED BY <2>3, <2>4, <2>5
<1>8. QED BY <1>3, <1>4, <1>6, <1>7 DEF SchedInv

-----------------------------------------------------------------------------
(* steal_thread_for_cpu                                                    *)

\* The two outcomes of a look at a victim.
LEMMA StealOutcome ==
  ASSUME SchedInv, NEW c \in CPUs, Steal(c)
  PROVE  \/ /\ UNCHANGED <<queue, home, next>>
            /\ \E w \in SUBSET CPUs : scan' = [scan EXCEPT ![c] = w]
            /\ \E l \in {"steal", "commit"} : pc' = [pc EXCEPT ![c] = l]
         \/ \E v \in CPUs, r \in Seq(UserThreads), t \in UserThreads :
              /\ t \in Elements(queue[v]) /\ t # handoff[v] /\ tstate[t] = "Ready"
              /\ queue' = [queue EXCEPT ![v] = r]
              /\ Apart(r) /\ Elements(r) \subseteq Elements(queue[v])
              /\ t \notin Elements(r)
              /\ Elements(queue[v]) \subseteq Elements(r) \cup {t}
              /\ home' = [home EXCEPT ![t] = c]
              /\ next' = [next EXCEPT ![c] = t]
              /\ scan' = [scan EXCEPT ![c] = {}]
              /\ pc' = [pc EXCEPT ![c] = "commit"]
<1>1. TypeOK /\ QueuesApart
  BY DEF SchedInv
<1>2. PICK v \in scan[c] :
       LET slots == {i \in DOMAIN queue[v] : Stealable(v, queue[v][i])}
           slot == CHOOSE i \in slots : \A j \in slots : j <= i
           stolen == queue[v][slot]
       IN IF slots = {}
          THEN /\ scan' = [scan EXCEPT ![c] = @ \ {v}]
               /\ pc' = [pc EXCEPT ![c] =
                    IF scan[c] = {v} THEN "commit" ELSE "steal"]
               /\ UNCHANGED <<queue, home, next>>
          ELSE /\ queue' = [queue EXCEPT ![v] =
                    SubSeq(@, 1, slot - 1) \o SubSeq(@, slot + 1, Len(@))]
               /\ home' = [home EXCEPT ![stolen] = c]
               /\ next' = [next EXCEPT ![c] = stolen]
               /\ scan' = [scan EXCEPT ![c] = {}]
               /\ pc' = [pc EXCEPT ![c] = "commit"]
  BY DEF Steal
<1>3. v \in CPUs /\ scan[c] \in SUBSET CPUs
  BY <1>1 DEF TypeOK
<1> DEFINE q == queue[v]
           slots == {i \in DOMAIN q : Stealable(v, q[i])}
           slot == CHOOSE i \in slots : \A j \in slots : j <= i
<1>4. CASE slots = {}
  <2>1. /\ UNCHANGED <<queue, home, next>>
        /\ scan' = [scan EXCEPT ![c] = scan[c] \ {v}]
        /\ pc' = [pc EXCEPT ![c] = IF scan[c] = {v} THEN "commit" ELSE "steal"]
    BY <1>2, <1>4
  <2>2. scan[c] \ {v} \in SUBSET CPUs
    BY <1>3
  <2>3. (IF scan[c] = {v} THEN "commit" ELSE "steal") \in {"steal", "commit"}
    OBVIOUS
  <2>4. QED BY <2>1, <2>2, <2>3
<1>5. CASE slots # {}
  <2>1. q \in Seq(UserThreads) /\ Apart(q)
    <3>1. q \in Seq(Threads) /\ Elements(q) \subseteq UserThreads
      BY <1>1, <1>3 DEF TypeOK, QueuesApart
    <3>2. q \in Seq(UserThreads)
      BY <3>1 DEF Elements
    <3>3. QED BY <1>1, <1>3, <3>2 DEF QueuesApart
  <2>2. Len(q) \in Nat /\ DOMAIN q = 1 .. Len(q)
    BY <2>1, LenProperties
  <2>3. slot \in slots
    <3>1. slots \in SUBSET (1 .. Len(q))
      BY <2>2
    <3>2. \E i \in slots : \A j \in slots : j <= i
      BY <1>5, <2>2, <3>1, Largest
    <3>3. QED BY <3>2
  <2> HIDE DEF slot
  <2> DEFINE r == SubSeq(q, 1, slot - 1) \o SubSeq(q, slot + 1, Len(q))
             t == q[slot]
  <2>4. slot \in DOMAIN q /\ Stealable(v, t)
    BY <2>3
  <2>5. t \in Elements(q) /\ t \in UserThreads /\ t # handoff[v] /\ tstate[t] = "Ready"
    BY <2>1, <2>4 DEF Stealable, Dequeuable, Elements
  <2>6. /\ r \in Seq(UserThreads) /\ Elements(r) \subseteq Elements(q)
        /\ Elements(q) \subseteq Elements(r) \cup {t}
        /\ Apart(r) /\ t \notin Elements(r)
    BY <2>1, <2>4, TakenOut
  <2>7. /\ queue' = [queue EXCEPT ![v] = r]
        /\ home' = [home EXCEPT ![t] = c]
        /\ next' = [next EXCEPT ![c] = t]
        /\ scan' = [scan EXCEPT ![c] = {}]
        /\ pc' = [pc EXCEPT ![c] = "commit"]
    BY <1>2, <1>5 DEF slot
  <2> HIDE DEF r, t
  <2>8. QED BY <1>3, <2>5, <2>6, <2>7
<1>6. QED BY <1>4, <1>5

LEMMA StealSched ==
  ASSUME SchedInv, NEW c \in CPUs, Steal(c)
  PROVE  SchedInv'
<1>1. TypeOK /\ QueuesApart /\ pc[c] = "steal" /\ next[c] = NoThread
      /\ live[c] = current[c] /\ Pointers(c)
  BY DEF SchedInv, Steal, EntryInv, EntryKept, Pointers
<1>2. UNCHANGED <<tstate, cs, slice, current, handoff, inSchedule, live, entry>>
  BY DEF Steal
<1>3. EntryInv'
  BY StealEntry DEF SchedInv
<1>4. CASE /\ UNCHANGED <<queue, home, next>>
           /\ \E w \in SUBSET CPUs : scan' = [scan EXCEPT ![c] = w]
           /\ \E l \in {"steal", "commit"} : pc' = [pc EXCEPT ![c] = l]
  <2>1. TypeOK'
    BY StealTypes DEF SchedInv
  <2>2. /\ SameElsewhere(c) /\ pc'[c] \in {"steal", "commit"}
    BY <1>1, <1>2, <1>4 DEF TypeOK, SameElsewhere
  <2>3. QueuesApart'
    BY <1>1, <1>4 DEF QueuesApart
  <2>4. \A d \in CPUs : Pointers(d)'
    BY <1>1, <1>2, <1>4, <2>2 DEF SchedInv, SameElsewhere, Pointers
  <2>5. \A t \in UserThreads : Fresh(t)'
    BY <1>1, <1>2, <1>4, <2>2 DEF SchedInv, Fresh, Holds, Queued, SameElsewhere
  <2>6. ASSUME NEW t \in UserThreads PROVE SoleOwner(t)'
    <3>1. SoleOwner(t)
      BY DEF SchedInv
    <3>2. \A d \in CPUs : pc[d] \in {"steal", "commit", "switch", "irqsave"} =>
                          pc'[d] \in {"steal", "commit", "switch", "irqsave"}
      BY <2>2 DEF SameElsewhere
    <3>3. QED BY <1>2, <1>4, <3>1, <3>2 DEF SoleOwner, Holds
  <2>7. QED BY <1>3, <2>1, <2>3, <2>4, <2>5, <2>6 DEF SchedInv
<1>5. ASSUME NEW v \in CPUs, NEW r \in Seq(UserThreads), NEW y \in UserThreads,
             y \in Elements(queue[v]), y # handoff[v], tstate[y] = "Ready",
             queue' = [queue EXCEPT ![v] = r],
             Apart(r), Elements(r) \subseteq Elements(queue[v]),
             y \notin Elements(r),
             Elements(queue[v]) \subseteq Elements(r) \cup {y},
             home' = [home EXCEPT ![y] = c],
             next' = [next EXCEPT ![c] = y],
             scan' = [scan EXCEPT ![c] = {}],
             pc' = [pc EXCEPT ![c] = "commit"]
      PROVE  SchedInv'
  <2>1. TypeOK'
    BY StealTypes DEF SchedInv
  <2>2. /\ SameElsewhere(c) /\ pc'[c] = "commit" /\ next'[c] = y
        /\ queue'[v] = r /\ \A d \in CPUs \ {v} : queue'[d] = queue[d]
        /\ current' = current /\ live' = live /\ cs' = cs /\ tstate' = tstate
    BY <1>1, <1>2, <1>5 DEF TypeOK, SameElsewhere
  <2>3. \A d \in CPUs : Elements(queue'[d]) \subseteq Elements(queue[d])
    BY <1>5, <2>2
  <2>4. \A d \in CPUs : y \notin Elements(queue'[d])
    BY <1>1, <1>5, <2>2 DEF QueuesApart
  <2>5. QueuesApart'
    <3>1. \A d \in CPUs : Apart(queue'[d])
      BY <1>1, <1>5, <2>2 DEF QueuesApart
    <3>2. QED BY <1>1, <2>3, <3>1 DEF QueuesApart, Apart
  <2>6. cs[y] = "user" => \A d \in CPUs : ~Holds(d, y)
    <3>1. SoleOwner(y)
      BY DEF SchedInv
    <3>2. ASSUME NEW d \in CPUs, Holds(d, y), cs[y] = "user" PROVE FALSE
      BY <1>5, <3>1, <3>2 DEF SoleOwner
    <3>3. QED BY <3>2
  <2>7. ASSUME NEW t \in UserThreads PROVE SoleOwner(t)' /\ Fresh(t)'
    <3>1. Holds(c, t)' <=> Holds(c, t) \/ t = y
      BY <1>1, <2>2, ThreadAssumption DEF Holds
    <3>2. ASSUME cs[t] = "user" PROVE SoleOwner(t)'
      <4>1. SoleOwner(t)
        BY DEF SchedInv
      <4>2. \A d \in CPUs : t \in Elements(queue'[d]) =>
              t # y /\ t \in Elements(queue[d])
        BY <2>3, <2>4
      <4>3. \A d \in CPUs \ {c} : t \in Elements(queue'[d]) => ~Holds(c, t)'
        BY <3>1, <3>2, <4>1, <4>2 DEF SoleOwner
      <4>4. t \in Elements(queue'[c]) =>
             \/ ~Holds(c, t)'
             \/ /\ Holds(c, t) /\ live'[c] = t /\ handoff'[c] = t /\ next'[c] # t
                /\ pc'[c] \in {"steal", "commit", "switch", "irqsave"}
        BY <1>2, <2>2, <3>1, <3>2, <4>1, <4>2 DEF SoleOwner
      <4>5. Holds(c, t)' => Holds(c, t) \/ \A d \in CPUs \ {c} : ~Holds(d, t)
        BY <2>6, <3>1, <3>2
      <4>6. QED BY <2>2, <3>2, <4>2, <4>3, <4>4, <4>5, OwnerKept
    <3>3. ASSUME cs[t] # "user" PROVE SoleOwner(t)'
      BY <2>2, <3>3 DEF SoleOwner
    <3>4. Fresh(t)'
      <4>1. \A d \in CPUs : t \in Elements(queue'[d]) => Queued(t)
        BY <2>3 DEF Queued
      <4>2. QED BY <1>1, <1>5, <2>2, <3>1, <4>1, FreshKept
    <3>5. QED BY <3>2, <3>3, <3>4
  <2>8. ASSUME NEW d \in CPUs PROVE Pointers(d)'
    <3>1. CASE d = c
      BY <1>1, <2>2, <3>1 DEF Pointers
    <3>2. CASE d # c
      BY <2>2, <2>7, <3>2, PointersKept
    <3>3. QED BY <3>1, <3>2
  <2>9. QED BY <1>3, <2>1, <2>5, <2>7, <2>8 DEF SchedInv
<1>6. QED BY <1>4, <1>5, StealOutcome

-----------------------------------------------------------------------------
(* The second critical section and the register switch                     *)

LEMMA SwitchToSched ==
  ASSUME SchedInv, NEW c \in CPUs, NEW selector \in {"user", "kernel"},
         NEW g \in {"user", "cpu"} \X {"user", "cpu"},
         pc[c] \in {"switch", "irqsave"}, SwitchTo(c, selector, g),
         selector = "user" => live[c] \in UserThreads,
         g[1] = "user", EntryInv'
  PROVE  SchedInv'
<1> DEFINE n == next[c]
           x == live[c]
<1>1. /\ TypeOK /\ QueuesApart /\ Pointers(c) /\ n = current[c] /\ n # x
      /\ n \in Threads /\ x \in Threads
      /\ x \in UserThreads => cs[x] = "user"
      /\ x \notin UserThreads => cs[x] = "kernel"
  <2>1. TypeOK /\ QueuesApart /\ Pointers(c) /\ n = current[c]
    BY DEF SchedInv, EntryInv, EntryKept
  <2>2. n \in Threads /\ x \in Threads
    BY <2>1 DEF TypeOK
  <2>3. n # x /\ (x \in UserThreads => cs[x] = "user")
    BY <2>1 DEF Pointers
  <2>4. x \notin UserThreads => x \in {Idle(c), Boot(c)} /\ cs[x] = "kernel"
    BY <2>1 DEF Pointers
  <2>5. QED BY <2>1, <2>2, <2>3, <2>4
<1>2. /\ cs' = [cs EXCEPT ![x] = selector]
      /\ live' = [live EXCEPT ![c] = n]
      /\ next' = [next EXCEPT ![c] = NoThread]
      /\ kernelStack' = [kernelStack EXCEPT ![c] = n]
      /\ gs' = [gs EXCEPT ![c] = g]
      /\ UNCHANGED <<tstate, slice, home, queue, current, handoff, inSchedule, scan,
                     userRsp, rsp>>
  BY DEF SwitchTo, LeaveSyscall, KernelStackOfNext
<1>3. pc' = [pc EXCEPT ![c] = IF n \in UserThreads /\ cs[n] = "kernel"
                               THEN "panic" ELSE "run"]
  BY DEF SwitchTo, LeaveSyscall
<1>4. TypeOK'
  BY SwitchToTypes DEF SchedInv
<1>5. /\ SameElsewhere(c) /\ live'[c] = n /\ current'[c] = n /\ next'[c] = NoThread
      /\ pc'[c] = IF n \in UserThreads /\ cs[n] = "kernel" THEN "panic" ELSE "run"
      /\ \A t \in Threads : t # x => cs'[t] = cs[t]
      /\ cs'[x] = selector
  BY <1>1, <1>2, <1>3 DEF TypeOK, SameElsewhere
<1>6. QueuesApart'
  BY <1>1, <1>2 DEF QueuesApart
<1>7. ASSUME NEW t \in UserThreads PROVE SoleOwner(t)' /\ Fresh(t)'
  <2>1. /\ Holds(c, t)' <=> t = n
        /\ Holds(c, t) <=> t = n \/ t = x
    BY <1>1, <1>5, ThreadAssumption DEF Holds
  <2>2. t \in Threads /\ SoleOwner(t)
    BY DEF Threads, SchedInv
  <2>3. cs'[t] = "user" => cs[t] = "user"
    BY <1>1, <1>5, <2>2
  <2>4. ASSUME cs[t] = "user" PROVE SoleOwner(t)'
    <3>1. t = n => \A d \in CPUs : t \notin Elements(queue[d])
      BY <2>1, <2>2, <2>4 DEF SoleOwner
    <3>2. \A d \in CPUs : t \in Elements(queue'[d]) => ~Holds(c, t)' /\ t \in Elements(queue[d])
      BY <1>2, <2>1, <3>1
    <3>3. QED BY <1>5, <2>1, <2>4, <3>2, OwnerKept
  <2>5. ASSUME cs[t] # "user" PROVE SoleOwner(t)'
    BY <2>3, <2>5 DEF SoleOwner
  <2>6. Fresh(t)'
    <3>1. \A d \in CPUs : t \in Elements(queue'[d]) => Queued(t)
      BY <1>2 DEF Queued
    <3>2. QED BY <1>1, <1>2, <1>5, <2>1, <2>2, <3>1, FreshKept
  <2>7. QED BY <2>4, <2>5, <2>6
<1>8. ASSUME NEW d \in CPUs PROVE Pointers(d)'
  <2>1. CASE d = c
    <3>1. n \in UserThreads => cs[n] \in {"user", "kernel"} /\ cs'[n] = cs[n]
      BY <1>1, <1>5 DEF TypeOK
    <3>2. cs'[Idle(c)] = "kernel" /\ cs'[Boot(c)] = "kernel"
      <4>1. Idle(c) \in Threads \ UserThreads /\ Boot(c) \in Threads \ UserThreads
        BY KernelThreadAssumption DEF Threads, IdleThreads
      <4>2. cs[Idle(c)] = "kernel" /\ cs[Boot(c)] = "kernel"
        BY <1>1 DEF Pointers
      <4>3. QED BY <1>5, <4>1, <4>2
    <3> HIDE DEF Idle, Boot
    <3>3. n \in UserThreads \cup {Idle(c), Boot(c)}
      BY <1>1 DEF Pointers
    <3>4. QED BY <1>5, <2>1, <3>1, <3>2, <3>3 DEF Pointers
  <2>2. CASE d # c
    <3>1. \A t \in Threads : cs'[t] # cs[t] =>
            t \in UserThreads /\ Holds(c, t) /\ cs[t] = "user"
      BY <1>1, <1>5 DEF Holds
    <3>2. QED BY <1>2, <1>5, <1>7, <2>2, <3>1, PointersKept
  <2>3. QED BY <2>1, <2>2
<1>9. QED BY <1>4, <1>6, <1>7, <1>8 DEF SchedInv

LEMMA SwitchSched ==
  ASSUME SchedInv, NEW c \in CPUs, Switch(c)
  PROVE  SchedInv'
<1> DEFINE g == LoadSelector(PreparedGs(next[c], gs[c]))
<1>1. gs[c] \in {"user", "cpu"} \X {"user", "cpu"}
  BY DEF SchedInv, TypeOK
<1>2. g \in {"user", "cpu"} \X {"user", "cpu"} /\ g[1] = "user"
  BY <1>1 DEF LoadSelector, PreparedGs, UserGs
<1>3. EntryInv'
  BY SwitchEntry DEF SchedInv
<1>4. pc[c] = "switch" /\ SwitchTo(c, "kernel", g)
  BY DEF Switch
<1> HIDE DEF g
<1>5. QED BY <1>2, <1>3, <1>4, SwitchToSched

LEMMA IrqSwitchSched ==
  ASSUME SchedInv, NEW c \in CPUs, IrqSwitch(c)
  PROVE  SchedInv'
<1> DEFINE g == PreparedGs(next[c], gs[c])
           selector == IF live[c] \in UserThreads THEN "user" ELSE "kernel"
<1>1. gs[c] \in {"user", "cpu"} \X {"user", "cpu"} /\ gs[c][1] = "user"
  <2>1. pc[c] = "irqsave" /\ EntryKept(c)
    BY DEF SchedInv, EntryInv, IrqSwitch
  <2>2. gs[c][1] = "user"
    BY <2>1 DEF EntryKept, UserGs
  <2>3. QED BY <2>2 DEF SchedInv, TypeOK
<1>2. g \in {"user", "cpu"} \X {"user", "cpu"} /\ g[1] = "user"
  BY <1>1 DEF PreparedGs, UserGs
<1>3. EntryInv'
  BY IrqSwitchEntry DEF SchedInv
<1>4. pc[c] = "irqsave" /\ SwitchTo(c, selector, g)
  BY DEF IrqSwitch
<1>5. selector \in {"user", "kernel"} /\ (selector = "user" => live[c] \in UserThreads)
  OBVIOUS
<1> HIDE DEF g, selector
<1>6. QED BY <1>2, <1>3, <1>4, <1>5, SwitchToSched

\* What the second critical section settles on: the thread chosen before, or one
\* of the own queue, or the idle thread.
LEMMA Chosen ==
  ASSUME SchedInv, NEW c \in CPUs, Commit(c)
  PROVE  \E y \in UserThreads \cup {Idle(c)}, r \in Seq(UserThreads) :
           /\ queue' = [queue EXCEPT ![c] = r]
           /\ Apart(r) /\ Elements(r) \subseteq Elements(queue[c])
           /\ next[c] \in {y, NoThread}
           /\ y \in UserThreads =>
                \/ y = next[c] /\ r = queue[c]
                \/ /\ y \in Elements(queue[c]) /\ tstate[y] = "Ready"
                   /\ cs[y] = "user" => y \notin Elements(r)
           /\ RoomForSkipped /\ NoYieldInv =>
                \A t \in Elements(queue[c]) : tstate[t] = "Ready" =>
                  t = y \/ t \in Elements(r)
           /\ IF y = current[c]
              THEN /\ IF live[c] \in UserThreads
                      THEN LeaveSyscall(c, live[c], gs[c])
                      ELSE /\ pc' = [pc EXCEPT ![c] = "run"]
                           /\ UNCHANGED <<gs, userRsp, rsp>>
                   /\ next' = [next EXCEPT ![c] = NoThread]
                   /\ UNCHANGED <<tstate, slice, current>>
              ELSE /\ pc' = [pc EXCEPT ![c] = "switch"]
                   /\ next' = [next EXCEPT ![c] = y]
                   /\ tstate' = [tstate EXCEPT ![y] = "Running"]
                   /\ slice' = [slice EXCEPT ![y] = SliceTicks]
                   /\ current' = [current EXCEPT ![c] = y]
                   /\ UNCHANGED <<gs, userRsp, rsp>>
<1> DEFINE q == queue[c]
           p == PickNext(q, tstate)
           y == OrIdle(c, IF next[c] = NoThread THEN p.next ELSE next[c])
           r == IF next[c] = NoThread THEN p.queue ELSE q
<1>1. TypeOK /\ QueuesApart /\ Pointers(c) /\ pc[c] = "commit"
  BY DEF SchedInv, Commit
<1>2. q \in Seq(UserThreads) /\ Apart(q) /\ Elements(q) \subseteq UserThreads
  <2>1. q \in Seq(Threads) /\ Elements(q) \subseteq UserThreads
    BY <1>1 DEF TypeOK, QueuesApart
  <2>2. q \in Seq(UserThreads)
    BY <2>1 DEF Elements
  <2>3. QED BY <1>1, <2>1, <2>2 DEF QueuesApart
<1>3. /\ queue' = [queue EXCEPT ![c] = r]
      /\ IF y = current[c]
         THEN /\ IF live[c] \in UserThreads
                 THEN LeaveSyscall(c, live[c], gs[c])
                 ELSE /\ pc' = [pc EXCEPT ![c] = "run"]
                      /\ UNCHANGED <<gs, userRsp, rsp>>
              /\ next' = [next EXCEPT ![c] = NoThread]
              /\ UNCHANGED <<tstate, slice, current>>
         ELSE /\ pc' = [pc EXCEPT ![c] = "switch"]
              /\ next' = [next EXCEPT ![c] = y]
              /\ tstate' = [tstate EXCEPT ![y] = "Running"]
              /\ slice' = [slice EXCEPT ![y] = SliceTicks]
              /\ current' = [current EXCEPT ![c] = y]
              /\ UNCHANGED <<gs, userRsp, rsp>>
  BY Zenon DEF Commit
<1> HIDE DEF p
<1>4. /\ p.queue \in Seq(UserThreads) /\ Apart(p.queue)
      /\ Elements(p.queue) \subseteq Elements(q)
      /\ p.next # NoThread => p.next \in Elements(q) /\ tstate[p.next] = "Ready"
                              /\ p.next \notin IdleThreads
      /\ cs[p.next] = "user" => p.next = NoThread \/ p.next \notin Elements(p.queue)
      /\ RoomForSkipped /\ PassesYielders(q, tstate) =>
           \A t \in Elements(q) : Dequeuable(t, tstate) =>
             t = p.next \/ t \in Elements(p.queue)
  <2>1. p = PickNext(q, tstate)
    BY DEF p
  <2> HIDE DEF q
  <2>2. p.queue \in Seq(UserThreads) /\ Elements(p.queue) \subseteq Elements(q)
    BY <1>2, <2>1, Picked
  <2>3. p.next # NoThread => p.next \in Elements(q) /\ Dequeuable(p.next, tstate)
    BY <1>2, <2>1, Picked
  <2>4. Apart(p.queue)
    BY <1>2, <2>1, Picked
  <2>5. cs[p.next] = "user" => p.next = NoThread \/ p.next \notin Elements(p.queue)
    BY <1>2, <2>1, Picked
  <2>6. RoomForSkipped /\ PassesYielders(q, tstate) =>
           \A t \in Elements(q) : Dequeuable(t, tstate) =>
             t = p.next \/ t \in Elements(p.queue)
    BY <1>2, <2>1, Picked
  <2>7. QED BY <2>2, <2>3, <2>4, <2>5, <2>6 DEF Dequeuable
<1>5. \A t \in UserThreads : t \notin IdleThreads
  BY KernelThreadAssumption DEF IdleThreads
<1> HIDE DEF q
<1>9. ASSUME NoYieldInv PROVE PassesYielders(q, tstate)
  <2>1. ASSUME NEW u \in Elements(q), tstate[u] = "Ready", cs[u] # "user"
        PROVE  u \in Yielding
    <3>1. u \in UserThreads /\ cs[u] = "kernel"
      BY <1>1, <1>2, <2>1 DEF Threads, TypeOK
    <3>2. u \notin Yielding => tstate[u] = "Dead"
      BY <1>9, <3>1 DEF NoYieldInv, NeverYield, DeadStay
    <3>3. QED BY <2>1, <3>2
  <2>2. QED BY <2>1 DEF PassesYielders, Dequeuable
<1>6. CASE next[c] = NoThread
  <2>1. y = (IF p.next = NoThread THEN Idle(c) ELSE p.next) /\ r = p.queue
    BY <1>6 DEF OrIdle
  <2>2. y \in UserThreads \cup {Idle(c)} /\ r \in Seq(UserThreads)
    BY <1>2, <1>4, <2>1
  <2>3. Apart(r) /\ Elements(r) \subseteq Elements(q)
    BY <1>4, <2>1
  <2>4. y \in UserThreads =>
          /\ y \in Elements(q) /\ tstate[y] = "Ready"
          /\ cs[y] = "user" => y \notin Elements(r)
    BY <1>4, <2>1, KernelThreadAssumption
  <2>5. RoomForSkipped /\ NoYieldInv =>
          \A t \in Elements(q) : tstate[t] = "Ready" => t = y \/ t \in Elements(r)
    BY <1>2, <1>4, <1>5, <1>9, <2>1, ThreadAssumption DEF Dequeuable
  <2> HIDE DEF y, r
  <2>6. QED BY <1>3, <1>6, <2>2, <2>3, <2>4, <2>5 DEF q
<1>7. CASE next[c] # NoThread
  <2>1. y = next[c] /\ r = q /\ next[c] \in UserThreads
    BY <1>1, <1>7 DEF OrIdle, Pointers
  <2> HIDE DEF y, r
  <2>2. QED BY <1>2, <1>3, <2>1 DEF q
<1>8. QED BY <1>6, <1>7

LEMMA CommitSched ==
  ASSUME SchedInv, NEW c \in CPUs, Commit(c)
  PROVE  SchedInv'
<1> DEFINE x == current[c]
<1>1. /\ TypeOK /\ QueuesApart /\ Pointers(c) /\ pc[c] = "commit" /\ live[c] = x
      /\ x \in Threads
      /\ x \in UserThreads => cs[x] = "user"
  <2>1. TypeOK /\ QueuesApart /\ Pointers(c) /\ pc[c] = "commit" /\ live[c] = x
    BY DEF SchedInv, Commit, EntryInv, EntryKept
  <2>2. x \in Threads
    BY <2>1 DEF TypeOK
  <2>3. x \in UserThreads => cs[x] = "user"
    BY <2>1 DEF Pointers
  <2>4. QED BY <2>1, <2>2, <2>3
<1>2. PICK y \in UserThreads \cup {Idle(c)}, r \in Seq(UserThreads) :
           /\ queue' = [queue EXCEPT ![c] = r]
           /\ Apart(r) /\ Elements(r) \subseteq Elements(queue[c])
           /\ next[c] \in {y, NoThread}
           /\ y \in UserThreads =>
                \/ y = next[c] /\ r = queue[c]
                \/ /\ y \in Elements(queue[c]) /\ tstate[y] = "Ready"
                   /\ cs[y] = "user" => y \notin Elements(r)
           /\ IF y = x
              THEN /\ IF live[c] \in UserThreads
                      THEN LeaveSyscall(c, live[c], gs[c])
                      ELSE /\ pc' = [pc EXCEPT ![c] = "run"]
                           /\ UNCHANGED <<gs, userRsp, rsp>>
                   /\ next' = [next EXCEPT ![c] = NoThread]
                   /\ UNCHANGED <<tstate, slice, current>>
              ELSE /\ pc' = [pc EXCEPT ![c] = "switch"]
                   /\ next' = [next EXCEPT ![c] = y]
                   /\ tstate' = [tstate EXCEPT ![y] = "Running"]
                   /\ slice' = [slice EXCEPT ![y] = SliceTicks]
                   /\ current' = [current EXCEPT ![c] = y]
                   /\ UNCHANGED <<gs, userRsp, rsp>>
  BY Chosen
<1>3. /\ inSchedule' = [inSchedule EXCEPT ![c] = FALSE]
      /\ UNCHANGED <<cs, home, handoff, scan, live, kernelStack>>
  BY DEF Commit
<1>4. EntryInv'
  BY CommitEntry DEF SchedInv
<1>5. /\ y = x => /\ pc' = [pc EXCEPT ![c] = "run"]
                  /\ next' = [next EXCEPT ![c] = NoThread]
                  /\ UNCHANGED <<tstate, slice, current>>
                  /\ gs' \in [CPUs -> {"user", "cpu"} \X {"user", "cpu"}]
                  /\ userRsp' \in [CPUs -> UserThreads \cup {NoThread}]
                  /\ rsp' \in [UserThreads -> UserThreads \cup {NoThread}]
      /\ y # x => /\ pc' = [pc EXCEPT ![c] = "switch"]
                  /\ next' = [next EXCEPT ![c] = y]
                  /\ tstate' = [tstate EXCEPT ![y] = "Running"]
                  /\ slice' = [slice EXCEPT ![y] = SliceTicks]
                  /\ current' = [current EXCEPT ![c] = y]
                  /\ UNCHANGED <<gs, userRsp, rsp>>
  <2>1. CASE y = x /\ live[c] \in UserThreads
    <3>1. LeaveSyscall(c, live[c], gs[c]) /\ next' = [next EXCEPT ![c] = NoThread]
          /\ UNCHANGED <<tstate, slice, current>>
      BY <1>2, <2>1
    <3>2. pc' = [pc EXCEPT ![c] = "run"]
      BY <1>1, <2>1, <3>1, LeaveEntry DEF SchedInv
    <3>3. gs[c] \in {"user", "cpu"} \X {"user", "cpu"}
      BY <1>1 DEF TypeOK
    <3>4. /\ gs' \in [CPUs -> {"user", "cpu"} \X {"user", "cpu"}]
          /\ userRsp' \in [CPUs -> UserThreads \cup {NoThread}]
          /\ rsp' \in [UserThreads -> UserThreads \cup {NoThread}]
      BY <1>1, <2>1, <3>1, <3>3, LeaveTyped
    <3>5. QED BY <2>1, <3>1, <3>2, <3>4
  <2>2. CASE y = x /\ live[c] \notin UserThreads
    BY <1>1, <1>2, <2>2 DEF TypeOK
  <2>3. CASE y # x
    BY <1>2, <2>3
  <2>4. QED BY <2>1, <2>2, <2>3
<1>6. y \in Threads
  BY DEF Threads, IdleThreads
<1>7. TypeOK'
  BY CommitTypes DEF SchedInv
<1>8. /\ SameElsewhere(c) /\ live' = live /\ cs' = cs /\ handoff' = handoff
      /\ current'[c] = y
      /\ pc'[c] = (IF y = x THEN "run" ELSE "switch")
      /\ next'[c] = (IF y = x THEN NoThread ELSE y)
      /\ queue'[c] = r /\ \A d \in CPUs \ {c} : queue'[d] = queue[d]
  <2>1. /\ DOMAIN pc = CPUs /\ DOMAIN next = CPUs /\ DOMAIN current = CPUs
        /\ DOMAIN queue = CPUs
        /\ pc = [d \in CPUs |-> pc[d]] /\ next = [d \in CPUs |-> next[d]]
        /\ current = [d \in CPUs |-> current[d]] /\ queue = [d \in CPUs |-> queue[d]]
    BY <1>1 DEF TypeOK
  <2>2. /\ live' = live /\ cs' = cs /\ handoff' = handoff
        /\ queue'[c] = r /\ \A d \in CPUs \ {c} : queue'[d] = queue[d]
    BY <1>2, <1>3, <2>1
  <2>3. CASE y = x
    <3>1. /\ pc' = [pc EXCEPT ![c] = "run"] /\ next' = [next EXCEPT ![c] = NoThread]
          /\ current' = current
      BY <1>5, <2>3
    <3>2. QED BY <2>1, <2>2, <2>3, <3>1 DEF SameElsewhere
  <2>4. CASE y # x
    <3>1. /\ pc' = [pc EXCEPT ![c] = "switch"] /\ next' = [next EXCEPT ![c] = y]
          /\ current' = [current EXCEPT ![c] = y]
      BY <1>5, <2>4
    <3>2. QED BY <2>1, <2>2, <2>4, <3>1 DEF SameElsewhere
  <2>5. QED BY <2>3, <2>4
<1>9. \A d \in CPUs : Elements(queue'[d]) \subseteq Elements(queue[d])
  BY <1>2, <1>8
<1>10. QueuesApart'
  <2>1. \A d \in CPUs : Apart(queue'[d])
    BY <1>1, <1>2, <1>8 DEF QueuesApart
  <2>2. QED BY <1>1, <1>9, <2>1 DEF QueuesApart, Apart
<1>11. ASSUME NEW t \in UserThreads PROVE SoleOwner(t)' /\ Fresh(t)'
  <2>1. Holds(c, t)' <=> t = x \/ t = y
    BY <1>1, <1>8, ThreadAssumption DEF Holds
  <2>2. Holds(c, t) <=> t = x \/ t = next[c]
    BY <1>1 DEF Holds
  <2>3. t = y => Holds(c, t) \/ (t \in Elements(queue[c]) /\ tstate[t] = "Ready")
    BY <1>2, <2>2
  <2>4. Holds(c, t) => Holds(c, t)'
    BY <1>2, <2>1, <2>2, ThreadAssumption
  <2>5. ASSUME cs[t] = "user" PROVE SoleOwner(t)'
    <3>1. SoleOwner(t)
      BY DEF SchedInv
    <3>2. ASSUME t = y, t \in Elements(queue'[c]) PROVE FALSE
      <4>1. t = next[c] /\ t \in Elements(queue[c])
        BY <1>2, <1>8, <2>5, <3>2
      <4>2. QED BY <2>2, <2>5, <3>1, <4>1 DEF SoleOwner
    <3>3. Holds(c, t)' => \A d \in CPUs \ {c} : ~Holds(d, t) /\ t \notin Elements(queue[d])
      <4>1. CASE Holds(c, t)
        BY <2>5, <3>1, <4>1 DEF SoleOwner
      <4>2. CASE t \in Elements(queue[c])
        BY <1>1, <2>5, <3>1, <4>2 DEF SoleOwner, QueuesApart
      <4>3. QED BY <2>1, <2>2, <2>3, <4>1, <4>2
    <3>4. ASSUME t \in Elements(queue'[c])
          PROVE  \/ ~Holds(c, t)' /\ t \in Elements(queue[c])
                 \/ /\ Holds(c, t) /\ live'[c] = t /\ handoff'[c] = t /\ next'[c] # t
                    /\ pc'[c] \in {"steal", "commit", "switch", "irqsave"}
      <4>1. t # y /\ t \in Elements(queue[c])
        BY <1>9, <3>2, <3>4
      <4>2. CASE t = x
        <5>1. handoff[c] = t /\ Holds(c, t)
          BY <2>2, <2>5, <3>1, <4>1, <4>2 DEF SoleOwner
        <5>2. QED BY <1>1, <1>8, <4>1, <4>2, <5>1
      <4>3. CASE t # x
        BY <2>1, <4>1, <4>3
      <4>4. QED BY <4>2, <4>3
    <3>5. \A d \in CPUs \ {c} : t \in Elements(queue'[d]) => ~Holds(c, t)' /\ t \in Elements(queue[d])
      BY <1>9, <3>3
    <3>6. Holds(c, t)' => \A d \in CPUs \ {c} : ~Holds(d, t)
      BY <3>3
    <3>7. QED BY <1>8, <2>5, <3>4, <3>5, <3>6, OwnerKept
  <2>6. ASSUME cs[t] # "user" PROVE SoleOwner(t)'
    BY <1>8, <2>6 DEF SoleOwner
  <2>7. Fresh(t)'
    <3>1. \A d \in CPUs : t \in Elements(queue'[d]) => Queued(t)
      BY <1>9 DEF Queued
    <3>2. tstate'[t] \in {"None", "Created"} => tstate[t] \in {"None", "Created"}
      BY <1>1, <1>5 DEF TypeOK, Threads
    <3>3. tstate[t] \in {"None", "Created"} => ~Holds(c, t)' \/ Holds(c, t)
      BY <2>1, <2>2, <2>3
    <3>4. QED BY <1>1, <1>8, <3>1, <3>2, <3>3, FreshKept
  <2>8. QED BY <2>5, <2>6, <2>7
<1>12. ASSUME NEW d \in CPUs PROVE Pointers(d)'
  <2>1. CASE d = c
    BY <1>1, <1>8, <2>1 DEF Pointers
  <2>2. CASE d # c
    <3>1. \A t \in UserThreads : tstate'[t] # tstate[t] => Holds(c, t)'
      BY <1>1, <1>5, <1>8 DEF TypeOK, Threads, Holds
    <3>2. QED BY <1>8, <1>11, <2>2, <3>1, PointersKept
  <2>3. QED BY <2>1, <2>2
<1>13. QED BY <1>4, <1>7, <1>10, <1>11, <1>12 DEF SchedInv

-----------------------------------------------------------------------------
(* A step of one CPU, and a CPU whose boot thread does not yield           *)

StepOf(c) ==
  \/ BootYield(c) \/ Yield(c) \/ Exit(c) \/ Timer(c) \/ KernelStep(c)
  \/ \E t \in UserThreads : CreateThread(c, t) \/ StartThread(c, t)

LEMMA OthersStay ==
  ASSUME SchedInv, NEW c \in CPUs, NEW d \in CPUs \ {c}, StepOf(c)
  PROVE  /\ pc'[d] = pc[d] /\ live'[d] = live[d]
         /\ current'[d] = current[d] /\ next'[d] = next[d]
<1>1. TypeOK
  BY DEF SchedInv
<1>2. /\ pc = [e \in CPUs |-> pc[e]] /\ live = [e \in CPUs |-> live[e]]
      /\ current = [e \in CPUs |-> current[e]] /\ next = [e \in CPUs |-> next[e]]
  BY <1>1 DEF TypeOK
<1>3. CASE BootYield(c) \/ Yield(c) \/ Exit(c)
  <2>1. PICK ts : ScheduleEnter(c, ts)
    BY <1>3 DEF BootYield, Yield, Exit
  <2>2. QED BY <1>2, <2>1 DEF ScheduleEnter
<1>4. CASE Timer(c)
  BY <1>2, <1>4 DEF Timer, TimerNoSwitch, Preempt
<1>5. CASE Steal(c)
  BY <1>2, <1>5 DEF Steal
<1>6. CASE Commit(c)
  <2>1. UNCHANGED live
    BY <1>6 DEF Commit
  <2>2. PICK y : \/ /\ pc' = [pc EXCEPT ![c] = "switch"]
                    /\ next' = [next EXCEPT ![c] = y]
                    /\ current' = [current EXCEPT ![c] = y]
                 \/ /\ \/ LeaveSyscall(c, live[c], gs[c])
                       \/ pc' = [pc EXCEPT ![c] = "run"]
                    /\ next' = [next EXCEPT ![c] = NoThread]
                    /\ UNCHANGED current
    BY <1>6, CommitChoice
  <2>3. QED BY <1>2, <2>1, <2>2 DEF LeaveSyscall
<1>7. CASE Switch(c) \/ IrqSwitch(c)
  <2>1. PICK selector, g : SwitchTo(c, selector, g)
    BY <1>7 DEF Switch, IrqSwitch
  <2>2. QED BY <1>2, <2>1 DEF SwitchTo, LeaveSyscall
<1>8. CASE StartReady(c) \/ StartEnqueue(c)
  BY <1>2, <1>8 DEF StartReady, StartEnqueue, LeaveSyscall
<1>9. CASE \E t \in UserThreads : CreateThread(c, t) \/ StartThread(c, t)
  BY <1>2, <1>9 DEF CreateThread, StartThread
<1>10. QED BY <1>3, <1>4, <1>5, <1>6, <1>7, <1>8, <1>9 DEF StepOf, KernelStep

LEMMA QuietKept ==
  ASSUME SchedInv, NEW d \in CPUs \ BootYielders, Quiet(d), [Next]_vars
  PROVE  Quiet(d)'
<1>1. CASE UNCHANGED vars
  BY <1>1 DEF vars, Quiet
<1>2. ASSUME NEW c \in CPUs \ {d}, StepOf(c) PROVE Quiet(d)'
  BY <1>2, OthersStay DEF Quiet
<1>3. ASSUME StepOf(d) PROVE Quiet(d)'
  <2>1. Boot(d) \notin UserThreads /\ Boot(d) # Idle(d)
    BY KernelThreadAssumption DEF Boot, Idle
  <2>2. /\ ~BootYield(d) /\ ~Yield(d) /\ ~Exit(d)
        /\ \A t \in UserThreads : ~CreateThread(d, t) /\ ~StartThread(d, t)
    BY <2>1, ThreadAssumption
    DEF Quiet, BootYield, Yield, Exit, CreateThread, StartThread
  <2>3. ~KernelStep(d)
    BY DEF Quiet, KernelStep, Steal, Commit, Switch, IrqSwitch, StartReady, StartEnqueue
  <2>4. ~Preempt(d)
    BY <2>1 DEF Quiet, Preempt, Preemptible
  <2>5. TimerNoSwitch(d)
    BY <1>3, <2>2, <2>3, <2>4 DEF StepOf, Timer
  <2>6. QED BY <2>5 DEF TimerNoSwitch, Quiet
<1>4. Next => \E c \in CPUs : StepOf(c)
  BY DEF Next, StepOf
<1>5. QED BY <1>1, <1>2, <1>3, <1>4

LEMMA OthersQuietKept == SchedInv /\ OthersQuiet /\ [Next]_vars => OthersQuiet'
BY QuietKept DEF OthersQuiet

LEMMA StartKept == SchedInv /\ StartInv /\ [Next]_vars => StartInv'
BY OthersQuietKept DEF StartInv

-----------------------------------------------------------------------------
(* Thread creation                                                         *)

LEMMA CreateSched ==
  ASSUME SchedInv, NEW c \in CPUs, NEW y \in UserThreads, CreateThread(c, y)
  PROVE  SchedInv'
<1>1. TypeOK /\ QueuesApart /\ y \in Threads /\ tstate[y] = "None" /\ cs[y] = "user"
  BY DEF SchedInv, CreateThread, Threads, Fresh
<1>2. /\ tstate' = [tstate EXCEPT ![y] = "Created"]
      /\ cs' = [cs EXCEPT ![y] = "user"]
      /\ slice' = [slice EXCEPT ![y] = SliceTicks]
      /\ home' = [home EXCEPT ![y] = c]
      /\ UNCHANGED <<queue, current, handoff, inSchedule, pc, next, scan, live, entry>>
  BY DEF CreateThread
<1>3. EntryInv'
  BY CreateEntry DEF SchedInv
<1>4. cs' = cs
  BY <1>1, <1>2 DEF TypeOK
<1>5. TypeOK'
  BY CreateTypes DEF SchedInv
<1>6. SameElsewhere(c)
  BY <1>2 DEF SameElsewhere
<1>7. QueuesApart' /\ \A t \in UserThreads : SoleOwner(t)'
  BY SMTT(30), <1>1, <1>2, <1>4 DEF SchedInv, QueuesApart, SoleOwner, Holds
<1>8. ASSUME NEW t \in UserThreads PROVE Fresh(t)'
  <2>1. tstate'[t] \in {"None", "Created"} => tstate[t] \in {"None", "Created"}
    BY <1>1, <1>2 DEF TypeOK, Threads
  <2>2. Fresh(t)
    BY DEF SchedInv
  <2>3. QED BY <1>2, <1>4, <2>1, <2>2 DEF Fresh, Holds, Queued
<1>9. ASSUME NEW d \in CPUs PROVE Pointers(d)'
  <2>1. ASSUME pc[d] \in {"start", "enqueue"} PROVE tstate'[next[d]] = tstate[next[d]]
    <3>1. next[d] # y
      BY <1>1, <2>1 DEF SchedInv, Pointers
    <3>2. QED BY <1>1, <1>2, <3>1 DEF TypeOK
  <2>2. Pointers(d)
    BY DEF SchedInv
  <2>3. QED BY <1>2, <1>4, <2>1, <2>2 DEF Pointers
<1>10. QED BY <1>3, <1>5, <1>7, <1>8, <1>9 DEF SchedInv

\* Only one CPU can be between the test and the write for a thread.
LEMMA OneTester ==
  ASSUME SchedInv, StartInv, NEW c \in CPUs, NEW y \in UserThreads, pc[c] = "run",
         current[c] \in UserThreads, <<current[c], y>> \in Starts,
         NEW d \in CPUs, pc[d] = "start"
  PROVE  next[d] # y
<1> SUFFICES ASSUME next[d] = y PROVE FALSE
  OBVIOUS
<1>1. c # d /\ live[d] = current[d] /\ current[d] \in UserThreads
  BY DEF SchedInv, EntryInv, EntryKept
<1>2. <<current[d], y>> \in Starts
  BY DEF SchedInv, Pointers
<1>3. CASE SingleStarter
  <2>1. current[c] = current[d]
    BY <1>1, <1>2, <1>3 DEF SingleStarter
  <2>2. Holds(c, current[c]) /\ Holds(d, current[c])
    BY <2>1 DEF Holds
  <2>3. SoleOwner(current[c]) /\ cs[current[c]] = "user"
    BY AtRun DEF SchedInv
  <2>4. QED BY <1>1, <2>2, <2>3 DEF SoleOwner
<1>4. CASE OthersQuiet
  <2>1. Boot(c) \notin UserThreads
    BY KernelThreadAssumption
  <2>2. QED BY <1>1, <1>4, <2>1 DEF OthersQuiet, Quiet
<1>5. QED BY <1>3, <1>4 DEF StartInv

LEMMA StartSched ==
  ASSUME SchedInv, StartInv, NEW c \in CPUs, NEW y \in UserThreads, StartThread(c, y)
  PROVE  SchedInv'
<1>1. /\ TypeOK /\ QueuesApart /\ y \in Threads /\ tstate[y] = "Created"
      /\ pc[c] = "run" /\ Pointers(c)
      /\ <<current[c], y>> \in Starts /\ current[c] \in UserThreads
  BY ThreadAssumption DEF SchedInv, StartThread, Threads
<1>2. /\ cs[y] = "user" /\ \A d \in CPUs : ~Holds(d, y) /\ y \notin Elements(queue[d])
  <2>1. cs[y] = "user" /\ \A d \in CPUs : y \notin Elements(queue[d])
    BY <1>1 DEF SchedInv, Fresh, Queued
  <2>2. ASSUME NEW d \in CPUs PROVE ~Holds(d, y)
    <3>1. Holds(d, y) => pc[d] = "start" /\ next[d] = y
      BY <1>1 DEF SchedInv, Fresh
    <3>2. QED BY <1>1, <3>1, OneTester
  <2>3. QED BY <2>1, <2>2
<1>3. /\ next' = [next EXCEPT ![c] = y]
      /\ pc' = [pc EXCEPT ![c] = "start"]
      /\ EnterSyscall(c)
      /\ UNCHANGED <<tstate, cs, slice, home, queue, current, handoff, inSchedule, scan,
                     live, kernelStack, rsp>>
  BY DEF StartThread
<1>4. EntryInv'
  BY StartEntry DEF SchedInv
<1>5. TypeOK'
  BY StartTypes DEF SchedInv
<1>6. /\ SameElsewhere(c) /\ pc'[c] = "start" /\ next'[c] = y
      /\ cs' = cs /\ live' = live /\ current' = current /\ queue' = queue
      /\ tstate' = tstate
  BY <1>1, <1>3 DEF TypeOK, SameElsewhere, Threads
<1>7. live[c] = current[c] /\ next[c] = NoThread /\ live[c] # y
  BY <1>1, <1>2, AtRun DEF Holds
<1>8. QueuesApart'
  BY <1>1, <1>3 DEF QueuesApart
<1>9. ASSUME NEW t \in UserThreads PROVE SoleOwner(t)' /\ Fresh(t)'
  <2>1. Holds(c, t)' <=> Holds(c, t) \/ t = y
    BY <1>6, <1>7, ThreadAssumption DEF Holds
  <2>2. SoleOwner(t) /\ Fresh(t)
    BY DEF SchedInv
  <2>3. ASSUME cs[t] = "user" PROVE SoleOwner(t)'
    <3>1. \A d \in CPUs : t \in Elements(queue'[d]) => t \in Elements(queue[d]) /\ ~Holds(c, t)'
      BY <1>1, <1>2, <1>6, <2>1, <2>2, <2>3 DEF SoleOwner
    <3>2. Holds(c, t)' => Holds(c, t) \/ \A d \in CPUs \ {c} : ~Holds(d, t)
      BY <1>2, <2>1
    <3>3. QED BY <1>6, <2>3, <3>1, <3>2, OwnerKept
  <2>4. ASSUME cs[t] # "user" PROVE SoleOwner(t)'
    BY <1>6, <2>4 DEF SoleOwner
  <2>5. Fresh(t)'
    <3>1. CASE t = y
      BY <1>2, <1>6, <3>1 DEF Fresh, Queued, SameElsewhere, Holds
    <3>2. CASE t # y
      <4>1. \A d \in CPUs : t \in Elements(queue'[d]) => Queued(t)
        BY <1>6 DEF Queued
      <4>2. QED BY <1>1, <1>6, <2>1, <3>2, <4>1, FreshKept
    <3>3. QED BY <3>1, <3>2
  <2>6. QED BY <2>3, <2>4, <2>5
<1>10. ASSUME NEW d \in CPUs PROVE Pointers(d)'
  <2>1. CASE d = c
    BY <1>1, <1>2, <1>6, <1>7, <2>1 DEF Pointers
  <2>2. CASE d # c
    BY <1>6, <1>9, <2>2, PointersKept
  <2>3. QED BY <2>1, <2>2
<1>11. QED BY <1>4, <1>5, <1>8, <1>9, <1>10 DEF SchedInv

\* The write finds the state the test found.
LEMMA StartReadySched ==
  ASSUME SchedInv, NEW c \in CPUs, StartReady(c)
  PROVE  SchedInv'
<1> DEFINE y == next[c]
<1>1. /\ TypeOK /\ QueuesApart /\ pc[c] = "start" /\ Pointers(c)
      /\ live[c] = current[c] /\ y \in UserThreads /\ y \in Threads /\ y # live[c]
      /\ Holds(c, y)
  BY DEF SchedInv, StartReady, Pointers, EntryInv, EntryKept, Threads, Holds
<1>2. /\ tstate' = [tstate EXCEPT ![y] = "Ready"]
      /\ pc' = [pc EXCEPT ![c] = "enqueue"]
      /\ UNCHANGED <<cs, slice, home, queue, current, handoff, inSchedule, next,
                     scan, live, entry>>
  BY DEF StartReady
<1>3. EntryInv'
  BY StartReadyEntry DEF SchedInv
<1>4. TypeOK'
  BY StartReadyTypes DEF SchedInv
<1>5. /\ SameElsewhere(c) /\ pc'[c] = "enqueue" /\ tstate'[y] = "Ready"
      /\ cs' = cs /\ live' = live /\ current' = current /\ queue' = queue
      /\ next' = next /\ handoff' = handoff
      /\ \A t \in UserThreads : t # y => tstate'[t] = tstate[t]
  BY <1>1, <1>2 DEF TypeOK, SameElsewhere, Threads
<1>6. QueuesApart'
  BY <1>1, <1>2 DEF QueuesApart
<1>7. ASSUME NEW t \in UserThreads PROVE SoleOwner(t)' /\ Fresh(t)'
  <2>1. SoleOwner(t) /\ Fresh(t) /\ Fresh(y) /\ (Holds(c, t)' <=> Holds(c, t))
    BY <1>1, <1>5 DEF SchedInv, Holds
  <2>2. cs[t] = "user" /\ Holds(c, t) => t \notin Elements(queue[c])
    BY <1>1, <2>1 DEF SoleOwner
  <2>3. ASSUME cs[t] = "user" PROVE SoleOwner(t)'
    <3>1. \A d \in CPUs : t \in Elements(queue'[d]) => t \in Elements(queue[d]) /\ ~Holds(c, t)'
      BY <1>1, <1>5, <2>1, <2>2, <2>3 DEF SoleOwner
    <3>2. QED BY <1>5, <2>1, <2>3, <3>1, OwnerKept
  <2>4. ASSUME cs[t] # "user" PROVE SoleOwner(t)'
    BY <1>5, <2>4 DEF SoleOwner
  <2>5. Fresh(t)'
    <3>1. CASE t = y
      BY <1>5, <3>1 DEF Fresh
    <3>2. CASE t # y
      BY <1>1, <1>5, <2>1, <3>2 DEF Fresh, Queued, SameElsewhere, Holds
    <3>3. QED BY <3>1, <3>2
  <2>6. QED BY <2>3, <2>4, <2>5
<1>8. ASSUME NEW d \in CPUs PROVE Pointers(d)'
  <2>1. CASE d = c
    BY <1>1, <1>5, <2>1 DEF Pointers
  <2>2. CASE d # c
    BY <1>1, <1>5, <1>7, <2>2, PointersKept
  <2>3. QED BY <2>1, <2>2
<1>9. QED BY <1>3, <1>4, <1>6, <1>7, <1>8 DEF SchedInv

\* The started thread joins the queue of its home CPU: nobody else has it.
LEMMA StartEnqueued ==
  ASSUME SchedInv, NEW c \in CPUs, StartEnqueue(c)
  PROVE  /\ next[c] \in UserThreads /\ next[c] # live[c] /\ tstate[next[c]] = "Ready"
         /\ live[c] = current[c] /\ live[c] \in UserThreads
         /\ \A d \in CPUs : next[c] \notin Elements(queue[d]) /\ live[c] \notin Elements(queue[d])
         /\ \E h \in CPUs, r \in Seq(UserThreads) :
              /\ queue' = [queue EXCEPT ![h] = r]
              /\ Apart(r) /\ Elements(r) = Elements(queue[h]) \cup {next[c]}
<1> DEFINE t == next[c]
           h == home[t]
           r == Append(queue[h], t)
<1>1. TypeOK /\ QueuesApart /\ pc[c] = "enqueue" /\ Pointers(c)
  BY DEF SchedInv, StartEnqueue
<1>2. live[c] = current[c] /\ live[c] \in UserThreads /\ t \in UserThreads
      /\ t # live[c] /\ tstate[t] = "Ready" /\ cs[t] = "user" /\ cs[live[c]] = "user"
  BY <1>1 DEF SchedInv, EntryInv, EntryKept, Pointers
<1>3. ASSUME NEW d \in CPUs
      PROVE  t \notin Elements(queue[d]) /\ live[c] \notin Elements(queue[d])
  <2>1. SoleOwner(t) /\ SoleOwner(live[c]) /\ Holds(c, t) /\ Holds(c, live[c])
    BY <1>2 DEF SchedInv, Holds
  <2>2. QED BY <1>1, <1>2, <2>1 DEF SoleOwner
<1>4. t \in Threads /\ h \in CPUs
  BY <1>1, <1>2 DEF TypeOK, Threads
<1>5. queue[h] \in Seq(UserThreads) /\ Apart(queue[h])
  <2>1. queue[h] \in Seq(Threads) /\ Elements(queue[h]) \subseteq UserThreads
    BY <1>1, <1>4 DEF TypeOK, QueuesApart
  <2>2. queue[h] \in Seq(UserThreads)
    BY <2>1 DEF Elements
  <2>3. QED BY <1>1, <1>4, <2>2 DEF QueuesApart
<1>6. queue' = [queue EXCEPT ![h] = r]
  <2>1. t \notin IdleThreads
    BY <1>2, KernelThreadAssumption DEF IdleThreads
  <2>2. EnqueueReady(queue[h], t, tstate) = r
    BY <1>2, <1>3, <1>4, <2>1 DEF EnqueueReady
  <2>3. QED BY <1>1, <1>4, <2>2 DEF StartEnqueue, TypeOK
<1>7. /\ r \in Seq(UserThreads) /\ Len(r) = Len(queue[h]) + 1
      /\ \A i \in 1 .. Len(queue[h]) : r[i] = queue[h][i]
      /\ r[Len(queue[h]) + 1] = t
      /\ DOMAIN r = 1 .. Len(queue[h]) + 1
      /\ Len(queue[h]) \in Nat /\ DOMAIN queue[h] = 1 .. Len(queue[h])
  BY <1>2, <1>5, AppendProperties, LenProperties
<1>8. Elements(r) = Elements(queue[h]) \cup {t}
  BY <1>7 DEF Elements
<1>9. Apart(r)
  BY <1>2, <1>3, <1>4, <1>5, AppendApart
<1> HIDE DEF h, r
<1>10. QED BY <1>2, <1>3, <1>4, <1>6, <1>7, <1>8, <1>9

LEMMA StartEnqueueSched ==
  ASSUME SchedInv, NEW c \in CPUs, StartEnqueue(c)
  PROVE  SchedInv'
<1> DEFINE y == next[c]
<1>1. /\ y \in UserThreads /\ y # live[c] /\ live[c] = current[c] /\ live[c] \in UserThreads
      /\ \A d \in CPUs : y \notin Elements(queue[d]) /\ live[c] \notin Elements(queue[d])
      /\ TypeOK /\ QueuesApart /\ pc[c] = "enqueue" /\ Pointers(c)
  BY StartEnqueued DEF SchedInv, StartEnqueue
<1>2. PICK h \in CPUs, r \in Seq(UserThreads) :
           /\ queue' = [queue EXCEPT ![h] = r]
           /\ Apart(r) /\ Elements(r) = Elements(queue[h]) \cup {y}
  BY StartEnqueued
<1>3. /\ next' = [next EXCEPT ![c] = NoThread]
      /\ LeaveSyscall(c, live[c], gs[c])
      /\ UNCHANGED <<tstate, cs, slice, home, current, handoff, inSchedule, scan,
                     live, kernelStack>>
  BY DEF StartEnqueue
<1>4. EntryInv' /\ pc' = [pc EXCEPT ![c] = "run"]
  BY <1>1, <1>3, StartEnqueueEntry, LeaveEntry DEF SchedInv
<1>5. TypeOK'
  BY StartEnqueueTypes DEF SchedInv
<1>6. /\ SameElsewhere(c) /\ pc'[c] = "run" /\ next'[c] = NoThread
      /\ cs' = cs /\ live' = live /\ current' = current /\ tstate' = tstate
      /\ queue'[h] = r /\ \A d \in CPUs \ {h} : queue'[d] = queue[d]
  BY <1>1, <1>2, <1>3, <1>4 DEF TypeOK, SameElsewhere
<1>7. QueuesApart'
  <2>1. ASSUME NEW d \in CPUs, NEW e \in CPUs \ {d}
        PROVE  Elements(queue'[d]) \cap Elements(queue'[e]) = {}
    <3>1. Elements(queue[d]) \cap Elements(queue[e]) = {}
      BY <1>1 DEF QueuesApart
    <3>2. QED BY <1>1, <1>2, <1>6, <3>1
  <2>2. ASSUME NEW d \in CPUs
        PROVE  Elements(queue'[d]) \subseteq UserThreads /\ Apart(queue'[d])
    BY <1>1, <1>2, <1>6 DEF QueuesApart
  <2>3. QED BY <2>1, <2>2 DEF QueuesApart, Apart
<1>8. ASSUME NEW t \in UserThreads PROVE SoleOwner(t)' /\ Fresh(t)'
  <2>1. /\ Holds(c, t)' <=> t = live[c]
        /\ Holds(c, t) <=> t = live[c] \/ t = y
    BY <1>1, <1>6, ThreadAssumption DEF Holds
  <2>2. \A d \in CPUs : t \in Elements(queue'[d]) => t \in Elements(queue[d]) \/ t = y
    BY <1>2, <1>6
  <2>3. ASSUME cs[t] = "user" PROVE SoleOwner(t)'
    <3>1. \A d \in CPUs : t \in Elements(queue'[d]) =>
            ~Holds(c, t)' /\ (t \in Elements(queue[d]) \/ Holds(c, t))
      BY <1>1, <2>1, <2>2
    <3>2. QED BY <1>6, <2>1, <2>3, <3>1, OwnerKept
  <2>4. ASSUME cs[t] # "user" PROVE SoleOwner(t)'
    BY <1>6, <2>4 DEF SoleOwner
  <2>5. Fresh(t)'
    <3>1. \A d \in CPUs : t \in Elements(queue'[d]) => Queued(t) \/ Holds(c, t)
      BY <2>1, <2>2 DEF Queued
    <3>2. QED BY <1>1, <1>6, <2>1, <3>1, FreshKept
  <2>6. QED BY <2>3, <2>4, <2>5
<1>9. ASSUME NEW d \in CPUs PROVE Pointers(d)'
  <2>1. CASE d = c
    BY <1>1, <1>6, <2>1 DEF Pointers
  <2>2. CASE d # c
    BY <1>6, <1>8, <2>2, PointersKept
  <2>3. QED BY <2>1, <2>2
<1>10. QED BY <1>4, <1>5, <1>7, <1>8, <1>9 DEF SchedInv

-----------------------------------------------------------------------------

LEMMA ScheduleSched ==
  ASSUME SchedInv, NEW c \in CPUs, BootYield(c) \/ Yield(c) \/ Exit(c)
  PROVE  SchedInv'
<1>1. TypeOK /\ pc[c] = "run"
  BY DEF SchedInv, BootYield, Yield, Exit
<1>2. CASE BootYield(c) \/ Yield(c)
  BY <1>1, <1>2, EnterSched DEF BootYield, Yield, TypeOK
<1>3. CASE Exit(c)
  <2> DEFINE ts == [tstate EXCEPT ![current[c]] = "Dead"]
  <2>1. /\ ts \in [Threads -> ThreadStates] /\ ts[current[c]] \in {tstate[current[c]], "Dead"}
        /\ \A t \in Threads \ {current[c]} : ts[t] = tstate[t]
    BY <1>1 DEF TypeOK, ThreadStates
  <2>2. ScheduleEnter(c, ts)
    BY <1>3 DEF Exit
  <2> HIDE DEF ts
  <2>3. QED BY <1>1, <2>1, <2>2, EnterSched
<1>4. QED BY <1>2, <1>3

LEMMA NextSched == SchedInv /\ StartInv /\ [Next]_vars => SchedInv'
<1> SUFFICES ASSUME SchedInv, StartInv, [Next]_vars PROVE SchedInv'
  OBVIOUS
<1>1. ASSUME NEW c \in CPUs, KernelStep(c) PROVE SchedInv'
  BY <1>1, StealSched, CommitSched, SwitchSched, IrqSwitchSched, StartReadySched,
     StartEnqueueSched
  DEF KernelStep
<1>2. CASE UNCHANGED vars
  <2>1. EntryInv'
    BY NextEntry DEF SchedInv
  <2>2. TypeOK' /\ QueuesApart'
    BY <1>2 DEF SchedInv, vars, TypeOK, QueuesApart
  <2>3. \A c \in CPUs : Pointers(c)'
    BY <1>2 DEF SchedInv, vars, Pointers
  <2>4. \A t \in UserThreads : SoleOwner(t)' /\ Fresh(t)'
    BY <1>2 DEF SchedInv, vars, SoleOwner, Fresh, Holds, Queued
  <2>5. QED BY <2>1, <2>2, <2>3, <2>4 DEF SchedInv
<1>3. QED
  BY <1>1, <1>2, ScheduleSched, TimerNoSwitchSched, PreemptSched, CreateSched, StartSched
  DEF Next, Timer

LEMMA AlwaysSched == StartsApart /\ Spec => []SchedInv
<1>1. StartsApart /\ Init => SchedInv /\ StartInv
  BY InitSched, InitStart
<1>2. SchedInv /\ StartInv /\ [Next]_vars => (SchedInv /\ StartInv)'
  BY NextSched, StartKept
<1>3. QED BY <1>1, <1>2, PTL DEF Spec

\* Each thread is queued once in all, idle threads never, and no CPU in user mode
\* executes a thread that another could dequeue: yields, preemptions, steals and
\* starts keep it on any number of CPUs as long as a thread has one starter, and
\* whoever starts whom as long as only one processor schedules.  With neither it
\* is false: two CPUs pass the unlocked test of start_thread for one thread.
THEOREM QueuesStayDisciplined == StartsApart /\ Spec => []QueueDiscipline
<1>1. SchedInv => QueueDiscipline
  <2> SUFFICES ASSUME SchedInv PROVE QueueDiscipline
    OBVIOUS
  <2>1. QueuesApart
    BY DEF SchedInv
  <2>2. \A c \in CPUs : Elements(queue[c]) \cap IdleThreads = {}
    BY <2>1, KernelThreadAssumption DEF QueuesApart, IdleThreads
  <2>3. \A c, d \in CPUs : pc[d] = "run" => current[d] \notin Elements(queue[c])
    BY AtRun
  <2>4. QED BY <2>1, <2>2, <2>3 DEF QueuesApart, Apart, QueueDiscipline
<1>2. QED BY <1>1, AlwaysSched, PTL

-----------------------------------------------------------------------------
(* A thread executes once                                                  *)

LEMMA KernelThreadsDiffer ==
  ASSUME NEW c \in CPUs, NEW d \in CPUs, c # d
  PROVE  {Idle(c), Boot(c)} \cap (UserThreads \cup {Idle(d), Boot(d)}) = {}
<1>1. Idle(c) # Idle(d) /\ Boot(c) # Boot(d)
  BY DEF Idle, Boot
<1>2. Idle(c) # Boot(d) /\ Boot(c) # Idle(d)
  BY DEF Idle, Boot
<1>3. Idle(c) \notin UserThreads /\ Boot(c) \notin UserThreads
  BY KernelThreadAssumption
<1> HIDE DEF Idle, Boot
<1>4. QED BY <1>1, <1>2, <1>3

\* No two CPUs execute the same user code, nor the same idle or boot thread,
\* whatever the threads do, yields included, unless two of them can start the
\* same thread on two CPUs.
THEOREM UserCodeStaysExclusive ==
  StartsApart /\ Spec => [](\A c, d \in CPUs :
               c # d /\ pc[c] = "run" /\ pc[d] = "run" => live[c] # live[d])
<1>1. ASSUME SchedInv, NEW c \in CPUs, NEW d \in CPUs, c # d, pc[c] = "run"
      PROVE  live[c] # live[d]
  <2>1. CASE live[c] \in UserThreads
    <3>1. SoleOwner(live[c]) /\ cs[live[c]] = "user" /\ Holds(c, live[c])
      BY <1>1, <2>1 DEF SchedInv, Pointers, Holds
    <3>2. ~Holds(d, live[c])
      BY <1>1, <3>1 DEF SoleOwner
    <3>3. QED BY <3>2 DEF Holds
  <2>2. CASE live[c] \notin UserThreads
    BY <1>1, <2>2, KernelThreadsDiffer DEF SchedInv, Pointers
  <2>3. QED BY <2>1, <2>2
<1>2. SchedInv => \A c, d \in CPUs :
        c # d /\ pc[c] = "run" /\ pc[d] = "run" => live[c] # live[d]
  BY <1>1
<1>3. QED BY <1>2, AlwaysSched, PTL

\* A step in which no thread dies, and none that is dead is taken or queued.
LEMMA NobodyDies ==
  ASSUME SchedInv, NoYieldInv, NEW c \in CPUs, StepOf(c),
         \A t \in NeverYield :
           /\ cs'[t] = cs[t]
           /\ tstate'[t] = "Dead" <=> tstate[t] = "Dead"
           /\ tstate[t] = "Dead" =>
                /\ Holds(c, t)' => Holds(c, t)
                /\ next'[c] = t => next[c] = t
                /\ \A d \in CPUs : t \in Elements(queue'[d]) => Queued(t),
         pc'[c] \in {"steal", "commit", "switch"} /\ live'[c] \in NeverYield =>
           tstate'[live'[c]] = "Dead"
  PROVE  NoYieldInv'
<1>1. \A d \in CPUs \ {c} :
        pc'[d] = pc[d] /\ live'[d] = live[d] /\ current'[d] = current[d] /\ next'[d] = next[d]
  BY OthersStay
<1>2. ASSUME NEW t \in NeverYield PROVE DeadStay(t)'
  <2>1. DeadStay(t) /\ \A d \in CPUs : d # c => (Holds(d, t)' <=> Holds(d, t))
    BY <1>1 DEF NoYieldInv, Holds
  <2>2. ASSUME cs'[t] = "kernel"
        PROVE  tstate'[t] = "Dead" /\ \A d \in CPUs : ~Holds(d, t)'
    BY <2>1, <2>2 DEF DeadStay
  <2>3. ASSUME tstate'[t] = "Dead"
        PROVE  ~Queued(t)' /\ \A d \in CPUs : next'[d] # t
    BY <1>1, <2>1, <2>3 DEF DeadStay, Queued
  <2>4. QED BY <2>2, <2>3 DEF DeadStay
<1>3. ASSUME NEW d \in CPUs, pc'[d] \in {"steal", "commit", "switch"},
             live'[d] \in NeverYield
      PROVE  tstate'[live'[d]] = "Dead"
  BY <1>1, <1>3 DEF NoYieldInv
<1>4. QED BY <1>2, <1>3 DEF NoYieldInv

\* A thread becomes Dead only by an exit, and one that is Dead is nowhere but
\* with the CPU that is about to leave it.
LEMMA NoYieldKept ==
  ASSUME SchedInv, NoYieldInv, [Next]_vars
  PROVE  NoYieldInv'
<1> USE DEF NeverYield
<1>1. CASE UNCHANGED vars
  BY <1>1 DEF vars, NoYieldInv, DeadStay, Queued, Holds
<1>3. ASSUME NEW c \in CPUs, BootYield(c) \/ Yield(c) \/ Exit(c) PROVE NoYieldInv'
  <2> DEFINE x == current[c]
             ts == IF Exit(c) THEN [tstate EXCEPT ![x] = "Dead"] ELSE tstate
             s == StatesAfterRequeue(c, ts)
             p == PickNext(QueueAfterRequeue(c, ts), s)
  <2>1. TypeOK /\ pc[c] = "run" /\ Pointers(c) /\ ~inSchedule[c]
    BY <1>3 DEF SchedInv, BootYield, Yield, Exit, EntryInv, EntryKept
  <2>2. /\ live[c] = x /\ next[c] = NoThread /\ x \in Threads
        /\ \A d \in CPUs : x \notin Elements(queue[d])
        /\ x \in UserThreads => cs[x] = "user"
    BY <2>1, AtRun
  <2>3. ts \in [Threads -> ThreadStates] /\ \A t \in Threads \ {x} : ts[t] = tstate[t]
    BY <2>1 DEF TypeOK, ThreadStates
  <2>4. x \in NeverYield => ts[x] = "Dead"
    <3>1. CASE Exit(c)
      BY <2>1, <2>2, <3>1 DEF TypeOK
    <3>2. CASE ~Exit(c)
      BY <1>3, <3>2, KernelThreadAssumption DEF BootYield, Yield
    <3>3. QED BY <3>1, <3>2
  <2>5. ScheduleEnter(c, ts)
    BY <1>3 DEF BootYield, Yield, Exit
  <2> HIDE DEF ts
  <2>6. /\ \A t \in Threads \ {x} : s[t] = tstate[t]
        /\ x \in NeverYield => s[x] = "Dead"
    BY <2>1, <2>3, <2>4, Requeued
  <2>7. /\ Elements(p.queue) \subseteq Elements(queue[c]) \cup {x}
        /\ x \in Elements(p.queue) => x \in UserThreads /\ s[x] = "Ready"
        /\ p.next # NoThread =>
             p.next \in UserThreads /\ p.next \in Elements(queue[c]) \cup {x}
             /\ s[p.next] = "Ready"
    BY <2>1, <2>3, Selected
  <2> HIDE DEF s, p
  <2>8. /\ tstate' = s /\ queue' = [queue EXCEPT ![c] = p.queue]
        /\ next' = [next EXCEPT ![c] = p.next]
        /\ pc' = [pc EXCEPT ![c] = pc'[c]] 
        /\ UNCHANGED <<cs, current, live>>
    BY <2>1, <2>5 DEF ScheduleEnter, s, p, TypeOK
  <2>9. /\ queue'[c] = p.queue /\ next'[c] = p.next
        /\ \A d \in CPUs \ {c} : queue'[d] = queue[d] /\ next'[d] = next[d] /\ pc'[d] = pc[d]
    BY <2>1, <2>8 DEF TypeOK
  <2>10. \A t \in NeverYield, d \in CPUs : t \in Elements(queue'[d]) => t \in Elements(queue[d])
    BY <2>6, <2>7, <2>9
  <2>11. \A t \in NeverYield : p.next = t => t \in Elements(queue[c]) /\ tstate[t] = "Ready"
    BY <2>6, <2>7, ThreadAssumption DEF Threads
  <2>12. ASSUME NEW t \in NeverYield PROVE DeadStay(t)'
    <3>1. DeadStay(t) /\ t \in Threads
      BY DEF NoYieldInv, Threads
    <3>2. ASSUME cs[t] = "kernel"
          PROVE  tstate'[t] = "Dead" /\ \A d \in CPUs : ~Holds(d, t)'
      <4>1. t # x /\ tstate[t] = "Dead" /\ \A d \in CPUs : ~Holds(d, t)
        BY <2>2, <3>1, <3>2 DEF DeadStay
      <4>2. p.next # t
        BY <2>11, <4>1
      <4>3. QED BY <2>6, <2>8, <2>9, <3>1, <4>1, <4>2 DEF Holds
    <3>3. ASSUME tstate'[t] = "Dead"
          PROVE  ~Queued(t)' /\ \A d \in CPUs : next'[d] # t
      <4>1. CASE t = x
        <5>1. \A d \in CPUs \ {c} : next[d] # t
          BY <2>2, <4>1 DEF SchedInv, SoleOwner, Holds
        <5>2. p.next # t
          BY <2>2, <2>11, <4>1
        <5>3. QED BY <2>2, <2>9, <2>10, <4>1, <5>1, <5>2 DEF Queued
      <4>2. CASE t # x
        <5>1. tstate[t] = "Dead"
          BY <2>6, <2>8, <3>1, <3>3, <4>2
        <5>2. ~Queued(t) /\ \A d \in CPUs : next[d] # t
          BY <3>1, <5>1 DEF DeadStay
        <5>3. p.next # t
          BY <2>11, <5>1
        <5>4. QED BY <2>9, <2>10, <5>2, <5>3 DEF Queued
      <4>3. QED BY <4>1, <4>2
    <3>4. QED BY <2>8, <3>2, <3>3 DEF DeadStay
  <2>13. ASSUME NEW d \in CPUs, pc'[d] \in {"steal", "commit", "switch"},
                live'[d] \in NeverYield
         PROVE  tstate'[live'[d]] = "Dead"
    <3>1. CASE d = c
      BY <2>2, <2>6, <2>8, <2>13, <3>1
    <3>2. CASE d # c
      <4>1. tstate[live[d]] = "Dead" /\ live[d] \in NeverYield
        BY <2>8, <2>9, <2>13, <3>2 DEF NoYieldInv
      <4>2. live[d] # x \/ s[x] = "Dead"
        BY <2>6, <4>1
      <4>3. QED BY <2>6, <2>8, <4>1, <4>2 DEF Threads
    <3>3. QED BY <3>1, <3>2
  <2>14. QED BY <2>12, <2>13 DEF NoYieldInv
<1>4. ASSUME NEW c \in CPUs, TimerNoSwitch(c) PROVE NoYieldInv'
  BY <1>4 DEF TimerNoSwitch, NoYieldInv, DeadStay, Queued, Holds
<1>5. ASSUME NEW c \in CPUs, Preempt(c) PROVE NoYieldInv'
  <2> DEFINE x == current[c]
             s == StatesAfterRequeue(c, tstate)
             p == PickNext(QueueAfterRequeue(c, tstate), s)
             y == IF p.next = NoThread THEN x ELSE p.next
  <2>1. /\ TypeOK /\ pc[c] = "run" /\ tstate[x] = "Running"
        /\ tstate \in [Threads -> ThreadStates]
    BY <1>5 DEF SchedInv, TypeOK, Preempt
  <2>2. live[c] = x /\ next[c] = NoThread /\ x \in Threads
    BY <2>1, AtRun
  <2>3. /\ \A t \in Threads \ {x} : s[t] = tstate[t]
        /\ s \in [Threads -> ThreadStates]
        /\ s[x] \in {"Running", "Ready"}
    BY <2>1, Requeued
  <2>4. /\ Elements(p.queue) \subseteq Elements(queue[c]) \cup {x}
        /\ p.next # NoThread => p.next \in UserThreads /\ s[p.next] = "Ready"
    BY <2>1, Selected
  <2> HIDE DEF s, p
  <2>5. /\ tstate' = [s EXCEPT ![y] = "Running"]
        /\ queue' = [queue EXCEPT ![c] = p.queue]
        /\ current' = [current EXCEPT ![c] = y]
        /\ UNCHANGED <<cs, live>>
    BY <1>5 DEF Preempt, s, p
  <2>6. /\ y = x => UNCHANGED <<pc, next>>
        /\ y # x => pc' = [pc EXCEPT ![c] = "irqsave"] /\ next' = [next EXCEPT ![c] = y]
    BY <1>5 DEF Preempt, s, p
  <2>7. s[y] \in {"Running", "Ready"} /\ y \in Threads
    BY <2>2, <2>3, <2>4 DEF Threads
  <2> HIDE DEF y
  <2>8. /\ pc'[c] \in {"run", "irqsave"} /\ next'[c] \in {NoThread, y}
        /\ current'[c] = y /\ queue'[c] = p.queue
        /\ \A d \in CPUs \ {c} : queue'[d] = queue[d]
    BY <2>1, <2>2, <2>5, <2>6 DEF TypeOK
  <2>9. StepOf(c)
    BY <1>5 DEF StepOf, Timer
  <2>10. ASSUME NEW t \in NeverYield
         PROVE  /\ cs'[t] = cs[t] /\ (tstate'[t] = "Dead" <=> tstate[t] = "Dead")
                /\ tstate[t] = "Dead" =>
                     /\ (Holds(c, t)' => Holds(c, t))
                     /\ (next'[c] = t => next[c] = t)
                     /\ \A d \in CPUs : t \in Elements(queue'[d]) => Queued(t)
    <3>1. t \in Threads
      BY DEF Threads
    <3>2. tstate[t] = "Dead" => t # x /\ t # y
      BY <2>1, <2>3, <2>7, <3>1
    <3>3. tstate'[t] = "Dead" <=> tstate[t] = "Dead"
      BY <2>1, <2>3, <2>5, <2>7, <3>1
    <3>4. ASSUME tstate[t] = "Dead"
          PROVE  (Holds(c, t)' => Holds(c, t)) /\ (next'[c] = t => next[c] = t)
      BY <2>2, <2>5, <2>8, <3>2, <3>4, ThreadAssumption DEF Holds
    <3>5. tstate[t] = "Dead" => \A d \in CPUs : t \in Elements(queue'[d]) => Queued(t)
      BY <2>4, <2>8, <3>2 DEF Queued
    <3>6. QED BY <2>5, <3>3, <3>4, <3>5
  <2>11. QED BY <2>8, <2>9, <2>10, NobodyDies
<1>6. ASSUME NEW c \in CPUs, Steal(c) PROVE NoYieldInv'
  <2>1. /\ TypeOK /\ pc[c] = "steal" /\ StepOf(c)
        /\ UNCHANGED <<tstate, cs, current, live>>
    BY <1>6 DEF SchedInv, Steal, StepOf, KernelStep
  <2>2. live'[c] \in NeverYield => tstate'[live'[c]] = "Dead"
    BY <2>1 DEF NoYieldInv
  <2>3. CASE UNCHANGED <<queue, home, next>>
    BY <2>1, <2>2, <2>3, NobodyDies DEF Holds, Queued
  <2>4. CASE ~UNCHANGED <<queue, home, next>>
    <3>1. PICK v \in CPUs, r \in Seq(UserThreads), y \in UserThreads :
              /\ y \in Elements(queue[v]) /\ y # handoff[v] /\ tstate[y] = "Ready"
              /\ queue' = [queue EXCEPT ![v] = r]
              /\ Apart(r) /\ Elements(r) \subseteq Elements(queue[v])
              /\ y \notin Elements(r)
              /\ Elements(queue[v]) \subseteq Elements(r) \cup {y}
              /\ home' = [home EXCEPT ![y] = c]
              /\ next' = [next EXCEPT ![c] = y]
              /\ scan' = [scan EXCEPT ![c] = {}]
              /\ pc' = [pc EXCEPT ![c] = "commit"]
      <4>1. ~(/\ UNCHANGED <<queue, home, next>>
              /\ \E w \in SUBSET CPUs : scan' = [scan EXCEPT ![c] = w]
              /\ \E l \in {"steal", "commit"} : pc' = [pc EXCEPT ![c] = l])
        BY <2>4
      <4>2. QED BY <1>6, <4>1, StealOutcome
    <3>2. \A d \in CPUs : Elements(queue'[d]) \subseteq Elements(queue[d])
      BY <2>1, <3>1 DEF TypeOK
    <3>3. next'[c] = y
      BY <2>1, <3>1 DEF TypeOK
    <3>4. QED BY <2>1, <2>2, <3>1, <3>2, <3>3, NobodyDies DEF Holds, Queued
  <2>5. QED BY <2>3, <2>4
<1>7. ASSUME NEW c \in CPUs, Commit(c) PROVE NoYieldInv'
  <2>1. /\ TypeOK /\ pc[c] = "commit" /\ StepOf(c) /\ live[c] = current[c]
        /\ UNCHANGED <<cs, live>>
    BY <1>7 DEF SchedInv, EntryInv, EntryKept, Commit, StepOf, KernelStep
  <2>2. PICK y \in UserThreads \cup {Idle(c)}, r \in Seq(UserThreads) :
           /\ queue' = [queue EXCEPT ![c] = r] /\ Elements(r) \subseteq Elements(queue[c])
           /\ y \in UserThreads => y = next[c] \/ tstate[y] = "Ready"
           /\ \/ y = current[c] /\ next' = [next EXCEPT ![c] = NoThread]
                 /\ UNCHANGED <<tstate, current>>
              \/ /\ next' = [next EXCEPT ![c] = y]
                 /\ tstate' = [tstate EXCEPT ![y] = "Running"]
                 /\ current' = [current EXCEPT ![c] = y]
    BY SMTT(30), <1>7, Chosen
  <2>3. /\ next'[c] \in {NoThread, y} /\ current'[c] = y
        /\ \A d \in CPUs : Elements(queue'[d]) \subseteq Elements(queue[d])
    BY <2>1, <2>2 DEF TypeOK
  <2>4. \A t \in NeverYield : tstate[t] = "Dead" => t # y
    BY <2>2 DEF NoYieldInv, DeadStay
  <2>5. \A t \in NeverYield : tstate'[t] = "Dead" <=> tstate[t] = "Dead"
    <3>1. CASE UNCHANGED tstate
      BY <3>1
    <3>2. CASE tstate' = [tstate EXCEPT ![y] = "Running"]
      BY <2>1, <2>4, <3>2 DEF TypeOK, Threads
    <3>3. QED BY <2>2, <3>1, <3>2
  <2>6. live'[c] \in NeverYield => tstate'[live'[c]] = "Dead"
    BY <2>1, <2>5 DEF NoYieldInv
  <2>7. QED
    BY <2>1, <2>3, <2>4, <2>5, <2>6, ThreadAssumption, NobodyDies DEF Holds, Queued
<1>8. ASSUME NEW c \in CPUs, Switch(c) PROVE NoYieldInv'
  <2> DEFINE x == live[c]
  <2>1. /\ TypeOK /\ pc[c] = "switch" /\ next[c] = current[c] /\ next[c] # x /\ x \in Threads
        /\ next[c] \in Threads
        /\ x \in UserThreads => cs[x] = "user"
        /\ x \in NeverYield => tstate[x] = "Dead"
    <3>1. TypeOK /\ pc[c] = "switch" /\ Pointers(c) /\ next[c] = current[c]
      BY <1>8 DEF SchedInv, EntryInv, EntryKept, Switch
    <3>2. next[c] # x
      BY <3>1 DEF Pointers
    <3>3. x \in Threads /\ next[c] \in Threads
      BY <3>1 DEF TypeOK
    <3>4. x \in UserThreads => cs[x] = "user"
      BY <3>1 DEF Pointers
    <3>5. x \in NeverYield => tstate[x] = "Dead"
      BY <3>1 DEF NoYieldInv
    <3>6. QED BY <3>1, <3>2, <3>3, <3>4, <3>5
  <2>2. /\ cs' = [cs EXCEPT ![x] = "kernel"]
        /\ live' = [live EXCEPT ![c] = next[c]]
        /\ next' = [next EXCEPT ![c] = NoThread]
        /\ UNCHANGED <<tstate, queue, current>>
        /\ pc' \in {[pc EXCEPT ![c] = "run"], [pc EXCEPT ![c] = "panic"]}
    BY <1>8 DEF Switch, SwitchTo, LeaveSyscall
  <2>3. /\ live'[c] = next[c] /\ next'[c] = NoThread /\ current'[c] = next[c]
        /\ pc'[c] \in {"run", "panic"}
        /\ \A d \in CPUs \ {c} : /\ live'[d] = live[d] /\ next'[d] = next[d]
                                 /\ current'[d] = current[d] /\ pc'[d] = pc[d]
    BY <2>1, <2>2 DEF TypeOK
  <2>4. ASSUME NEW t \in NeverYield PROVE DeadStay(t)'
    <3>1. DeadStay(t) /\ t \in Threads /\ t # NoThread
      BY ThreadAssumption DEF NoYieldInv, Threads
    <3>2. ASSUME cs'[t] = "kernel"
          PROVE  tstate'[t] = "Dead" /\ \A d \in CPUs : ~Holds(d, t)'
      <4>1. CASE t = x
        <5>1. \A d \in CPUs \ {c} : ~Holds(d, t)
          BY <2>1, <4>1 DEF SchedInv, SoleOwner, Holds
        <5>2. QED BY <2>1, <2>2, <2>3, <3>1, <4>1, <5>1 DEF Holds
      <4>2. CASE t # x
        <5>1. tstate[t] = "Dead" /\ \A d \in CPUs : ~Holds(d, t)
          BY <2>1, <2>2, <3>1, <3>2, <4>2 DEF TypeOK, DeadStay
        <5>2. QED BY <2>2, <2>3, <3>1, <5>1 DEF Holds
      <4>3. QED BY <4>1, <4>2
    <3>3. ASSUME tstate'[t] = "Dead"
          PROVE  ~Queued(t)' /\ \A d \in CPUs : next'[d] # t
      BY <2>2, <2>3, <3>1, <3>3 DEF DeadStay, Queued
    <3>4. QED BY <3>2, <3>3 DEF DeadStay
  <2>5. ASSUME NEW d \in CPUs, pc'[d] \in {"steal", "commit", "switch"},
               live'[d] \in NeverYield
        PROVE  tstate'[live'[d]] = "Dead"
    BY <2>2, <2>3, <2>5 DEF NoYieldInv
  <2>6. QED BY <2>4, <2>5 DEF NoYieldInv
<1>9. ASSUME NEW c \in CPUs, IrqSwitch(c) PROVE NoYieldInv'
  <2>1. /\ TypeOK /\ pc[c] = "irqsave" /\ next[c] = current[c] /\ StepOf(c)
        /\ live[c] \in UserThreads => cs[live[c]] = "user"
    BY <1>9 DEF SchedInv, EntryInv, EntryKept, Pointers, IrqSwitch, StepOf, KernelStep
  <2>2. /\ cs' = [cs EXCEPT ![live[c]] = IF live[c] \in UserThreads THEN "user" ELSE "kernel"]
        /\ live' = [live EXCEPT ![c] = next[c]]
        /\ next' = [next EXCEPT ![c] = NoThread]
        /\ UNCHANGED <<tstate, queue, current>>
        /\ pc' \in {[pc EXCEPT ![c] = "run"], [pc EXCEPT ![c] = "panic"]}
    BY <1>9 DEF IrqSwitch, SwitchTo, LeaveSyscall
  <2>3. \A t \in NeverYield : cs'[t] = cs[t]
    BY <2>1, <2>2 DEF TypeOK, Threads
  <2>4. live'[c] = next[c] /\ next'[c] = NoThread /\ pc'[c] \in {"run", "panic"}
    BY <2>1, <2>2 DEF TypeOK
  <2>5. QED
    BY <2>1, <2>2, <2>3, <2>4, ThreadAssumption, NobodyDies DEF Holds, Queued
<1>2. ASSUME NEW c \in CPUs, StartReady(c) PROVE NoYieldInv'
  <2>1. /\ TypeOK /\ StepOf(c) /\ tstate[next[c]] = "Created" /\ next[c] \in UserThreads
    BY <1>2 DEF SchedInv, Pointers, StartReady, StepOf, KernelStep
  <2>2. /\ tstate' = [tstate EXCEPT ![next[c]] = "Ready"]
        /\ pc' = [pc EXCEPT ![c] = "enqueue"]
        /\ UNCHANGED <<cs, queue, current, next, live>>
    BY <1>2 DEF StartReady
  <2>3. \A t \in NeverYield : tstate'[t] = "Dead" <=> tstate[t] = "Dead"
    BY <2>1, <2>2 DEF TypeOK, Threads
  <2>4. pc'[c] = "enqueue"
    BY <2>1, <2>2 DEF TypeOK
  <2>5. QED BY <2>1, <2>2, <2>3, <2>4, NobodyDies DEF Holds, Queued
<1>10. ASSUME NEW c \in CPUs, StartEnqueue(c) PROVE NoYieldInv'
  <2>1. /\ TypeOK /\ StepOf(c) /\ tstate[next[c]] = "Ready"
        /\ UNCHANGED <<tstate, cs, current, live>>
        /\ next' = [next EXCEPT ![c] = NoThread]
    BY <1>10, StartEnqueued DEF SchedInv, StartEnqueue, StepOf, KernelStep
  <2>2. pc[c] = "enqueue" /\ live[c] \in UserThreads /\ LeaveSyscall(c, live[c], gs[c])
    BY <1>10, StartEnqueued DEF StartEnqueue
  <2>3. pc'[c] = "run" /\ next'[c] = NoThread
    BY <2>1, <2>2, LeaveEntry DEF SchedInv, TypeOK
  <2>4. PICK h \in CPUs, r \in Seq(UserThreads) :
              /\ queue' = [queue EXCEPT ![h] = r]
              /\ Elements(r) = Elements(queue[h]) \cup {next[c]}
    BY <1>10, StartEnqueued
  <2>5. \A d \in CPUs : Elements(queue'[d]) \subseteq Elements(queue[d]) \cup {next[c]}
    BY <2>1, <2>4 DEF TypeOK
  <2>6. QED BY <2>1, <2>3, <2>5, ThreadAssumption, NobodyDies DEF Holds, Queued
<1>11. ASSUME NEW c \in CPUs, NEW y \in UserThreads, CreateThread(c, y) PROVE NoYieldInv'
  <2>1. /\ TypeOK /\ StepOf(c) /\ y \in Threads /\ tstate[y] = "None" /\ cs[y] = "user"
        /\ pc[c] = "run"
    BY <1>11 DEF SchedInv, CreateThread, Threads, Fresh, StepOf
  <2>2. /\ tstate' = [tstate EXCEPT ![y] = "Created"] /\ cs' = [cs EXCEPT ![y] = "user"]
        /\ UNCHANGED <<queue, current, pc, next, live>>
    BY <1>11 DEF CreateThread
  <2>3. \A t \in NeverYield : cs'[t] = cs[t] /\ (tstate'[t] = "Dead" <=> tstate[t] = "Dead")
    BY <2>1, <2>2 DEF TypeOK, Threads
  <2>4. QED BY <2>1, <2>2, <2>3, NobodyDies DEF Holds, Queued
<1>12. ASSUME NEW c \in CPUs, NEW y \in UserThreads, StartThread(c, y) PROVE NoYieldInv'
  <2>1. /\ TypeOK /\ StepOf(c) /\ y \in Threads /\ tstate[y] = "Created"
    BY <1>12 DEF SchedInv, StartThread, Threads, StepOf
  <2>2. /\ next' = [next EXCEPT ![c] = y] /\ pc' = [pc EXCEPT ![c] = "start"]
        /\ UNCHANGED <<tstate, cs, queue, current, live>>
    BY <1>12 DEF StartThread
  <2>3. pc'[c] = "start" /\ next'[c] = y
    BY <2>1, <2>2 DEF TypeOK
  <2>4. QED BY <2>1, <2>2, <2>3, NobodyDies DEF Holds, Queued
<1>13. QED
  BY <1>1, <1>2, <1>3, <1>4, <1>5, <1>6, <1>7, <1>8, <1>9, <1>10, <1>11, <1>12
  DEF Next, Timer, KernelStep

NoYields == Yielding = {}

\* The part of exclusiveness that is about saved contexts.
LEMMA HeldByUserContext ==
  ASSUME SchedInv, NEW c \in CPUs, NEW d \in CPUs \ {c}, NEW t, Holds(c, t),
         t \in UserThreads => cs[t] = "user",
         t \in UserThreads \cup {Idle(c), Boot(c)}
  PROVE  live[d] # t /\ current[d] # t
<1>1. CASE t \in UserThreads
  BY <1>1 DEF SchedInv, SoleOwner, Holds
<1>2. CASE t \notin UserThreads
  <2>1. /\ live[d] \in UserThreads \cup {Idle(d), Boot(d)}
        /\ current[d] \in UserThreads \cup {Idle(d), Boot(d)}
    BY DEF SchedInv, Pointers
  <2>2. t \notin {Idle(d), Boot(d)}
    BY <1>2, KernelThreadsDiffer
  <2>3. QED BY <1>2, <2>1, <2>2
<1>3. QED BY <1>1, <1>2

LEMMA InitNoYield == Init => NoYieldInv
<1>1. Init => \A t \in UserThreads : cs[t] = "user" /\ tstate[t] # "Dead"
  BY DEF Init, Threads
<1>2. Init => \A c \in CPUs : pc[c] = "run"
  BY DEF Init
<1>3. QED BY <1>1, <1>2 DEF NoYieldInv, DeadStay, NeverYield

LEMMA AlwaysNoYield == StartsApart /\ Spec => []NoYieldInv
BY InitNoYield, NoYieldKept, AlwaysSched, PTL DEF Spec

\* What two CPUs both hold or have made current is a thread that yields.
NonYieldersExclusive ==
  \A c, d \in CPUs : c # d =>
    \A t \in {live[c], current[c]} : t \in Yielding \/ t \notin {live[d], current[d]}

\* A thread that never calls sys_yield executes on one CPU at a time, even while
\* others yield on any number of CPUs; again each thread has one starter, or one
\* processor schedules.
THEOREM NonYieldersStayExclusive == StartsApart /\ Spec => []NonYieldersExclusive
<1>1. ASSUME SchedInv, NoYieldInv, NEW c \in CPUs, NEW d \in CPUs \ {c},
             NEW t \in {live[c], current[c]}, t \notin Yielding
      PROVE  t \notin {live[d], current[d]}
  <2>1. Holds(c, t) /\ t \in UserThreads \cup {Idle(c), Boot(c)}
    BY <1>1 DEF SchedInv, Pointers, Holds
  <2>2. ASSUME t \in UserThreads PROVE cs[t] = "user"
    <3>1. t \in Threads /\ cs[t] # "kernel"
      BY <1>1, <2>1, <2>2 DEF NoYieldInv, NeverYield, DeadStay, Threads
    <3>2. QED BY <1>1, <3>1 DEF SchedInv, TypeOK
  <2>3. QED BY <1>1, <2>1, <2>2, HeldByUserContext
<1>2. SchedInv /\ NoYieldInv => NonYieldersExclusive
  BY <1>1 DEF NonYieldersExclusive
<1>3. QED BY <1>2, AlwaysSched, AlwaysNoYield, PTL

\* A thread runs on one CPU at a time: what a CPU holds or has made current no
\* other CPU holds or has made current.  With yields on two CPUs this is false:
\* a thread taken over as the fallback stays queued, and another CPU steals it.
\* With two starters of a thread on two CPUs it is false as well.
THEOREM ThreadsStayExclusive ==
  ((NoYields /\ SingleStarter) \/ OneScheduler) /\ Spec => []ExclusiveExecution
<1>1. SchedInv => \A c \in CPUs : pc[c] = "run" => live[c] = current[c]
  BY DEF SchedInv, EntryInv, EntryKept
<1>2. CASE NoYields /\ SingleStarter
  <2>1. SchedInv /\ NonYieldersExclusive => ExclusiveExecution
    BY <1>1, <1>2 DEF NoYields, NonYieldersExclusive, ExclusiveExecution
  <2>2. StartsApart
    BY <1>2 DEF StartsApart
  <2>3. QED BY <2>1, <2>2, AlwaysSched, NonYieldersStayExclusive, PTL
<1>3. CASE OneScheduler
  <2>1. Init => OthersQuiet
    BY <1>3 DEF OneScheduler, OthersQuiet, Init, Quiet
  <2>2. ASSUME SchedInv, OthersQuiet, NEW c \in CPUs, NEW d \in CPUs \ {c}
        PROVE  live[c] # live[d] /\ current[c] # current[d]
    <3>1. /\ live[c] \in UserThreads \cup {Idle(c), Boot(c)}
          /\ current[c] \in UserThreads \cup {Idle(c), Boot(c)}
          /\ live[d] \in UserThreads \cup {Idle(d), Boot(d)}
          /\ current[d] \in UserThreads \cup {Idle(d), Boot(d)}
      BY <2>2 DEF SchedInv, Pointers
    <3>2. CASE Quiet(d)
      BY <3>1, <3>2, KernelThreadsDiffer DEF Quiet
    <3>3. CASE Quiet(c)
      BY <3>1, <3>3, KernelThreadsDiffer DEF Quiet
    <3>4. QED BY <2>2, <3>2, <3>3 DEF OthersQuiet
  <2>3. SchedInv /\ OthersQuiet => ExclusiveExecution
    BY <1>1, <2>2 DEF ExclusiveExecution
  <2>4. StartsApart
    BY <1>3 DEF StartsApart
  <2>5. QED BY <2>1, <2>3, <2>4, OthersQuietKept, AlwaysSched, PTL DEF Spec
<1>4. QED BY <1>2, <1>3

-----------------------------------------------------------------------------
(* No waiting thread is lost                                               *)

\* A thread that no CPU executes stays reachable: it is chosen or queued.
LEMMA WaitKept ==
  ASSUME SchedInv, NoYieldInv, RoomForSkipped, NEW t \in UserThreads,
         \A c \in CPUs : live[c] # t, Reachable(t), NEW c \in CPUs, StepOf(c)
  PROVE  Reachable(t)'
<1>1. TypeOK /\ t \in Threads /\ t # NoThread
  BY ThreadAssumption DEF SchedInv, Threads
<1>2. PICK d \in CPUs :
           next[d] = t \/ (t \in Elements(queue[d]) /\ tstate[t] = "Ready")
  <2>1. ASSUME NEW d \in CPUs, current[d] = t PROVE next[d] = t
    <3>1. live[d] # current[d]
      BY <2>1
    <3>2. pc[d] \in Locations
      BY DEF SchedInv, TypeOK
    <3>3. pc[d] # "panic"
      BY <3>1 DEF SchedInv, Pointers
    <3>4. pc[d] \notin {"run", "steal", "commit", "start", "enqueue"}
      BY <3>1 DEF SchedInv, EntryInv, EntryKept
    <3>5. pc[d] \in {"switch", "irqsave"}
      BY <3>2, <3>3, <3>4 DEF Locations
    <3>6. QED BY <2>1, <3>5 DEF SchedInv, EntryInv, EntryKept
  <2>2. QED BY <2>1 DEF Reachable
<1>3. CASE d # c /\ next[d] = t
  BY <1>3, OthersStay DEF Reachable
<1> SUFFICES ASSUME d = c \/ next[d] # t PROVE Reachable(t)'
  BY <1>3
<1>4. pc[c] = "run" =>
        /\ next[c] # t /\ current[c] # t
        /\ \A e \in CPUs : current[c] \notin Elements(queue[e])
  BY <1>1, AtRun
<1>5. CASE BootYield(c) \/ Yield(c) \/ Exit(c)
  <2> DEFINE x == current[c]
             ts == IF Exit(c) THEN [tstate EXCEPT ![x] = "Dead"] ELSE tstate
             s == StatesAfterRequeue(c, ts)
             p == PickNext(QueueAfterRequeue(c, ts), s)
  <2>1. pc[c] = "run" /\ ~inSchedule[c] /\ ScheduleEnter(c, ts)
    BY <1>5 DEF SchedInv, BootYield, Yield, Exit, EntryInv, EntryKept
  <2>2. ts \in [Threads -> ThreadStates] /\ Keeps(c, ts)
    BY <1>1 DEF TypeOK, ThreadStates, Keeps
  <2> HIDE DEF ts
  <2>3. s[t] = tstate[t]
    BY <1>1, <1>4, <2>1, <2>2, Requeued DEF Keeps
  <2>4. \A u \in Elements(queue[c]) : s[u] = "Ready" => u = p.next \/ u \in Elements(p.queue)
    BY <2>1, <2>2, Selected
  <2>5. /\ tstate' = s /\ queue' = [queue EXCEPT ![c] = p.queue]
        /\ next' = [next EXCEPT ![c] = p.next]
    BY <2>1 DEF ScheduleEnter
  <2> HIDE DEF s, p
  <2>6. /\ queue'[c] = p.queue /\ next'[c] = p.next
        /\ \A e \in CPUs \ {c} : queue'[e] = queue[e]
    BY <1>1, <2>5 DEF TypeOK
  <2>7. t \in Elements(queue[d]) /\ tstate[t] = "Ready"
    BY <1>2, <1>3, <1>4, <2>1
  <2>8. QED BY <2>3, <2>4, <2>5, <2>6, <2>7 DEF Reachable
<1>6. CASE TimerNoSwitch(c)
  BY <1>6 DEF TimerNoSwitch, Reachable
<1>7. CASE Preempt(c)
  <2> DEFINE x == current[c]
             s == StatesAfterRequeue(c, tstate)
             p == PickNext(QueueAfterRequeue(c, tstate), s)
             y == IF p.next = NoThread THEN x ELSE p.next
  <2>1. pc[c] = "run" /\ tstate \in [Threads -> ThreadStates] /\ Keeps(c, tstate)
    BY <1>1, <1>7 DEF Preempt, TypeOK, Keeps
  <2>2. s[t] = tstate[t]
    BY <1>1, <1>4, <2>1, Requeued
  <2>3. /\ \A u \in Elements(queue[c]) :
             s[u] = "Ready" => u = p.next \/ u \in Elements(p.queue)
        /\ s \in [Threads -> ThreadStates]
    BY <2>1, Selected, Requeued
  <2> HIDE DEF s, p
  <2>4. /\ tstate' = [s EXCEPT ![y] = "Running"]
        /\ queue' = [queue EXCEPT ![c] = p.queue]
        /\ current' = [current EXCEPT ![c] = y]
    BY <1>7 DEF Preempt, s, p
  <2>5. y = p.next \/ p.next = NoThread
    OBVIOUS
  <2> HIDE DEF y
  <2>6. /\ queue'[c] = p.queue /\ current'[c] = y
        /\ \A e \in CPUs \ {c} : queue'[e] = queue[e]
        /\ t # y => tstate'[t] = s[t]
    BY <1>1, <2>3, <2>4 DEF TypeOK
  <2>7. t \in Elements(queue[d]) /\ tstate[t] = "Ready"
    BY <1>2, <1>3, <1>4, <2>1
  <2>8. QED BY <1>1, <2>2, <2>3, <2>5, <2>6, <2>7 DEF Reachable
<1>8. CASE Steal(c)
  <2>1. UNCHANGED tstate /\ pc[c] = "steal" /\ next[c] # t
    BY <1>1, <1>8 DEF Steal, SchedInv, Pointers
  <2>2. t \in Elements(queue[d]) /\ tstate[t] = "Ready"
    BY <1>2, <1>3, <2>1
  <2>3. CASE UNCHANGED <<queue, home, next>>
    BY <2>1, <2>2, <2>3 DEF Reachable
  <2>4. CASE ~UNCHANGED <<queue, home, next>>
    <3>1. PICK v \in CPUs, r \in Seq(UserThreads), y \in UserThreads :
              /\ y \in Elements(queue[v]) /\ y # handoff[v] /\ tstate[y] = "Ready"
              /\ queue' = [queue EXCEPT ![v] = r]
              /\ Apart(r) /\ Elements(r) \subseteq Elements(queue[v])
              /\ y \notin Elements(r)
              /\ Elements(queue[v]) \subseteq Elements(r) \cup {y}
              /\ home' = [home EXCEPT ![y] = c]
              /\ next' = [next EXCEPT ![c] = y]
              /\ scan' = [scan EXCEPT ![c] = {}]
              /\ pc' = [pc EXCEPT ![c] = "commit"]
      <4>1. ~(/\ UNCHANGED <<queue, home, next>>
              /\ \E w \in SUBSET CPUs : scan' = [scan EXCEPT ![c] = w]
              /\ \E l \in {"steal", "commit"} : pc' = [pc EXCEPT ![c] = l])
        BY <2>4
      <4>2. QED BY <1>8, <4>1, StealOutcome
    <3>2. next'[c] = y /\ Elements(queue[d]) \subseteq Elements(queue'[d]) \cup {y}
      BY <1>1, <3>1 DEF TypeOK
    <3>3. QED BY <2>1, <2>2, <3>2 DEF Reachable
  <2>5. QED BY <2>3, <2>4
<1>9. CASE Commit(c)
  <2>1. pc[c] = "commit" /\ live[c] = current[c]
    BY <1>9 DEF SchedInv, EntryInv, EntryKept, Commit
  <2>2. PICK y \in UserThreads \cup {Idle(c)}, r \in Seq(UserThreads) :
           /\ queue' = [queue EXCEPT ![c] = r]
           /\ next[c] \in {y, NoThread}
           /\ \A u \in Elements(queue[c]) : tstate[u] = "Ready" =>
                u = y \/ u \in Elements(r)
           /\ \/ y = current[c] /\ UNCHANGED tstate
              \/ /\ next' = [next EXCEPT ![c] = y]
                 /\ tstate' = [tstate EXCEPT ![y] = "Running"]
    BY <1>9, Chosen
  <2>3. t # current[c]
    BY <2>1
  <2>4. /\ queue'[c] = r /\ \A e \in CPUs \ {c} : queue'[e] = queue[e]
        /\ t # y => tstate'[t] = tstate[t]
        /\ t = y => next'[c] = t
    BY <1>1, <2>2, <2>3 DEF TypeOK
  <2>5. QED BY <1>1, <1>2, <1>3, <2>2, <2>4 DEF Reachable
<1>10. CASE Switch(c) \/ IrqSwitch(c)
  <2>1. UNCHANGED <<tstate, queue>> /\ live' = [live EXCEPT ![c] = next[c]]
    BY <1>10 DEF Switch, IrqSwitch, SwitchTo
  <2>2. live'[c] = next[c]
    BY <1>1, <2>1 DEF TypeOK
  <2>3. QED BY <1>2, <1>3, <2>1, <2>2 DEF Reachable
<1>11. CASE StartEnqueue(c)
  <2>1. tstate[next[c]] = "Ready" /\ UNCHANGED tstate
    BY <1>11, StartEnqueued DEF StartEnqueue
  <2>2. PICK h \in CPUs, r \in Seq(UserThreads) :
              /\ queue' = [queue EXCEPT ![h] = r]
              /\ Elements(r) = Elements(queue[h]) \cup {next[c]}
    BY <1>11, StartEnqueued
  <2>3. /\ \A e \in CPUs : Elements(queue[e]) \subseteq Elements(queue'[e])
        /\ next[c] \in Elements(queue'[h])
    BY <1>1, <2>2 DEF TypeOK
  <2>4. QED BY <1>2, <1>3, <2>1, <2>3 DEF Reachable
<1>12. ASSUME NEW y \in UserThreads, CreateThread(c, y) \/ StartThread(c, y)
       PROVE  Reachable(t)'
  <2>1. pc[c] = "run" /\ tstate[y] \in {"None", "Created"} /\ UNCHANGED queue
        /\ tstate' \in {tstate, [tstate EXCEPT ![y] = "Created"]}
    BY <1>12 DEF CreateThread, StartThread
  <2>2. t \in Elements(queue[d]) /\ tstate[t] = "Ready"
    BY <1>2, <1>3, <1>4, <2>1
  <2>3. tstate'[t] = tstate[t]
    BY <1>1, <2>1, <2>2 DEF TypeOK
  <2>4. QED BY <2>1, <2>2, <2>3 DEF Reachable
<1>13. CASE StartReady(c)
  <2>1. UNCHANGED <<queue, next>> /\ tstate' = [tstate EXCEPT ![next[c]] = "Ready"]
    BY <1>13 DEF StartReady
  <2>2. tstate[t] = "Ready" => tstate'[t] = "Ready"
    BY <1>1, <2>1 DEF TypeOK
  <2>3. QED BY <1>2, <2>1, <2>2 DEF Reachable
<1>14. QED
  BY <1>5, <1>6, <1>7, <1>8, <1>9, <1>10, <1>11, <1>12, <1>13
  DEF StepOf, Timer, KernelStep

\* A thread that waits is not lost, as long as no more threads yield than a
\* selection can put back: rotation, put-back, stealing and the two critical
\* sections of schedule() keep every thread that nobody executes reachable.
THEOREM WaitingStaysReachable ==
  StartsApart /\ RoomForSkipped /\ Spec => WaitingNeverLost
<1> DEFINE Kept == \A t \in UserThreads :
                     Reachable(t) /\ ~Reachable(t)' => \E c \in CPUs : live[c] = t
<1>1. ASSUME RoomForSkipped, SchedInv, NoYieldInv, [Next]_vars PROVE [Kept]_vars
  <2>1. CASE UNCHANGED vars
    BY <2>1
  <2>2. CASE Next
    <3>1. PICK c \in CPUs : StepOf(c)
      BY <2>2 DEF Next, StepOf
    <3>2. Kept
      BY <1>1, <3>1, WaitKept
    <3>3. QED BY <3>2
  <2>3. QED BY <1>1, <2>1, <2>2
<1> HIDE DEF Kept
<1>2. CASE RoomForSkipped
  <2>1. SchedInv /\ NoYieldInv /\ [Next]_vars => [Kept]_vars
    BY <1>1, <1>2
  <2>2. StartsApart /\ Spec => [][Kept]_vars
    BY <2>1, AlwaysSched, AlwaysNoYield, PTL DEF Spec
  <2>3. QED BY <2>2 DEF WaitingNeverLost, Kept
<1>3. QED BY <1>2
====
