---------------------------- MODULE SchedProofs ----------------------------
(***************************************************************************)
(* Proofs about Sched, for every number of cores, slots and task           *)
(* instances.                                                              *)
(***************************************************************************)
EXTENDS Sched, TLAPS

\* A core that has entered the scheduler has a current task of its own, and
\* is on the stack of a slot of its own; the two differ only inside the switch.
OnCore ==
    \A c \in Cores : pc[c] # "boot" =>
        /\ current[c] \in Tasks /\ used[current[c]] /\ owner[current[c]] = c
        /\ stack[c] \in Tasks /\ used[stack[c]] /\ owner[stack[c]] = c
        /\ inst[c] = pid[stack[c]]
        /\ pc[c] # "switch" => stack[c] = current[c]

\* The steps of task_exit behind its reap_pending.
Exiting(c) ==
    \/ pc[c] \in {"record", "dying"}
    \/ pc[c] \in {"wake", "kick"} /\ next_pc[c] = "dying"

\* The slot to reap is an allocated one of the core; inside task_exit it can
\* only be the exiting task's own.
ReapOwn ==
    \A c \in Cores :
        /\ pc[c] = "boot" => s_reap[c] = None
        /\ s_reap[c] # None => used[s_reap[c]] /\ owner[s_reap[c]] = c
        /\ Exiting(c) => s_reap[c] \in {None, current[c]}

\* Between filling a slot and publishing it the creator holds s_tasklock, and
\* the slot carries a pid and a frame nobody else has.
Publishing ==
    /\ \A c \in Cores : s_tasklock = c <=> pc[c] = "publish"
    /\ \A c \in Cores : pc[c] = "publish" =>
          /\ arg[c] \in Tasks
          /\ ~used[arg[c]]
          /\ state[arg[c]] # "ZOMBIE"
          /\ ctx[arg[c]] = pid[arg[c]]
          /\ pid[arg[c]] < g_next_pid
          /\ \A t \in Tasks : used[t] => pid[t] # pid[arg[c]]

\* A slot in use, or about to be, belongs to a core.
OwnerKnown ==
    /\ \A t \in Tasks : used[t] => owner[t] \in Cores
    /\ \A c \in Cores : pc[c] = "publish" => owner[arg[c]] \in Cores

\* Pids are handed out in increasing order and never twice.
PidsUnique ==
    /\ \A t \in Tasks : used[t] => pid[t] < g_next_pid
    /\ \A t, u \in Tasks : used[t] /\ used[u] /\ pid[t] = pid[u] => t = u

\* What the partitioning of the pool rests on.
Partition ==
    /\ OnCore
    /\ ReapOwn
    /\ Publishing
    /\ OwnerKnown
    /\ PidsUnique
    /\ ContextOwned
    /\ NoZombieLeak

IInv == TypeOK /\ Partition

-----------------------------------------------------------------------------
LEMMA ConstantFacts ==
    /\ NCORES \in Nat \ {0} /\ MAX_TASKS \in Nat /\ TIME_SLICE \in Nat \ {0}
    /\ MaxSleep \in Nat /\ MaxPid \in Nat /\ NBoot \in Nat
    /\ NCORES <= NBoot /\ NBoot <= MAX_TASKS /\ NBoot <= MaxPid
    /\ \A t \in Tasks : t < NBoot => Core0(t) \in Cores /\ Prio0(t) \in 0 .. IDLE_PRIO
    /\ Holders \subseteq BootTasks
<1>2. \A t \in BootTasks : Boot[t].core \in Cores /\ Boot[t].prio \in 0 .. IDLE_PRIO - 1
  BY BootAssumption
<1>3. ASSUME NEW t \in Tasks, t < NBoot
      PROVE  Core0(t) \in Cores /\ Prio0(t) \in 0 .. IDLE_PRIO
  <2>1. CASE t \in Idles
    BY <2>1 DEF Core0, Prio0, Idles, IDLE_PRIO
  <2>2. CASE t \notin Idles
    <3>1. t \in BootTasks
      BY <1>3, <2>2, SizesAssumption DEF BootTasks, Tasks, Idles, Cores
    <3> QED
      BY <1>2, <2>2, <3>1 DEF Core0, Prio0, IDLE_PRIO
  <2> QED
    BY <2>1, <2>2
<1> QED
  BY <1>3, SizesAssumption, BootAssumption

LEMMA InitInv == Init => IInv
<1> SUFFICES ASSUME Init PROVE IInv
  OBVIOUS
<1> USE ConstantFacts DEF Init, Tasks, Cores, None
<1>1. TypeTcb
  BY DEF TypeTcb, States, IDLE_PRIO, Never
<1>2. TypeCore
  BY DEF TypeCore, Steps, NO_PRIO
<1>3. TypeShared
  BY DEF TypeShared
<1>4. OnCore /\ ReapOwn /\ Publishing
  BY DEF OnCore, ReapOwn, Publishing, Exiting
<1>5. OwnerKnown
  BY DEF OwnerKnown
<1>6. PidsUnique
  <2>1. \A t \in Tasks : used[t] <=> t < NBoot
    OBVIOUS
  <2>2. \A t \in Tasks : t < NBoot => pid[t] = t + 1
    OBVIOUS
  <2> HIDE DEF Init
  <2>3. g_next_pid = NBoot + 1
    BY DEF Init
  <2> QED
    BY <2>1, <2>2, <2>3 DEF PidsUnique
<1>7. ContextOwned
  BY DEF ContextOwned
<1>8. NoZombieLeak
  BY DEF NoZombieLeak
<1> QED
  BY <1>1, <1>2, <1>3, <1>4, <1>5, <1>6, <1>7, <1>8 DEF IInv, TypeOK, Partition

-----------------------------------------------------------------------------
(***************************************************************************)
(* Most steps leave the allocation of slots, the stacks and s_reap alone.  *)
(***************************************************************************)
\* What such a step of core c may change.
Quiet(c) ==
    /\ UNCHANGED <<used, owner, pid, ctx, g_next_pid, current, stack, inst, s_reap, s_tasklock>>
    /\ pc[c] \notin {"boot", "publish", "switch"}
    /\ pc'[c] \notin {"boot", "publish", "switch"}
    /\ Exiting(c)' => Exiting(c)
    /\ \A d \in Cores \ {c} : pc'[d] = pc[d] /\ arg'[d] = arg[d] /\ next_pc'[d] = next_pc[d]
    /\ \A t \in Tasks : state'[t] = "ZOMBIE" => state[t] = "ZOMBIE"

LEMMA QuietPreserves ==
  ASSUME IInv, NEW c \in Cores, Quiet(c)
  PROVE  Partition'
<1> USE DEF IInv, Partition, Quiet
<1>1. OnCore'
  BY DEF OnCore
<1>2. ReapOwn'
  BY DEF ReapOwn, Exiting
<1>3. Publishing'
  BY DEF Publishing
<1>4. OwnerKnown'
  BY DEF OwnerKnown
<1>5. PidsUnique' /\ ContextOwned' /\ NoZombieLeak'
  BY DEF PidsUnique, ContextOwned, NoZombieLeak
<1> QED
  BY <1>1, <1>2, <1>3, <1>4, <1>5

-----------------------------------------------------------------------------
(***************************************************************************)
(* One lemma per action.                                                   *)
(***************************************************************************)
LEMMA SchedEnterInv ==
  ASSUME IInv, NEW c \in Cores, SchedEnter(c)
  PROVE  IInv'
<1> USE DEF IInv, TypeOK, SchedEnter, Goto, glob, resched, call, locks
<1>0. PICK t \in Tasks :
          /\ used[t] /\ owner[t] = c
          /\ state' = [state EXCEPT ![t] = "RUNNING"]
          /\ slice' = [slice EXCEPT ![t] = TIME_SLICE]
          /\ current' = [current EXCEPT ![c] = t]
          /\ stack' = [stack EXCEPT ![c] = t]
          /\ inst' = [inst EXCEPT ![c] = ctx[t]]
  BY DEF FirstChoice, Mine
<1>1. TypeTcb'
  BY <1>0, ConstantFacts DEF TypeTcb, States
<1>2. TypeCore' /\ TypeShared'
  BY <1>0 DEF TypeTcb, TypeCore, TypeShared, Steps
<1> USE DEF Partition
<1>3. OnCore'
  BY <1>0 DEF OnCore, ContextOwned, TypeCore
<1>4. ReapOwn'
  BY <1>0 DEF ReapOwn, TypeCore, Exiting
<1>5. Publishing' /\ OwnerKnown'
  BY <1>0 DEF Publishing, OwnerKnown, TypeCore, TypeTcb
<1>6. PidsUnique' /\ ContextOwned'
  BY DEF PidsUnique, ContextOwned
<1>7. NoZombieLeak'
  BY <1>0 DEF NoZombieLeak, TypeTcb
<1> QED
  BY <1>1, <1>2, <1>3, <1>4, <1>5, <1>6, <1>7

\* reap_pending, at the head of schedule() or of task_exit.
LEMMA ReapPreserves ==
  ASSUME IInv, NEW c \in Cores, Reap(c),
         UNCHANGED <<pid, ctx, g_next_pid, cpu, s_tasklock, arg, next_pc>>,
         pc[c] \in {"clear", "svc", "task"}, NEW step \in {"scan", "record"},
         pc' = [pc EXCEPT ![c] = step]
  PROVE  Partition'
<1> DEFINE r == s_reap[c]
<1>1. CASE ~Reapable(c)
  <2>1. UNCHANGED <<state, owner, used, s_reap>>
    BY <1>1 DEF Reap
  <2>2. s_reap[c] \in {None, current[c]}
    BY <1>1 DEF Reapable
  <2> USE <2>1, <2>2 DEF IInv, TypeOK, TypeCore, Partition, cpu
  <2>3. OnCore' /\ ReapOwn'
    BY DEF OnCore, ReapOwn, Exiting
  <2>4. Publishing' /\ OwnerKnown'
    BY DEF Publishing, OwnerKnown
  <2>5. PidsUnique' /\ ContextOwned' /\ NoZombieLeak'
    BY DEF PidsUnique, ContextOwned, NoZombieLeak
  <2> QED
    BY <2>3, <2>4, <2>5
<1>2. CASE Reapable(c)
  <2>1. /\ r \in Tasks /\ used[r] /\ owner[r] = c
        /\ r # current[c] /\ r # stack[c]
    BY <1>2 DEF Reapable, IInv, TypeOK, TypeCore, Partition, ReapOwn, OnCore
  <2>2. /\ state' = [state EXCEPT ![r] = "UNUSED"]
        /\ owner' = [owner EXCEPT ![r] = None]
        /\ used' = [used EXCEPT ![r] = FALSE]
        /\ s_reap' = [s_reap EXCEPT ![c] = None]
        /\ s_tasklock = None
    BY <1>2 DEF Reap
  <2> HIDE DEF r
  <2> USE <2>1, <2>2 DEF IInv, TypeOK, TypeTcb, TypeCore, Partition, cpu
  <2>3. OnCore'
    BY DEF OnCore
  <2>4. ReapOwn'
    BY DEF ReapOwn, Exiting
  <2>5. Publishing' /\ OwnerKnown'
    BY DEF Publishing, OwnerKnown, None, Cores
  <2>6. PidsUnique' /\ ContextOwned'
    BY DEF PidsUnique, ContextOwned
  <2>7. NoZombieLeak'
    BY DEF NoZombieLeak, OwnerKnown, r
  <2> QED
    BY <2>3, <2>4, <2>5, <2>6, <2>7
<1> QED
  BY <1>1, <1>2

LEMMA ScheduleBeginInv ==
  ASSUME IInv, NEW c \in Cores, ScheduleBegin(c)
  PROVE  IInv'
<1> USE DEF IInv, TypeOK, ScheduleBegin, Goto, cpu, call, locks, glob, resched
<1>1. TypeTcb' /\ TypeShared'
  BY DEF TypeTcb, TypeCore, TypeShared, Reap, States
<1>2. TypeCore'
  BY DEF TypeCore, Reap, Steps
<1>3. Partition'
  BY ReapPreserves
<1> QED
  BY <1>1, <1>2, <1>3

LEMMA ScanBestInv ==
  ASSUME IInv, NEW c \in Cores, ScanBest(c)
  PROVE  IInv'
<1> USE DEF IInv, TypeOK, ScanBest, Goto, tcb, cpu, locks, glob, resched
<1>1. \A t \in Candidates(c) : priority[t] \in 0 .. NO_PRIO
  BY DEF Candidates, Mine, TypeTcb, IDLE_PRIO, NO_PRIO
<1>2. TypeTcb' /\ TypeShared'
  BY DEF TypeTcb, TypeShared
<1>3. TypeCore'
  BY <1>1 DEF TypeCore, Steps, NO_PRIO
<1>4. Quiet(c)
  BY DEF Quiet, Exiting, TypeCore
<1> QED
  BY <1>2, <1>3, <1>4, QuietPreserves

\* The choice of pick_next is a slot of the core.
LEMMA NextIsMine ==
  ASSUME NEW c \in Cores, NEW n \in Tasks, IsNext(c, n), n # current[c]
  PROVE  used[n] /\ owner[n] = c
  BY DEF IsNext, AtBest, Candidates, Mine

LEMMA PickNextInv ==
  ASSUME IInv, NEW c \in Cores, PickNext(c)
  PROVE  IInv'
<1> USE DEF IInv, TypeOK, PickNext, Goto, locks, glob, resched
<1>1. current[c] \in Tasks
  BY DEF Partition, OnCore
<1>2. CASE Keep(c)
  <2> USE <1>1, <1>2 DEF Keep
  <2>1. TypeTcb' /\ TypeShared'
    BY ConstantFacts DEF TypeTcb, TypeShared, States
  <2>2. TypeCore'
    BY DEF TypeCore, Steps, NO_PRIO
  <2>3. Quiet(c)
    BY DEF Quiet, Exiting, TypeCore, TypeTcb
  <2> QED
    BY <2>1, <2>2, <2>3, QuietPreserves
<1>3. ASSUME NEW n \in Tasks, SwitchTo(c, n)
      PROVE  IInv'
  <2>1. used[n] /\ owner[n] = c
    BY <1>3, NextIsMine DEF SwitchTo
  <2> USE <1>1, <1>3, <2>1 DEF SwitchTo
  <2>2. TypeTcb' /\ TypeShared'
    BY ConstantFacts DEF TypeTcb, TypeShared, States
  <2>3. TypeCore'
    BY DEF TypeCore, Steps, NO_PRIO
  <2>4. \A t \in Tasks : state'[t] = "ZOMBIE" => state[t] = "ZOMBIE"
    BY DEF TypeTcb
  <2> USE <2>4 DEF Partition
  <2>5. OnCore'
    BY DEF OnCore, TypeCore
  <2>6. ReapOwn'
    BY DEF ReapOwn, Exiting, TypeCore
  <2>7. Publishing'
    <3>1. \A d \in Cores : pc'[d] = "publish" <=> pc[d] = "publish"
      BY DEF TypeCore
    <3> HIDE DEF SwitchTo
    <3> QED
      BY <2>4, <3>1 DEF Publishing
  <2>9. OwnerKnown'
    BY DEF OwnerKnown, TypeCore
  <2>8. PidsUnique' /\ ContextOwned' /\ NoZombieLeak'
    BY DEF PidsUnique, ContextOwned, NoZombieLeak
  <2> QED
    BY <2>2, <2>3, <2>5, <2>6, <2>7, <2>8, <2>9
<1> QED
  BY <1>2, <1>3

LEMMA ContextSwitchInv ==
  ASSUME IInv, NEW c \in Cores, ContextSwitch(c)
  PROVE  IInv'
<1> USE DEF IInv, TypeOK, ContextSwitch, Goto, call, locks, glob, resched
<1>1. /\ current[c] \in Tasks /\ used[current[c]] /\ owner[current[c]] = c
      /\ stack[c] \in Tasks /\ used[stack[c]] /\ owner[stack[c]] = c
      /\ inst[c] = pid[stack[c]]
      /\ ctx[current[c]] = pid[current[c]]
  BY DEF Partition, OnCore, ContextOwned
<1> USE <1>1
<1>2. TypeTcb' /\ TypeShared'
  BY DEF TypeTcb, TypeCore, TypeShared
<1>3. TypeCore'
  BY DEF TypeTcb, TypeCore, Steps
<1> USE DEF Partition, TypeCore, TypeTcb
<1>4. OnCore'
  BY DEF OnCore
<1>5. ReapOwn'
  BY DEF ReapOwn, Exiting
<1>6. Publishing' /\ OwnerKnown'
  BY DEF Publishing, OwnerKnown
<1>7. PidsUnique' /\ ContextOwned' /\ NoZombieLeak'
  BY DEF PidsUnique, ContextOwned, NoZombieLeak
<1> QED
  BY <1>2, <1>3, <1>4, <1>5, <1>6, <1>7

-----------------------------------------------------------------------------
\* Interrupts.

LEMMA TickInv ==
  ASSUME IInv, NEW c \in Cores, Tick(c)
  PROVE  IInv'
<1> USE DEF IInv, TypeOK, Tick, Goto, tcb, cpu, call, locks, glob, resched
<1>0. \A t \in Tasks : Elapse(wake_tick[t]) \in {Never} \cup 0 .. MaxSleep
  BY ConstantFacts DEF Elapse, TypeTcb, Never
<1>1. TypeTcb' /\ TypeShared'
  BY <1>0 DEF TypeTcb, TypeCore, TypeShared, States
<1>2. TypeCore'
  BY DEF TypeCore, TypeTcb, Steps
<1>3. Quiet(c)
  BY DEF Quiet, Exiting, TypeCore, TypeTcb
<1> QED
  BY <1>1, <1>2, <1>3, QuietPreserves

LEMMA TickDeadlinesInv ==
  ASSUME IInv, NEW c \in Cores, TickDeadlines(c)
  PROVE  IInv'
<1> USE DEF IInv, TypeOK, TickDeadlines, EndOfInterrupt, Goto, tcb, cpu, call, locks, glob, resched
<1>0. current[c] \in Tasks
  BY DEF Partition, OnCore
<1>1. TypeTcb' /\ TypeShared'
  BY <1>0, ConstantFacts DEF TypeTcb, TypeCore, TypeShared, States
<1>2. TypeCore'
  BY DEF TypeCore, TypeTcb, Steps
<1>3. Quiet(c)
  BY <1>0 DEF Quiet, Exiting, TypeCore, TypeTcb
<1> QED
  BY <1>1, <1>2, <1>3, QuietPreserves

LEMMA OtherIrqInv ==
  ASSUME IInv, NEW c \in Cores, OtherIrq(c)
  PROVE  IInv'
<1> USE DEF IInv, TypeOK, OtherIrq, EndOfInterrupt, Goto, tcb, cpu, call, locks, glob, resched
<1>1. TypeTcb' /\ TypeShared'
  BY DEF TypeTcb, TypeCore, TypeShared, States
<1>2. TypeCore'
  BY DEF TypeCore, TypeTcb, Steps
<1>3. Quiet(c)
  BY DEF Quiet, Exiting, TypeCore, TypeTcb
<1> QED
  BY <1>1, <1>2, <1>3, QuietPreserves

LEMMA IrqExitInv ==
  ASSUME IInv, NEW c \in Cores, IrqExit(c)
  PROVE  IInv'
<1> USE DEF IInv, TypeOK, IrqExit, Goto, tcb, cpu, call, locks, glob, resched
<1>1. TypeTcb' /\ TypeShared'
  BY DEF TypeTcb, TypeCore, TypeShared, States
<1>2. TypeCore'
  BY DEF TypeCore, TypeTcb, Steps
<1>3. Quiet(c)
  BY DEF Quiet, Exiting, TypeCore, TypeTcb
<1> QED
  BY <1>1, <1>2, <1>3, QuietPreserves

\* Services of the current task.
LEMMA EnterInv ==
  ASSUME IInv, NEW c \in Cores, Enter(c)
  PROVE  IInv'
<1> USE DEF IInv, TypeOK, Enter, Goto, tcb, cpu, call, locks, glob, resched
<1>1. TypeTcb' /\ TypeShared'
  BY DEF TypeTcb, TypeCore, TypeShared, States
<1>2. TypeCore'
  BY DEF TypeCore, TypeTcb, Steps
<1>3. Quiet(c)
  BY DEF Quiet, Exiting, TypeCore, TypeTcb
<1> QED
  BY <1>1, <1>2, <1>3, QuietPreserves

LEMMA LeaveInv ==
  ASSUME IInv, NEW c \in Cores, Leave(c)
  PROVE  IInv'
<1> USE DEF IInv, TypeOK, Leave, Goto, tcb, cpu, call, locks, glob, resched
<1>1. TypeTcb' /\ TypeShared'
  BY DEF TypeTcb, TypeCore, TypeShared, States
<1>2. TypeCore'
  BY DEF TypeCore, TypeTcb, Steps
<1>3. Quiet(c)
  BY DEF Quiet, Exiting, TypeCore, TypeTcb
<1> QED
  BY <1>1, <1>2, <1>3, QuietPreserves

LEMMA YieldInv ==
  ASSUME IInv, NEW c \in Cores, Yield(c)
  PROVE  IInv'
<1> USE DEF IInv, TypeOK, Yield, Goto, tcb, cpu, call, locks, glob, resched
<1>1. TypeTcb' /\ TypeShared'
  BY DEF TypeTcb, TypeCore, TypeShared, States
<1>2. TypeCore'
  BY DEF TypeCore, TypeTcb, Steps
<1>3. Quiet(c)
  BY DEF Quiet, Exiting, TypeCore, TypeTcb
<1> QED
  BY <1>1, <1>2, <1>3, QuietPreserves

LEMMA SleepInv ==
  ASSUME IInv, NEW c \in Cores, NEW ticks \in 0 .. MaxSleep, Sleep(c, ticks)
  PROVE  IInv'
<1> USE DEF IInv, TypeOK, Sleep, Me, Goto, tcb, cpu, call, locks, glob, resched
<1>0. current[c] \in Tasks
  BY DEF Partition, OnCore
<1>1. TypeTcb' /\ TypeShared'
  BY <1>0 DEF TypeTcb, TypeCore, TypeShared, States
<1>2. TypeCore'
  BY DEF TypeCore, TypeTcb, Steps
<1>3. Quiet(c)
  BY <1>0 DEF Quiet, Exiting, TypeCore, TypeTcb
<1> QED
  BY <1>1, <1>2, <1>3, QuietPreserves

LEMMA BlockInv ==
  ASSUME IInv, NEW c \in Cores, NEW obj \in Objs, NEW deadline \in {Never} \cup 1 .. MaxSleep,
         Block(c, obj, deadline)
  PROVE  IInv'
<1> USE DEF IInv, TypeOK, Block, Me, Goto, tcb, cpu, call, locks, glob, resched
<1>0. current[c] \in Tasks
  BY DEF Partition, OnCore
<1>1. TypeTcb' /\ TypeShared'
  BY <1>0 DEF TypeTcb, TypeCore, TypeShared, States
<1>2. TypeCore'
  BY DEF TypeCore, TypeTcb, Steps
<1>3. Quiet(c)
  BY <1>0 DEF Quiet, Exiting, TypeCore, TypeTcb
<1> QED
  BY <1>1, <1>2, <1>3, QuietPreserves

LEMMA WakeOneInv ==
  ASSUME IInv, NEW c \in Cores, NEW obj \in Objs,
         NEW then \in {"clear", "dying"}, pc[c] \in {"svc", "record"},
         then = "dying" => pc[c] = "record",
         WakeOne(c, obj, then)
  PROVE  IInv'
<1> USE DEF IInv, TypeOK, WakeOne, Goto, tcb, cpu, call, locks, glob, resched
<1>0. PICK t \in Tasks :
          /\ state' = [state EXCEPT ![t] = "READY"]
          /\ wait_obj' = [wait_obj EXCEPT ![t] = NotWaiting]
          /\ wake_tick' = [wake_tick EXCEPT ![t] = Never]
          /\ arg' = [arg EXCEPT ![c] = t]
  BY DEF Waiters
<1>1. TypeTcb' /\ TypeShared'
  BY <1>0 DEF TypeTcb, TypeCore, TypeShared, States
<1>2. TypeCore'
  BY <1>0 DEF TypeCore, TypeTcb, TypeShared, Steps
<1>4. Exiting(c)' => Exiting(c)
  BY <1>0 DEF Exiting, TypeCore
<1>5. \A u \in Tasks : state'[u] = "ZOMBIE" => state[u] = "ZOMBIE"
  BY <1>0 DEF TypeTcb
<1>3. Quiet(c)
  BY <1>0, <1>4, <1>5 DEF Quiet, TypeCore
<1> QED
  BY <1>1, <1>2, <1>3, QuietPreserves

LEMMA PostInv ==
  ASSUME IInv, NEW c \in Cores, NEW obj \in Objs, Post(c, obj)
  PROVE  IInv'
  BY WakeOneInv DEF Post

LEMMA KickInv ==
  ASSUME IInv, NEW c \in Cores, Kick(c)
  PROVE  IInv'
<1> USE DEF IInv, TypeOK, Kick, Goto, tcb, cpu, call, locks, glob, resched
<1>1. TypeTcb' /\ TypeShared'
  BY DEF TypeTcb, TypeCore, TypeShared, States
<1>4. need_resched' \in [Cores -> BOOLEAN] /\ clearing' \in SUBSET Cores /\ swallowed' \in SUBSET Cores
  <2>1. CASE Deliver(c, owner[arg[c]])
    BY <2>1 DEF Deliver, Request, TypeCore
  <2>2. CASE Swallow(c, owner[arg[c]])
    BY <2>2 DEF Swallow, TypeCore
  <2> QED BY <2>1, <2>2
<1>5. /\ pc' \in [Cores -> Steps] /\ next_pc' \in [Cores -> {"task", "svc", "clear", "dying"}]
      /\ arg' \in [Cores -> Tasks \cup {None}] /\ target' \in [Cores -> 0 .. MaxPid]
  BY ConstantFacts DEF TypeCore, Steps
<1>6. UNCHANGED <<current, s_reap, stack, inst, best>>
  OBVIOUS
<1>2. TypeCore'
  <2> HIDE DEF Kick
  <2> QED BY <1>4, <1>5, <1>6 DEF TypeCore
<1>3. Quiet(c)
  BY DEF Quiet, Exiting, TypeCore, TypeTcb
<1> QED
  BY <1>1, <1>2, <1>3, QuietPreserves

LEMMA LockInv ==
  ASSUME IInv, NEW c \in Cores, Lock(c)
  PROVE  IInv'
<1> USE DEF IInv, TypeOK, Lock, Me, Goto, tcb, cpu, call, locks, glob, resched
<1>1. TypeTcb' /\ TypeShared'
  BY DEF TypeTcb, TypeCore, TypeShared, States
<1>2. TypeCore'
  BY DEF TypeCore, TypeTcb, TypeShared, Steps
<1>3. Quiet(c)
  BY DEF Quiet, Exiting, TypeCore, TypeTcb
<1> QED
  BY <1>1, <1>2, <1>3, QuietPreserves

LEMMA BoostInv ==
  ASSUME IInv, NEW c \in Cores, NEW t \in Holders, Boost(c, t)
  PROVE  IInv'
<1> USE DEF IInv, TypeOK, Boost, Me, Goto, tcb, cpu, call, locks, glob, resched
<1>0. current[c] \in Tasks
  BY DEF Partition, OnCore
<1>4. t \in Tasks
  BY ConstantFacts DEF BootTasks, Tasks
<1>1. TypeTcb' /\ TypeShared'
  BY <1>0, <1>4 DEF TypeTcb, TypeCore, TypeShared, States
<1>2. TypeCore'
  BY <1>4 DEF TypeCore, TypeTcb, TypeShared, Steps
<1>3. Quiet(c)
  BY <1>0 DEF Quiet, Exiting, TypeCore, TypeTcb
<1> QED
  BY <1>1, <1>2, <1>3, QuietPreserves

LEMMA UnlockInv ==
  ASSUME IInv, NEW c \in Cores, Unlock(c)
  PROVE  IInv'
<1> USE DEF IInv, TypeOK, Unlock, Me, Goto, tcb, cpu, call, locks, glob, resched
<1>0. current[c] \in Tasks
  BY DEF Partition, OnCore
<1>5. current[c] \in BootTasks
  BY ConstantFacts DEF TypeShared
<1>6. current[c] \in Tasks /\ current[c] < NBoot
  BY <1>0, <1>5, ConstantFacts DEF BootTasks
<1>4. Prio0(current[c]) \in 0 .. IDLE_PRIO
  BY <1>6, ConstantFacts
<1>1. TypeTcb' /\ TypeShared'
  BY <1>0, <1>4 DEF TypeTcb, TypeCore, TypeShared, States
<1>2. TypeCore'
  BY DEF TypeCore, TypeTcb, TypeShared, Steps
<1>3. Quiet(c)
  BY <1>0 DEF Quiet, Exiting, TypeCore, TypeTcb
<1> QED
  BY <1>1, <1>2, <1>3, QuietPreserves

\* Creation.
LEMMA CreateFillInv ==
  ASSUME IInv, NEW c \in Cores, NEW core \in Cores, CreateFill(c, core)
  PROVE  IInv'
<1> USE DEF IInv, TypeOK
<1>1. PICK t \in Tasks :
          /\ ~used[t]
          /\ pid' = [pid EXCEPT ![t] = g_next_pid]
          /\ state' = [state EXCEPT ![t] = "SETUP"]
          /\ priority' = [priority EXCEPT ![t] = SPAWN_PRIO]
          /\ owner' = [owner EXCEPT ![t] = core]
          /\ slice' = [slice EXCEPT ![t] = TIME_SLICE]
          /\ wake_tick' = [wake_tick EXCEPT ![t] = Never]
          /\ wait_obj' = [wait_obj EXCEPT ![t] = NotWaiting]
          /\ user' = [user EXCEPT ![t] = FALSE]
          /\ kill_pending' = [kill_pending EXCEPT ![t] = FALSE]
          /\ exited' = [exited EXCEPT ![t] = FALSE]
          /\ ctx' = [ctx EXCEPT ![t] = g_next_pid]
          /\ arg' = [arg EXCEPT ![c] = t]
  BY DEF CreateFill, FirstFree, NewState
<1>2. /\ pc[c] = "svc" /\ s_tasklock = None /\ g_next_pid <= MaxPid
      /\ g_next_pid' = g_next_pid + 1 /\ s_tasklock' = c
      /\ pc' = [pc EXCEPT ![c] = "publish"]
      /\ UNCHANGED <<used, current, stack, inst, best, target, next_pc, s_ipclock,
                     need_resched, clearing, swallowed, s_reap, locking>>
  BY DEF CreateFill, Goto, cpu, resched
<1>3. TypeTcb'
  BY <1>1, <1>2, ConstantFacts DEF TypeTcb, TypeShared, States, SPAWN_PRIO, IDLE_PRIO
<1>4. TypeCore' /\ TypeShared'
  BY <1>1, <1>2, ConstantFacts DEF TypeCore, TypeShared, Steps
<1> USE <1>1, <1>2 DEF Partition
<1>5. \A u \in Tasks : used[u] =>
        u # t /\ pid'[u] = pid[u] /\ owner'[u] = owner[u] /\ ctx'[u] = ctx[u] /\ state'[u] = state[u]
  BY DEF TypeTcb
<1>6. pid'[t] = g_next_pid /\ ctx'[t] = g_next_pid /\ owner'[t] = core /\ state'[t] = "SETUP"
  BY DEF TypeTcb
<1>7. \A d \in Cores : /\ pc[d] # "publish"
                       /\ pc'[d] = "publish" <=> d = c
                       /\ d # c => pc'[d] = pc[d]
  BY DEF TypeCore, Publishing, None, Cores
<1>8. OnCore'
  BY <1>5, <1>7 DEF OnCore
<1>9. ReapOwn'
  BY <1>5, <1>7 DEF ReapOwn, Exiting, TypeCore
<1>10. Publishing'
  BY <1>5, <1>6, <1>7 DEF Publishing, PidsUnique, TypeCore, TypeShared
<1>11. OwnerKnown'
  BY <1>5, <1>6, <1>7 DEF OwnerKnown, TypeCore
<1>12. PidsUnique'
  BY <1>5 DEF PidsUnique, TypeShared, TypeTcb
<1>13. ContextOwned' /\ NoZombieLeak'
  BY <1>5 DEF ContextOwned, NoZombieLeak
<1> QED
  BY <1>3, <1>4, <1>8, <1>9, <1>10, <1>11, <1>12, <1>13

LEMMA CreatePublishInv ==
  ASSUME IInv, NEW c \in Cores, CreatePublish(c)
  PROVE  IInv'
<1> USE DEF IInv, TypeOK, CreatePublish, Goto, cpu, call, glob, resched
<1>1. /\ arg[c] \in Tasks /\ ~used[arg[c]] /\ state[arg[c]] # "ZOMBIE"
      /\ ctx[arg[c]] = pid[arg[c]] /\ pid[arg[c]] < g_next_pid
      /\ owner[arg[c]] \in Cores
      /\ \A t \in Tasks : used[t] => pid[t] # pid[arg[c]]
  BY DEF Partition, Publishing, OwnerKnown
<1>2. TypeTcb' /\ TypeCore' /\ TypeShared'
  BY DEF TypeTcb, TypeCore, TypeShared, Steps
<1>3. \A t \in Tasks : used'[t] <=> used[t] \/ t = arg[c]
  BY DEF TypeTcb
<1>4. \A d \in Cores : pc'[d] # "publish" /\ (d # c => pc'[d] = pc[d])
  BY DEF TypeCore, Partition, Publishing
<1> USE DEF Partition
<1>5. OnCore'
  BY <1>3, <1>4 DEF OnCore
<1>6. ReapOwn'
  BY <1>3, <1>4 DEF ReapOwn, Exiting, TypeCore
<1>7. Publishing'
  BY <1>4 DEF Publishing, None, Cores
<1>8. OwnerKnown'
  BY <1>1, <1>3, <1>4 DEF OwnerKnown
<1>9. PidsUnique' /\ ContextOwned' /\ NoZombieLeak'
  BY <1>1, <1>3 DEF PidsUnique, ContextOwned, NoZombieLeak
<1> QED
  BY <1>2, <1>5, <1>6, <1>7, <1>8, <1>9

LEMMA AdmitInv ==
  ASSUME IInv, NEW c \in Cores, Admit(c)
  PROVE  IInv'
<1> USE DEF IInv, TypeOK, Admit, Goto, tcb, cpu, call, locks, glob, resched
<1>1. TypeTcb' /\ TypeShared'
  BY DEF TypeTcb, TypeCore, TypeShared, States
<1>2. TypeCore'
  BY DEF TypeCore, TypeTcb, TypeShared, Steps
<1>3. Quiet(c)
  BY DEF Quiet, Exiting, TypeCore, TypeTcb
<1> QED
  BY <1>1, <1>2, <1>3, QuietPreserves

\* sched_kill_pid.
LEMMA KillFindInv ==
  ASSUME IInv, NEW c \in Cores, NEW t \in Tasks, KillFind(c, t)
  PROVE  IInv'
<1> USE DEF IInv, TypeOK, KillFind, Goto, tcb, cpu, call, locks, glob, resched
<1>1. TypeTcb' /\ TypeShared'
  BY DEF TypeTcb, TypeCore, TypeShared, States
<1>2. TypeCore'
  BY DEF TypeCore, TypeTcb, TypeShared, Steps
<1>3. Quiet(c)
  BY DEF Quiet, Exiting, TypeCore, TypeTcb
<1> QED
  BY <1>1, <1>2, <1>3, QuietPreserves

LEMMA KillMarkInv ==
  ASSUME IInv, NEW c \in Cores, KillMark(c)
  PROVE  IInv'
<1> USE DEF IInv, TypeOK, KillMark, NeedsWake, Goto, tcb, cpu, call, locks, glob, resched
<1>1. TypeTcb' /\ TypeShared'
  BY DEF TypeTcb, TypeCore, TypeShared, States
<1>2. TypeCore'
  BY DEF TypeCore, TypeTcb, TypeShared, Steps
<1>3. Quiet(c)
  BY DEF Quiet, Exiting, TypeCore, TypeTcb
<1> QED
  BY <1>1, <1>2, <1>3, QuietPreserves

LEMMA KillWakeInv ==
  ASSUME IInv, NEW c \in Cores, KillWake(c)
  PROVE  IInv'
<1> USE DEF IInv, TypeOK, KillWake, Goto, tcb, cpu, call, locks, glob, resched
<1>1. TypeTcb' /\ TypeShared'
  BY DEF TypeTcb, TypeCore, TypeShared, States
<1>2. TypeCore'
  BY DEF TypeCore, TypeTcb, TypeShared, Steps
<1>3. Quiet(c)
  BY DEF Quiet, Exiting, TypeCore, TypeTcb
<1> QED
  BY <1>1, <1>2, <1>3, QuietPreserves

\* task_exit.
LEMMA ExitEnterInv ==
  ASSUME IInv, NEW c \in Cores, ExitEnter(c), pc[c] \in {"svc", "task"}
  PROVE  IInv'
<1> USE DEF IInv, TypeOK, ExitEnter, ExitReap, Goto, cpu, call, locks, glob, resched
<1>1. TypeTcb' /\ TypeShared'
  BY DEF TypeTcb, TypeCore, TypeShared, Reap, States
<1>2. TypeCore'
  BY DEF TypeCore, Reap, Steps
<1>3. Partition'
  BY ReapPreserves
<1> QED
  BY <1>1, <1>2, <1>3

LEMMA ExitZombieInv ==
  ASSUME IInv, NEW c \in Cores, ExitZombie(c)
  PROVE  IInv'
<1> USE DEF IInv, TypeOK, ExitZombie, Me, Goto, cpu, call, locks, glob, resched
<1>0. /\ current[c] \in Tasks /\ used[current[c]] /\ owner[current[c]] = c
      /\ s_reap[c] \in {None, current[c]}
  <2>1. pc[c] # "boot" /\ Exiting(c)
    BY DEF Exiting
  <2> QED
    BY <2>1 DEF Partition, OnCore, ReapOwn
<1> USE <1>0
<1>1. TypeTcb' /\ TypeCore' /\ TypeShared'
  BY DEF TypeTcb, TypeCore, TypeShared, States, Steps
<1> USE DEF Partition
<1>2. OnCore'
  BY DEF OnCore, TypeCore
<1>3. ReapOwn'
  BY DEF ReapOwn, Exiting, TypeCore
<1>4. Publishing' /\ OwnerKnown'
  BY DEF Publishing, OwnerKnown, TypeCore, TypeTcb
<1>5. PidsUnique' /\ ContextOwned'
  BY DEF PidsUnique, ContextOwned
<1>6. NoZombieLeak'
  BY DEF NoZombieLeak, OwnerKnown, TypeCore, TypeTcb, None, Tasks
<1> QED
  BY <1>1, <1>2, <1>3, <1>4, <1>5, <1>6

-----------------------------------------------------------------------------
LEMMA StepInv == IInv /\ [Next]_vars => IInv'
<1> SUFFICES ASSUME IInv, [Next]_vars PROVE IInv'
  OBVIOUS
<1>1. CASE UNCHANGED vars
  BY <1>1 DEF vars, tcb, cpu, call, locks, glob, resched, IInv, TypeOK, TypeTcb, TypeCore, TypeShared,
     Partition, OnCore, ReapOwn, Exiting, Publishing, OwnerKnown, PidsUnique, ContextOwned,
     NoZombieLeak
<1>2. ASSUME NEW c \in Cores, CoreStep(c)
      PROVE  IInv'
  <2>1. CASE SchedEnter(c)
    BY <2>1, SchedEnterInv
  <2>2. CASE Schedule(c)
    BY <2>2, ScheduleBeginInv, ScanBestInv, PickNextInv, ContextSwitchInv DEF Schedule
  <2>3. CASE Irq(c)
    BY <2>3, TickInv, TickDeadlinesInv, OtherIrqInv, IrqExitInv DEF Irq
  <2>4. CASE Service(c)
    BY <2>4, EnterInv, LeaveInv, YieldInv, SleepInv, BlockInv, PostInv, LockInv, BoostInv,
       UnlockInv, KickInv DEF Service
  <2>5. CASE Create(c)
    BY <2>5, CreateFillInv, CreatePublishInv, AdmitInv DEF Create
  <2>6. CASE Kill(c)
    BY <2>6, KillFindInv, KillMarkInv, KillWakeInv DEF Kill
  <2>7. CASE Die(c)
    <3>1. CASE Exit(c) \/ SafePoint(c)
      BY <3>1, ExitEnterInv DEF Exit, SafePoint
    <3>2. ASSUME NEW obj \in Objs, ExitNotify(c, obj)
          PROVE  IInv'
      BY <3>2, WakeOneInv DEF ExitNotify
    <3>3. CASE ExitZombie(c)
      BY <3>3, ExitZombieInv
    <3> QED
      BY <2>7, <3>1, <3>2, <3>3 DEF Die
  <2> QED
    BY <1>2, <2>1, <2>2, <2>3, <2>4, <2>5, <2>6, <2>7 DEF CoreStep
<1> QED
  BY <1>1, <1>2 DEF Next

\* The allocation invariant holds for every number of cores, slots, kernel
\* tasks and task instances.
THEOREM Invariance == Spec => []IInv
  BY InitInv, StepInv, PTL DEF Spec

\* Every field of the pool and every per-core variable keeps its range; in
\* particular current[] and s_reap[] index the pool or hold -1.
THEOREM TypeCorrect == Spec => []TypeOK
<1>1. IInv => TypeOK
  BY DEF IInv
<1> QED
  BY <1>1, Invariance, PTL

\* The stack a core runs on is never freed or reused under it (ZOMBIE and
\* s_reap in task_exit, reap_pending one schedule() later).
THEOREM StackSafety == Spec => []StackOwned
<1>1. IInv => StackOwned
  BY DEF IInv, Partition, OnCore, StackOwned
<1> QED
  BY <1>1, Invariance, PTL

\* The saved context of an allocated slot is the context of the instance that
\* holds it: a late write of context_switch never hits a reused slot.
THEOREM ContextSafety == Spec => []ContextOwned
<1>1. IInv => ContextOwned
  BY DEF IInv, Partition
<1> QED
  BY <1>1, Invariance, PTL

\* Partitioning: a pid names one slot, and one core executes it.
THEOREM Partitioned == Spec => []OneCorePerTask
<1>1. IInv => OneCorePerTask
  <2> SUFFICES ASSUME IInv PROVE OneCorePerTask
    OBVIOUS
  <2>1. ASSUME NEW c \in Cores, NEW d \in Cores, pc[c] # "boot", pc[d] # "boot",
               inst[c] = inst[d]
        PROVE  c = d
    <3>1. stack[c] = stack[d]
      BY <2>1 DEF IInv, Partition, OnCore, PidsUnique
    <3> QED
      BY <2>1, <3>1 DEF IInv, Partition, OnCore
  <2> QED
    BY <2>1 DEF IInv, Partition, PidsUnique, OneCorePerTask
<1> QED
  BY <1>1, Invariance, PTL

\* No exited task's slot is lost: the ZOMBIE of a core is the one in s_reap.
THEOREM NoLeak == Spec => []NoZombieLeak
<1>1. IInv => NoZombieLeak
  BY DEF IInv, Partition
<1> QED
  BY <1>1, Invariance, PTL

-----------------------------------------------------------------------------
(***************************************************************************)
(* The lives of the tasks, while no mutex is contended.  sched_set_prio on *)
(* an owner that runs or is chosen on another core invalidates the best    *)
(* priority of pick_next, and its fallback then runs a dead task           *)
(* (ZombieStaysDead): what follows is about systems without such a mutex.  *)
(***************************************************************************)
\* No mutex is taken that others contend for.
NoContention == Holders = {}

\* The current task runs, except where its core is choosing another one.
Choosing(c) == pc[c] \in {"boot", "clear", "scan", "pick"}
CurrentRuns == \A c \in Cores : ~Choosing(c) => state[current[c]] = "RUNNING"

\* The idle task is always there to be chosen, and calls no service.
InService(c) == pc[c] \in {"svc", "publish", "setup", "match", "wake", "kick", "record", "dying"}
IdleReady ==
    /\ \A c \in Cores : /\ used[c] /\ owner[c] = c /\ ~user[c]
                        /\ state[c] \in {"READY", "RUNNING"}
                        /\ state[c] = "RUNNING" => pc[c] # "boot" /\ current[c] = c
    /\ \A c \in Cores : InService(c) => current[c] \notin Idles

\* A slot that is free has no task in it, and one to be reaped has a dead one.
Alive == {"READY", "RUNNING", "SLEEPING", "BLOCKED", "ZOMBIE"}
FreeIsEmpty ==
    /\ \A t \in Tasks : state[t] \in Alive => used[t]
    /\ \A c \in Cores : s_reap[c] # None => state[s_reap[c]] = "ZOMBIE"

\* A kill holds s_ipclock, and whom it is about to wake cannot run before: if its own
\* tick has woken it, its core is at the lock.
VictimWaits ==
    /\ \A c \in Cores : pc[c] \in {"match", "wake"} => s_ipclock = c /\ arg[c] \in Tasks
    /\ \A c \in Cores : pc[c] = "wake" =>
          \/ state[arg[c]] \in {"SLEEPING", "BLOCKED"}
          \/ state[arg[c]] = "READY" /\ pc[owner[arg[c]]] = "deadline"

\* A slot between CreateFill and Admit is its creator's alone.
Creating(c) == pc[c] \in {"publish", "setup"}
SetupOwned ==
    /\ \A c \in Cores : Creating(c) =>
          /\ arg[c] \in Tasks /\ state[arg[c]] = "SETUP" /\ priority[arg[c]] = SPAWN_PRIO
          /\ owner[arg[c]] = c => user[current[c]]
          /\ pc[c] = "setup" => used[arg[c]]
    /\ \A c, d \in Cores : Creating(c) /\ Creating(d) /\ arg[c] = arg[d] => c = d

\* A process that left SETUP has its address space, and the priority of a process.
UserReady ==
    /\ \A t \in Tasks : used[t] /\ pid[t] > NBoot /\ state[t] # "SETUP" => user[t]
    /\ \A t \in Tasks : used[t] /\ user[t] => priority[t] = SPAWN_PRIO

\* What pick_next has seen stays there until it takes it.
BestStands ==
    \A c \in Cores : pc[c] = "pick" =>
        /\ AtBest(c) # {}
        /\ state[current[c]] = "RUNNING" => best[c] <= priority[current[c]]

\* A READY task better than what its core runs has a request of its own under way, or
\* the core's own late clear has taken it.
Asked(c) == need_resched[c] \/ c \in swallowed
Requested(t) == Asked(owner[t]) \/ \E d \in Cores : pc[d] = "kick" /\ arg[d] = t
Outranked(c, t) ==
    \/ pc[c] \in {"boot", "clear", "scan"}
    \/ pc[c] = "pick" /\ best[c] <= priority[t]
    \/ ~Choosing(c) /\ priority[current[c]] <= priority[t]
AllRequested ==
    \A t \in Tasks : used[t] /\ state[t] = "READY" => Requested(t) \/ Outranked(owner[t], t)

LifeInv ==
    /\ locking = {}
    /\ CurrentRuns /\ IdleReady
    /\ FreeIsEmpty /\ VictimWaits
    /\ SetupOwned /\ UserReady
    /\ BestStands /\ AllRequested
    /\ NoPhantomAspace

LEMMA CoreIsIdle == \A c \in Cores : c \in Tasks /\ c < NBoot /\ Core0(c) = c
BY ConstantFacts DEF Cores, Tasks, Core0, Idles

LEMMA LifeInit == NoContention /\ Init => LifeInv
<1> SUFFICES ASSUME NoContention, Init PROVE LifeInv
  OBVIOUS
<1> USE CoreIsIdle DEF Init
<1>2. locking = {} /\ CurrentRuns /\ VictimWaits /\ SetupOwned /\ BestStands /\ NoPhantomAspace
  BY DEF CurrentRuns, Choosing, VictimWaits, SetupOwned, Creating, BestStands, NoPhantomAspace
<1>3. IdleReady
  BY DEF IdleReady, InService
<1>4. FreeIsEmpty
  BY DEF FreeIsEmpty, Alive
<1>5. UserReady
  <2>1. \A t \in Tasks : used[t] => t < NBoot /\ pid[t] = t + 1 /\ ~user[t]
    OBVIOUS
  <2> HIDE DEF Init
  <2>2. \A t \in Tasks : used[t] => ~(pid[t] > NBoot)
    BY <2>1, ConstantFacts DEF Tasks
  <2> QED BY <2>1, <2>2 DEF UserReady
<1>6. AllRequested
  BY ConstantFacts DEF AllRequested, Outranked
<1> QED BY <1>2, <1>3, <1>4, <1>5, <1>6 DEF LifeInv

\* A core past sched_enter has a task of its own.
LEMMA OwnTask ==
    ASSUME IInv, NEW c \in Cores, pc[c] # "boot"
    PROVE  /\ current[c] \in Tasks /\ used[current[c]] /\ owner[current[c]] = c
           /\ stack[c] \in Tasks /\ used[stack[c]] /\ inst[c] = pid[stack[c]]
BY DEF IInv, Partition, OnCore

\* A step of core c that leaves every task where it is and does not create one.
Plain(c) ==
    /\ UNCHANGED <<used, state, priority, owner, pid, user, current, stack, inst, s_reap, locking>>
    /\ \A d \in Cores \ {c} : pc'[d] = pc[d] /\ arg'[d] = arg[d] /\ best'[d] = best[d]
    /\ pc[c] # "boot" /\ pc'[c] \notin {"boot", "publish", "setup"}
    /\ Choosing(c) => Choosing(c)'
    /\ InService(c)' => InService(c) \/ current[c] \notin Idles

LEMMA PlainKeeps ==
    ASSUME IInv, LifeInv, NEW c \in Cores, Plain(c)
    PROVE  /\ locking' = {} /\ CurrentRuns' /\ IdleReady' /\ FreeIsEmpty' /\ SetupOwned'
           /\ UserReady' /\ NoPhantomAspace'
           /\ pc'[c] # "pick" => BestStands'
<1> USE DEF LifeInv, Plain
<1>1. locking' = {} /\ FreeIsEmpty' /\ UserReady'
  BY DEF FreeIsEmpty, UserReady
<1>2. CurrentRuns'
  BY DEF CurrentRuns, Choosing
<1>3. IdleReady'
  BY DEF IdleReady, InService
<1>4. SetupOwned'
  BY DEF SetupOwned, Creating
<1>5. NoPhantomAspace'
  BY DEF NoPhantomAspace
<1>6. ASSUME pc'[c] # "pick" PROVE BestStands'
  <2>1. \A d \in Cores \ {c} : (AtBest(d))' = AtBest(d)
    BY DEF AtBest, Candidates, Mine
  <2> QED BY <1>6, <2>1 DEF BestStands
<1> QED BY <1>1, <1>2, <1>3, <1>4, <1>5, <1>6

\* Such a step takes no request away, unless the core is about to choose.
LEMMA PlainRequests ==
    ASSUME IInv, LifeInv, NEW c \in Cores, Plain(c),
           \A d \in Cores : Asked(d) /\ ~Asked(d)' => d = c /\ pc'[c] \in {"clear", "scan"},
           \A d \in Cores : pc[c] = "kick" /\ owner[arg[c]] = d => Asked(d)' \/ pc[d] \in {"clear", "scan"},
           \/ pc'[c] = "pick" /\ \A t \in Candidates(c) : best'[c] <= priority[t]
           \/ pc'[c] \in {"clear", "scan"}
           \/ ~Choosing(c)' /\ ~Choosing(c)
    PROVE  AllRequested'
<1> USE DEF LifeInv, Plain
<1> SUFFICES ASSUME NEW t \in Tasks, used[t], state[t] = "READY", ~Requested(t)'
             PROVE  Outranked(owner[t], t)'
  BY DEF AllRequested
<1>1. owner[t] \in Cores
  BY DEF IInv, Partition, OwnerKnown
<1>2. CASE owner[t] = c /\ pc'[c] \in {"clear", "scan"}
  BY <1>2 DEF Outranked
<1>3. CASE owner[t] = c /\ pc'[c] = "pick"
  <2>1. t \in Candidates(c)
    BY <1>3 DEF Candidates, Mine
  <2> QED BY <1>3, <2>1 DEF Outranked, Choosing
<1>5. CASE owner[t] # c /\ pc[owner[t]] \in {"clear", "scan"}
  BY <1>1, <1>5 DEF Outranked
<1>4. CASE /\ ~(owner[t] = c /\ pc'[c] \in {"clear", "scan", "pick"})
           /\ ~(owner[t] # c /\ pc[owner[t]] \in {"clear", "scan"})
  <2>1. ~Requested(t)
    <3>1. ~Asked(owner[t])' /\ ~Asked(owner[t])
      BY <1>1, <1>4 DEF Requested
    <3>2. ASSUME NEW d \in Cores, pc[d] = "kick", arg[d] = t PROVE FALSE
      <4>1. CASE d = c
        BY <1>1, <1>4, <3>1, <3>2, <4>1
      <4>2. CASE d # c
        BY <3>2, <4>2 DEF Requested
      <4> QED BY <4>1, <4>2
    <3> QED BY <3>1, <3>2 DEF Requested
  <2>2. Outranked(owner[t], t)
    BY <2>1 DEF AllRequested
  <2>3. CASE owner[t] # c
    BY <1>1, <2>2, <2>3 DEF Outranked, Choosing
  <2>4. CASE owner[t] = c
    BY <1>4, <2>2, <2>4 DEF Outranked, Choosing
  <2> QED BY <2>3, <2>4
<1> QED BY <1>2, <1>3, <1>4, <1>5

LEMMA PlainVictims ==
    ASSUME IInv, LifeInv, NEW c \in Cores, Plain(c),
           pc[c] \notin {"deadline", "match"}, pc'[c] \notin {"match", "wake"},
           pc[c] \notin {"match", "wake"} => s_ipclock' \in {s_ipclock, IF s_ipclock = c THEN None ELSE s_ipclock}
    PROVE  VictimWaits'
<1> USE DEF LifeInv, Plain
<1>1. \A d \in Cores : pc'[d] \in {"match", "wake"} => d # c /\ pc[d] = pc'[d] /\ s_ipclock = d
  BY DEF VictimWaits
<1>2. \A d \in Cores : pc[d] = "deadline" => pc'[d] = "deadline"
  OBVIOUS
<1>3. ASSUME NEW d \in Cores, pc'[d] = "wake"
      PROVE  \/ state'[arg'[d]] \in {"SLEEPING", "BLOCKED"}
             \/ state'[arg'[d]] = "READY" /\ pc'[owner'[arg'[d]]] = "deadline"
  <2>1. /\ arg[d] \in Tasks /\ arg'[d] = arg[d]
        /\ \/ state[arg[d]] \in {"SLEEPING", "BLOCKED"}
           \/ state[arg[d]] = "READY" /\ pc[owner[arg[d]]] = "deadline"
    BY <1>1, <1>3 DEF VictimWaits
  <2>2. state[arg[d]] = "READY" => owner[arg[d]] \in Cores
    BY <2>1 DEF FreeIsEmpty, Alive, IInv, Partition, OwnerKnown
  <2> QED BY <1>2, <2>1, <2>2
<1>4. \A d \in Cores : pc'[d] \in {"match", "wake"} => s_ipclock' = d /\ arg'[d] \in Tasks
  BY <1>1 DEF VictimWaits
<1> QED BY <1>3, <1>4 DEF VictimWaits

LEMMA PlainLife ==
    ASSUME IInv, LifeInv, NEW c \in Cores,
           \/ OtherIrq(c) \/ IrqExit(c) \/ Enter(c) \/ Leave(c) \/ Yield(c) \/ Kick(c)
    PROVE  LifeInv'
<1> USE DEF IInv, TypeOK, TypeCore
<1>1. Plain(c)
  <2> USE DEF Plain, Choosing, InService, tcb, cpu, call, locks, glob, resched, Goto
  <2>1. CASE OtherIrq(c)
    BY <2>1 DEF OtherIrq, EndOfInterrupt
  <2>2. CASE IrqExit(c)
    BY <2>2 DEF IrqExit
  <2>3. CASE Enter(c)
    BY <2>3 DEF Enter, Me
  <2>4. CASE Leave(c)
    BY <2>4 DEF Leave
  <2>5. CASE Yield(c)
    BY <2>5 DEF Yield
  <2>6. CASE Kick(c)
    BY <2>6 DEF Kick
  <2> QED BY <2>1, <2>2, <2>3, <2>4, <2>5, <2>6
<1>2. /\ pc[c] \notin {"deadline", "match", "wake"} /\ pc'[c] \notin {"match", "wake", "pick"}
      /\ s_ipclock' \in {s_ipclock, IF s_ipclock = c THEN None ELSE s_ipclock}
  BY DEF OtherIrq, EndOfInterrupt, IrqExit, Enter, Leave, Yield, Kick, Goto, locks
<1>3. VictimWaits'
  BY <1>1, <1>2, PlainVictims
<1>4. /\ \A d \in Cores : Asked(d) /\ ~Asked(d)' => d = c /\ pc'[c] \in {"clear", "scan"}
      /\ \A d \in Cores : pc[c] = "kick" /\ owner[arg[c]] = d => Asked(d)' \/ pc[d] \in {"clear", "scan"}
      /\ pc'[c] \in {"clear", "scan"} \/ (~Choosing(c)' /\ ~Choosing(c))
  <2>1. CASE Kick(c)
    <3>1. pc'[c] \in {"clear", "scan"} \/ (~Choosing(c)' /\ ~Choosing(c))
      BY <2>1 DEF Kick, Goto, Choosing
    <3>2. CASE Deliver(c, owner[arg[c]])
      BY <2>1, <3>1, <3>2 DEF Deliver, Request, Asked
    <3>3. CASE Swallow(c, owner[arg[c]])
      BY <2>1, <3>1, <3>3 DEF Swallow, Asked
    <3> QED BY <2>1, <3>2, <3>3 DEF Kick
  <2>2. CASE IrqExit(c)
    BY <2>2 DEF IrqExit, Goto, Choosing, Asked
  <2>3. CASE OtherIrq(c) \/ Enter(c) \/ Leave(c) \/ Yield(c)
    BY <2>3 DEF OtherIrq, EndOfInterrupt, Enter, Leave, Yield, Goto, Choosing, Asked, resched
  <2> QED BY <2>1, <2>2, <2>3
<1>5. AllRequested'
  BY <1>1, <1>4, PlainRequests
<1> QED BY <1>1, <1>2, <1>3, <1>5, PlainKeeps DEF LifeInv

LEMMA ScanBestLife ==
    ASSUME IInv, LifeInv, NEW c \in Cores, ScanBest(c)
    PROVE  LifeInv'
<1> USE DEF IInv, TypeOK, TypeCore
<1>1. Plain(c) /\ pc[c] = "scan" /\ pc'[c] = "pick" /\ s_ipclock' = s_ipclock /\ UNCHANGED <<need_resched, swallowed>>
  BY DEF ScanBest, Plain, Choosing, InService, tcb, cpu, call, locks, glob, resched, Goto
<1>2. /\ \A t \in Candidates(c) : best'[c] <= priority[t]
      /\ best'[c] \in {priority[t] : t \in Candidates(c)} \cup {NO_PRIO}
      /\ best'[c] = NO_PRIO => Candidates(c) = {}
  BY DEF ScanBest
<1>3. c \in Candidates(c)
  BY CoreIsIdle DEF LifeInv, IdleReady, Candidates, Mine
<1>4. PICK n \in Candidates(c) : best'[c] = priority[n]
  BY <1>2, <1>3
<1>5. (Candidates(c))' = Candidates(c)
  BY <1>1 DEF Plain, Candidates, Mine
<1>6. BestStands'
  <2>1. \A d \in Cores \ {c} : (AtBest(d))' = AtBest(d)
    BY <1>1 DEF Plain, AtBest, Candidates, Mine
  <2>2. n \in (AtBest(c))'
    BY <1>1, <1>4, <1>5 DEF AtBest, Plain
  <2>3. state[current[c]] = "RUNNING" => current[c] \in Candidates(c)
    BY <1>1, OwnTask DEF Candidates, Mine
  <2> QED BY <1>1, <1>2, <2>1, <2>2, <2>3 DEF LifeInv, BestStands, Plain
<1>7. VictimWaits'
  BY <1>1, PlainVictims
<1>8. AllRequested'
  <2>1. \A d \in Cores : Asked(d)' = Asked(d)
    BY <1>1 DEF Asked
  <2> QED BY <1>1, <1>2, <2>1, PlainRequests
<1> QED BY <1>1, <1>6, <1>7, <1>8, PlainKeeps DEF LifeInv

LEMMA KillFindLife ==
    ASSUME IInv, LifeInv, NEW c \in Cores, NEW t \in Tasks, KillFind(c, t)
    PROVE  LifeInv'
<1> USE DEF IInv, TypeOK, TypeCore
<1>1. /\ Plain(c) /\ pc[c] = "svc" /\ pc'[c] = "match" /\ UNCHANGED <<need_resched, swallowed>>
      /\ s_ipclock = None /\ s_ipclock' = c /\ arg'[c] = t
  BY DEF KillFind, Plain, Choosing, InService, tcb, cpu, call, locks, glob, resched, Goto
<1>2. \A d \in Cores : pc[d] \notin {"match", "wake"}
  BY <1>1 DEF LifeInv, VictimWaits, None, Cores
<1>3. VictimWaits'
  BY <1>1, <1>2 DEF VictimWaits, Plain
<1>4. AllRequested'
  <2>1. \A d \in Cores : Asked(d)' = Asked(d)
    BY <1>1 DEF Asked
  <2> QED BY <1>1, <2>1, PlainRequests DEF Choosing
<1> QED BY <1>1, <1>3, <1>4, PlainKeeps DEF LifeInv

LEMMA KillMarkLife ==
    ASSUME IInv, LifeInv, NEW c \in Cores, KillMark(c)
    PROVE  LifeInv'
<1> USE DEF IInv, TypeOK, TypeCore
<1>1. /\ Plain(c) /\ pc[c] = "match" /\ pc'[c] \in {"wake", "kick"} /\ UNCHANGED <<need_resched, swallowed>>
      /\ s_ipclock' = s_ipclock /\ arg' = arg
      /\ pc'[c] = "wake" => state[arg[c]] \in {"SLEEPING", "BLOCKED"}
  BY DEF KillMark, NeedsWake, Plain, Choosing, InService, tcb, cpu, call, locks, glob, resched, Goto
<1>2. s_ipclock = c /\ \A d \in Cores \ {c} : pc[d] \notin {"match", "wake"}
  BY <1>1 DEF LifeInv, VictimWaits
<1>3. arg[c] \in Tasks
  BY <1>1 DEF LifeInv, VictimWaits
<1>4. VictimWaits'
  BY <1>1, <1>2, <1>3 DEF VictimWaits, Plain
<1>5. AllRequested'
  <2>1. \A d \in Cores : Asked(d)' = Asked(d)
    BY <1>1 DEF Asked
  <2> QED BY <1>1, <2>1, PlainRequests DEF Choosing
<1> QED BY <1>1, <1>4, <1>5, PlainKeeps DEF LifeInv

\* A step of core c that makes tasks READY, and changes nothing else of them.
Waking(c) ==
    /\ UNCHANGED <<used, priority, owner, pid, user, current, stack, inst, s_reap, locking, best>>
    /\ \A t \in Tasks : \/ state'[t] = state[t]
                        \/ state[t] \in {"SLEEPING", "BLOCKED"} /\ state'[t] = "READY"
    /\ \A d \in Cores \ {c} : pc'[d] = pc[d] /\ arg'[d] = arg[d]
    /\ pc[c] # "boot" /\ ~Choosing(c) /\ ~Choosing(c)' /\ ~Creating(c)'
    /\ InService(c)' => InService(c)

LEMMA WakingKeeps ==
    ASSUME IInv, LifeInv, NEW c \in Cores, Waking(c),
           \A d \in Cores : Asked(d) => Asked(d)',
           pc[c] # "kick",
           \A t \in Tasks : used[t] /\ state'[t] # state[t] => Requested(t)',
           VictimWaits'
    PROVE  LifeInv'
<1> USE DEF LifeInv, Waking
<1>1. \A d \in Cores : ~Choosing(d) => current[d] \in Tasks /\ state[current[d]] = "RUNNING"
  BY OwnTask DEF CurrentRuns, Choosing
<1>2. CurrentRuns'
  BY <1>1 DEF CurrentRuns, Choosing
<1>3. IdleReady'
  BY CoreIsIdle DEF IdleReady, InService, Choosing
<1>4. FreeIsEmpty'
  BY DEF FreeIsEmpty, Alive, IInv, TypeOK, TypeCore
<1>5. SetupOwned'
  BY DEF SetupOwned, Creating
<1>6. UserReady'
  BY DEF UserReady
<1>7. NoPhantomAspace'
  BY DEF NoPhantomAspace, Choosing
<1>8. BestStands'
  <2>1. ASSUME NEW d \in Cores, pc'[d] = "pick"
        PROVE  /\ (AtBest(d))' # {}
               /\ state'[current'[d]] = "RUNNING" => best'[d] <= priority'[current'[d]]
    <3>1. pc[d] = "pick" /\ current[d] \in Tasks
      BY <2>1, OwnTask DEF Choosing
    <3>2. AtBest(d) \subseteq (AtBest(d))'
      BY DEF AtBest, Candidates, Mine
    <3> QED BY <3>1, <3>2 DEF BestStands
  <2> QED BY <2>1 DEF BestStands
<1>9. AllRequested'
  <2> SUFFICES ASSUME NEW t \in Tasks, used[t], state'[t] = "READY", ~Requested(t)'
               PROVE  Outranked(owner[t], t)'
    BY DEF AllRequested
  <2>1. state[t] = "READY" /\ owner[t] \in Cores
    BY DEF IInv, Partition, OwnerKnown
  <2>2. ~Requested(t)
    BY <2>1 DEF Requested, Asked
  <2>3. Outranked(owner[t], t)
    BY <2>1, <2>2 DEF AllRequested
  <2> QED BY <2>1, <2>3 DEF Outranked, Choosing
<1> QED BY <1>2, <1>3, <1>4, <1>5, <1>6, <1>7, <1>8, <1>9

LEMMA TickLife ==
    ASSUME IInv, LifeInv, NEW c \in Cores, Tick(c)
    PROVE  LifeInv'
<1> USE DEF IInv, TypeOK, TypeCore
<1>1. /\ pc[c] = "task" /\ pc' = [pc EXCEPT ![c] = "deadline"]
      /\ state' = [t \in Tasks |-> IF t \in Wakeable(c) THEN "READY" ELSE state[t]]
      /\ need_resched' = [need_resched EXCEPT ![c] = @ \/ Wakeable(c) # {}] /\ swallowed' = swallowed
      /\ UNCHANGED <<used, priority, owner, pid, user, current, stack, inst, s_reap, locking, best,
                     arg, s_ipclock>>
  BY DEF Tick, Goto, cpu, call, locks, glob, resched
<1>2. \A t \in Wakeable(c) : state[t] = "SLEEPING" /\ owner[t] = c
  BY DEF Wakeable, Mine
<1>3. Waking(c)
  BY <1>1, <1>2 DEF Waking, Choosing, Creating, InService, TypeTcb
<1>4. /\ \A d \in Cores : Asked(d) => Asked(d)'
      /\ \A t \in Tasks : state'[t] # state[t] => Requested(t)'
  BY <1>1, <1>2 DEF Requested, Asked
<1>5. VictimWaits'
  <2>1. \A d \in Cores : pc'[d] \in {"match", "wake"} => pc[d] = pc'[d]
    BY <1>1
  <2>2. ASSUME NEW d \in Cores, pc'[d] = "wake"
        PROVE  \/ state'[arg[d]] \in {"SLEEPING", "BLOCKED"}
               \/ state'[arg[d]] = "READY" /\ pc'[owner[arg[d]]] = "deadline"
    <3>1. /\ arg[d] \in Tasks
          /\ \/ state[arg[d]] \in {"SLEEPING", "BLOCKED"}
             \/ state[arg[d]] = "READY" /\ pc[owner[arg[d]]] = "deadline"
      BY <2>1, <2>2 DEF LifeInv, VictimWaits
    <3>2. state[arg[d]] = "READY" => owner[arg[d]] \in Cores
      BY <3>1 DEF LifeInv, FreeIsEmpty, Alive, Partition, OwnerKnown
    <3> QED BY <1>1, <1>2, <3>1, <3>2
  <2> QED BY <1>1, <2>1, <2>2 DEF LifeInv, VictimWaits
<1> QED BY <1>1, <1>3, <1>4, <1>5, WakingKeeps

\* Whoever has to take s_ipclock finds no kill under way.
LEMMA NoKill ==
    ASSUME LifeInv, s_ipclock = None
    PROVE  \A d \in Cores : pc[d] \notin {"match", "wake"}
BY DEF LifeInv, VictimWaits, None, Cores

LEMMA TickDeadlinesLife ==
    ASSUME IInv, LifeInv, NEW c \in Cores, TickDeadlines(c)
    PROVE  LifeInv'
<1> USE DEF IInv, TypeOK, TypeCore
<1>1. /\ pc[c] = "deadline" /\ pc' = [pc EXCEPT ![c] = "irq"] /\ s_ipclock = None
      /\ state' = [t \in Tasks |-> IF t \in Expired(c) THEN "READY" ELSE state[t]]
      /\ need_resched' = [need_resched EXCEPT
                             ![c] = @ \/ Expired(c) # {} \/ slice[current[c]] <= 1]
      /\ swallowed' = swallowed
      /\ UNCHANGED <<used, priority, owner, pid, user, current, stack, inst, s_reap, locking, best,
                     arg>>
  BY DEF TickDeadlines, EndOfInterrupt, Goto, cpu, call, glob, resched
<1>2. \A t \in Expired(c) : state[t] = "BLOCKED" /\ owner[t] = c
  BY DEF Expired, Mine
<1>3. Waking(c)
  BY <1>1, <1>2 DEF Waking, Choosing, Creating, InService, TypeTcb
<1>4. /\ \A d \in Cores : Asked(d) => Asked(d)'
      /\ \A t \in Tasks : state'[t] # state[t] => Requested(t)'
  BY <1>1, <1>2 DEF Requested, Asked
<1>5. VictimWaits'
  BY <1>1, NoKill DEF VictimWaits
<1> QED BY <1>1, <1>3, <1>4, <1>5, WakingKeeps

LEMMA WakeOneLife ==
    ASSUME IInv, LifeInv, NEW c \in Cores, NEW obj \in Objs, NEW then \in {"clear", "dying"},
           pc[c] \in {"svc", "record"}, WakeOne(c, obj, then)
    PROVE  LifeInv'
<1> USE DEF IInv, TypeOK, TypeCore
<1>1. PICK t \in Waiters(obj) :
          /\ state' = [state EXCEPT ![t] = "READY"]
          /\ arg' = [arg EXCEPT ![c] = t]
  BY DEF WakeOne
<1>2. t \in Tasks /\ state[t] = "BLOCKED"
  BY DEF Waiters
<1>3. /\ pc' = [pc EXCEPT ![c] = "kick"] /\ s_ipclock = None
      /\ UNCHANGED <<used, priority, owner, pid, user, current, stack, inst, s_reap, locking, best,
                     need_resched, swallowed>>
  BY DEF WakeOne, Goto, cpu, glob, resched
<1>4. Waking(c)
  BY <1>1, <1>2, <1>3 DEF Waking, Choosing, Creating, InService, TypeTcb
<1>5. /\ \A d \in Cores : Asked(d) => Asked(d)'
      /\ \A u \in Tasks : state'[u] # state[u] => Requested(u)'
  BY <1>1, <1>2, <1>3 DEF Requested, Asked, TypeTcb
<1>6. VictimWaits'
  BY <1>3, NoKill DEF VictimWaits
<1> QED BY <1>3, <1>4, <1>5, <1>6, WakingKeeps

LEMMA KillWakeLife ==
    ASSUME IInv, LifeInv, NEW c \in Cores, KillWake(c)
    PROVE  LifeInv'
<1> USE DEF IInv, TypeOK, TypeCore
<1>1. /\ pc[c] = "wake" /\ pc' = [pc EXCEPT ![c] = "kick"]
      /\ state' = [state EXCEPT ![arg[c]] = "READY"]
      /\ UNCHANGED <<used, priority, owner, pid, user, current, stack, inst, s_reap, locking, best,
                     need_resched, swallowed, arg, s_ipclock>>
  BY DEF KillWake, Goto, cpu, call, locks, glob, resched
<1>2. /\ arg[c] \in Tasks /\ state[arg[c]] \in {"SLEEPING", "BLOCKED", "READY"} /\ s_ipclock = c
      /\ \A d \in Cores \ {c} : pc[d] \notin {"match", "wake"}
  BY <1>1 DEF LifeInv, VictimWaits
<1>3. Waking(c)
  BY <1>1, <1>2 DEF Waking, Choosing, Creating, InService, TypeTcb
<1>4. /\ \A d \in Cores : Asked(d) => Asked(d)'
      /\ \A t \in Tasks : state'[t] # state[t] => Requested(t)'
  BY <1>1, <1>2 DEF Requested, Asked, TypeTcb
<1>5. VictimWaits'
  BY <1>1, <1>2 DEF VictimWaits
<1> QED BY <1>1, <1>3, <1>4, <1>5, WakingKeeps

\* The current task of core c stops: it sleeps, waits or is dead.
Stopping(c, s) ==
    /\ UNCHANGED <<used, priority, owner, pid, user, current, stack, inst, locking, best, arg,
                   s_ipclock, need_resched, swallowed>>
    /\ pc[c] \in {"svc", "record", "dying"} /\ pc' = [pc EXCEPT ![c] = "clear"]
    /\ state' = [state EXCEPT ![current[c]] = s]
    /\ s_reap' = IF s = "ZOMBIE" THEN [s_reap EXCEPT ![c] = current[c]] ELSE s_reap

LEMMA StoppingLife ==
    ASSUME IInv, LifeInv, NEW c \in Cores, NEW s \in {"SLEEPING", "BLOCKED", "ZOMBIE"}, Stopping(c, s)
    PROVE  LifeInv'
<1> DEFINE me == current[c]
<1>1. /\ me \in Tasks /\ used[me] /\ owner[me] = c /\ state[me] = "RUNNING" /\ me \notin Idles
      /\ pc[c] \notin {"boot", "clear", "scan", "pick", "deadline", "match", "wake", "kick"}
  BY OwnTask DEF Stopping, LifeInv, CurrentRuns, Choosing, IdleReady, InService
<1> HIDE DEF me
<1>2. /\ state' = [state EXCEPT ![me] = s] /\ pc' = [pc EXCEPT ![c] = "clear"]
      /\ UNCHANGED <<used, priority, owner, pid, user, current, stack, inst, locking, best, arg,
                     s_ipclock, need_resched, swallowed>>
      /\ s_reap' = IF s = "ZOMBIE" THEN [s_reap EXCEPT ![c] = me] ELSE s_reap
  BY DEF Stopping, me
<1> USE DEF LifeInv, IInv, TypeOK, TypeCore, TypeTcb
<1>3. \A d \in Cores \ {c} : pc[d] # "boot" => current[d] # me
  BY <1>1, OwnTask
<1>4. CurrentRuns'
  BY <1>1, <1>2, <1>3, OwnTask DEF CurrentRuns, Choosing
<1>5. IdleReady'
  BY <1>1, <1>2, CoreIsIdle DEF IdleReady, InService, Idles
<1>6. FreeIsEmpty'
  <2>1. \A t \in Tasks : state'[t] \in Alive => used'[t]
    BY <1>1, <1>2 DEF FreeIsEmpty
  <2>2. ASSUME NEW d \in Cores, s_reap'[d] # None PROVE state'[s_reap'[d]] = "ZOMBIE"
    <3>1. CASE d = c /\ s = "ZOMBIE"
      BY <1>1, <1>2, <3>1
    <3>2. CASE ~(d = c /\ s = "ZOMBIE")
      <4>1. s_reap'[d] = s_reap[d] /\ s_reap[d] \in Tasks /\ state[s_reap[d]] = "ZOMBIE"
        BY <1>2, <2>2, <3>2 DEF FreeIsEmpty
      <4> QED BY <1>1, <1>2, <4>1
    <3> QED BY <3>1, <3>2
  <2> QED BY <2>1, <2>2 DEF FreeIsEmpty
<1>7. VictimWaits'
  BY <1>1, <1>2 DEF VictimWaits
<1>8. SetupOwned'
  BY <1>1, <1>2 DEF SetupOwned, Creating
<1>9. UserReady'
  BY <1>1, <1>2 DEF UserReady
<1>10. NoPhantomAspace'
  BY <1>1, <1>2 DEF NoPhantomAspace
<1>11. BestStands'
  <2>1. ASSUME NEW d \in Cores, pc'[d] = "pick" PROVE d # c /\ pc[d] = "pick" /\ (AtBest(d))' = AtBest(d)
                                                       /\ state'[current[d]] = state[current[d]]
    <3>1. d # c /\ pc[d] = "pick" /\ current[d] \in Tasks /\ current[d] # me
      BY <1>2, <1>3, <2>1, OwnTask
    <3> QED BY <1>1, <1>2, <3>1 DEF AtBest, Candidates, Mine
  <2> QED BY <1>2, <2>1 DEF BestStands
<1>12. AllRequested'
  <2> SUFFICES ASSUME NEW t \in Tasks, used[t], state'[t] = "READY", ~Requested(t)'
               PROVE  Outranked(owner[t], t)'
    BY <1>2 DEF AllRequested
  <2>1. state[t] = "READY" /\ owner[t] \in Cores
    BY <1>1, <1>2 DEF Partition, OwnerKnown
  <2>2. ~Requested(t)
    BY <1>1, <1>2, <2>1 DEF Requested, Asked
  <2>3. Outranked(owner[t], t)
    BY <2>1, <2>2 DEF AllRequested
  <2> QED BY <1>1, <1>2, <2>1, <2>3 DEF Outranked, Choosing
<1> QED BY <1>2, <1>4, <1>5, <1>6, <1>7, <1>8, <1>9, <1>10, <1>11, <1>12

LEMMA StopsLife ==
    ASSUME IInv, LifeInv, NEW c \in Cores,
           \/ \E ticks \in 0 .. MaxSleep : Sleep(c, ticks)
           \/ \E obj \in Objs, deadline \in {Never} \cup 1 .. MaxSleep : Block(c, obj, deadline)
           \/ ExitZombie(c)
    PROVE  LifeInv'
<1> USE DEF Stopping, Me, Goto, cpu, call, locks, glob, resched
<1>1. ASSUME NEW ticks \in 0 .. MaxSleep, Sleep(c, ticks) PROVE Stopping(c, "SLEEPING")
  BY <1>1 DEF Sleep
<1>2. ASSUME NEW obj \in Objs, NEW deadline \in {Never} \cup 1 .. MaxSleep, Block(c, obj, deadline)
      PROVE  Stopping(c, "BLOCKED")
  BY <1>2 DEF Block
<1>3. ASSUME ExitZombie(c) PROVE Stopping(c, "ZOMBIE")
  BY <1>3 DEF ExitZombie
<1> HIDE DEF Stopping
<1> QED BY <1>1, <1>2, <1>3, StoppingLife

\* Core c runs n next, that it has had or that was READY.
Choice(c, n) ==
    /\ UNCHANGED <<used, priority, owner, pid, user, s_reap, locking, arg,
                   s_ipclock, need_resched, swallowed>>
    /\ n \in Mine(c) /\ current' = [current EXCEPT ![c] = n]
    /\ state'[n] = "RUNNING"
    /\ \A t \in Tasks \ {n} : \/ state'[t] = state[t] /\ (pc[c] = "pick" /\ t = current[c] => state[t] # "RUNNING")
                              \/ /\ pc[c] = "pick" /\ t = current[c] /\ state[t] = "RUNNING" /\ state'[t] = "READY"
    /\ \A d \in Cores \ {c} : pc'[d] = pc[d] /\ best'[d] = best[d]
    /\ pc'[c] \in {"task", "switch"}

LEMMA ChoiceLife ==
    ASSUME IInv, LifeInv, NEW c \in Cores, NEW n \in Tasks, Choice(c, n),
           pc[c] \in {"boot", "pick"},
           state[n] = "READY" \/ (pc[c] = "pick" /\ n = current[c] /\ state[n] = "RUNNING"),
           \A t \in Mine(c) : state[t] = "READY" => priority[n] <= priority[t] \/ Requested(t),
           pc[c] = "pick" /\ state[current[c]] = "RUNNING" => priority[n] <= priority[current[c]],
           NoPhantomAspace'
    PROVE  LifeInv'
<1> USE DEF LifeInv, IInv, TypeOK, TypeCore, TypeTcb
<1>1. /\ used[n] /\ owner[n] = c
      /\ UNCHANGED <<used, priority, owner, pid, user, s_reap, locking, arg, s_ipclock, need_resched, swallowed>>
      /\ current' = [current EXCEPT ![c] = n] /\ state'[n] = "RUNNING"
      /\ \A d \in Cores \ {c} : pc'[d] = pc[d] /\ best'[d] = best[d]
      /\ pc'[c] \in {"task", "switch"} /\ pc[c] \in {"boot", "pick"}
  BY DEF Choice, Mine
<1>2. \A t \in Tasks \ {n} : \/ state'[t] = state[t] /\ (pc[c] = "pick" /\ t = current[c] => state[t] # "RUNNING")
                             \/ /\ pc[c] = "pick" /\ t = current[c] /\ state[t] = "RUNNING" /\ state'[t] = "READY"
  BY DEF Choice
<1>3. pc[c] = "pick" => current[c] \in Tasks /\ used[current[c]] /\ owner[current[c]] = c
  BY OwnTask
<1>4. \A d \in Cores \ {c} : pc[d] # "boot" =>
         current[d] \in Tasks /\ current[d] # n /\ state'[current[d]] = state[current[d]]
  BY <1>1, <1>2, <1>3, OwnTask
<1>5. CurrentRuns'
  BY <1>1, <1>4 DEF CurrentRuns, Choosing
<1>6. IdleReady'
  <2>1. \A d \in Cores : /\ state'[d] \in {"READY", "RUNNING"}
                         /\ state'[d] = "RUNNING" => pc'[d] # "boot" /\ current'[d] = d
    <3> TAKE d \in Cores
    <3>1. CASE d = n
      <4>1. d = c
        BY <1>1, <3>1, CoreIsIdle DEF IdleReady
      <4> QED BY <1>1, <3>1, <4>1
    <3>2. CASE d # n
      <4>1. state'[d] = "RUNNING" => d # c \/ pc[c] # "pick" \/ d # current[c]
        BY <1>2, <3>2, CoreIsIdle
      <4> QED BY <1>1, <1>2, <3>2, <4>1, CoreIsIdle DEF IdleReady
    <3> QED BY <3>1, <3>2
  <2>2. \A d \in Cores : InService(d)' => d # c /\ InService(d) /\ current'[d] = current[d]
    BY <1>1 DEF InService
  <2> QED BY <1>1, <2>1, <2>2 DEF IdleReady
<1>7. FreeIsEmpty'
  <2>1. \A t \in Tasks : state[t] \in Alive => used[t]
    BY DEF FreeIsEmpty
  <2>2. \A d \in Cores : s_reap[d] # None => s_reap[d] \in Tasks \ {n} /\ state[s_reap[d]] = "ZOMBIE"
    BY DEF FreeIsEmpty
  <2> QED BY <1>1, <1>2, <1>3, <2>1, <2>2 DEF FreeIsEmpty
<1>8. VictimWaits'
  <2>1. ASSUME NEW d \in Cores, pc'[d] = "wake"
        PROVE  \/ state'[arg[d]] \in {"SLEEPING", "BLOCKED"}
               \/ state'[arg[d]] = "READY" /\ pc'[owner[arg[d]]] = "deadline"
    <3>1. /\ d # c /\ arg[d] \in Tasks
          /\ \/ state[arg[d]] \in {"SLEEPING", "BLOCKED"}
             \/ state[arg[d]] = "READY" /\ pc[owner[arg[d]]] = "deadline"
      BY <1>1, <2>1 DEF VictimWaits
    <3>2. state[arg[d]] = "READY" => owner[arg[d]] \in Cores \ {c}
      BY <1>1, <3>1 DEF FreeIsEmpty, Alive, Partition, OwnerKnown
    <3>3. arg[d] # n
      BY <1>1, <3>1, <3>2
    <3> QED BY <1>1, <1>2, <3>1, <3>2, <3>3
  <2> QED BY <1>1, <2>1 DEF VictimWaits
<1>9. SetupOwned'
  <2>1. \A d \in Cores : Creating(d)' => d # c /\ Creating(d) /\ current'[d] = current[d] /\ pc'[d] = pc[d]
    BY <1>1 DEF Creating
  <2>2. \A t \in Tasks : state[t] = "SETUP" => state'[t] = "SETUP"
    BY <1>1, <1>2
  <2> QED BY <1>1, <2>1, <2>2 DEF SetupOwned
<1>10. UserReady'
  BY <1>1, <1>2 DEF UserReady
<1>11. BestStands'
  <2>1. ASSUME NEW d \in Cores, pc'[d] = "pick"
        PROVE  /\ d # c /\ pc[d] = "pick" /\ current'[d] = current[d] /\ best'[d] = best[d]
               /\ (AtBest(d))' = AtBest(d) /\ state'[current[d]] = state[current[d]]
    <3>1. d # c /\ pc[d] = "pick" /\ current'[d] = current[d] /\ best'[d] = best[d]
          /\ state'[current[d]] = state[current[d]]
      BY <1>1, <1>4, <2>1
    <3>2. \A t \in Tasks : owner[t] = d => state'[t] = state[t]
      BY <1>1, <1>2, <1>3, <3>1
    <3> QED BY <1>1, <3>1, <3>2 DEF AtBest, Candidates, Mine
  <2> QED BY <1>1, <2>1 DEF BestStands
<1>12. AllRequested'
  <2> SUFFICES ASSUME NEW t \in Tasks, used[t], state'[t] = "READY", ~Requested(t)'
               PROVE  Outranked(owner[t], t)'
    BY <1>1 DEF AllRequested
  <2>1. owner[t] \in Cores /\ t # n
    BY <1>1 DEF Partition, OwnerKnown
  <2>2. ~Requested(t)
    BY <1>1, <2>1 DEF Requested, Asked
  <2>3. CASE owner[t] = c
    <3>1. priority[n] <= priority[t]
      BY <1>2, <2>1, <2>2, <2>3 DEF Mine
    <3> QED BY <1>1, <2>3, <3>1 DEF Outranked, Choosing
  <2>4. CASE owner[t] # c
    <3>1. state[t] = "READY"
      BY <1>2, <1>3, <2>1, <2>4
    <3> QED BY <1>1, <2>1, <2>2, <2>4, <3>1 DEF AllRequested, Outranked, Choosing
  <2> QED BY <2>3, <2>4
<1> QED BY <1>1, <1>5, <1>6, <1>7, <1>8, <1>9, <1>10, <1>11, <1>12

LEMMA PriorityIsInt == IInv => \A t \in Tasks : priority[t] \in Int
<1> SUFFICES ASSUME IInv, NEW t \in Tasks PROVE priority[t] \in Int
  OBVIOUS
<1>1. priority[t] \in 0 .. 255
  BY DEF IInv, TypeOK, TypeTcb, IDLE_PRIO
<1> QED BY <1>1

LEMMA SchedEnterLife ==
    ASSUME IInv, LifeInv, NEW c \in Cores, SchedEnter(c)
    PROVE  LifeInv'
<1> USE DEF IInv, TypeOK, TypeCore, TypeTcb
<1>1. PICK n \in Tasks :
          /\ FirstChoice(c, n)
          /\ state' = [state EXCEPT ![n] = "RUNNING"]
          /\ current' = [current EXCEPT ![c] = n]
          /\ stack' = [stack EXCEPT ![c] = n]
          /\ inst' = [inst EXCEPT ![c] = ctx[n]]
  BY DEF SchedEnter
<1>2. /\ pc[c] = "boot" /\ pc' = [pc EXCEPT ![c] = "task"]
      /\ UNCHANGED <<used, priority, owner, pid, user, s_reap, locking, arg, s_ipclock, need_resched, swallowed, best>>
  BY DEF SchedEnter, Goto, call, locks, glob, resched
<1>3. /\ n \in Mine(c) /\ state[n] = "READY" /\ used[n]
      /\ \A t \in Mine(c) : state[t] = "READY" => priority[n] <= priority[t]
  <2>1. \A t \in Tasks : priority[t] \in Int
    BY PriorityIsInt
  <2>2. n \in Mine(c) /\ state[n] = "READY" /\ used[n]
    BY <1>1 DEF FirstChoice, Mine
  <2>3. ASSUME NEW t \in Mine(c), state[t] = "READY" PROVE priority[n] <= priority[t]
    <3>1. t \in Tasks /\ (priority[n] < priority[t] \/ priority[n] = priority[t])
      BY <1>1, <2>3 DEF FirstChoice, Mine
    <3> QED BY <2>1, <3>1
  <2> QED BY <2>2, <2>3
<1>4. Choice(c, n)
  BY <1>1, <1>2, <1>3 DEF Choice
<1>5. NoPhantomAspace'
  <2>1. inst'[c] > NBoot => user[n]
    BY <1>1, <1>3 DEF Partition, ContextOwned, LifeInv, UserReady
  <2> QED BY <1>1, <1>2, <2>1 DEF LifeInv, NoPhantomAspace
<1> QED BY <1>2, <1>3, <1>4, <1>5, ChoiceLife

LEMMA PickNextLife ==
    ASSUME IInv, LifeInv, NEW c \in Cores, PickNext(c)
    PROVE  LifeInv'
<1> USE DEF IInv, TypeOK, TypeCore, TypeTcb
<1>1. /\ pc[c] = "pick" /\ best' = [best EXCEPT ![c] = NO_PRIO]
      /\ UNCHANGED <<used, priority, owner, pid, user, stack, inst, s_reap, locking, arg,
                     s_ipclock, need_resched, swallowed>>
  BY DEF PickNext, locks, glob, resched
<1>2. /\ current[c] \in Tasks /\ current[c] \in Mine(c) /\ AtBest(c) # {}
      /\ state[current[c]] = "RUNNING" => best[c] <= priority[current[c]]
  BY <1>1, OwnTask DEF LifeInv, BestStands, Mine
<1>3. PICK n \in Tasks : /\ IsNext(c, n) /\ pc' = [pc EXCEPT ![c] = IF n = current[c] THEN "task" ELSE "switch"]
                         /\ current' = [current EXCEPT ![c] = n]
                         /\ state' = [state EXCEPT ![current[c]] = IF state[current[c]] = "RUNNING" THEN "READY"
                                                                   ELSE state[current[c]],
                                                   ![n] = "RUNNING"]
  <2>1. CASE Keep(c)
    BY <1>2, <2>1 DEF Keep, Goto
  <2>2. ASSUME NEW n \in Tasks, SwitchTo(c, n)
        PROVE  /\ IsNext(c, n) /\ pc' = [pc EXCEPT ![c] = IF n = current[c] THEN "task" ELSE "switch"]
               /\ current' = [current EXCEPT ![c] = n]
               /\ state' = [state EXCEPT ![current[c]] = IF state[current[c]] = "RUNNING" THEN "READY"
                                                         ELSE state[current[c]],
                                         ![n] = "RUNNING"]
    BY <1>2, <2>2 DEF SwitchTo, Goto
  <2> QED BY <2>1, <2>2 DEF PickNext
<1>4. /\ n \in Candidates(c) /\ priority[n] = best[c]
  BY <1>2, <1>3 DEF IsNext, AtBest
<1>5. /\ n \in Mine(c)
      /\ state[n] = "READY" \/ (n = current[c] /\ state[n] = "RUNNING")
  BY <1>4 DEF Candidates
<1>6. Choice(c, n)
  BY <1>1, <1>2, <1>3, <1>5 DEF Choice
<1>7. \A t \in Mine(c) : state[t] = "READY" => priority[n] <= priority[t] \/ Requested(t)
  BY <1>1, <1>4 DEF LifeInv, AllRequested, Outranked, Choosing, Mine
<1>8. NoPhantomAspace'
  BY <1>1, <1>3 DEF LifeInv, NoPhantomAspace
<1> QED BY <1>1, <1>2, <1>4, <1>5, <1>6, <1>7, <1>8, ChoiceLife

LEMMA ContextSwitchLife ==
    ASSUME IInv, LifeInv, NEW c \in Cores, ContextSwitch(c)
    PROVE  LifeInv'
<1> USE DEF IInv, TypeOK, TypeCore, TypeTcb
<1>1. /\ pc[c] = "switch" /\ pc' = [pc EXCEPT ![c] = "task"]
      /\ inst' = [inst EXCEPT ![c] = ctx[current[c]]] /\ stack' = [stack EXCEPT ![c] = current[c]]
      /\ UNCHANGED <<used, state, priority, owner, pid, user, current, s_reap, locking, best, arg,
                     s_ipclock, need_resched, swallowed>>
  BY DEF ContextSwitch, Goto, call, locks, glob, resched
<1>2. /\ current[c] \in Tasks /\ used[current[c]] /\ state[current[c]] = "RUNNING"
      /\ ctx[current[c]] = pid[current[c]]
  BY <1>1, OwnTask DEF LifeInv, CurrentRuns, Choosing, Partition, ContextOwned
<1>3. NoPhantomAspace'
  <2>1. ctx[current[c]] > NBoot => user[current[c]]
    BY <1>2 DEF LifeInv, UserReady
  <2> QED BY <1>1, <2>1 DEF LifeInv, NoPhantomAspace
<1> USE DEF LifeInv
<1>4. CurrentRuns' /\ IdleReady' /\ FreeIsEmpty' /\ UserReady'
  BY <1>1 DEF CurrentRuns, Choosing, IdleReady, InService, FreeIsEmpty, UserReady
<1>5. VictimWaits'
  <2>1. \A d \in Cores : (pc[d] = "deadline" <=> pc'[d] = "deadline") /\ (pc'[d] \in {"match", "wake"} => pc[d] = pc'[d])
    BY <1>1
  <2>2. \A d \in Cores : pc[d] = "wake" /\ state[arg[d]] = "READY" => owner[arg[d]] \in Cores
    BY DEF VictimWaits, FreeIsEmpty, Alive, Partition, OwnerKnown
  <2> QED BY <1>1, <2>1, <2>2 DEF VictimWaits
<1>6. SetupOwned'
  BY <1>1 DEF SetupOwned, Creating
<1>7. BestStands'
  <2>1. \A d \in Cores : (AtBest(d))' = AtBest(d)
    BY <1>1 DEF AtBest, Candidates, Mine
  <2> QED BY <1>1, <2>1 DEF BestStands
<1>8. AllRequested'
  <2>1. \A t \in Tasks : used[t] => owner[t] \in Cores
    BY DEF Partition, OwnerKnown
  <2>2. \A t \in Tasks : Requested(t) => Requested(t)'
    BY <1>1 DEF Requested, Asked
  <2>3. \A t \in Tasks : used[t] /\ Outranked(owner[t], t) => Outranked(owner[t], t)'
    BY <1>1, <2>1 DEF Outranked, Choosing
  <2> QED BY <1>1, <2>2, <2>3 DEF AllRequested
<1> QED BY <1>1, <1>3, <1>4, <1>5, <1>6, <1>7, <1>8

\* reap_pending takes a dead task's slot and touches nobody else's.
LEMMA ReapLife ==
    ASSUME IInv, LifeInv, NEW c \in Cores, Reap(c), NEW step \in {"scan", "record"},
           \/ pc[c] = "clear" /\ step = "scan"
           \/ pc[c] \in {"svc", "task"} /\ step = "record" /\ current[c] \notin Idles,
           pc' = [pc EXCEPT ![c] = step],
           UNCHANGED <<priority, pid, user, current, stack, inst, locking, best, arg, s_ipclock>>,
           \A d \in Cores : Asked(d) /\ ~Asked(d)' => d = c /\ step = "scan"
    PROVE  LifeInv'
<1> USE DEF IInv, TypeOK, TypeCore, TypeTcb
<1> DEFINE r == s_reap[c]
<1>1. /\ \A t \in Tasks : \/ state'[t] = state[t] /\ used'[t] = used[t] /\ owner'[t] = owner[t]
                          \/ state[t] = "ZOMBIE" /\ state'[t] = "UNUSED" /\ used'[t] = FALSE
      /\ \A d \in Cores : s_reap'[d] \in {None, s_reap[d]} /\ (s_reap'[d] # None => state'[s_reap[d]] = state[s_reap[d]])
  <2>1. CASE Reapable(c)
    <3>1. r \in Tasks /\ state[r] = "ZOMBIE" /\ used[r] /\ owner[r] = c
      BY <2>1 DEF Reapable, LifeInv, FreeIsEmpty, Partition, ReapOwn
    <3>2. /\ state' = [state EXCEPT ![r] = "UNUSED"] /\ owner' = [owner EXCEPT ![r] = None]
          /\ used' = [used EXCEPT ![r] = FALSE] /\ s_reap' = [s_reap EXCEPT ![c] = None]
      BY <2>1 DEF Reap
    <3>3. \A d \in Cores \ {c} : s_reap[d] # None => s_reap[d] \in Tasks \ {r}
      BY <3>1 DEF Partition, ReapOwn
    <3> QED BY <3>1, <3>2, <3>3
  <2>2. CASE ~Reapable(c)
    BY <2>2 DEF Reap
  <2> QED BY <2>1, <2>2
<1> HIDE DEF r
<1> USE DEF LifeInv
<1>2. \A d \in Cores : /\ pc'[d] # "boot" => pc[d] # "boot" /\ current[d] \in Tasks
                       /\ pc'[d] \notin {"boot", "clear", "scan", "pick"} => state'[current[d]] = "RUNNING"
                       /\ pc'[d] = "pick" => pc[d] = "pick"
  <2>1. ASSUME NEW d \in Cores, pc'[d] # "boot" PROVE pc[d] # "boot"
    BY <2>1
  <2>2. ASSUME NEW d \in Cores, pc'[d] # "boot" PROVE current[d] \in Tasks
    BY <2>1, <2>2, OwnTask
  <2>3. ASSUME NEW d \in Cores, pc'[d] \notin {"boot", "clear", "scan", "pick"} PROVE state'[current[d]] = "RUNNING"
    <3>1. state[current[d]] = "RUNNING"
      BY <2>3 DEF CurrentRuns, Choosing
    <3> QED BY <1>1, <2>2, <2>3, <3>1
  <2> QED BY <2>1, <2>2, <2>3
<1>3. CurrentRuns'
  <2> SUFFICES ASSUME NEW d \in Cores, ~Choosing(d)' PROVE state'[current[d]] = "RUNNING"
    BY DEF CurrentRuns
  <2>1. pc'[d] \notin {"boot", "clear", "scan", "pick"}
    BY DEF Choosing
  <2> QED BY <1>2, <2>1
<1>4. IdleReady'
  BY <1>1, CoreIsIdle DEF IdleReady, InService
<1>5. FreeIsEmpty'
  BY <1>1 DEF FreeIsEmpty, Alive
<1>6. VictimWaits'
  <2>1. \A d \in Cores : (pc[d] = "deadline" => pc'[d] = "deadline") /\ (pc'[d] \in {"match", "wake"} => pc[d] = pc'[d])
    OBVIOUS
  <2>2. \A d \in Cores : pc[d] = "wake" /\ state[arg[d]] = "READY" => owner[arg[d]] \in Cores
    BY DEF VictimWaits, FreeIsEmpty, Alive, Partition, OwnerKnown
  <2> QED BY <1>1, <2>1, <2>2 DEF VictimWaits
<1>7. SetupOwned'
  <2>1. \A d \in Cores : Creating(d)' => Creating(d) /\ pc'[d] = pc[d]
    BY DEF Creating
  <2> QED BY <1>1, <2>1 DEF SetupOwned
<1>8. UserReady'
  BY <1>1 DEF UserReady
<1>9. NoPhantomAspace'
  BY <1>1 DEF NoPhantomAspace
<1>10. BestStands'
  <2>1. ASSUME NEW d \in Cores, pc'[d] = "pick"
        PROVE  /\ pc[d] = "pick" /\ AtBest(d) \subseteq (AtBest(d))'
               /\ state'[current[d]] = "RUNNING" => state[current[d]] = "RUNNING"
    <3>1. pc[d] = "pick" /\ current[d] \in Tasks
      BY <1>2, <2>1 DEF Choosing
    <3>2. AtBest(d) \subseteq (AtBest(d))'
      BY <1>1 DEF AtBest, Candidates, Mine
    <3> QED BY <1>1, <3>1, <3>2
  <2> QED BY <2>1 DEF BestStands
<1>11. AllRequested'
  <2> SUFFICES ASSUME NEW t \in Tasks, used'[t], state'[t] = "READY", ~Requested(t)'
               PROVE  Outranked(owner[t], t)' /\ owner'[t] = owner[t]
    BY <1>1 DEF AllRequested
  <2>1. state[t] = "READY" /\ owner'[t] = owner[t] /\ owner[t] \in Cores /\ used[t]
    BY <1>1 DEF Partition, OwnerKnown
  <2>2. CASE owner[t] = c /\ step = "scan"
    BY <2>1, <2>2 DEF Outranked
  <2>3. CASE ~(owner[t] = c /\ step = "scan")
    <3>1. ~Requested(t)
      BY <2>1, <2>3 DEF Requested, Asked
    <3>2. Outranked(owner[t], t)
      BY <2>1, <3>1 DEF AllRequested
    <3> QED BY <2>1, <2>3, <3>2 DEF Outranked, Choosing
  <2> QED BY <2>2, <2>3
<1> QED BY <1>3, <1>4, <1>5, <1>6, <1>7, <1>8, <1>9, <1>10, <1>11

LEMMA ScheduleBeginLife ==
    ASSUME IInv, LifeInv, NEW c \in Cores, ScheduleBegin(c)
    PROVE  LifeInv'
<1>1. /\ Reap(c) /\ pc[c] = "clear" /\ pc' = [pc EXCEPT ![c] = "scan"]
      /\ UNCHANGED <<priority, pid, user, current, stack, inst, locking, best, arg, s_ipclock>>
      /\ need_resched' = [need_resched EXCEPT ![c] = FALSE] /\ swallowed' = swallowed \ {c}
  BY DEF ScheduleBegin, Goto, cpu, call, locks, glob, resched
<1>2. \A d \in Cores : Asked(d) /\ ~Asked(d)' => d = c
  BY <1>1 DEF IInv, TypeOK, TypeCore, Asked
<1> QED BY <1>1, <1>2, ReapLife

LEMMA ExitEnterLife ==
    ASSUME IInv, LifeInv, NEW c \in Cores, Exit(c) \/ SafePoint(c)
    PROVE  LifeInv'
<1>1. /\ Reap(c) /\ pc[c] \in {"svc", "task"} /\ pc' = [pc EXCEPT ![c] = "record"]
      /\ UNCHANGED <<priority, pid, user, current, stack, inst, locking, best, arg, s_ipclock, need_resched, swallowed>>
  BY DEF Exit, SafePoint, ExitEnter, ExitReap, Goto, cpu, call, locks, glob, resched
<1>2. current[c] \notin Idles
  BY DEF Exit, SafePoint, Me, LifeInv, IdleReady, InService, Idles
<1>3. \A d \in Cores : ~(Asked(d) /\ ~Asked(d)')
  BY <1>1 DEF Asked
<1> QED BY <1>1, <1>2, <1>3, ReapLife

LEMMA CreateFillLife ==
    ASSUME IInv, LifeInv, NEW c \in Cores, NEW core \in Cores, CreateFill(c, core)
    PROVE  LifeInv'
<1> USE DEF IInv, TypeOK, TypeCore, TypeTcb
<1>1. PICK t \in Tasks :
          /\ ~used[t]
          /\ pid' = [pid EXCEPT ![t] = g_next_pid]
          /\ state' = [state EXCEPT ![t] = "SETUP"]
          /\ priority' = [priority EXCEPT ![t] = SPAWN_PRIO]
          /\ owner' = [owner EXCEPT ![t] = core]
          /\ user' = [user EXCEPT ![t] = FALSE]
          /\ arg' = [arg EXCEPT ![c] = t]
  BY DEF CreateFill, FirstFree, NewState
<1>2. /\ pc[c] = "svc" /\ s_tasklock = None /\ pc' = [pc EXCEPT ![c] = "publish"]
      /\ user[current[c]] \/ core # c
      /\ UNCHANGED <<used, current, stack, inst, s_reap, locking, best, s_ipclock, need_resched, swallowed>>
  BY DEF CreateFill, Me, Goto, cpu, resched
<1>3. \A u \in Tasks : used[u] => /\ u # t /\ pid'[u] = pid[u] /\ state'[u] = state[u] /\ priority'[u] = priority[u]
                                  /\ owner'[u] = owner[u] /\ user'[u] = user[u]
  BY <1>1
<1>4. state'[t] = "SETUP" /\ priority'[t] = SPAWN_PRIO /\ owner'[t] = core
  BY <1>1
<1>5. \A d \in Cores : pc[d] # "publish" /\ (d # c => pc'[d] = pc[d] /\ arg'[d] = arg[d])
  BY <1>1, <1>2 DEF Partition, Publishing, None, Cores
<1>6. \A d \in Cores : pc[d] # "boot" => /\ current[d] \in Tasks /\ used[current[d]]
                                         /\ stack[d] \in Tasks /\ used[stack[d]]
  BY OwnTask
<1> USE DEF LifeInv
<1>7. CurrentRuns'
  BY <1>2, <1>3, <1>5, <1>6 DEF CurrentRuns, Choosing
<1>8. IdleReady'
  BY <1>2, <1>3, <1>5, CoreIsIdle DEF IdleReady, InService
<1>9. FreeIsEmpty'
  <2>1. \A u \in Tasks : u # t => state'[u] = state[u]
    BY <1>1
  <2>2. \A d \in Cores : s_reap[d] # None => used[s_reap[d]] /\ s_reap[d] \in Tasks
    BY DEF Partition, ReapOwn
  <2> QED BY <1>2, <1>3, <1>4, <2>1, <2>2 DEF FreeIsEmpty, Alive
<1>10. VictimWaits'
  <2>1. \A d \in Cores : pc'[d] \in {"match", "wake"} => d # c /\ pc[d] = pc'[d] /\ arg'[d] = arg[d]
    BY <1>2, <1>5
  <2>2. \A d \in Cores : pc[d] = "wake" => used[arg[d]] /\ owner[arg[d]] \in Cores /\ arg[d] \in Tasks
    BY DEF VictimWaits, FreeIsEmpty, Alive, Partition, OwnerKnown
  <2>3. \A d \in Cores : pc[d] = "deadline" => pc'[d] = "deadline"
    BY <1>2, <1>5
  <2> QED BY <1>2, <1>3, <2>1, <2>2, <2>3 DEF VictimWaits
<1>11. SetupOwned'
  <2>1. \A d \in Cores : Creating(d)' => d = c \/ (pc[d] = "setup" /\ arg'[d] = arg[d] /\ used[arg[d]])
    BY <1>5 DEF Creating, SetupOwned
  <2>2. arg'[c] = t /\ pc'[c] = "publish"
    BY <1>1, <1>2
  <2>3. \A d \in Cores : pc[d] = "setup" =>
           /\ arg[d] \in Tasks /\ used[arg[d]] /\ state[arg[d]] = "SETUP" /\ priority[arg[d]] = SPAWN_PRIO
           /\ owner[arg[d]] = d => user[current[d]]
    BY DEF SetupOwned, Creating
  <2>4. ASSUME NEW d \in Cores, Creating(d)'
        PROVE  /\ arg'[d] \in Tasks /\ state'[arg'[d]] = "SETUP" /\ priority'[arg'[d]] = SPAWN_PRIO
               /\ owner'[arg'[d]] = d => user'[current'[d]]
               /\ pc'[d] = "setup" => used'[arg'[d]]
    <3>1. CASE d = c
      BY <1>2, <1>3, <1>4, <1>6, <2>2, <3>1
    <3>2. CASE d # c
      BY <1>2, <1>3, <1>6, <2>1, <2>3, <2>4, <3>2
    <3> QED BY <3>1, <3>2
  <2>5. \A d, e \in Cores : Creating(d)' /\ Creating(e)' /\ arg'[d] = arg'[e] => d = e
    BY <1>1, <2>1, <2>2, <2>3 DEF SetupOwned, Creating
  <2> QED BY <2>4, <2>5 DEF SetupOwned
<1>12. UserReady'
  BY <1>2, <1>3 DEF UserReady
<1>13. NoPhantomAspace'
  BY <1>2, <1>3, <1>5, <1>6 DEF NoPhantomAspace
<1>14. BestStands'
  <2>1. ASSUME NEW d \in Cores, pc'[d] = "pick"
        PROVE  /\ pc[d] = "pick" /\ AtBest(d) \subseteq (AtBest(d))'
               /\ state'[current[d]] = state[current[d]] /\ priority'[current[d]] = priority[current[d]]
    <3>1. pc[d] = "pick"
      BY <1>2, <1>5, <2>1
    <3>2. AtBest(d) \subseteq (AtBest(d))'
      BY <1>2, <1>3 DEF AtBest, Candidates, Mine
    <3> QED BY <1>3, <1>6, <3>1, <3>2
  <2> QED BY <1>2, <2>1 DEF BestStands
<1>15. AllRequested'
  <2> SUFFICES ASSUME NEW u \in Tasks, used[u], state'[u] = "READY", ~Requested(u)'
               PROVE  Outranked(owner[u], u)' /\ owner'[u] = owner[u]
    BY <1>2 DEF AllRequested
  <2>1. state[u] = "READY" /\ owner[u] \in Cores /\ owner'[u] = owner[u] /\ priority'[u] = priority[u]
    BY <1>3 DEF Partition, OwnerKnown
  <2>2. ~Requested(u)
    BY <1>2, <1>5, <2>1 DEF Requested, Asked
  <2>3. Outranked(owner[u], u)
    BY <2>1, <2>2 DEF AllRequested
  <2> QED BY <1>2, <1>3, <1>5, <1>6, <2>1, <2>3 DEF Outranked, Choosing
<1> QED BY <1>2, <1>7, <1>8, <1>9, <1>10, <1>11, <1>12, <1>13, <1>14, <1>15

LEMMA CreatePublishLife ==
    ASSUME IInv, LifeInv, NEW c \in Cores, CreatePublish(c)
    PROVE  LifeInv'
<1> USE DEF IInv, TypeOK, TypeCore, TypeTcb
<1> DEFINE t == arg[c]
<1>1. /\ pc[c] = "publish" /\ pc' = [pc EXCEPT ![c] = "setup"] /\ used' = [used EXCEPT ![t] = TRUE]
      /\ UNCHANGED <<state, priority, owner, pid, user, current, stack, inst, s_reap, locking, best,
                     arg, s_ipclock, need_resched, swallowed>>
  BY DEF CreatePublish, Goto, cpu, call, glob, resched
<1>2. t \in Tasks /\ ~used[t] /\ state[t] = "SETUP"
  BY <1>1 DEF LifeInv, SetupOwned, Creating, Partition, Publishing
<1>3. /\ \A u \in Tasks : used'[u] <=> used[u] \/ u = t
      /\ \A d \in Cores \ {c} : pc'[d] = pc[d]
  BY <1>1, <1>2
<1> HIDE DEF t
<1> USE DEF LifeInv
<1>4. CurrentRuns' /\ IdleReady'
  BY <1>1, <1>3, CoreIsIdle DEF CurrentRuns, Choosing, IdleReady, InService
<1>5. FreeIsEmpty'
  BY <1>1, <1>3 DEF FreeIsEmpty
<1>6. VictimWaits'
  <2>1. \A d \in Cores : (pc[d] = "deadline" => pc'[d] = "deadline") /\ (pc'[d] \in {"match", "wake"} => pc[d] = pc'[d])
    BY <1>1
  <2>2. \A d \in Cores : pc[d] = "wake" /\ state[arg[d]] = "READY" => owner[arg[d]] \in Cores
    BY DEF VictimWaits, FreeIsEmpty, Alive, Partition, OwnerKnown
  <2> QED BY <1>1, <2>1, <2>2 DEF VictimWaits
<1>7. SetupOwned'
  <2>1. \A d \in Cores : Creating(d)' => Creating(d) /\ (d # c => pc'[d] = pc[d])
    BY <1>1 DEF Creating
  <2>2. \A d \in Cores : Creating(d) => arg[d] \in Tasks
    BY DEF SetupOwned
  <2>3. used'[arg[c]]
    BY <1>2, <1>3 DEF t
  <2> QED BY <1>1, <1>3, <2>1, <2>2, <2>3 DEF SetupOwned
<1>8. UserReady'
  <2>1. priority[t] = SPAWN_PRIO
    BY <1>1 DEF SetupOwned, Creating, t
  <2> QED BY <1>1, <1>2, <1>3, <2>1 DEF UserReady
<1>9. NoPhantomAspace'
  BY <1>1 DEF NoPhantomAspace
<1>10. BestStands'
  <2>1. \A d \in Cores : AtBest(d) \subseteq (AtBest(d))'
    BY <1>1, <1>3 DEF AtBest, Candidates, Mine
  <2> QED BY <1>1, <2>1 DEF BestStands
<1>11. AllRequested'
  <2>1. \A u \in Tasks : used'[u] /\ state[u] = "READY" => used[u] /\ owner[u] \in Cores
    BY <1>2, <1>3 DEF Partition, OwnerKnown
  <2>2. \A u \in Tasks : Requested(u) => Requested(u)'
    BY <1>1 DEF Requested, Asked
  <2>3. \A u \in Tasks : owner[u] \in Cores /\ Outranked(owner[u], u) => Outranked(owner[u], u)'
    BY <1>1 DEF Outranked, Choosing
  <2> QED BY <1>1, <2>1, <2>2, <2>3 DEF AllRequested
<1> QED BY <1>1, <1>4, <1>5, <1>6, <1>7, <1>8, <1>9, <1>10, <1>11

LEMMA AdmitLife ==
    ASSUME IInv, LifeInv, NEW c \in Cores, Admit(c)
    PROVE  LifeInv'
<1> USE DEF IInv, TypeOK, TypeCore, TypeTcb
<1> DEFINE t == arg[c]
<1>1. /\ pc[c] = "setup" /\ state' = [state EXCEPT ![t] = "READY"] /\ user' = [user EXCEPT ![t] = TRUE]
      /\ IF owner[t] # c THEN pc' = [pc EXCEPT ![c] = "kick"] /\ arg' = arg
         ELSE pc' = [pc EXCEPT ![c] = "task"] /\ arg' = [arg EXCEPT ![c] = None]
      /\ UNCHANGED <<used, priority, owner, pid, current, stack, inst, s_reap, locking, best,
                     s_ipclock, need_resched, swallowed>>
  BY DEF Admit, Goto, cpu, locks, glob, resched
<1>2. /\ t \in Tasks /\ used[t] /\ state[t] = "SETUP" /\ priority[t] = SPAWN_PRIO
      /\ owner[t] = c => user[current[c]]
      /\ \A d \in Cores \ {c} : Creating(d) => arg[d] # t
  BY <1>1 DEF LifeInv, SetupOwned, Creating
<1>3. /\ current[c] \in Tasks /\ used[current[c]] /\ current[c] \notin Idles
  BY <1>1, OwnTask DEF LifeInv, IdleReady, InService
<1>4. /\ \A u \in Tasks \ {t} : state'[u] = state[u] /\ user'[u] = user[u]
      /\ state'[t] = "READY" /\ user'[t] = TRUE
      /\ \A d \in Cores \ {c} : pc'[d] = pc[d] /\ arg'[d] = arg[d]
      /\ pc'[c] \in {"kick", "task"}
  BY <1>1, <1>2
<1> HIDE DEF t
<1> USE DEF LifeInv
<1>5. \A d \in Cores : pc[d] # "boot" => current[d] \in Tasks /\ stack[d] \in Tasks
  BY OwnTask
<1>6. CurrentRuns'
  <2>1. \A d \in Cores : ~Choosing(d)' => ~Choosing(d) /\ pc[d] # "boot"
    BY <1>1, <1>4 DEF Choosing
  <2> QED BY <1>1, <1>2, <1>4, <1>5, <2>1 DEF CurrentRuns
<1>7. IdleReady'
  BY <1>1, <1>2, <1>3, <1>4, CoreIsIdle DEF IdleReady, InService
<1>8. FreeIsEmpty'
  <2>1. \A d \in Cores : s_reap[d] # None => s_reap[d] \in Tasks \ {t}
    BY <1>2 DEF FreeIsEmpty
  <2> QED BY <1>1, <1>2, <1>4, <2>1 DEF FreeIsEmpty, Alive
<1>9. VictimWaits'
  <2>1. \A d \in Cores : /\ pc[d] = "deadline" => pc'[d] = "deadline"
                         /\ pc'[d] \in {"match", "wake"} => pc[d] = pc'[d] /\ arg'[d] = arg[d]
    BY <1>1, <1>4
  <2>2. \A d \in Cores : pc[d] = "wake" => arg[d] \in Tasks \ {t} /\ owner[arg[d]] \in Cores
    BY <1>2 DEF VictimWaits, FreeIsEmpty, Alive, Partition, OwnerKnown
  <2> QED BY <1>1, <1>4, <2>1, <2>2 DEF VictimWaits
<1>10. SetupOwned'
  <2>1. \A d \in Cores : Creating(d)' => d # c /\ Creating(d) /\ pc'[d] = pc[d] /\ arg'[d] = arg[d] /\ arg[d] \in Tasks \ {t}
    BY <1>2, <1>4 DEF Creating, SetupOwned
  <2>2. \A u \in Tasks : user[u] => user'[u]
    BY <1>4
  <2>3. \A d \in Cores : Creating(d) => current[d] \in Tasks
    BY <1>5 DEF Creating
  <2> QED BY <1>1, <1>4, <2>1, <2>2, <2>3 DEF SetupOwned
<1>11. UserReady'
  BY <1>1, <1>2, <1>4 DEF UserReady
<1>12. NoPhantomAspace'
  BY <1>1, <1>4, <1>5 DEF NoPhantomAspace
<1>13. BestStands'
  <2>1. ASSUME NEW d \in Cores, pc'[d] = "pick"
        PROVE  /\ pc[d] = "pick" /\ AtBest(d) \subseteq (AtBest(d))'
               /\ state'[current[d]] = "RUNNING" => state[current[d]] = "RUNNING"
    <3>1. pc[d] = "pick" /\ current[d] \in Tasks
      BY <1>4, <1>5, <2>1
    <3>2. AtBest(d) \subseteq (AtBest(d))'
      BY <1>1, <1>2, <1>4 DEF AtBest, Candidates, Mine
    <3> QED BY <1>4, <3>1, <3>2
  <2> QED BY <1>1, <2>1 DEF BestStands
<1>14. AllRequested'
  <2> SUFFICES ASSUME NEW u \in Tasks, used[u], state'[u] = "READY", ~Requested(u)'
               PROVE  Outranked(owner[u], u)'
    BY <1>1 DEF AllRequested
  <2>1. owner[u] \in Cores
    BY DEF Partition, OwnerKnown
  <2>2. CASE u = t
    <3>1. owner[t] = c /\ pc'[c] = "task"
      BY <1>1, <1>4, <2>2 DEF Requested, Asked, t
    <3>2. priority[current[c]] = SPAWN_PRIO
      BY <1>2, <1>3, <3>1 DEF UserReady
    <3> QED BY <1>1, <1>2, <2>2, <3>1, <3>2 DEF Outranked, Choosing, SPAWN_PRIO
  <2>3. CASE u # t
    <3>1. state[u] = "READY" /\ ~Requested(u)
      BY <1>1, <1>4, <2>3 DEF Requested, Asked
    <3>2. Outranked(owner[u], u)
      BY <3>1 DEF AllRequested
    <3> QED BY <1>1, <1>4, <2>1, <3>2 DEF Outranked, Choosing
  <2> QED BY <2>2, <2>3
<1> QED BY <1>1, <1>6, <1>7, <1>8, <1>9, <1>10, <1>11, <1>12, <1>13, <1>14

-----------------------------------------------------------------------------
LEMMA LifeStep == NoContention /\ IInv /\ LifeInv /\ [Next]_vars => LifeInv'
<1> SUFFICES ASSUME NoContention, IInv, LifeInv, [Next]_vars PROVE LifeInv'
  OBVIOUS
<1>1. CASE UNCHANGED vars
  BY <1>1 DEF vars, tcb, cpu, call, locks, glob, resched, LifeInv, CurrentRuns, Choosing, IdleReady,
     InService, FreeIsEmpty, VictimWaits, SetupOwned, Creating, UserReady, BestStands, AtBest,
     Candidates, Mine, AllRequested, Requested, Asked, Outranked, NoPhantomAspace
<1>2. ASSUME NEW c \in Cores, CoreStep(c)
      PROVE  LifeInv'
  <2>1. CASE SchedEnter(c)
    BY <2>1, SchedEnterLife
  <2>2. CASE Schedule(c)
    BY <2>2, ScheduleBeginLife, ScanBestLife, PickNextLife, ContextSwitchLife DEF Schedule
  <2>3. CASE Irq(c)
    BY <2>3, TickLife, TickDeadlinesLife, PlainLife DEF Irq
  <2>4. CASE Service(c)
    <3>1. CASE Enter(c) \/ Leave(c) \/ Yield(c) \/ Kick(c)
      BY <3>1, PlainLife
    <3>2. CASE \/ \E ticks \in 0 .. MaxSleep : Sleep(c, ticks)
               \/ \E obj \in Objs, deadline \in {Never} \cup 1 .. MaxSleep : Block(c, obj, deadline)
      BY <3>2, StopsLife
    <3>3. ASSUME NEW obj \in Objs, Post(c, obj) PROVE LifeInv'
      BY <3>3, WakeOneLife DEF Post
    <3>4. ~Lock(c) /\ ~Unlock(c) /\ \A t \in Holders : ~Boost(c, t)
      BY DEF NoContention, LifeInv, Lock, Unlock, Boost
    <3> QED BY <2>4, <3>1, <3>2, <3>3, <3>4 DEF Service
  <2>5. CASE Create(c)
    BY <2>5, CreateFillLife, CreatePublishLife, AdmitLife DEF Create
  <2>6. CASE Kill(c)
    BY <2>6, KillFindLife, KillMarkLife, KillWakeLife DEF Kill
  <2>7. CASE Die(c)
    <3>1. CASE Exit(c) \/ SafePoint(c)
      BY <3>1, ExitEnterLife
    <3>2. ASSUME NEW obj \in Objs, ExitNotify(c, obj) PROVE LifeInv'
      BY <3>2, WakeOneLife DEF ExitNotify
    <3>3. CASE ExitZombie(c)
      BY <3>3, StopsLife
    <3> QED BY <2>7, <3>1, <3>2, <3>3 DEF Die
  <2> QED
    BY <1>2, <2>1, <2>2, <2>3, <2>4, <2>5, <2>6, <2>7 DEF CoreStep
<1> QED
  BY <1>1, <1>2 DEF Next

\* The life of a task, step by step: who is dead only leaves the pool, who waits is
\* made READY before it runs.
MovesOn(t) ==
    \/ state'[t] = state[t]
    \/ state[t] \notin Alive /\ state'[t] = "SETUP"
    \/ state[t] = "SETUP" /\ state'[t] = "READY"
    \/ state[t] = "READY" /\ state'[t] = "RUNNING"
    \/ state[t] = "RUNNING" /\ state'[t] \in {"READY", "SLEEPING", "BLOCKED", "ZOMBIE"}
    \/ state[t] \in {"SLEEPING", "BLOCKED"} /\ state'[t] = "READY"
    \/ state[t] = "ZOMBIE" /\ state'[t] = "UNUSED"

LEMMA ScheduleMoves ==
    ASSUME IInv, LifeInv, NEW c \in Cores, SchedEnter(c) \/ Schedule(c)
    PROVE  \A t \in Tasks : MovesOn(t)
<1> USE DEF IInv, TypeOK, TypeCore, TypeTcb, MovesOn
<1>1. CASE SchedEnter(c)
  BY <1>1 DEF SchedEnter, FirstChoice
<1>2. CASE ScheduleBegin(c)
  <2>1. s_reap[c] # None => s_reap[c] \in Tasks /\ state[s_reap[c]] = "ZOMBIE"
    BY DEF LifeInv, FreeIsEmpty
  <2> QED BY <1>2, <2>1 DEF ScheduleBegin, Reap, Reapable
<1>3. CASE ScanBest(c) \/ ContextSwitch(c)
  BY <1>3 DEF ScanBest, ContextSwitch, tcb
<1>4. CASE PickNext(c)
  <2>1. current[c] \in Tasks /\ AtBest(c) # {}
    BY <1>4, OwnTask DEF PickNext, LifeInv, BestStands
  <2>2. \A n : IsNext(c, n) => n \in Tasks /\ (state[n] = "READY" \/ (n = current[c] /\ state[n] = "RUNNING"))
    BY <2>1 DEF IsNext, AtBest, Candidates, Mine
  <2>3. CASE Keep(c)
    BY <2>1, <2>2, <2>3 DEF Keep
  <2>4. ASSUME NEW n \in Tasks, SwitchTo(c, n) PROVE \A t \in Tasks : MovesOn(t)
    BY <2>1, <2>2, <2>4 DEF SwitchTo
  <2> QED BY <1>4, <2>3, <2>4 DEF PickNext
<1> QED BY <1>1, <1>2, <1>3, <1>4 DEF Schedule

LEMMA ServiceMoves ==
    ASSUME NoContention, IInv, LifeInv, NEW c \in Cores, Irq(c) \/ Service(c)
    PROVE  \A t \in Tasks : MovesOn(t)
<1> USE DEF IInv, TypeOK, TypeCore, TypeTcb, MovesOn
<1>1. CASE Tick(c) \/ TickDeadlines(c)
  BY <1>1 DEF Tick, TickDeadlines, Wakeable, Expired, Mine
<1>2. CASE OtherIrq(c) \/ IrqExit(c) \/ Enter(c) \/ Leave(c) \/ Yield(c) \/ Kick(c)
  BY <1>2 DEF OtherIrq, IrqExit, Enter, Leave, Yield, Kick, tcb
<1>3. ASSUME NEW ticks \in 0 .. MaxSleep, Sleep(c, ticks) PROVE \A t \in Tasks : MovesOn(t)
  <2>1. current[c] \in Tasks /\ state[current[c]] = "RUNNING"
    BY <1>3, OwnTask DEF Sleep, LifeInv, CurrentRuns, Choosing
  <2> QED BY <1>3, <2>1 DEF Sleep, Me
<1>4. ASSUME NEW obj \in Objs, NEW deadline \in {Never} \cup 1 .. MaxSleep, Block(c, obj, deadline)
      PROVE  \A t \in Tasks : MovesOn(t)
  <2>1. current[c] \in Tasks /\ state[current[c]] = "RUNNING"
    BY <1>4, OwnTask DEF Block, LifeInv, CurrentRuns, Choosing
  <2> QED BY <1>4, <2>1 DEF Block, Me
<1>5. ASSUME NEW obj \in Objs, Post(c, obj) PROVE \A t \in Tasks : MovesOn(t)
  BY <1>5 DEF Post, WakeOne, Waiters
<1>6. ~Lock(c) /\ ~Unlock(c) /\ \A t \in Holders : ~Boost(c, t)
  BY DEF NoContention, LifeInv, Lock, Unlock, Boost
<1> QED BY <1>1, <1>2, <1>3, <1>4, <1>5, <1>6 DEF Irq, Service

LEMMA LifecycleMoves ==
    ASSUME IInv, LifeInv, NEW c \in Cores, Create(c) \/ Kill(c) \/ Die(c)
    PROVE  \A t \in Tasks : MovesOn(t)
<1> USE DEF IInv, TypeOK, TypeCore, TypeTcb, MovesOn
<1>1. ASSUME NEW core \in Cores, CreateFill(c, core) PROVE \A t \in Tasks : MovesOn(t)
  <2>1. \A t \in Tasks : ~used[t] => state[t] \notin Alive
    BY DEF LifeInv, FreeIsEmpty
  <2> QED BY <1>1, <2>1 DEF CreateFill, FirstFree, NewState
<1>2. CASE CreatePublish(c) \/ KillMark(c) \/ \E t \in Tasks : KillFind(c, t)
  BY <1>2 DEF CreatePublish, KillMark, KillFind, tcb
<1>3. CASE Admit(c)
  <2>1. arg[c] \in Tasks /\ state[arg[c]] = "SETUP"
    BY <1>3 DEF Admit, LifeInv, SetupOwned, Creating
  <2> QED BY <1>3, <2>1 DEF Admit
<1>4. CASE KillWake(c)
  <2>1. arg[c] \in Tasks /\ state[arg[c]] \in {"SLEEPING", "BLOCKED", "READY"}
    BY <1>4 DEF KillWake, LifeInv, VictimWaits
  <2> QED BY <1>4, <2>1 DEF KillWake
<1>5. CASE Exit(c) \/ SafePoint(c)
  <2>1. s_reap[c] # None => s_reap[c] \in Tasks /\ state[s_reap[c]] = "ZOMBIE"
    BY DEF LifeInv, FreeIsEmpty
  <2>2. Reap(c)
    BY <1>5 DEF Exit, SafePoint, ExitEnter, ExitReap
  <2> QED BY <2>1, <2>2 DEF Reap, Reapable
<1>6. ASSUME NEW obj \in Objs, ExitNotify(c, obj) PROVE \A t \in Tasks : MovesOn(t)
  BY <1>6 DEF ExitNotify, WakeOne, Waiters
<1>7. CASE ExitZombie(c)
  <2>1. current[c] \in Tasks /\ state[current[c]] = "RUNNING"
    BY <1>7, OwnTask DEF ExitZombie, LifeInv, CurrentRuns, Choosing
  <2> QED BY <1>7, <2>1 DEF ExitZombie, Me
<1> QED BY <1>1, <1>2, <1>3, <1>4, <1>5, <1>6, <1>7 DEF Create, Kill, Die

LEMMA StepMoves ==
    NoContention /\ IInv /\ LifeInv /\ [Next]_vars => \A t \in Tasks : MovesOn(t)
<1> SUFFICES ASSUME NoContention, IInv, LifeInv, [Next]_vars PROVE \A t \in Tasks : MovesOn(t)
  OBVIOUS
<1>1. CASE UNCHANGED vars
  BY <1>1 DEF vars, tcb, MovesOn
<1>2. ASSUME NEW c \in Cores, CoreStep(c) PROVE \A t \in Tasks : MovesOn(t)
  BY <1>2, ScheduleMoves, ServiceMoves, LifecycleMoves DEF CoreStep
<1> QED BY <1>1, <1>2 DEF Next

\* Where no mutex is contended, the tasks of the pool lead orderly lives; a request to
\* reschedule is lost only to the late clear of the core it was for (AllRequested).
THEOREM Lives == ASSUME NoContention PROVE Spec => [](IInv /\ LifeInv)
<1>1. Init => LifeInv
  BY LifeInit
<1>2. IInv /\ LifeInv /\ [Next]_vars => LifeInv'
  BY LifeStep
<1> QED BY <1>1, <1>2, InitInv, StepInv, PTL DEF Spec

\* A spawned process never executes in the kernel's address space: its slot stays
\* SETUP until ttbr and user_phys are written, and no kill or wake admits it early.
THEOREM AspaceFirst == ASSUME NoContention PROVE Spec => []NoPhantomAspace
<1>1. LifeInv => NoPhantomAspace
  BY DEF LifeInv
<1> QED BY <1>1, Lives, PTL

\* What runs has a slice left, or the end of its slice is a request of its own.
SliceLeft(c) == slice[current[c]] > 0
SliceEnds ==
    \A c \in Cores : /\ ~Choosing(c) /\ pc[c] # "irq" => SliceLeft(c)
                     /\ pc[c] = "irq" => SliceLeft(c) \/ need_resched[c]

\* A step of core c that leaves the slices alone, and is not the end of an interrupt.
KeepsSlices(c) ==
    /\ UNCHANGED <<slice, current>>
    /\ \A d \in Cores \ {c} : pc'[d] = pc[d] /\ (need_resched[d] => need_resched'[d])
    /\ Choosing(c) => Choosing(c)'
    /\ pc[c] = "irq" => pc'[c] = "clear" \/ ~need_resched[c]
    /\ pc'[c] # "irq" \/ need_resched'[c]

LEMMA KeepsSlicesEnds ==
    ASSUME SliceEnds, NEW c \in Cores, KeepsSlices(c)
    PROVE  SliceEnds'
<1> USE DEF SliceEnds, KeepsSlices, SliceLeft, Choosing
<1>1. ASSUME NEW d \in Cores \ {c}
      PROVE  /\ ~Choosing(d)' /\ pc'[d] # "irq" => SliceLeft(d)'
             /\ pc'[d] = "irq" => SliceLeft(d)' \/ need_resched'[d]
  OBVIOUS
<1>2. /\ ~Choosing(c)' /\ pc'[c] # "irq" => SliceLeft(c)'
      /\ pc'[c] = "irq" => SliceLeft(c)' \/ need_resched'[c]
  OBVIOUS
<1> QED BY <1>1, <1>2

LEMMA SliceStep == IInv /\ SliceEnds /\ [Next]_vars => SliceEnds'
<1> SUFFICES ASSUME IInv, SliceEnds, [Next]_vars PROVE SliceEnds'
  OBVIOUS
<1> USE DEF Goto
<1>1. CASE UNCHANGED vars
  BY <1>1 DEF vars, tcb, cpu, resched, SliceEnds, SliceLeft, Choosing
<1>2. ASSUME NEW c \in Cores, CoreStep(c)
      PROVE  SliceEnds'
  <2> USE DEF IInv, TypeOK, TypeCore
  <2>1. CASE SchedEnter(c)
    <3>1. PICK n \in Tasks : /\ used[n] /\ owner[n] = c /\ slice' = [slice EXCEPT ![n] = TIME_SLICE]
                            /\ current' = [current EXCEPT ![c] = n]
      BY <2>1 DEF SchedEnter, FirstChoice, Mine
    <3> QED BY <2>1, <3>1, OwnTask, ConstantFacts DEF SchedEnter, SliceEnds, SliceLeft, Choosing, TypeTcb, resched
  <2>2. CASE ScheduleBegin(c) \/ ScanBest(c)
    <3>1. KeepsSlices(c)
      BY <2>2 DEF ScheduleBegin, ScanBest, KeepsSlices, Choosing, tcb, cpu, resched
    <3> QED BY <3>1, KeepsSlicesEnds
  <2>3. CASE PickNext(c)
    <3>1. PICK n \in Tasks : /\ used[n] /\ owner[n] = c /\ slice' = [slice EXCEPT ![n] = TIME_SLICE]
                            /\ current' = [current EXCEPT ![c] = n] /\ pc' = [pc EXCEPT ![c] = pc'[c]]
                            /\ pc'[c] \in {"task", "switch"}
      <4>1. CASE Keep(c)
        <5>1. current[c] \in Tasks /\ used[current[c]] /\ owner[current[c]] = c
          BY <2>3, OwnTask DEF PickNext
        <5>2. current' = [current EXCEPT ![c] = current[c]] /\ pc' = [pc EXCEPT ![c] = "task"]
          BY <4>1 DEF Keep
        <5> QED BY <4>1, <5>1, <5>2 DEF Keep
      <4>2. ASSUME NEW n \in Tasks, SwitchTo(c, n)
            PROVE  /\ used[n] /\ owner[n] = c /\ slice' = [slice EXCEPT ![n] = TIME_SLICE]
                   /\ current' = [current EXCEPT ![c] = n] /\ pc' = [pc EXCEPT ![c] = pc'[c]]
                   /\ pc'[c] \in {"task", "switch"}
        BY <4>2, NextIsMine DEF SwitchTo
      <4> QED BY <2>3, <4>1, <4>2 DEF PickNext
    <3>2. pc[c] = "pick" /\ need_resched' = need_resched
      BY <2>3 DEF PickNext
    <3> QED BY <3>1, <3>2, OwnTask, ConstantFacts DEF SliceEnds, SliceLeft, Choosing, TypeTcb
  <2>4. CASE ContextSwitch(c)
    <3>1. KeepsSlices(c)
      BY <2>4 DEF ContextSwitch, KeepsSlices, Choosing, resched
    <3> QED BY <3>1, KeepsSlicesEnds
  <2>5. CASE TickDeadlines(c)
    <3>1. /\ pc[c] = "deadline" /\ pc' = [pc EXCEPT ![c] = "irq"] /\ current' = current
          /\ slice' = [slice EXCEPT ![current[c]] = IF @ > 0 THEN @ - 1 ELSE 0]
          /\ need_resched' = [need_resched EXCEPT
                                 ![c] = @ \/ Expired(c) # {} \/ slice[current[c]] <= 1]
      BY <2>5 DEF TickDeadlines, EndOfInterrupt, cpu
    <3>2. /\ current[c] \in Tasks /\ slice[current[c]] \in Nat
          /\ \A d \in Cores \ {c} : pc[d] # "boot" => current[d] \in Tasks /\ current[d] # current[c]
      BY <3>1, OwnTask, ConstantFacts DEF TypeTcb
    <3>3. need_resched'[c] \/ slice'[current[c]] > 0
      <4>1. need_resched'[c] = (need_resched[c] \/ Expired(c) # {} \/ slice[current[c]] <= 1)
        BY <3>1
      <4>2. CASE slice[current[c]] <= 1
        BY <4>1, <4>2
      <4>3. CASE ~(slice[current[c]] <= 1)
        <5>1. slice'[current[c]] = slice[current[c]] - 1
          BY <3>1, <3>2, <4>3 DEF TypeTcb
        <5> QED BY <3>2, <4>3, <5>1
      <4> QED BY <4>2, <4>3
    <3>4. ASSUME NEW d \in Cores \ {c}
          PROVE  /\ ~Choosing(d)' => ~Choosing(d) /\ pc'[d] = pc[d] /\ (SliceLeft(d)' <=> SliceLeft(d))
                 /\ need_resched'[d] = need_resched[d]
      BY <3>1, <3>2 DEF Choosing, SliceLeft, TypeTcb
    <3> QED BY <3>1, <3>3, <3>4 DEF SliceEnds, SliceLeft, Choosing
  <2>6. CASE Tick(c) \/ OtherIrq(c) \/ IrqExit(c)
    <3>1. KeepsSlices(c)
      BY <2>6 DEF Tick, OtherIrq, EndOfInterrupt, IrqExit, KeepsSlices, Choosing, tcb, cpu, resched
    <3> QED BY <3>1, KeepsSlicesEnds
  <2>7. CASE Service(c)
    <3>1. CASE Enter(c) \/ Leave(c) \/ Yield(c) \/ Lock(c) \/ Unlock(c)
      BY <2>7, <3>1, KeepsSlicesEnds
         DEF Enter, Leave, Yield, Lock, Unlock, KeepsSlices, Choosing, tcb, cpu, resched
    <3>2. ASSUME NEW ticks \in 0 .. MaxSleep, Sleep(c, ticks) PROVE SliceEnds'
      BY <3>2, KeepsSlicesEnds DEF Sleep, KeepsSlices, Choosing, cpu, resched
    <3>3. ASSUME NEW obj \in Objs, NEW deadline \in {Never} \cup 1 .. MaxSleep, Block(c, obj, deadline)
          PROVE  SliceEnds'
      BY <3>3, KeepsSlicesEnds DEF Block, KeepsSlices, Choosing, cpu, resched
    <3>4. ASSUME NEW obj \in Objs, Post(c, obj) PROVE SliceEnds'
      BY <3>4, KeepsSlicesEnds DEF Post, WakeOne, KeepsSlices, Choosing, cpu, resched
    <3>5. ASSUME NEW t \in Holders, Boost(c, t) PROVE SliceEnds'
      BY <3>5, KeepsSlicesEnds DEF Boost, KeepsSlices, Choosing, cpu, resched
    <3>6. CASE Kick(c)
      <4>1. \A d \in Cores : need_resched[d] => need_resched'[d]
        BY <3>6 DEF Kick, Deliver, Swallow, Request
      <4>2. KeepsSlices(c)
        BY <3>6, <4>1 DEF Kick, KeepsSlices, Choosing, tcb, cpu
      <4> QED BY <4>2, KeepsSlicesEnds
    <3> QED BY <2>7, <3>1, <3>2, <3>3, <3>4, <3>5, <3>6 DEF Service
  <2>8. CASE Create(c)
    <3>1. ASSUME NEW core \in Cores, CreateFill(c, core) PROVE SliceEnds'
      <4>1. PICK n \in Tasks : ~used[n] /\ slice' = [slice EXCEPT ![n] = TIME_SLICE]
        BY <3>1 DEF CreateFill, FirstFree
      <4>2. /\ pc[c] = "svc" /\ pc' = [pc EXCEPT ![c] = "publish"]
            /\ UNCHANGED <<current, need_resched>>
        BY <3>1 DEF CreateFill, cpu, resched
      <4>3. \A d \in Cores : pc[d] # "boot" => current[d] \in Tasks /\ current[d] # n
        BY <4>1, OwnTask
      <4>4. \A d \in Cores : ~Choosing(d)' => ~Choosing(d) /\ (SliceLeft(d)' <=> SliceLeft(d))
        BY <4>1, <4>2, <4>3 DEF Choosing, SliceLeft, TypeTcb
      <4>5. \A d \in Cores : (pc'[d] = "irq" <=> pc[d] = "irq") /\ (pc[d] = "irq" => ~Choosing(d)')
        BY <4>2 DEF Choosing
      <4> QED BY <4>2, <4>4, <4>5 DEF SliceEnds
    <3>2. CASE CreatePublish(c) \/ Admit(c)
      BY <3>2, KeepsSlicesEnds DEF CreatePublish, Admit, KeepsSlices, Choosing, cpu, resched
    <3> QED BY <2>8, <3>1, <3>2 DEF Create
  <2>9. CASE Kill(c)
    <3>1. KeepsSlices(c)
      BY <2>9 DEF Kill, KillFind, KillMark, KillWake, KeepsSlices, Choosing, tcb, cpu, resched
    <3> QED BY <3>1, KeepsSlicesEnds
  <2>10. CASE Die(c)
    <3>1. KeepsSlices(c)
      BY <2>10 DEF Die, Exit, SafePoint, ExitEnter, ExitNotify, WakeOne, ExitZombie, KeepsSlices, Choosing,
         cpu, resched
    <3> QED BY <3>1, KeepsSlicesEnds
  <2> QED
    BY <1>2, <2>1, <2>2, <2>3, <2>4, <2>5, <2>6, <2>7, <2>8, <2>9, <2>10 DEF CoreStep, Schedule, Irq
<1> QED BY <1>1, <1>2 DEF Next

\* A request of another core can be lost, to the core's own late clear; the wake or the
\* boost is then delayed until the slice of what runs ends, and a slice is running.
THEOREM OneSlice == ASSUME NoContention PROVE Spec => []BoundedByOneSlice
<1>1. Init => SliceEnds
  BY DEF Init, SliceEnds, Choosing
<1>2. IInv /\ LifeInv /\ SliceEnds => BoundedByOneSlice
  <2> SUFFICES ASSUME IInv, LifeInv, SliceEnds, NEW c \in Cores, NEW t \in Mine(c),
                      state[t] = "READY", ~Flagged(c)
               PROVE  /\ pc[c] = "pick" => best[c] <= priority[t] \/ c \in swallowed
                      /\ pc[c] \notin {"boot", "clear", "scan", "pick"} =>
                             \/ priority[current[c]] <= priority[t]
                             \/ c \in swallowed /\ slice[current[c]] > 0
    BY DEF BoundedByOneSlice
  <2>1. t \in Tasks /\ used[t] /\ owner[t] = c /\ t # None
    BY DEF Mine, Tasks, None
  <2>2. Requested(t) => c \in swallowed
    BY <2>1 DEF Requested, Asked, Flagged
  <2>3. ~Choosing(c) => slice[current[c]] > 0
    BY DEF SliceEnds, SliceLeft, Flagged
  <2> QED BY <2>1, <2>2, <2>3 DEF LifeInv, AllRequested, Outranked, Choosing
<1> QED BY <1>1, <1>2, Lives, SliceStep, PTL DEF Spec

\* ZOMBIE is final: neither a kill nor a wake nor the scheduler revives a dead task.
\* The fallback of pick_next, which does (see ZombieStaysDead), is out of reach while
\* the idle task of the core can be chosen and nobody changes a priority under the scan.
THEOREM DeadStayDead == ASSUME NoContention PROVE Spec => ZombieStaysDead
<1>1. IInv /\ LifeInv /\ [Next]_vars =>
        [\A t \in Tasks : state[t] = "ZOMBIE" => state'[t] \in {"ZOMBIE", "UNUSED"}]_vars
  BY StepMoves DEF MovesOn, Alive
<1> QED BY <1>1, Lives, PTL DEF Spec, ZombieStaysDead

\* Whoever sleeps or waits is made READY before it runs again.
THEOREM WokenFirst == ASSUME NoContention PROVE Spec => WaitIsLeftByWaking
<1>1. IInv /\ LifeInv /\ [Next]_vars =>
        [\A t \in Tasks : state[t] \in {"SLEEPING", "BLOCKED"} => state'[t] # "RUNNING"]_vars
  BY StepMoves DEF MovesOn, Alive
<1> QED BY <1>1, Lives, PTL DEF Spec, WaitIsLeftByWaking
=============================================================================
