-------------------------------- MODULE Ipc --------------------------------
(***************************************************************************)
(* Counting semaphores and mutexes with priority inheritance               *)
(* (kernel/ipc.c) over the wait queue of the scheduler.                    *)
(*                                                                         *)
(* Every call runs under s_ipclock with interrupts masked, and gives the   *)
(* lock up only inside sched_block_on_timeout: the actions below are the   *)
(* stretches between two such points.  A task that is READY may run its    *)
(* next stretch at any time: which one the dispatcher lets run matters     *)
(* only for the liveness properties, see Dispatched.                       *)
(***************************************************************************)
EXTENDS Integers, FiniteSets

CONSTANTS
    NTASKS,        \* tasks that use these objects, numbered as in tasks[]
    Base,          \* their priorities as created (0 is the best)
    CoreOf,        \* their owner cores
    Processes,     \* the tasks sched_kill_pid may wake: EL0 processes
    Sems, Mutexes,
    InitCount,     \* sem_init: [Sems -> initial count]
    MaxCount,      \* bound on a semaphore's count
    MaxTimeout     \* bound on timeout_ticks

Tasks == 0 .. NTASKS - 1
None == -1
Forever == -1                       \* timeout_ticks = 0: no deadline
WORST_PRIO == 255

ASSUME IpcAssumption ==
    /\ NTASKS \in Nat
    /\ Base \in [Tasks -> 0 .. WORST_PRIO]
    /\ Processes \subseteq Tasks
    /\ InitCount \in [Sems -> 0 .. MaxCount]
    /\ MaxCount \in Nat
    /\ MaxTimeout \in Nat
    /\ Sems \cap Mutexes = {}
    /\ None \notin Sems \cup Mutexes

VARIABLES
    count,                                  \* semaphore_t
    locked, owner_tid, owner_orig_prio,     \* mutex_t
    state, priority, wait_obj, timed_out,   \* tcb_t
    pc,           \* "run": outside; "sem", "mutex": in the loop of a wait
    obj,          \* the object of the call in progress
    deadline,     \* its deadline, in ticks still to go; while BLOCKED also wake_tick
    ret           \* what the last call returned: 0 or -1

mutex == <<locked, owner_tid, owner_orig_prio>>
tcb == <<state, wait_obj, timed_out>>
call == <<pc, obj, deadline, ret>>
vars == <<count, mutex, priority, tcb, call>>

Init ==
    /\ count = InitCount
    /\ locked = [m \in Mutexes |-> FALSE]
    /\ owner_tid = [m \in Mutexes |-> None]
    /\ owner_orig_prio = [m \in Mutexes |-> 0]
    /\ state = [t \in Tasks |-> "READY"]
    /\ priority = Base
    /\ wait_obj = [t \in Tasks |-> None]
    /\ timed_out = [t \in Tasks |-> FALSE]
    /\ pc = [t \in Tasks |-> "run"]
    /\ obj = [t \in Tasks |-> None]
    /\ deadline = [t \in Tasks |-> Forever]
    /\ ret = [t \in Tasks |-> 0]

(***************************************************************************)
(* sched_block_on_timeout and sched_wake_one                               *)
(***************************************************************************)
Block(t, o) ==
    /\ state' = [state EXCEPT ![t] = "BLOCKED"]
    /\ wait_obj' = [wait_obj EXCEPT ![t] = o]
    /\ timed_out' = [timed_out EXCEPT ![t] = FALSE]

Blocked(o) == {t \in Tasks : state[t] = "BLOCKED" /\ wait_obj[t] = o}

\* The best waiter, the first slot among equals.
First(o, w) ==
    /\ w \in Blocked(o)
    /\ \A u \in Blocked(o) :
          \/ priority[w] < priority[u]
          \/ priority[w] = priority[u] /\ w <= u

Wake(w) ==
    /\ state' = [state EXCEPT ![w] = "READY"]
    /\ wait_obj' = [wait_obj EXCEPT ![w] = None]
    /\ timed_out' = [timed_out EXCEPT ![w] = FALSE]

(***************************************************************************)
(* Waiting: the call is entered, blocks, and goes on when it is woken      *)
(***************************************************************************)
\* A call by t that is not in another one: obj, deadline and the loop it is in.
Calls(t, loop, o, timeout) ==
    /\ pc' = [pc EXCEPT ![t] = loop]
    /\ obj' = [obj EXCEPT ![t] = o]
    /\ deadline' = [deadline EXCEPT ![t] = timeout]
    /\ UNCHANGED ret

Returns(t, r) ==
    /\ ret' = [ret EXCEPT ![t] = r]
    /\ pc' = [pc EXCEPT ![t] = "run"]
    /\ obj' = [obj EXCEPT ![t] = None]
    /\ deadline' = [deadline EXCEPT ![t] = Forever]

\* The wait has run out: woken by the timer, or its deadline is behind.
GivesUp(t) == timed_out[t] \/ deadline[t] = 0

\* sem_wait_timeout up to the first block.
SemWait(t, s, timeout) ==
    /\ state[t] = "READY" /\ pc[t] = "run"
    /\ IF count[s] > 0
       THEN /\ count' = [count EXCEPT ![s] = @ - 1]
            /\ Returns(t, 0)
            /\ UNCHANGED tcb
       ELSE /\ Calls(t, "sem", s, timeout)
            /\ Block(t, s)
            /\ UNCHANGED count
    /\ UNCHANGED <<mutex, priority>>

Retry_Anew(t) == deadline' = [deadline EXCEPT ![t] = MaxTimeout]
\* The loop goes round with the deadline of the call.
Retry(t) == UNCHANGED deadline

SemResume_NoRecheck(t) ==
    /\ state[t] = "READY" /\ pc[t] = "sem"
    /\ IF timed_out[t]
       THEN Returns(t, -1) /\ UNCHANGED count
       ELSE Returns(t, 0) /\ count' = [count EXCEPT ![obj[t]] = @ - 1]
    /\ UNCHANGED <<mutex, priority, tcb>>

\* Behind sched_block_on_timeout: another task may have taken the token.
SemResume(t) ==
    /\ state[t] = "READY" /\ pc[t] = "sem"
    /\ IF count[obj[t]] > 0
       THEN /\ count' = [count EXCEPT ![obj[t]] = @ - 1]
            /\ Returns(t, 0)
            /\ UNCHANGED tcb
       ELSE /\ IF GivesUp(t)
               THEN Returns(t, -1) /\ UNCHANGED tcb
               ELSE Block(t, obj[t]) /\ Retry(t) /\ UNCHANGED <<pc, obj, ret>>
            /\ UNCHANGED count
    /\ UNCHANGED <<mutex, priority>>

Wakes_FromZero(s) == count[s] = 0 /\ Blocked(s) # {}
Wakes(s) == Blocked(s) # {}

SemPost(t, s) ==
    /\ state[t] = "READY" /\ pc[t] = "run"
    /\ count[s] < MaxCount
    /\ count' = [count EXCEPT ![s] = @ + 1]
    /\ IF Wakes(s)
       THEN \E w \in Tasks : First(s, w) /\ Wake(w)
       ELSE UNCHANGED tcb
    /\ UNCHANGED <<mutex, priority, call>>

(***************************************************************************)
(* Mutexes.  Legal use: by kernel tasks, one at a time ("einfachstufig"),  *)
(* a recursive lock panics, an unlock by another task is ignored.          *)
(***************************************************************************)
Owns(t, m) == owner_tid[m] = t
OwnsNone(t) == \A m \in Mutexes : ~Owns(t, m)

Inherit_Never(t, o) == priority
Inherit(t, o) ==
    IF priority[t] < priority[o] THEN [priority EXCEPT ![o] = priority[t]] ELSE priority

\* mutex_lock_timeout up to the first block.
MutexLock(t, m, timeout) ==
    /\ state[t] = "READY" /\ pc[t] = "run"
    /\ t \notin Processes /\ OwnsNone(t)
    /\ IF ~locked[m]
       THEN /\ locked' = [locked EXCEPT ![m] = TRUE]
            /\ owner_tid' = [owner_tid EXCEPT ![m] = t]
            /\ owner_orig_prio' = [owner_orig_prio EXCEPT ![m] = priority[t]]
            /\ Returns(t, 0)
            /\ UNCHANGED <<priority, tcb>>
       ELSE /\ priority' = Inherit(t, owner_tid[m])
            /\ Calls(t, "mutex", m, timeout)
            /\ Block(t, m)
            /\ UNCHANGED mutex
    /\ UNCHANGED count

MutexResume_DeadlineFirst(t) ==
    /\ state[t] = "READY" /\ pc[t] = "mutex"
    /\ IF GivesUp(t)
       THEN Returns(t, -1) /\ UNCHANGED tcb
       ELSE IF Owns(t, obj[t])
       THEN Returns(t, 0) /\ UNCHANGED tcb
       ELSE Block(t, obj[t]) /\ Retry(t) /\ UNCHANGED <<pc, obj, ret>>
    /\ UNCHANGED <<count, mutex, priority>>

\* The loop of mutex_lock_timeout: owned by handoff, given up, or blocked again.
MutexResume(t) ==
    /\ state[t] = "READY" /\ pc[t] = "mutex"
    /\ IF Owns(t, obj[t])
       THEN Returns(t, 0) /\ UNCHANGED tcb
       ELSE IF GivesUp(t)
       THEN Returns(t, -1) /\ UNCHANGED tcb
       ELSE Block(t, obj[t]) /\ Retry(t) /\ UNCHANGED <<pc, obj, ret>>
    /\ UNCHANGED <<count, mutex, priority>>

\* sched_wake_one chose the new owner; locked stays 1.
Handoff_Free(m, w) ==
    /\ locked' = [locked EXCEPT ![m] = FALSE]
    /\ owner_tid' = [owner_tid EXCEPT ![m] = None]
    /\ UNCHANGED owner_orig_prio
Handoff_KeepsPrio(m, w) ==
    /\ owner_tid' = [owner_tid EXCEPT ![m] = w]
    /\ UNCHANGED <<locked, owner_orig_prio>>
Handoff(m, w) ==
    /\ owner_tid' = [owner_tid EXCEPT ![m] = w]
    /\ owner_orig_prio' = [owner_orig_prio EXCEPT ![m] = priority[w]]
    /\ UNCHANGED locked

MutexUnlock(t, m) ==
    /\ state[t] = "READY" /\ pc[t] = "run"
    /\ locked[m] /\ Owns(t, m)
    /\ priority' = [priority EXCEPT ![t] = owner_orig_prio[m]]
    /\ IF Blocked(m) # {}
       THEN \E w \in Tasks : First(m, w) /\ Wake(w) /\ Handoff(m, w)
       ELSE /\ locked' = [locked EXCEPT ![m] = FALSE]
            /\ owner_tid' = [owner_tid EXCEPT ![m] = None]
            /\ UNCHANGED <<owner_orig_prio, tcb>>
    /\ UNCHANGED <<count, call>>

(***************************************************************************)
(* What else wakes a waiter                                                *)
(***************************************************************************)
\* Time passes for every deadline (timer_irq of core 0).
Tick ==
    /\ \E t \in Tasks : deadline[t] > 0
    /\ deadline' = [t \in Tasks |-> IF deadline[t] > 0 THEN deadline[t] - 1 ELSE deadline[t]]
    /\ UNCHANGED <<count, mutex, priority, tcb, pc, obj, ret>>

Expired(t) == state[t] = "BLOCKED" /\ deadline[t] = 0

\* sched_tick on the waiter's core.
Timeout(t) ==
    /\ Expired(t)
    /\ state' = [state EXCEPT ![t] = "READY"]
    /\ wait_obj' = [wait_obj EXCEPT ![t] = None]
    /\ timed_out' = [timed_out EXCEPT ![t] = TRUE]
    /\ UNCHANGED <<count, mutex, priority, call>>

\* sched_kill_pid makes a blocked process READY; sem_wait does not look at
\* kill_pending and goes round its loop.
KillWake(t) ==
    /\ t \in Processes /\ state[t] = "BLOCKED"
    /\ state' = [state EXCEPT ![t] = "READY"]
    /\ wait_obj' = [wait_obj EXCEPT ![t] = None]
    /\ UNCHANGED <<count, mutex, priority, timed_out, call>>

Timeouts == {Forever} \cup 1 .. MaxTimeout

Next ==
    \/ \E t \in Tasks :
          \/ \E s \in Sems, d \in Timeouts : SemWait(t, s, d)
          \/ SemResume(t)
          \/ \E s \in Sems : SemPost(t, s)
          \/ \E m \in Mutexes, d \in Timeouts : MutexLock(t, m, d)
          \/ MutexResume(t)
          \/ \E m \in Mutexes : MutexUnlock(t, m)
          \/ Timeout(t)
          \/ KillWake(t)
    \/ Tick

Spec == Init /\ [][Next]_vars

-----------------------------------------------------------------------------
(***************************************************************************)
(* Safety                                                                  *)
(***************************************************************************)
TypeOK ==
    /\ count \in [Sems -> 0 .. MaxCount]
    /\ locked \in [Mutexes -> BOOLEAN]
    /\ owner_tid \in [Mutexes -> Tasks \cup {None}]
    /\ owner_orig_prio \in [Mutexes -> 0 .. WORST_PRIO]
    /\ state \in [Tasks -> {"READY", "BLOCKED"}]
    /\ priority \in [Tasks -> 0 .. WORST_PRIO]
    /\ wait_obj \in [Tasks -> Sems \cup Mutexes \cup {None}]
    /\ timed_out \in [Tasks -> BOOLEAN]
    /\ pc \in [Tasks -> {"run", "sem", "mutex"}]
    /\ obj \in [Tasks -> Sems \cup Mutexes \cup {None}]
    /\ deadline \in [Tasks -> {Forever} \cup 0 .. MaxTimeout]
    /\ ret \in [Tasks -> {0, -1}]

\* Tasks woken from a semaphore that have not looked at its count again.
Retrying(s) == {t \in Tasks : state[t] = "READY" /\ pc[t] = "sem" /\ obj[t] = s}

\* No lost wakeup: while somebody is blocked on a semaphore, every token left
\* has a woken task on its way to it, whatever barging, timeouts and kills do.
NoLostWakeup ==
    \A s \in Sems : Blocked(s) # {} => count[s] <= Cardinality(Retrying(s))

\* A free mutex has no waiter, and an owner never waits for its own mutex: the
\* handoff in mutex_unlock reaches a task that takes it.
NoLostHandoff ==
    \A m \in Mutexes :
        /\ ~locked[m] => Blocked(m) = {}
        /\ locked[m] <=> owner_tid[m] # None
        /\ owner_tid[m] \notin Blocked(m)

\* Priority inheritance: no waiter of a mutex is better than its owner.
Inheritance ==
    \A m \in Mutexes : \A t \in Blocked(m) : priority[owner_tid[m]] <= priority[t]

\* A boost ends with the mutex it was for: a task that owns none is back at
\* the priority it was created with (owner_orig_prio).
BoostEnds == \A t \in Tasks : OwnsNone(t) => priority[t] = Base[t]

\* mutex_lock_timeout returns 0 exactly when the caller owns the mutex:
\* timeout and handoff exclude each other.
TimeoutXorOwner ==
    [][\A t \in Tasks : MutexResume(t) /\ pc'[t] = "run" =>
          (ret'[t] = 0 <=> owner_tid'[obj[t]] = t)]_vars

-----------------------------------------------------------------------------
(***************************************************************************)
(* Liveness.  What the scheduler owes (Sched): a task that stays READY     *)
(* with nobody better on its core is run.  What the tasks owe: a loop goes *)
(* round, a critical section ends.  What the timer owes: ticks.            *)
(***************************************************************************)
Dispatched(t) ==
    \A u \in Tasks : CoreOf[u] = CoreOf[t] /\ state[u] = "READY" => priority[t] <= priority[u]

Progress(t) ==
    /\ Dispatched(t)
    /\ SemResume(t) \/ MutexResume(t) \/ \E m \in Mutexes : MutexUnlock(t, m)

Fairness ==
    /\ \A t \in Tasks : WF_vars(Progress(t)) /\ WF_vars(Timeout(t))
    /\ WF_vars(Tick)

FairSpec == Spec /\ Fairness

\* A waiter with the best priority of all gets its mutex, even when its owner
\* shares a core with a busy task of a priority between theirs: what the
\* inheritance is for (no unbounded inversion).  Only an owner that goes to a
\* semaphore itself can keep it waiting.
Best(t) == \A u \in Tasks \ {t} : Base[t] < Base[u]
NoUnboundedInversion ==
    \A t \in Tasks : Best(t) =>
        (pc[t] = "mutex" ~>
            (pc[t] = "run" \/ \E u \in Tasks, m \in Mutexes :
                                  owner_tid[m] = u /\ u # t /\ pc[u] = "sem"))

\* A call with a timeout of the best task comes back, whatever the others do.
TimedCallReturns ==
    \A t \in Tasks : Best(t) => (deadline[t] # Forever ~> pc[t] = "run")
=============================================================================
