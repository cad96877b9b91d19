----------------------------- MODULE IpcProofs ------------------------------
(***************************************************************************)
(* Proofs about Ipc: no wakeup and no handoff is lost and priority         *)
(* inheritance is tight, for every number of tasks, objects, priorities,   *)
(* counts and timeouts.                                                    *)
(***************************************************************************)
EXTENDS Ipc, FiniteSetTheorems, TLAPS

\* A task in a wait is in it for an object of the right kind, and a blocked
\* task is blocked on that object.
InCall ==
    /\ \A t \in Tasks : pc[t] = "sem" => obj[t] \in Sems
    /\ \A t \in Tasks : pc[t] = "mutex" => obj[t] \in Mutexes
    /\ \A t \in Tasks : state[t] = "BLOCKED" => pc[t] # "run" /\ wait_obj[t] = obj[t]

\* Only kernel tasks wait for a mutex, and nothing else than the handoff and
\* the timeout wakes them.
Woken ==
    \A t \in Tasks : pc[t] = "mutex" =>
        t \notin Processes /\ (state[t] = "READY" => Owns(t, obj[t]) \/ timed_out[t])

\* Nobody owns two mutexes, or one while waiting for another.
Single ==
    /\ \A m, n \in Mutexes : owner_tid[m] # None /\ owner_tid[m] = owner_tid[n] => m = n
    /\ \A t \in Tasks, m \in Mutexes :
          pc[t] = "mutex" /\ Owns(t, m) => m = obj[t] /\ state[t] = "READY"

\* owner_orig_prio is the priority the owner was created with.
OrigPrio ==
    \A m \in Mutexes : locked[m] => owner_orig_prio[m] = Base[owner_tid[m]]

\* The invariant of the mutexes: each conjunct leans on the others.
MutexInv == InCall /\ Woken /\ Single /\ OrigPrio /\ NoLostHandoff /\ Inheritance /\ BoostEnds

IInv == TypeOK /\ MutexInv

-----------------------------------------------------------------------------
LEMMA InitInv == Init => IInv
<1> SUFFICES ASSUME Init PROVE IInv
  OBVIOUS
<1> USE IpcAssumption DEF Init, Tasks, None, Forever, WORST_PRIO
<1>1. TypeOK
  BY DEF TypeOK
<1>2. InCall /\ Woken /\ Single /\ OrigPrio
  BY DEF InCall, Woken, Single, OrigPrio, Owns
<1>3. NoLostHandoff /\ Inheritance /\ BoostEnds
  BY DEF NoLostHandoff, Inheritance, BoostEnds, Blocked
<1> QED
  BY <1>1, <1>2, <1>3 DEF IInv, MutexInv

\* What the mutexes see of a step that leaves them and the priorities alone:
\* tasks that wait for no mutex before and after, or that leave a wait.
LEMMA Aside ==
    ASSUME IInv, TypeOK', InCall', Woken', UNCHANGED <<mutex, priority>>,
           \A t \in Tasks, m \in Mutexes : wait_obj'[t] = m /\ state'[t] = "BLOCKED" =>
                wait_obj[t] = m /\ state[t] = "BLOCKED",
           \A t \in Tasks : pc'[t] = "mutex" => pc[t] = "mutex" /\ obj'[t] = obj[t],
           \A t \in Tasks : pc'[t] = "mutex" /\ state[t] = "READY" => state'[t] = "READY"
    PROVE  IInv'
<1> USE DEF IInv, MutexInv, mutex
<1>1. Single' /\ OrigPrio'
  BY DEF Single, OrigPrio, Owns, TypeOK
<1>2. \A m \in Mutexes : Blocked(m)' \subseteq Blocked(m)
  BY DEF Blocked
<1>3. NoLostHandoff' /\ Inheritance'
  BY <1>2 DEF NoLostHandoff, Inheritance
<1>4. BoostEnds'
  BY DEF BoostEnds, OwnsNone, Owns
<1> QED
  BY <1>1, <1>3, <1>4

LEMMA SemWaitInv ==
    ASSUME IInv, NEW t \in Tasks, NEW s \in Sems, NEW d \in Timeouts, SemWait(t, s, d)
    PROVE  IInv'
<1> USE IpcAssumption DEF None, Forever, Timeouts
<1>1. TypeOK'
  <2>1. CASE count[s] > 0
    <3>1. count' \in [Sems -> 0 .. MaxCount]
      BY <2>1 DEF IInv, TypeOK, SemWait
    <3>2. /\ pc' = [pc EXCEPT ![t] = "run"] /\ obj' = [obj EXCEPT ![t] = None]
          /\ deadline' = [deadline EXCEPT ![t] = Forever] /\ ret' = [ret EXCEPT ![t] = 0]
          /\ UNCHANGED <<locked, owner_tid, owner_orig_prio, priority,
                         state, wait_obj, timed_out>>
      BY <2>1 DEF SemWait, Returns, mutex, tcb
    <3> QED
      BY <3>1, <3>2 DEF IInv, TypeOK
  <2>2. CASE ~(count[s] > 0)
    <3>1. /\ pc' = [pc EXCEPT ![t] = "sem"] /\ obj' = [obj EXCEPT ![t] = s]
          /\ deadline' = [deadline EXCEPT ![t] = d]
          /\ state' = [state EXCEPT ![t] = "BLOCKED"]
          /\ wait_obj' = [wait_obj EXCEPT ![t] = s]
          /\ timed_out' = [timed_out EXCEPT ![t] = FALSE]
          /\ UNCHANGED <<count, locked, owner_tid, owner_orig_prio, priority, ret>>
      BY <2>2 DEF SemWait, Calls, Block, mutex
    <3> QED
      BY <3>1 DEF IInv, TypeOK
  <2> QED
    BY <2>1, <2>2
<1>2. InCall' /\ Woken'
  BY DEF IInv, MutexInv, TypeOK, InCall, Woken, Owns, SemWait, Returns, Calls, Block, mutex, tcb
<1>3. /\ \A u \in Tasks, m \in Mutexes : wait_obj'[u] = m /\ state'[u] = "BLOCKED" =>
                wait_obj[u] = m /\ state[u] = "BLOCKED"
      /\ \A u \in Tasks : pc'[u] = "mutex" => pc[u] = "mutex" /\ obj'[u] = obj[u]
      /\ \A u \in Tasks : pc'[u] = "mutex" /\ state[u] = "READY" => state'[u] = "READY"
  BY DEF IInv, TypeOK, SemWait, Returns, Calls, Block, tcb
<1> QED
  BY <1>1, <1>2, <1>3, Aside DEF SemWait

LEMMA SemResumeInv == ASSUME IInv, NEW t \in Tasks, SemResume(t) PROVE IInv'
<1> USE IpcAssumption DEF None, Forever
<1>1. obj[t] \in Sems
  BY DEF IInv, MutexInv, InCall, SemResume
<1>2. TypeOK'
  <2>1. CASE count[obj[t]] > 0
    <3>1. count' \in [Sems -> 0 .. MaxCount]
      BY <1>1, <2>1 DEF IInv, TypeOK, SemResume
    <3> QED
      BY <2>1, <3>1 DEF IInv, TypeOK, SemResume, Returns, mutex, tcb
  <2>2. CASE ~(count[obj[t]] > 0) /\ GivesUp(t)
    BY <2>2 DEF IInv, TypeOK, SemResume, Returns, mutex, tcb
  <2>3. CASE ~(count[obj[t]] > 0) /\ ~GivesUp(t)
    BY <2>3 DEF IInv, TypeOK, SemResume, Block, Retry, mutex, tcb
  <2> QED
    BY <2>1, <2>2, <2>3
<1>3. InCall' /\ Woken'
  BY <1>1 DEF IInv, MutexInv, TypeOK, InCall, Woken, Owns, SemResume, Returns, Block, mutex, tcb
<1>4. /\ \A u \in Tasks, m \in Mutexes : wait_obj'[u] = m /\ state'[u] = "BLOCKED" =>
                wait_obj[u] = m /\ state[u] = "BLOCKED"
      /\ \A u \in Tasks : pc'[u] = "mutex" => pc[u] = "mutex" /\ obj'[u] = obj[u]
      /\ \A u \in Tasks : pc'[u] = "mutex" /\ state[u] = "READY" => state'[u] = "READY"
  BY <1>1 DEF IInv, TypeOK, SemResume, Returns, Block, tcb
<1> QED
  BY <1>2, <1>3, <1>4, Aside DEF SemResume

LEMMA SemPostInv == ASSUME IInv, NEW t \in Tasks, NEW s \in Sems, SemPost(t, s) PROVE IInv'
<1> USE IpcAssumption DEF None, Forever
<1>1. count' \in [Sems -> 0 .. MaxCount]
  BY DEF IInv, TypeOK, SemPost
<1>2. CASE Wakes(s)
  <2>1. PICK w \in Tasks : First(s, w) /\ Wake(w)
    BY <1>2 DEF SemPost
  <2>2. TypeOK'
    BY <1>1, <2>1 DEF IInv, TypeOK, SemPost, Wake, mutex, call
  <2>3. InCall'
    BY <2>1 DEF IInv, MutexInv, TypeOK, InCall, SemPost, Wake, call
  <2>4. pc[w] # "mutex"
    BY <2>1, IpcAssumption DEF IInv, MutexInv, InCall, First, Blocked
  <2>5. Woken'
    BY <2>1, <2>4 DEF IInv, MutexInv, TypeOK, Woken, Owns, SemPost, Wake, mutex, call
  <2> QED
    BY <2>1, <2>2, <2>3, <2>5, Aside DEF SemPost, Wake, call, IInv, TypeOK
<1>3. CASE ~Wakes(s)
  <2>1. TypeOK'
    BY <1>1, <1>3 DEF IInv, TypeOK, SemPost, mutex, call, tcb
  <2>2. InCall' /\ Woken'
    BY <1>3 DEF IInv, MutexInv, InCall, Woken, Owns, SemPost, mutex, call, tcb
  <2> QED
    BY <1>3, <2>1, <2>2, Aside DEF SemPost, call, tcb
<1> QED
  BY <1>2, <1>3

LEMMA TimeoutInv == ASSUME IInv, NEW t \in Tasks, Timeout(t) \/ KillWake(t) PROVE IInv'
<1>1. /\ UNCHANGED <<count, mutex, priority, call>>
      /\ state' = [state EXCEPT ![t] = "READY"]
      /\ wait_obj' = [wait_obj EXCEPT ![t] = None]
  BY DEF Timeout, KillWake
<1>2. TypeOK'
  <2>1. timed_out' \in [Tasks -> BOOLEAN]
    BY DEF Timeout, KillWake, IInv, TypeOK
  <2> QED
    BY <1>1, <2>1 DEF IInv, TypeOK, mutex, call
<1>3. InCall'
  BY <1>1 DEF IInv, MutexInv, TypeOK, InCall, call
<1>4. Woken'
  <2>1. pc[t] = "mutex" => timed_out'[t]
    BY DEF Timeout, KillWake, IInv, MutexInv, Woken, TypeOK
  <2>2. \A u \in Tasks \ {t} : timed_out'[u] = timed_out[u] /\ state'[u] = state[u]
    BY DEF Timeout, KillWake, IInv, TypeOK
  <2> QED
    BY <1>1, <2>1, <2>2 DEF IInv, MutexInv, Woken, Owns, mutex, call
<1> QED
  BY <1>1, <1>2, <1>3, <1>4, Aside DEF call, IInv, TypeOK, None

LEMMA TickInv == ASSUME IInv, Tick PROVE IInv'
<1>1. TypeOK'
  BY IpcAssumption DEF IInv, TypeOK, Tick, mutex, tcb, Forever
<1>2. InCall' /\ Woken'
  BY DEF IInv, MutexInv, InCall, Woken, Owns, Tick, mutex, tcb
<1> QED
  BY <1>1, <1>2, Aside DEF Tick, tcb

-----------------------------------------------------------------------------
LEMMA Ordered == \A a, b \in 0 .. WORST_PRIO : a < b \/ b <= a
BY DEF WORST_PRIO

LEMMA Lowered ==
    ASSUME NEW f \in [Tasks -> 0 .. WORST_PRIO], NEW p \in 0 .. WORST_PRIO,
           NEW o \in Tasks, p < f[o], NEW g, g = [f EXCEPT ![o] = p]
    PROVE  /\ g \in [Tasks -> 0 .. WORST_PRIO]
           /\ \A u \in Tasks \ {o} : g[u] = f[u]
           /\ g[o] <= f[o] /\ g[o] <= p
<1>1. f[o] \in 0 .. 255 /\ p \in 0 .. 255
  BY DEF WORST_PRIO
<1> QED
  BY <1>1 DEF WORST_PRIO

LEMMA MutexLockInv ==
    ASSUME IInv, NEW t \in Tasks, NEW m \in Mutexes, NEW d \in Timeouts, MutexLock(t, m, d)
    PROVE  IInv'
<1> USE IpcAssumption DEF None, Forever, Timeouts
<1>1. TypeOK /\ state[t] = "READY" /\ pc[t] = "run" /\ OwnsNone(t) /\ priority[t] = Base[t]
  BY DEF IInv, MutexInv, BoostEnds, MutexLock
<1>2. CASE ~locked[m]
  <2>1. /\ locked' = [locked EXCEPT ![m] = TRUE]
        /\ owner_tid' = [owner_tid EXCEPT ![m] = t]
        /\ owner_orig_prio' = [owner_orig_prio EXCEPT ![m] = priority[t]]
        /\ pc' = [pc EXCEPT ![t] = "run"] /\ obj' = [obj EXCEPT ![t] = None]
        /\ UNCHANGED <<count, priority, state, wait_obj, timed_out>>
    BY <1>2 DEF MutexLock, Returns, tcb
  <2>2. TypeOK'
    BY <1>1, <1>2, <2>1 DEF TypeOK, MutexLock, Returns
  <2>9. Woken'
    BY <1>1, <1>2, <2>1 DEF IInv, MutexInv, TypeOK, Woken, Owns, NoLostHandoff, Tasks
  <2>3. InCall' /\ Single' /\ OrigPrio'
    BY <1>1, <2>1 DEF IInv, MutexInv, TypeOK, InCall, Single, OrigPrio, Owns, OwnsNone
  <2>4. \A n \in Mutexes : Blocked(n)' = Blocked(n)
    BY <2>1 DEF Blocked
  <2>5. Blocked(m) = {} /\ owner_tid[m] = None
    BY <1>2 DEF IInv, MutexInv, NoLostHandoff
  <2>6. NoLostHandoff'
    BY <1>1, <2>1, <2>4, <2>5 DEF IInv, MutexInv, TypeOK, NoLostHandoff, Tasks
  <2>7. Inheritance'
    BY <1>1, <2>1, <2>4, <2>5 DEF IInv, MutexInv, TypeOK, Inheritance
  <2>8. BoostEnds'
    <3> SUFFICES ASSUME NEW u \in Tasks, OwnsNone(u)' PROVE priority'[u] = Base[u]
      BY DEF BoostEnds
    <3>1. \A n \in Mutexes : owner_tid[n] # u
      BY <1>1, <2>1, <2>5 DEF OwnsNone, Owns, TypeOK, Tasks
    <3> QED
      BY <2>1, <3>1 DEF IInv, MutexInv, BoostEnds, OwnsNone, Owns
  <2> QED
    BY <2>2, <2>3, <2>6, <2>7, <2>8, <2>9 DEF IInv, MutexInv
<1>3. CASE locked[m]
  <2> DEFINE o == owner_tid[m]
  <2>1. /\ priority' = Inherit(t, o) /\ UNCHANGED mutex
        /\ pc' = [pc EXCEPT ![t] = "mutex"] /\ obj' = [obj EXCEPT ![t] = m]
        /\ state' = [state EXCEPT ![t] = "BLOCKED"]
        /\ wait_obj' = [wait_obj EXCEPT ![t] = m]
        /\ UNCHANGED count
    BY <1>3 DEF MutexLock, Calls, Block
  <2>2. o \in Tasks /\ o # t
    BY <1>1, <1>3 DEF IInv, MutexInv, NoLostHandoff, TypeOK, OwnsNone, Owns
  <2> HIDE DEF o
  <2>3. /\ priority' \in [Tasks -> 0 .. WORST_PRIO]
        /\ \A u \in Tasks \ {o} : priority'[u] = priority[u]
        /\ priority'[o] <= priority[o] /\ priority'[o] <= priority[t]
    <3>1. /\ priority \in [Tasks -> 0 .. WORST_PRIO]
          /\ priority[t] \in 0 .. WORST_PRIO /\ priority[o] \in 0 .. WORST_PRIO
      BY <1>1, <2>2 DEF TypeOK
    <3>2. CASE priority[t] < priority[o]
      <4>1. priority' = [priority EXCEPT ![o] = priority[t]]
        BY <2>1, <3>2 DEF Inherit
      <4> QED
        BY <2>2, <3>1, <3>2, <4>1, Lowered
    <3>3. CASE ~(priority[t] < priority[o])
      <4>1. priority' = priority
        BY <2>1, <3>3 DEF Inherit
      <4>2. priority[o] <= priority[t]
        BY <3>1, <3>3, Ordered
      <4> QED
        BY <2>2, <3>1, <4>1, <4>2 DEF WORST_PRIO
    <3> QED
      BY <3>2, <3>3
  <2>4. TypeOK'
    <3>1. /\ deadline' = [deadline EXCEPT ![t] = d] /\ UNCHANGED ret
          /\ timed_out' = [timed_out EXCEPT ![t] = FALSE]
      BY <1>3 DEF MutexLock, Calls, Block
    <3> QED
      BY <1>1, <2>1, <2>3, <3>1 DEF TypeOK, mutex
  <2>11. Woken'
    <3>1. timed_out' = [timed_out EXCEPT ![t] = FALSE] /\ t \notin Processes
      BY <1>3 DEF MutexLock, Calls, Block
    <3> QED
      BY <1>1, <2>1, <3>1 DEF IInv, MutexInv, TypeOK, Woken, Owns, mutex
  <2>5. InCall' /\ Single' /\ OrigPrio'
    BY <1>1, <2>1 DEF IInv, MutexInv, TypeOK, InCall, Single, OrigPrio, Owns, OwnsNone, mutex
  <2>6. \A n \in Mutexes : Blocked(n)' = IF n = m THEN Blocked(n) \cup {t} ELSE Blocked(n)
    BY <1>1, <2>1 DEF Blocked, TypeOK
  <2>7. NoLostHandoff'
    BY <1>1, <1>3, <2>1, <2>2, <2>6 DEF IInv, MutexInv, NoLostHandoff, mutex, o
  <2>8. \A n \in Mutexes : o \notin Blocked(n)
    <3>1. ASSUME NEW n \in Mutexes, o \in Blocked(n) PROVE FALSE
      <4>1. pc[o] = "mutex"
        BY <2>2, <3>1, IpcAssumption DEF IInv, MutexInv, InCall, Blocked, TypeOK
      <4>2. state[o] = "READY"
        BY <2>2, <4>1 DEF IInv, MutexInv, Single, Owns, o
      <4> QED
        BY <3>1, <4>2 DEF Blocked
    <3> QED
      BY <3>1
  <2>9. Inheritance'
    <3> SUFFICES ASSUME NEW n \in Mutexes, NEW u \in Blocked(n)'
                 PROVE  priority'[owner_tid'[n]] <= priority'[u]
      BY DEF Inheritance
    <3>1. u \in Tasks /\ u # o
      BY <2>2, <2>6, <2>8 DEF Blocked
    <3>2. owner_tid' = owner_tid
      BY <2>1 DEF mutex
    <3>3. CASE u \in Blocked(n)
      <4>1. priority[owner_tid[n]] <= priority[u] /\ owner_tid[n] \in Tasks
        BY <1>1, <3>3 DEF IInv, MutexInv, Inheritance, NoLostHandoff, TypeOK
      <4> QED
        BY <1>1, <2>2, <2>3, <3>1, <3>2, <4>1 DEF TypeOK
    <3>4. CASE u = t /\ n = m
      BY <1>1, <2>2, <2>3, <3>2, <3>4 DEF o
    <3> QED
      BY <2>6, <3>3, <3>4
  <2>10. BoostEnds'
    BY <2>1, <2>2, <2>3 DEF IInv, MutexInv, BoostEnds, OwnsNone, Owns, mutex, o
  <2> QED
    BY <2>4, <2>5, <2>7, <2>9, <2>10, <2>11 DEF IInv, MutexInv
<1> QED
  BY <1>2, <1>3

LEMMA MutexResumeInv == ASSUME IInv, NEW t \in Tasks, MutexResume(t) PROVE IInv'
<1> USE IpcAssumption DEF None, Forever
<1>1. state[t] = "READY" /\ pc[t] = "mutex" /\ TypeOK
  BY DEF IInv, MutexResume
<1>2. Owns(t, obj[t]) \/ GivesUp(t)
  BY <1>1 DEF IInv, MutexInv, Woken, GivesUp
<1>3. UNCHANGED tcb /\ \E r \in {0, -1} : Returns(t, r)
  BY <1>2 DEF MutexResume
<1>4. UNCHANGED <<count, mutex, priority>>
  BY DEF MutexResume
<1>5. TypeOK'
  BY <1>1, <1>3, <1>4 DEF TypeOK, Returns, mutex, tcb
<1>6. InCall' /\ Woken'
  BY <1>1, <1>3, <1>4 DEF IInv, MutexInv, TypeOK, InCall, Woken, Owns, Returns, mutex, tcb
<1> QED
  BY <1>1, <1>3, <1>4, <1>5, <1>6, Aside DEF Returns, tcb, TypeOK

LEMMA MutexUnlockInv ==
    ASSUME IInv, NEW t \in Tasks, NEW m \in Mutexes, MutexUnlock(t, m)
    PROVE  IInv'
<1> USE IpcAssumption DEF None, Forever
<1>1. /\ TypeOK /\ InCall /\ Woken /\ Single /\ OrigPrio
      /\ NoLostHandoff /\ Inheritance /\ BoostEnds
  BY DEF IInv, MutexInv
<1>2. /\ state[t] = "READY" /\ pc[t] = "run" /\ locked[m] /\ owner_tid[m] = t
      /\ UNCHANGED <<count, pc, obj, deadline, ret>>
  BY DEF MutexUnlock, Owns, call
<1>3. priority' = [priority EXCEPT ![t] = Base[t]]
  BY <1>1, <1>2 DEF MutexUnlock, OrigPrio
<1>4. priority' \in [Tasks -> 0 .. WORST_PRIO]
  BY <1>1, <1>3 DEF TypeOK
<1>5. \A n \in Mutexes \ {m} : owner_tid[n] # t
  BY <1>1, <1>2 DEF Single, TypeOK, Tasks
<1>6. CASE Blocked(m) # {}
  <2>1. PICK w \in Tasks : First(m, w) /\ Wake(w) /\ Handoff(m, w)
    BY <1>6 DEF MutexUnlock
  <2>2. /\ state' = [state EXCEPT ![w] = "READY"] /\ wait_obj' = [wait_obj EXCEPT ![w] = None]
        /\ timed_out' = [timed_out EXCEPT ![w] = FALSE]
        /\ owner_tid' = [owner_tid EXCEPT ![m] = w]
        /\ owner_orig_prio' = [owner_orig_prio EXCEPT ![m] = priority[w]]
        /\ locked' = locked
    BY <2>1 DEF Wake, Handoff
  <2>3. w \in Blocked(m) /\ \A u \in Blocked(m) : priority[w] <= priority[u]
    BY <1>1, <2>1 DEF First, TypeOK, Blocked
  <2>4. w # t /\ state[w] = "BLOCKED" /\ pc[w] = "mutex" /\ obj[w] = m
    BY <1>1, <1>2, <2>3 DEF InCall, TypeOK, Blocked
  <2>5. OwnsNone(w) /\ priority[w] = Base[w]
    BY <1>1, <2>4 DEF Single, BoostEnds, OwnsNone
  <2>6. TypeOK'
    <3>1. owner_orig_prio' \in [Mutexes -> 0 .. WORST_PRIO]
      BY <1>1, <2>2 DEF TypeOK
    <3> QED
      BY <1>1, <1>2, <1>4, <2>2, <3>1 DEF TypeOK
  <2>7. InCall' /\ Woken'
    BY <1>1, <1>2, <2>2, <2>4 DEF TypeOK, InCall, Woken, Owns
  <2>8. Single' /\ OrigPrio'
    BY <1>1, <1>2, <2>2, <2>4, <2>5 DEF TypeOK, Single, OrigPrio, Owns, OwnsNone
  <2>9. \A n \in Mutexes : Blocked(n)' = IF n = m THEN Blocked(n) \ {w} ELSE Blocked(n)
    BY <1>1, <2>2, <2>3 DEF Blocked, TypeOK
  <2>10. NoLostHandoff'
    BY <1>1, <1>2, <2>2, <2>9 DEF TypeOK, NoLostHandoff, Tasks
  <2>11. Inheritance'
    <3> SUFFICES ASSUME NEW n \in Mutexes, NEW u \in Blocked(n)'
                 PROVE  priority'[owner_tid'[n]] <= priority'[u]
      BY DEF Inheritance
    <3>1. u \in Blocked(n) /\ u \in Tasks /\ u # t
      BY <1>2, <2>9 DEF Blocked
    <3>2. priority'[u] = priority[u]
      BY <1>1, <1>3, <3>1 DEF TypeOK
    <3>3. CASE n = m
      BY <1>1, <1>3, <2>2, <2>3, <2>4, <3>1, <3>2, <3>3 DEF TypeOK
    <3>4. CASE n # m
      <4>1. owner_tid'[n] = owner_tid[n] /\ owner_tid[n] \in Tasks \ {t}
        BY <1>1, <1>5, <2>2, <3>1, <3>4 DEF TypeOK, NoLostHandoff
      <4>2. priority'[owner_tid[n]] = priority[owner_tid[n]]
        BY <1>1, <1>3, <4>1 DEF TypeOK
      <4> QED
        BY <1>1, <3>1, <3>2, <4>1, <4>2 DEF Inheritance
    <3> QED
      BY <3>3, <3>4
  <2>12. BoostEnds'
    BY <1>1, <1>2, <1>3, <2>2 DEF TypeOK, BoostEnds, OwnsNone, Owns
  <2> QED
    BY <2>6, <2>7, <2>8, <2>10, <2>11, <2>12 DEF IInv, MutexInv
<1>7. CASE Blocked(m) = {}
  <2>1. /\ locked' = [locked EXCEPT ![m] = FALSE]
        /\ owner_tid' = [owner_tid EXCEPT ![m] = None]
        /\ UNCHANGED <<owner_orig_prio, state, wait_obj, timed_out>>
    BY <1>7 DEF MutexUnlock, tcb
  <2>2. TypeOK'
    BY <1>1, <1>2, <1>4, <2>1 DEF TypeOK
  <2>3. InCall' /\ Woken'
    BY <1>1, <1>2, <2>1 DEF TypeOK, InCall, Woken, Owns
  <2>4. Single' /\ OrigPrio'
    BY <1>1, <1>2, <2>1 DEF TypeOK, Single, OrigPrio, Owns, Tasks
  <2>5. \A n \in Mutexes : Blocked(n)' = Blocked(n)
    BY <2>1 DEF Blocked
  <2>6. NoLostHandoff'
    BY <1>1, <1>2, <1>7, <2>1, <2>5 DEF TypeOK, NoLostHandoff, Tasks
  <2>7. Inheritance'
    <3> SUFFICES ASSUME NEW n \in Mutexes, NEW u \in Blocked(n)
                 PROVE  priority'[owner_tid'[n]] <= priority'[u]
      BY <2>5 DEF Inheritance
    <3>1. n # m /\ u \in Tasks \ {t}
      BY <1>2, <1>7 DEF Blocked
    <3>2. owner_tid'[n] = owner_tid[n] /\ owner_tid[n] \in Tasks \ {t}
      BY <1>1, <1>5, <2>1, <3>1 DEF TypeOK, NoLostHandoff
    <3>3. priority'[owner_tid[n]] = priority[owner_tid[n]] /\ priority'[u] = priority[u]
      BY <1>1, <1>3, <3>1, <3>2 DEF TypeOK
    <3> QED
      BY <1>1, <3>2, <3>3 DEF Inheritance
  <2>8. BoostEnds'
    BY <1>1, <1>2, <1>3, <2>1 DEF TypeOK, BoostEnds, OwnsNone, Owns
  <2> QED
    BY <2>2, <2>3, <2>4, <2>6, <2>7, <2>8 DEF IInv, MutexInv
<1> QED
  BY <1>6, <1>7

-----------------------------------------------------------------------------
LEMMA StutterInv == ASSUME IInv, UNCHANGED vars PROVE IInv'
BY DEF vars, mutex, tcb, call, IInv, MutexInv, TypeOK, InCall, Woken, Single, OrigPrio, Owns,
       NoLostHandoff, Inheritance, BoostEnds, OwnsNone, Blocked

LEMMA StepInv == IInv /\ [Next]_vars => IInv'
<1> SUFFICES ASSUME IInv, [Next]_vars PROVE IInv'
  OBVIOUS
<1>1. ASSUME NEW t \in Tasks, NEW s \in Sems, NEW d \in Timeouts, SemWait(t, s, d) PROVE IInv'
  BY <1>1, SemWaitInv
<1>2. ASSUME NEW t \in Tasks, SemResume(t) PROVE IInv'
  BY <1>2, SemResumeInv
<1>3. ASSUME NEW t \in Tasks, NEW s \in Sems, SemPost(t, s) PROVE IInv'
  BY <1>3, SemPostInv
<1>4. ASSUME NEW t \in Tasks, NEW m \in Mutexes, NEW d \in Timeouts, MutexLock(t, m, d)
      PROVE  IInv'
  BY <1>4, MutexLockInv
<1>5. ASSUME NEW t \in Tasks, MutexResume(t) PROVE IInv'
  BY <1>5, MutexResumeInv
<1>6. ASSUME NEW t \in Tasks, NEW m \in Mutexes, MutexUnlock(t, m) PROVE IInv'
  BY <1>6, MutexUnlockInv
<1>7. ASSUME NEW t \in Tasks, Timeout(t) \/ KillWake(t) PROVE IInv'
  BY <1>7, TimeoutInv
<1> QED
  BY <1>1, <1>2, <1>3, <1>4, <1>5, <1>6, <1>7, TickInv, StutterInv DEF Next

\* The semaphores: a token more than there are retrying tasks, with somebody
\* blocked, is what no step brings about.
Covered(s) == Blocked(s) # {} => count[s] <= Cardinality(Retrying(s))

LEMMA TasksFinite == \A S \in SUBSET Tasks : IsFiniteSet(S) /\ Cardinality(S) \in Nat
<1>1. IsFiniteSet(Tasks)
  BY IpcAssumption, FS_Interval, 0 \in Int, NTASKS - 1 \in Int DEF Tasks
<1> QED
  BY <1>1, FS_Subset, FS_CardinalityType

\* Steps that add no token and no waiter, and send nobody away empty.
LEMMA StaysCovered ==
    ASSUME TypeOK, TypeOK', NEW s \in Sems, Covered(s), count'[s] <= count[s],
           Blocked(s)' # {} => Blocked(s) # {}, Retrying(s) \subseteq Retrying(s)'
    PROVE  Covered(s)'
<1>1. Retrying(s) \in SUBSET Tasks /\ Retrying(s)' \in SUBSET Tasks
  BY DEF Retrying
<1>2. /\ IsFiniteSet(Retrying(s)') /\ Cardinality(Retrying(s)') \in Nat
      /\ Cardinality(Retrying(s)) \in Nat
  BY <1>1, TasksFinite
<1>3. Cardinality(Retrying(s)) <= Cardinality(Retrying(s)')
  BY <1>2, FS_Subset
<1>4. count[s] \in Int /\ count'[s] \in Int
  BY IpcAssumption DEF TypeOK
<1> QED
  BY <1>2, <1>3, <1>4 DEF Covered

LEMMA EmptyCovered == ASSUME NEW s \in Sems, TypeOK', count'[s] = 0 PROVE Covered(s)'
<1>1. Retrying(s)' \in SUBSET Tasks
  BY DEF Retrying
<1> QED
  BY <1>1, TasksFinite DEF Covered

LEMMA CoveredInit == ASSUME Init, NEW s \in Sems PROVE Covered(s)
BY DEF Init, Covered, Blocked

LEMMA SemWaitCovered ==
    ASSUME IInv, IInv', NEW t \in Tasks, NEW r \in Sems, NEW d \in Timeouts, SemWait(t, r, d),
           NEW s \in Sems, Covered(s)
    PROVE  Covered(s)'
<1>1. TypeOK /\ TypeOK'
  BY DEF IInv
<1>2. pc[t] = "run" /\ state[t] = "READY"
  BY DEF SemWait
<1>3. CASE count[r] > 0
  <2>1. /\ count' = [count EXCEPT ![r] = @ - 1] /\ UNCHANGED <<state, wait_obj>>
        /\ pc' = [pc EXCEPT ![t] = "run"] /\ obj' = [obj EXCEPT ![t] = None]
    BY <1>3 DEF SemWait, Returns, tcb
  <2>2. count'[s] <= count[s]
    BY <1>1, <2>1, IpcAssumption DEF TypeOK
  <2>3. Blocked(s)' = Blocked(s) /\ Retrying(s) \subseteq Retrying(s)'
    BY <1>1, <1>2, <2>1 DEF Blocked, Retrying, TypeOK
  <2> QED
    BY <1>1, <2>2, <2>3, StaysCovered
<1>4. CASE ~(count[r] > 0)
  <2>1. /\ count' = count /\ state' = [state EXCEPT ![t] = "BLOCKED"]
        /\ wait_obj' = [wait_obj EXCEPT ![t] = r]
        /\ pc' = [pc EXCEPT ![t] = "sem"] /\ obj' = [obj EXCEPT ![t] = r]
    BY <1>4 DEF SemWait, Calls, Block
  <2>2. CASE s = r
    <3>1. count'[s] = 0
      BY <1>1, <1>4, <2>1, <2>2, IpcAssumption DEF TypeOK
    <3> QED
      BY <1>1, <3>1, EmptyCovered
  <2>3. CASE s # r
    <3>1. Blocked(s)' = Blocked(s) /\ Retrying(s) \subseteq Retrying(s)'
      BY <1>1, <1>2, <2>1, <2>3 DEF Blocked, Retrying, TypeOK
    <3>2. count'[s] <= count[s]
      BY <1>1, <2>1, IpcAssumption DEF TypeOK
    <3> QED
      BY <1>1, <3>1, <3>2, StaysCovered
  <2> QED
    BY <2>2, <2>3
<1> QED
  BY <1>3, <1>4

LEMMA SemResumeCovered ==
    ASSUME IInv, IInv', NEW t \in Tasks, SemResume(t), NEW s \in Sems, Covered(s)
    PROVE  Covered(s)'
<1>1. TypeOK /\ TypeOK' /\ obj[t] \in Sems /\ pc[t] = "sem" /\ state[t] = "READY"
  BY DEF IInv, MutexInv, InCall, SemResume
<1>2. t \in Retrying(obj[t])
  BY <1>1 DEF Retrying
<1>3. CASE count[obj[t]] > 0
  <2>1. /\ count' = [count EXCEPT ![obj[t]] = @ - 1] /\ UNCHANGED <<state, wait_obj>>
        /\ pc' = [pc EXCEPT ![t] = "run"] /\ obj' = [obj EXCEPT ![t] = None]
    BY <1>3 DEF SemResume, Returns, tcb
  <2>2. Blocked(s)' = Blocked(s)
    BY <2>1 DEF Blocked
  <2>3. CASE s = obj[t]
    <3>1. Retrying(s)' = Retrying(s) \ {t}
      BY <1>1, <2>1, <2>3 DEF Retrying, TypeOK
    <3>2. Retrying(s) \in SUBSET Tasks
      BY DEF Retrying
    <3>3. Cardinality(Retrying(s)') = Cardinality(Retrying(s)) - 1
      BY <1>2, <2>3, <3>1, <3>2, TasksFinite, FS_RemoveElement
    <3>4. count'[s] = count[s] - 1
      BY <1>1, <2>1, <2>3 DEF TypeOK
    <3>5. count[s] \in Int /\ Cardinality(Retrying(s)) \in Int
      BY <1>1, <3>2, TasksFinite, IpcAssumption DEF TypeOK
    <3> QED
      BY <2>2, <3>3, <3>4, <3>5 DEF Covered
  <2>4. CASE s # obj[t]
    <3>1. count'[s] <= count[s]
      BY <1>1, <2>1, <2>4, IpcAssumption DEF TypeOK
    <3>2. Retrying(s) \subseteq Retrying(s)'
      BY <1>1, <2>1, <2>4 DEF Retrying, TypeOK
    <3> QED
      BY <1>1, <2>2, <3>1, <3>2, StaysCovered
  <2> QED
    BY <2>3, <2>4
<1>4. CASE ~(count[obj[t]] > 0)
  <2>1. count' = count
    BY <1>4 DEF SemResume
  <2>2. CASE s = obj[t]
    <3>1. count'[s] = 0
      BY <1>1, <1>4, <2>1, <2>2, IpcAssumption DEF TypeOK
    <3> QED
      BY <1>1, <3>1, EmptyCovered
  <2>3. CASE s # obj[t]
    <3>1. count'[s] <= count[s]
      BY <1>1, <2>1, IpcAssumption DEF TypeOK
    <3>2. Blocked(s)' \subseteq Blocked(s) /\ Retrying(s) \subseteq Retrying(s)'
      BY <1>1, <1>4, <2>3 DEF SemResume, Returns, Block, tcb, Blocked, Retrying, TypeOK
    <3> QED
      BY <1>1, <3>1, <3>2, StaysCovered
  <2> QED
    BY <2>2, <2>3
<1> QED
  BY <1>3, <1>4

LEMMA SemPostCovered ==
    ASSUME IInv, IInv', NEW t \in Tasks, NEW r \in Sems, SemPost(t, r), NEW s \in Sems, Covered(s)
    PROVE  Covered(s)'
<1>1. TypeOK /\ TypeOK' /\ count' = [count EXCEPT ![r] = @ + 1] /\ UNCHANGED <<pc, obj>>
  BY DEF IInv, SemPost, call
<1>2. CASE Wakes(r)
  <2>1. PICK w \in Tasks : First(r, w) /\ Wake(w)
    BY <1>2 DEF SemPost
  <2>2. /\ state' = [state EXCEPT ![w] = "READY"] /\ wait_obj' = [wait_obj EXCEPT ![w] = None]
        /\ w \in Blocked(r)
    BY <2>1 DEF First, Wake
  <2>3. state[w] = "BLOCKED" /\ pc[w] = "sem" /\ obj[w] = r
    BY <1>1, <2>2, IpcAssumption DEF IInv, MutexInv, InCall, Blocked, TypeOK
  <2>4. CASE s = r
    <3>1. Retrying(s)' = Retrying(s) \cup {w} /\ w \notin Retrying(s)
      BY <1>1, <2>2, <2>3, <2>4 DEF Retrying, TypeOK
    <3>2. Retrying(s) \in SUBSET Tasks
      BY DEF Retrying
    <3>3. Cardinality(Retrying(s)') = Cardinality(Retrying(s)) + 1
      BY <3>1, <3>2, TasksFinite, FS_AddElement
    <3>4. count'[s] = count[s] + 1 /\ Blocked(s) # {}
      BY <1>1, <2>2, <2>4 DEF TypeOK
    <3>5. count[s] \in Int /\ Cardinality(Retrying(s)) \in Int
      BY <1>1, <3>2, TasksFinite, IpcAssumption DEF TypeOK
    <3> QED
      BY <3>3, <3>4, <3>5 DEF Covered
  <2>5. CASE s # r
    <3>1. count'[s] <= count[s]
      BY <1>1, <2>5, IpcAssumption DEF TypeOK
    <3>2. Blocked(s)' \subseteq Blocked(s) /\ Retrying(s) \subseteq Retrying(s)'
      BY <1>1, <2>2 DEF Blocked, Retrying, TypeOK
    <3> QED
      BY <1>1, <3>1, <3>2, StaysCovered
  <2> QED
    BY <2>4, <2>5
<1>3. CASE ~Wakes(r)
  <2>1. UNCHANGED <<state, wait_obj>>
    BY <1>3 DEF SemPost, tcb
  <2>2. Blocked(s)' = Blocked(s) /\ Retrying(s)' = Retrying(s)
    BY <1>1, <2>1 DEF Blocked, Retrying
  <2>3. CASE s = r
    BY <1>3, <2>2, <2>3 DEF Covered, Wakes
  <2>4. CASE s # r
    <3>1. count'[s] <= count[s]
      BY <1>1, <2>4, IpcAssumption DEF TypeOK
    <3> QED
      BY <1>1, <2>2, <3>1, StaysCovered
  <2> QED
    BY <2>3, <2>4
<1> QED
  BY <1>2, <1>3

\* Mutex calls, wakeups by time or by a kill, and ticks.
LEMMA RestCovered ==
    ASSUME IInv, IInv', NEW s \in Sems, Covered(s), UNCHANGED count,
           \/ \E t \in Tasks, m \in Mutexes, d \in Timeouts : MutexLock(t, m, d)
           \/ \E t \in Tasks : MutexResume(t)
           \/ \E t \in Tasks, m \in Mutexes : MutexUnlock(t, m)
           \/ \E t \in Tasks : Timeout(t) \/ KillWake(t)
           \/ Tick
           \/ UNCHANGED vars
    PROVE  Covered(s)'
<1>1. TypeOK /\ TypeOK' /\ count'[s] <= count[s]
  BY IpcAssumption DEF IInv, TypeOK
<1>2. s \notin Mutexes /\ s # None
  BY IpcAssumption
<1>3. CASE \E t \in Tasks, m \in Mutexes, d \in Timeouts : MutexLock(t, m, d)
  <2>1. PICK t \in Tasks, m \in Mutexes, d \in Timeouts : MutexLock(t, m, d)
    BY <1>3
  <2>2. Blocked(s)' \subseteq Blocked(s) /\ Retrying(s) \subseteq Retrying(s)'
    BY <1>1, <1>2, <2>1 DEF MutexLock, Returns, Calls, Block, tcb, Blocked, Retrying, TypeOK
  <2> QED
    BY <1>1, <2>2, StaysCovered
<1>4. CASE \E t \in Tasks : MutexResume(t)
  <2>1. PICK t \in Tasks : MutexResume(t)
    BY <1>4
  <2>2. obj[t] \in Mutexes
    BY <2>1 DEF IInv, MutexInv, InCall, MutexResume
  <2>3. Blocked(s)' \subseteq Blocked(s) /\ Retrying(s) \subseteq Retrying(s)'
    BY <1>1, <1>2, <2>1, <2>2
       DEF MutexResume, Returns, Block, tcb, Blocked, Retrying, TypeOK
  <2> QED
    BY <1>1, <2>3, StaysCovered
<1>5. CASE \E t \in Tasks, m \in Mutexes : MutexUnlock(t, m)
  <2>1. PICK t \in Tasks, m \in Mutexes : MutexUnlock(t, m)
    BY <1>5
  <2>2. /\ UNCHANGED <<pc, obj>>
        /\ UNCHANGED tcb \/ \E w \in Tasks : Wake(w)
    BY <2>1 DEF MutexUnlock, call, tcb
  <2>3. Blocked(s)' \subseteq Blocked(s) /\ Retrying(s) \subseteq Retrying(s)'
    BY <1>1, <1>2, <2>2 DEF Wake, tcb, Blocked, Retrying, TypeOK
  <2> QED
    BY <1>1, <2>3, StaysCovered
<1>6. CASE \E t \in Tasks : Timeout(t) \/ KillWake(t)
  <2>1. PICK t \in Tasks : Timeout(t) \/ KillWake(t)
    BY <1>6
  <2>2. Blocked(s)' \subseteq Blocked(s) /\ Retrying(s) \subseteq Retrying(s)'
    BY <1>1, <1>2, <2>1 DEF Timeout, KillWake, call, Blocked, Retrying, TypeOK
  <2> QED
    BY <1>1, <2>2, StaysCovered
<1>7. CASE Tick \/ UNCHANGED vars
  <2>1. Blocked(s)' = Blocked(s) /\ Retrying(s)' = Retrying(s)
    BY <1>7 DEF Tick, vars, tcb, call, Blocked, Retrying
  <2> QED
    BY <1>1, <2>1, StaysCovered
<1> QED
  BY <1>3, <1>4, <1>5, <1>6, <1>7

LEMMA StepCovered ==
    ASSUME IInv, IInv', [Next]_vars, NEW s \in Sems, Covered(s) PROVE Covered(s)'
<1>1. ASSUME NEW t \in Tasks, NEW r \in Sems, NEW d \in Timeouts, SemWait(t, r, d)
      PROVE  Covered(s)'
  BY <1>1, SemWaitCovered
<1>2. ASSUME NEW t \in Tasks, SemResume(t) PROVE Covered(s)'
  BY <1>2, SemResumeCovered
<1>3. ASSUME NEW t \in Tasks, NEW r \in Sems, SemPost(t, r) PROVE Covered(s)'
  BY <1>3, SemPostCovered
<1>4. ASSUME NEW t \in Tasks, NEW m \in Mutexes, NEW d \in Timeouts, MutexLock(t, m, d)
      PROVE  Covered(s)'
  BY <1>4, RestCovered DEF MutexLock
<1>5. ASSUME NEW t \in Tasks, MutexResume(t) PROVE Covered(s)'
  BY <1>5, RestCovered DEF MutexResume
<1>6. ASSUME NEW t \in Tasks, NEW m \in Mutexes, MutexUnlock(t, m) PROVE Covered(s)'
  BY <1>6, RestCovered DEF MutexUnlock
<1>7. ASSUME NEW t \in Tasks, Timeout(t) \/ KillWake(t) PROVE Covered(s)'
  <2>1. UNCHANGED count
    BY <1>7 DEF Timeout, KillWake
  <2> QED
    BY <1>7, <2>1, RestCovered
<1>8. CASE Tick
  BY <1>8, RestCovered DEF Tick
<1>9. CASE UNCHANGED vars
  BY <1>9, RestCovered DEF vars
<1> QED
  BY <1>1, <1>2, <1>3, <1>4, <1>5, <1>6, <1>7, <1>8, <1>9 DEF Next

-----------------------------------------------------------------------------
\* The inductive invariant: types, and what ties owners, waiters, handoffs and
\* priorities together.
THEOREM Invariance == Spec => []IInv
BY InitInv, StepInv, PTL DEF Spec

\* Every field of a semaphore, a mutex, a task and a call keeps its range:
\* sem_wait never takes a token that is not there.
THEOREM TypeCorrect == Spec => []TypeOK
<1>1. IInv => TypeOK
  BY DEF IInv
<1> QED
  BY <1>1, Invariance, PTL

\* mutex_unlock hands the mutex to a waiter that takes it, and frees it only
\* when nobody waits.
THEOREM HandoffSafe == Spec => []NoLostHandoff
<1>1. IInv => NoLostHandoff
  BY DEF IInv, MutexInv
<1> QED
  BY <1>1, Invariance, PTL

\* The owner of a mutex is at least as good as its best waiter, and is back at
\* its own priority once it owns none.
THEOREM InheritanceTight == Spec => [](Inheritance /\ BoostEnds)
<1>1. IInv => Inheritance /\ BoostEnds
  BY DEF IInv, MutexInv
<1> QED
  BY <1>1, Invariance, PTL

\* No token lies unused while a task sleeps for it, unless a woken task is on
\* its way to it.
THEOREM WakeupSafe == Spec => []NoLostWakeup
<1>1. NoLostWakeup <=> \A s \in Sems : Covered(s)
  BY DEF NoLostWakeup, Covered
<1>2. Init => NoLostWakeup
  BY <1>1, CoveredInit
<1>3. NoLostWakeup /\ IInv /\ IInv' /\ [Next]_vars => NoLostWakeup'
  <2> SUFFICES ASSUME NoLostWakeup, IInv, IInv', [Next]_vars, NEW s \in Sems
               PROVE  Covered(s)'
    BY DEF NoLostWakeup, Covered
  <2> QED
    BY <1>1, StepCovered
<1> QED
  BY <1>2, <1>3, Invariance, PTL DEF Spec

\* mutex_lock_timeout returns 0 exactly when the caller owns the mutex: a handoff that
\* comes after the timer has woken the waiter still counts, and a caller that is told
\* -1 owns nothing.
THEOREM GivenOrGivenUp == Spec => TimeoutXorOwner
<1>1. ASSUME TypeOK, NEW t \in Tasks, MutexResume(t), pc'[t] = "run"
      PROVE  ret'[t] = 0 <=> owner_tid'[obj[t]] = t
  <2>1. owner_tid' = owner_tid /\ pc[t] = "mutex"
    BY <1>1 DEF MutexResume, mutex
  <2>2. \/ Owns(t, obj[t]) /\ Returns(t, 0)
        \/ ~Owns(t, obj[t]) /\ Returns(t, -1)
        \/ pc' = pc
    BY <1>1 DEF MutexResume
  <2>3. \A r \in {0, -1} : Returns(t, r) => ret'[t] = r
    BY <1>1 DEF Returns, TypeOK
  <2> QED
    BY <1>1, <2>1, <2>2, <2>3 DEF Owns
<1>2. TypeOK /\ [Next]_vars =>
          [\A t \in Tasks : MutexResume(t) /\ pc'[t] = "run" =>
              (ret'[t] = 0 <=> owner_tid'[obj[t]] = t)]_vars
  BY <1>1
<1> QED
  BY <1>2, TypeCorrect, PTL DEF Spec, TimeoutXorOwner
=============================================================================
