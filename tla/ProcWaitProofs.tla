--------------------------- MODULE ProcWaitProofs ---------------------------
(***************************************************************************)
(* Proofs about ProcWait: exit statuses are told once, to the parent, and  *)
(* no wakeup of a waiting parent is lost, for every number of processes,   *)
(* records and every pattern of kills.                                     *)
(***************************************************************************)
EXTENDS ProcWait, TLAPS

\* Pids are handed out in order, and a parent was born before its child.
Births ==
    /\ \A p \in Pids : st[p] = "unborn" <=> p >= g_next_pid
    /\ \A p \in Pids : st[p] = "unborn" => ppid[p] = Kernel
    /\ \A p \in Pids : ppid[p] # Kernel => st[ppid[p]] # "unborn" /\ ppid[p] < p

\* A process in sched_wait_pid has a target; one that has blocked there waits
\* for a child of its own.
Waiting ==
    /\ \A p \in Pids : st[p] \in {"asks", "blocked", "woken"} => target[p] \in Pids
    /\ \A p \in Pids : st[p] \in {"blocked", "woken"} => ppid[target[p]] = p

\* A process that reported without a record had no parent left to tell.
Unreported ==
    \A t \in Pids : Reported(t) /\ fate[t] = "none" => ~Live(ppid[t])

IInv ==
    /\ TypeOK
    /\ Births
    /\ Waiting
    /\ Unreported
    /\ RecordsTrue
    /\ NoLostAnswer

-----------------------------------------------------------------------------
LEMMA InitInv == Init => IInv
<1> SUFFICES ASSUME Init PROVE IInv
  OBVIOUS
<1> USE ProcWaitAssumption DEF Init, Pids, Slots, None, Kernel, Free
<1>1. TypeOK
  BY DEF TypeOK
<1>2. Births /\ Waiting
  BY DEF Births, Waiting
<1>3. Unreported /\ RecordsTrue /\ NoLostAnswer
  BY DEF Unreported, RecordsTrue, NoLostAnswer, Reported
<1> QED
  BY <1>1, <1>2, <1>3 DEF IInv

\* A process moves on to another step without touching records, pids or its
\* parent, and without leaving the report behind it.
MovesTo(p, s, r) ==
    /\ s \in {"user", "asks", "woken", "exits", "freed", "zombie"}
    /\ st[p] \notin {"unborn", "zombie"}
    /\ st' = [st EXCEPT ![p] = s]
    /\ Reported(p) <=> s \in {"freed", "zombie"}
    /\ target' \in [Pids -> Pids \cup {None}]
    /\ \A q \in Pids \ {p} : target'[q] = target[q]
    /\ s \in {"asks", "woken"} => target'[p] \in Pids
    /\ s = "woken" => st[p] = "blocked" /\ target' = target
    /\ ret' = [ret EXCEPT ![p] = r]
    /\ r \in {-1} \cup 0 .. 255
    /\ kill_pending' \in [Pids -> BOOLEAN]
    /\ code' \in [Pids -> Int]
    /\ \A q \in Pids : Reported(q) => code'[q] = code[q]
    /\ UNCHANGED <<ppid, s_exitrec, g_next_pid, fate>>

LEMMA Moves ==
    ASSUME IInv, NEW p \in Pids, NEW s, NEW r, MovesTo(p, s, r)
    PROVE  IInv'
<1> USE DEF IInv, MovesTo
<1>1. TypeOK'
  BY DEF TypeOK
<1>2. Births'
  BY DEF Births, TypeOK
<1>3. Waiting'
  BY DEF Waiting, TypeOK
<1>4. \A q : Live(q)' => Live(q)
  BY DEF Live, TypeOK
<1>5. \A q \in Pids : Reported(q)' <=> Reported(q)
  BY DEF Reported, TypeOK
<1>6. Unreported'
  BY <1>4, <1>5 DEF Unreported
<1>7. RecordsTrue'
  <2>1. \A i \in Slots : s_exitrec[i] # Free => s_exitrec[i].pid \in Pids
    BY DEF TypeOK
  <2>2. \A i \in Slots : s_exitrec[i] # Free =>
           code'[s_exitrec[i].pid] = code[s_exitrec[i].pid]
    BY <2>1 DEF RecordsTrue
  <2> QED
    BY <1>5, <2>1, <2>2 DEF RecordsTrue
<1>8. NoLostAnswer'
  BY DEF NoLostAnswer, TypeOK
<1> QED
  BY <1>1, <1>2, <1>3, <1>6, <1>7, <1>8

LEMMA SpawnInv == ASSUME IInv, NEW p \in Pids, Spawn(p) PROVE IInv'
<1> USE DEF IInv
<1> DEFINE g == g_next_pid
<1>1. /\ g \in Pids /\ st[p] = "user" /\ p # g
      /\ st' = [st EXCEPT ![g] = "user"] /\ ppid' = [ppid EXCEPT ![g] = p]
      /\ g_next_pid' = g + 1 /\ st[g] = "unborn" /\ ppid[g] = Kernel
      /\ UNCHANGED <<kill_pending, code, target, ret, s_exitrec, fate>>
  BY DEF Spawn, Births, TypeOK
<1>2. TypeOK'
  BY <1>1, ProcWaitAssumption DEF TypeOK, Pids
<1>3. Births'
  BY <1>1 DEF Births, TypeOK, Pids, Kernel
<1>4. Waiting'
  <2>1. \A q \in Pids : st[q] \in {"blocked", "woken"} => target[q] \in Pids /\ target[q] # g
    BY <1>1 DEF Waiting, Pids, Kernel
  <2> QED
    BY <1>1, <2>1 DEF Waiting, TypeOK
<1>5. \A q \in Pids : /\ Reported(q)' <=> Reported(q)
                      /\ Reported(q) => q # g /\ ppid'[q] = ppid[q]
  BY <1>1 DEF Reported, TypeOK
<1>6. \A q \in Pids : ppid[q] # g
  BY <1>1 DEF Births, TypeOK, Kernel, Pids
<1>7. Unreported'
  <2>1. \A q \in Pids : Reported(q) /\ fate[q] = "none" => ~Live(ppid[q])'
    BY <1>1, <1>5, <1>6 DEF Unreported, Live, TypeOK
  <2> QED
    BY <1>1, <1>5, <2>1 DEF Unreported
<1>8. RecordsTrue'
  <2>1. \A i \in Slots : s_exitrec[i] # Free => s_exitrec[i].pid \in Pids
    BY DEF TypeOK
  <2> QED
    BY <1>1, <1>5, <2>1 DEF RecordsTrue
<1>9. NoLostAnswer'
  BY <1>1 DEF NoLostAnswer, TypeOK
<1> QED
  BY <1>2, <1>3, <1>4, <1>7, <1>8, <1>9

LEMMA EnterWaitInv == ASSUME IInv, NEW p \in Pids, NEW t \in Pids, EnterWait(p, t) PROVE IInv'
<1>1. TypeOK /\ st[p] = "user" /\ ~Reported(p)
  BY DEF IInv, EnterWait, Reported
<1>2. target' \in [Pids -> Pids \cup {None}] /\ target'[p] \in Pids
  BY <1>1 DEF TypeOK, EnterWait
<1>3. ret' = [ret EXCEPT ![p] = ret[p]] /\ ret[p] \in {-1} \cup 0 .. 255
  BY <1>1 DEF TypeOK, EnterWait
<1> QED
  <2>1. MovesTo(p, "asks", ret[p])
    BY <1>1, <1>2, <1>3 DEF EnterWait, TypeOK, MovesTo
  <2> QED
    BY <2>1, Moves

LEMMA DiesInv ==
    ASSUME IInv, NEW p \in Pids, NEW c \in Int, st[p] \in {"user", "woken"}, Dies(p, c)
    PROVE  IInv'
<1>1. TypeOK /\ ~Reported(p)
  BY DEF IInv, Reported
<1>2. target' \in [Pids -> Pids \cup {None}]
  BY <1>1 DEF TypeOK, Dies
<1>3. ret' = [ret EXCEPT ![p] = ret[p]] /\ ret[p] \in {-1} \cup 0 .. 255
  BY <1>1 DEF TypeOK, Dies
<1>4. code' \in [Pids -> Int] /\ \A q \in Pids : Reported(q) => code'[q] = code[q]
  BY <1>1 DEF TypeOK, Dies
<1> QED
  <2>1. MovesTo(p, "exits", ret[p])
    BY <1>1, <1>2, <1>3, <1>4 DEF Dies, TypeOK, MovesTo
  <2> QED
    BY <2>1, Moves

LEMMA HookZombieInv == ASSUME IInv, NEW p \in Pids, Hook(p) \/ Zombie(p) PROVE IInv'
<1>1. TypeOK /\ Reported(p)
  BY DEF IInv, Reported, Hook, Zombie
<1>3. ret' = [ret EXCEPT ![p] = ret[p]] /\ ret[p] \in {-1} \cup 0 .. 255
  BY <1>1 DEF TypeOK, Hook, Zombie
<1>4. CASE Hook(p)
  <2>1. MovesTo(p, "freed", ret[p])
    BY <1>1, <1>3, <1>4 DEF Hook, TypeOK, MovesTo, Reported
  <2> QED
    BY <2>1, Moves
<1>5. CASE Zombie(p)
  <2>1. MovesTo(p, "zombie", ret[p])
    BY <1>1, <1>3, <1>5 DEF Zombie, TypeOK, MovesTo, Reported
  <2> QED
    BY <2>1, Moves
<1> QED
  BY <1>4, <1>5

LEMMA KillInv == ASSUME IInv, NEW p \in Pids, NEW t \in Pids, Kill(p, t) PROVE IInv'
<1>1. TypeOK /\ kill_pending' \in [Pids -> BOOLEAN]
  BY DEF IInv, Kill, TypeOK
<1>2. ret' = [ret EXCEPT ![t] = ret[t]] /\ ret[t] \in {-1} \cup 0 .. 255
  BY <1>1 DEF TypeOK, Kill
<1>3. CASE st[t] = "blocked"
  <2>1. target[t] \in Pids /\ ~Reported(t)
    BY <1>3 DEF IInv, Waiting, Reported
  <2>2. MovesTo(t, "woken", ret[t])
    BY <1>1, <1>2, <1>3, <2>1 DEF Kill, TypeOK, MovesTo
  <2> QED
    BY <2>2, Moves
<1>4. CASE st[t] # "blocked"
  <2>1. UNCHANGED <<st, ppid, code, target, ret, s_exitrec, g_next_pid, fate>>
    BY <1>4 DEF Kill
  <2>2. TypeOK'
    BY <1>1, <2>1 DEF TypeOK
  <2>3. (Births /\ Waiting /\ Unreported /\ RecordsTrue /\ NoLostAnswer)'
    BY <2>1 DEF IInv, Births, Waiting, Unreported, RecordsTrue, NoLostAnswer, Live, Reported
  <2> QED
    BY <2>2, <2>3 DEF IInv
<1> QED
  BY <1>3, <1>4

\* What a round of the loop finds in the table is the child's own record.
LEMMA RecordOfChild ==
    ASSUME IInv, NEW p \in Pids, NEW t \in Pids, NEW i \in RecordOf(t, p)
    PROVE  /\ i \in Slots /\ s_exitrec[i] # Free
           /\ ppid[t] = p /\ Reported(t) /\ fate[t] = "pending"
           /\ s_exitrec[i].code = code[t] % 256
           /\ s_exitrec[i].code \in 0 .. 255
           /\ \A j \in Slots : s_exitrec[j].pid = t <=> j = i
<1>1. i \in Slots /\ s_exitrec[i].pid = t
  BY DEF RecordOf
<1>2. s_exitrec[i] # Free
  BY <1>1 DEF Free, None, Pids
<1> QED
  BY <1>1, <1>2 DEF IInv, RecordsTrue, RecordOf, TypeOK

LEMMA LookInv ==
    ASSUME IInv, NEW p \in Pids, st[p] \in {"asks", "woken"}, Look(p)
    PROVE  IInv'
<1> DEFINE t == target[p]
<1>1. t \in Pids
  BY DEF IInv, Waiting
<1>2. TypeOK
  BY DEF IInv
<1>3. CASE RecordOf(t, p) # {}
  <2>1. PICK i \in RecordOf(t, p) : Answer(p, s_exitrec[i].code) /\ Harvest(i)
    BY <1>3 DEF Look
  <2>2. /\ fate' = [fate EXCEPT ![t] = "told"]
        /\ UNCHANGED <<ppid, kill_pending, code, g_next_pid>>
    BY <1>3 DEF Look
  <2>3. /\ i \in Slots /\ s_exitrec[i] # Free /\ Reported(t) /\ fate[t] = "pending"
        /\ s_exitrec[i].code \in 0 .. 255
        /\ \A j \in Slots : s_exitrec[j].pid = t <=> j = i
    BY <1>1, RecordOfChild
  <2>4. /\ st' = [st EXCEPT ![p] = "user"] /\ target' = [target EXCEPT ![p] = None]
        /\ ret' = [ret EXCEPT ![p] = s_exitrec[i].code]
        /\ s_exitrec' = [s_exitrec EXCEPT ![i] = Free]
    BY <2>1 DEF Answer, Harvest
  <2> HIDE DEF t
  <2>5. TypeOK'
    BY <1>1, <1>2, <2>2, <2>3, <2>4 DEF TypeOK, None
  <2>6. (Births /\ Waiting)'
    BY <1>2, <2>2, <2>4 DEF IInv, Births, Waiting, TypeOK
  <2>7. /\ \A q \in Pids : Reported(q)' <=> Reported(q)
        /\ \A q : Live(q)' <=> Live(q)
    BY <1>2, <2>4 DEF Reported, Live, TypeOK
  <2>8. Unreported'
    BY <1>1, <1>2, <2>2, <2>7 DEF IInv, Unreported, TypeOK
  <2>9. RecordsTrue'
    <3>1. \A j \in Slots : s_exitrec[j] # Free => s_exitrec[j].pid \in Pids
      BY <1>2 DEF TypeOK
    <3>2. \A j \in Slots : s_exitrec'[j] = IF j = i THEN Free ELSE s_exitrec[j]
      BY <1>2, <2>4 DEF TypeOK
    <3>3. Free.pid \notin Pids
      BY DEF Free, None, Pids
    <3>4. \A q \in Pids : fate'[q] = "pending" <=> \E j \in Slots : s_exitrec'[j].pid = q
      BY <1>1, <1>2, <2>2, <2>3, <3>2, <3>3 DEF IInv, RecordsTrue, TypeOK
    <3> QED
      BY <2>2, <2>3, <2>7, <3>1, <3>2, <3>3, <3>4 DEF IInv, RecordsTrue
  <2>10. NoLostAnswer'
    BY <1>1, <1>2, <2>2, <2>4 DEF IInv, NoLostAnswer, TypeOK
  <2> QED
    BY <2>5, <2>6, <2>8, <2>9, <2>10 DEF IInv
<1>4. CASE RecordOf(t, p) = {} /\ ChildAlive(t, p)
  <2>1. /\ st' = [st EXCEPT ![p] = "blocked"]
        /\ UNCHANGED <<target, ret, ppid, kill_pending, code, g_next_pid, s_exitrec, fate>>
    BY <1>4 DEF Look
  <2>2. TypeOK'
    BY <1>2, <2>1 DEF TypeOK
  <2>3. (Births /\ Waiting)'
    BY <1>1, <1>2, <1>4, <2>1 DEF IInv, Births, Waiting, TypeOK, ChildAlive
  <2>4. /\ \A q \in Pids : Reported(q)' <=> Reported(q)
        /\ \A q : Live(q)' <=> Live(q)
    BY <1>2, <2>1 DEF Reported, Live, TypeOK
  <2>5. (Unreported /\ RecordsTrue)'
    <3>1. \A j \in Slots : s_exitrec[j] # Free => s_exitrec[j].pid \in Pids
      BY <1>2 DEF TypeOK
    <3> QED
      BY <2>1, <2>4, <3>1 DEF IInv, Unreported, RecordsTrue
  <2>6. fate[t] # "pending"
    <3>1. ASSUME fate[t] = "pending" PROVE FALSE
      <4>1. PICK i \in Slots : s_exitrec[i].pid = t
        BY <1>1, <3>1 DEF IInv, RecordsTrue
      <4>2. s_exitrec[i] # Free
        BY <1>1, <4>1 DEF Free, None, Pids
      <4>3. s_exitrec[i].ppid = p
        BY <1>4, <4>1, <4>2 DEF IInv, RecordsTrue, ChildAlive
      <4> QED
        BY <1>4, <4>1, <4>3 DEF RecordOf
    <3> QED
      BY <3>1
  <2>7. NoLostAnswer'
    BY <1>2, <2>1, <2>6 DEF IInv, NoLostAnswer, TypeOK
  <2> QED
    BY <2>2, <2>3, <2>5, <2>7 DEF IInv
<1>5. CASE RecordOf(t, p) = {} /\ ~ChildAlive(t, p)
  <2>1. Answer(p, -1) /\ UNCHANGED <<ppid, kill_pending, code, g_next_pid, s_exitrec, fate>>
    BY <1>5 DEF Look
  <2>2. MovesTo(p, "user", -1)
    BY <1>2, <2>1 DEF MovesTo, Answer, TypeOK, Reported
  <2> QED
    BY <2>2, Moves
<1> QED
  BY <1>3, <1>4, <1>5

LEMMA ReportInv == ASSUME IInv, NEW p \in Pids, Report(p) PROVE IInv'
<1>1. /\ TypeOK /\ st[p] = "exits" /\ ~Reported(p)
      /\ UNCHANGED <<ppid, kill_pending, code, target, ret, g_next_pid>>
  BY DEF IInv, Report, Reported
<1>2. \A i \in Slots : s_exitrec[i] # Free =>
        /\ s_exitrec[i].pid \in Pids \ {p} /\ Reported(s_exitrec[i].pid)
  BY <1>1 DEF IInv, RecordsTrue, TypeOK
<1>3. fate[p] # "pending"
  <2>1. Free.pid # p
    BY DEF Free, None, Pids
  <2> QED
    BY <1>2, <2>1 DEF IInv, RecordsTrue
<1>4. CASE Live(ppid[p])
  <2> DEFINE m == ppid[p]
             e == [pid |-> p, ppid |-> m, code |-> Masked(code[p])]
  <2>1. /\ m \in Pids /\ m # p
        /\ st' = [st EXCEPT ![p] = "reported", ![m] = IF @ = "blocked" THEN "woken" ELSE @]
    BY <1>4 DEF Report, Live, IInv, Births, Kernel, Pids
  <2>2. PICK i \in Slots :
          /\ s_exitrec' = [s_exitrec EXCEPT ![i] = e]
          /\ fate' = [q \in Pids |-> IF q = p THEN "pending"
                                     ELSE IF q = s_exitrec[i].pid THEN "lost" ELSE fate[q]]
    BY <1>4 DEF Report, ExitrecPut
  <2>3. e \in [pid : Pids, ppid : Pids, code : 0 .. 255] /\ e # Free
    <3>1. code[p] \in Int
      BY <1>1 DEF TypeOK
    <3>2. Masked(code[p]) \in 0 .. 255
      BY <3>1, Z3 DEF Masked
    <3> QED
      BY <2>1, <3>2 DEF Free, None, Pids
  <2>4. e.pid = p /\ e.ppid = m /\ e.code = code[p] % 256
    BY DEF Masked
  <2> HIDE DEF e, m
  <2>5. TypeOK'
    BY <1>1, <2>1, <2>2, <2>3 DEF TypeOK
  <2>6. /\ \A q \in Pids : Reported(q)' <=> Reported(q) \/ q = p
        /\ \A q : Live(q)' <=> Live(q)
    BY <1>1, <2>1 DEF Reported, Live, TypeOK
  <2>7. (Births /\ Waiting)'
    BY <1>1, <2>1 DEF IInv, Births, Waiting, TypeOK
  <2>8. Unreported'
    BY <1>1, <2>2, <2>6 DEF IInv, Unreported, TypeOK
  <2>9. RecordsTrue'
    <3>1. \A j \in Slots : s_exitrec'[j] = IF j = i THEN e ELSE s_exitrec[j]
      BY <1>1, <2>2 DEF TypeOK
    <3>2. Free.pid \notin Pids
      BY DEF Free, None, Pids
    <3>3. \A q \in Pids : fate'[q] = "pending" <=> \E j \in Slots : s_exitrec'[j].pid = q
      <4>1. CASE s_exitrec[i] = Free
        BY <1>1, <1>2, <1>3, <2>2, <2>4, <3>1, <3>2, <4>1 DEF IInv, RecordsTrue, TypeOK
      <4>2. CASE s_exitrec[i] # Free
        BY <1>1, <1>2, <1>3, <2>2, <2>4, <3>1, <3>2, <4>2 DEF IInv, RecordsTrue, TypeOK
      <4> QED
        BY <4>1, <4>2
    <3>4. \A j, k \in Slots :
            s_exitrec'[j] # Free /\ s_exitrec'[j].pid = s_exitrec'[k].pid => j = k
      BY <1>2, <2>4, <3>1, <3>2 DEF IInv, RecordsTrue
    <3>5. \A j \in Slots, t \in Pids : s_exitrec'[j] # Free /\ s_exitrec'[j].pid = t =>
            /\ Reported(t)'
            /\ s_exitrec'[j].ppid = ppid[t]
            /\ s_exitrec'[j].code = code[t] % 256
      <4> TAKE j \in Slots, t \in Pids
      <4>1. CASE j = i
        BY <2>4, <2>6, <3>1, <4>1 DEF m
      <4>2. CASE j # i
        BY <1>2, <2>6, <3>1, <4>2 DEF IInv, RecordsTrue
      <4> QED
        BY <4>1, <4>2
    <3>6. \A j \in Slots : s_exitrec'[j] # Free => s_exitrec'[j].pid \in Pids
      BY <2>5 DEF TypeOK
    <3>7. UNCHANGED <<ppid, code>>
      BY <1>1
    <3> QED
      BY <3>3, <3>4, <3>5, <3>6, <3>7 DEF RecordsTrue
  <2>10. NoLostAnswer'
    BY <1>1, <2>1, <2>2 DEF IInv, NoLostAnswer, Waiting, TypeOK, m
  <2> QED
    BY <2>5, <2>7, <2>8, <2>9, <2>10 DEF IInv
<1>5. CASE ~Live(ppid[p])
  <2>1. st' = [st EXCEPT ![p] = "reported"] /\ UNCHANGED <<s_exitrec, fate>>
    BY <1>5 DEF Report
  <2>2. TypeOK'
    BY <1>1, <2>1 DEF TypeOK
  <2>3. /\ \A q \in Pids : Reported(q)' <=> Reported(q) \/ q = p
        /\ \A q : Live(q)' <=> Live(q)
    BY <1>1, <2>1 DEF Reported, Live, TypeOK
  <2>4. (Births /\ Waiting)'
    BY <1>1, <2>1 DEF IInv, Births, Waiting, TypeOK
  <2>5. Unreported'
    BY <1>1, <1>5, <2>1, <2>3 DEF IInv, Unreported
  <2>6. RecordsTrue'
    BY <1>1, <1>2, <2>1, <2>3 DEF IInv, RecordsTrue
  <2>7. NoLostAnswer'
    BY <1>1, <2>1 DEF IInv, NoLostAnswer, TypeOK
  <2> QED
    BY <2>2, <2>4, <2>5, <2>6, <2>7 DEF IInv
<1> QED
  BY <1>4, <1>5

LEMMA StepInv == IInv /\ [Next]_vars => IInv'
<1> SUFFICES ASSUME IInv, [Next]_vars PROVE IInv'
  OBVIOUS
<1>1. CASE UNCHANGED vars
  BY <1>1 DEF IInv, TypeOK, Births, Waiting, Unreported, RecordsTrue, NoLostAnswer,
              Live, Reported, vars, proc
<1>2. CASE Next
  <2>1. PICK p \in Pids :
          \/ Spawn(p)
          \/ \E t \in Pids : EnterWait(p, t) \/ Kill(p, t)
          \/ Exit(p)
          \/ Goes(p)
    BY <1>2 DEF Next
  <2>2. CASE Spawn(p)
    BY <2>2, SpawnInv
  <2>3. CASE \E t \in Pids : EnterWait(p, t) \/ Kill(p, t)
    BY <2>3, EnterWaitInv, KillInv
  <2>4. CASE Exit(p)
    <3>1. PICK c \in ExitCodes : Dies(p, c) /\ st[p] = "user"
      BY <2>4 DEF Exit
    <3>2. c \in Int
      BY ProcWaitAssumption
    <3> QED
      BY <3>1, <3>2, DiesInv
  <2>5. CASE FirstLook(p)
    BY <2>5, LookInv DEF FirstLook
  <2>6. CASE LookAgain(p)
    BY <2>6, LookInv, DiesInv DEF LookAgain, TASK_EXIT_KILLED
  <2>7. CASE SafePoint(p)
    BY <2>7, DiesInv DEF SafePoint, TASK_EXIT_KILLED
  <2>8. CASE Report(p)
    BY <2>8, ReportInv
  <2>9. CASE Hook(p) \/ Zombie(p)
    BY <2>9, HookZombieInv
  <2> QED
    BY <2>1, <2>2, <2>3, <2>4, <2>5, <2>6, <2>7, <2>8, <2>9 DEF Goes
<1> QED
  BY <1>1, <1>2

-----------------------------------------------------------------------------
\* The inductive invariant holds in every reachable state: task_exit,
\* sched_wait_pid and sched_kill_pid keep records, parents and fates in step.
THEOREM Invariance == Spec => []IInv
<1>1. Init => IInv
  BY InitInv
<1>2. IInv /\ [Next]_vars => IInv'
  BY StepInv
<1> QED
  BY <1>1, <1>2, PTL DEF Spec

\* Every variable keeps its type; a record's status fits in 8 bits, so that it
\* is never taken for the -1 of sched_wait_pid.
THEOREM TypeCorrect == Spec => []TypeOK
<1>1. IInv => TypeOK
  BY DEF IInv
<1> QED
  BY <1>1, Invariance, PTL

\* The table of exit records holds exactly the statuses still to be told.
THEOREM RecordsCorrect == Spec => []RecordsTrue
<1>1. IInv => RecordsTrue
  BY DEF IInv
<1> QED
  BY <1>1, Invariance, PTL

\* No parent stays blocked on a status that is already in the table.
THEOREM NoLostWakeup == Spec => []NoLostAnswer
<1>1. IInv => NoLostAnswer
  BY DEF IInv
<1> QED
  BY <1>1, Invariance, PTL

LEMMA LookAnswers ==
    ASSUME IInv, NEW p \in Pids, st[p] \in {"asks", "woken"}, Look(p), st'[p] = "user",
           NEW t, t = target[p]
    PROVE  IF ret'[p] = -1
           THEN ppid[t] = p => fate[t] \in {"told", "lost"}
           ELSE ppid[t] = p /\ Reported(t) /\ fate[t] = "pending" /\ ret'[p] = code[t] % 256
<1>1. t \in Pids /\ TypeOK
  BY DEF IInv, Waiting
<1>2. CASE RecordOf(t, p) # {}
  <2>1. PICK i \in RecordOf(t, p) : Answer(p, s_exitrec[i].code)
    BY <1>2 DEF Look
  <2>2. ret'[p] = s_exitrec[i].code
    BY <1>1, <2>1 DEF Answer, TypeOK
  <2>3. ret'[p] # -1
    BY <1>1, <2>2, RecordOfChild
  <2> QED
    BY <1>1, <2>2, <2>3, RecordOfChild
<1>3. CASE RecordOf(t, p) = {}
  <2>1. ~ChildAlive(t, p) /\ ret'[p] = -1
    BY <1>1, <1>3 DEF Look, Answer, TypeOK
  <2>2. ASSUME ppid[t] = p PROVE fate[t] \in {"told", "lost"}
    <3>1. st[t] = "zombie"
      BY <1>1, <2>1, <2>2 DEF ChildAlive, Live, IInv, Births, Kernel, Pids
    <3>2. fate[t] # "none"
      BY <1>1, <2>2, <3>1 DEF IInv, Unreported, Reported, Live
    <3>3. fate[t] # "pending"
      <4>1. ASSUME NEW i \in Slots, s_exitrec[i].pid = t PROVE FALSE
        <5>1. s_exitrec[i] # Free
          BY <1>1, <4>1 DEF Free, None, Pids
        <5>2. s_exitrec[i].ppid = p
          BY <2>2, <4>1, <5>1 DEF IInv, RecordsTrue
        <5> QED
          BY <1>3, <4>1, <5>2 DEF RecordOf
      <4> QED
        BY <1>1, <4>1 DEF IInv, RecordsTrue
    <3> QED
      BY <1>1, <3>2, <3>3 DEF TypeOK
  <2> QED
    BY <2>1, <2>2
<1> QED
  BY <1>2, <1>3

\* sched_wait_pid tells the truth: a status only once, only to the parent and
\* only of a child that has ended; -1 only when there is nothing left to tell.
THEOREM AnswersCorrect == Spec => AnswerIsTruth
<1> DEFINE Truth(p) ==
      Answered(p) =>
          LET t == target[p] IN
          IF ret'[p] = -1
          THEN ppid[t] = p => fate[t] \in {"told", "lost"}
          ELSE ppid[t] = p /\ Reported(t) /\ fate[t] = "pending" /\ ret'[p] = code[t] % 256
<1>1. IInv /\ [Next]_vars => [\A p \in Pids : Truth(p)]_vars
  <2> SUFFICES ASSUME IInv, Next, NEW p \in Pids, Answered(p) PROVE Truth(p)
    BY DEF Answered
  <2>1. TypeOK /\ st[p] \in {"asks", "woken"} /\ st'[p] = "user"
    BY DEF IInv, Answered
  <2>2. PICK q \in Pids :
          \/ Spawn(q)
          \/ \E t \in Pids : EnterWait(q, t) \/ Kill(q, t)
          \/ Exit(q)
          \/ Goes(q)
    BY DEF Next
  <2>3. ~Spawn(q)
    <3>1. SUFFICES ASSUME Spawn(q) PROVE FALSE
      OBVIOUS
    <3>2. p # g_next_pid
      BY <2>1, <3>1 DEF IInv, Births, TypeOK
    <3> QED
      BY <2>1, <3>1, <3>2 DEF Spawn, TypeOK
  <2>4. \A t \in Pids : ~EnterWait(q, t) /\ ~Kill(q, t)
    BY <2>1 DEF EnterWait, Kill, TypeOK
  <2>5. \A c : ~Dies(q, c)
    BY <2>1 DEF Dies, TypeOK
  <2>6. ~Report(q) /\ ~Hook(q) /\ ~Zombie(q)
    BY <2>1 DEF Report, Hook, Zombie, TypeOK
  <2>7. Look(q) /\ st[q] \in {"asks", "woken"}
    BY <2>2, <2>3, <2>4, <2>5, <2>6 DEF Exit, Goes, FirstLook, LookAgain, SafePoint
  <2>8. q = p
    BY <2>1, <2>7 DEF Look, Answer, TypeOK
  <2> QED
    BY <2>1, <2>7, <2>8, LookAnswers
<1> QED
  BY <1>1, Invariance, PTL DEF Spec, AnswerIsTruth

\* exitrec_put gives up the status of a live parent only when every record has
\* a live parent.
THEOREM EvictionOrder == Spec => EvictsOrphansFirst
<1> DEFINE Fair(t) ==
      fate[t] # "lost" /\ fate'[t] = "lost" /\ Live(ppid[t]) =>
          \A i \in Slots : Live(s_exitrec[i].ppid)
<1>1. IInv /\ [Next]_vars => [\A t \in Pids : Fair(t)]_vars
  <2> SUFFICES ASSUME IInv, Next, NEW t \in Pids,
                      fate[t] # "lost", fate'[t] = "lost", Live(ppid[t])
               PROVE  \A i \in Slots : Live(s_exitrec[i].ppid)
    OBVIOUS
  <2>1. PICK q \in Pids : Report(q) /\ Live(ppid[q])
    <3>1. \A q \in Pids : ~Look(q)
      BY DEF Look, IInv, TypeOK
    <3>2. \A q \in Pids : ~Spawn(q) /\ ~Hook(q) /\ ~Zombie(q)
      BY DEF Spawn, Hook, Zombie
    <3>3. \A q, u \in Pids : ~EnterWait(q, u) /\ ~Kill(q, u)
      BY DEF EnterWait, Kill
    <3>4. \A q \in Pids : \A c : ~Dies(q, c)
      BY DEF Dies
    <3>5. \E q \in Pids : Report(q)
      BY <3>1, <3>2, <3>3, <3>4 DEF Next, Exit, Goes, FirstLook, LookAgain, SafePoint
    <3> QED
      BY <3>5 DEF Report
  <2>2. PICK i \in Slots : Victim(i) /\ s_exitrec[i].pid = t
    BY <2>1 DEF Report, ExitrecPut
  <2>3. s_exitrec[i] # Free
    BY <2>2 DEF Free, None, Pids
  <2>4. s_exitrec[i].ppid = ppid[t]
    BY <2>2, <2>3 DEF IInv, RecordsTrue
  <2>5. \A j \in Slots : ~IsFree(j)
    BY <2>2, <2>3 DEF Victim, Least, IsFree
  <2>6. ~Orphaned(i)
    BY <2>4 DEF Orphaned
  <2>7. \A j \in Slots : ~Orphaned(j)
    BY <2>2, <2>5, <2>6 DEF Victim, Least
  <2> QED
    BY <2>7 DEF Orphaned
<1> QED
  BY <1>1, Invariance, PTL DEF Spec, EvictsOrphansFirst
=============================================================================
