------------------------------ MODULE ProcWait ------------------------------
(***************************************************************************)
(* Exit records, sched_wait_pid and sched_kill_pid (kernel/sched.c): how   *)
(* the exit status of an EL0 process reaches its parent.                   *)
(*                                                                         *)
(* A process is named by its pid, which is never reused: the slot it has   *)
(* in tasks[] and the race of a kill with its reuse are Sched's subject.   *)
(* Everything that reads or writes the records runs under s_ipclock; a     *)
(* process that is READY may go on at any time, on any core.               *)
(***************************************************************************)
EXTENDS Integers, FiniteSets

CONSTANTS
    MAXPID,        \* bound on g_next_pid
    ROOTS,         \* pids 1 .. ROOTS are started by the kernel
    MAX_TASKS,     \* exit records
    MAX_USER_PROCS,\* live processes
    Admins,        \* pids with USER_CAP_ADMIN
    ExitCodes      \* arguments of SYS_EXIT, and TASK_EXIT_FAULT

Pids == 1 .. MAXPID
Kernel == 0                         \* the ppid of a process without parent
None == -1
TASK_EXIT_KILLED == 137

ASSUME ProcWaitAssumption ==
    /\ MAXPID \in Nat
    /\ ROOTS \in 1 .. MAXPID
    /\ MAX_TASKS \in Nat \ {0}
    /\ MAX_USER_PROCS \in Nat \ {0}
    /\ Admins \subseteq Pids
    /\ ExitCodes \subseteq Int

Slots == 0 .. MAX_TASKS - 1
Free == [pid |-> None, ppid |-> None, code |-> None]

VARIABLES
    st,            \* see TypeOK
    ppid,
    kill_pending,
    code,          \* what task_exit was called with
    target,        \* whom a process waits for, None outside sched_wait_pid
    ret,           \* what its last wait returned
    s_exitrec,
    g_next_pid,
    fate           \* history: what became of the status of a process

proc == <<st, ppid, kill_pending, code, target, ret>>
vars == <<proc, s_exitrec, g_next_pid, fate>>

Init ==
    /\ st = [p \in Pids |-> IF p <= ROOTS THEN "user" ELSE "unborn"]
    /\ ppid = [p \in Pids |-> Kernel]
    /\ kill_pending = [p \in Pids |-> FALSE]
    /\ code = [p \in Pids |-> 0]
    /\ target = [p \in Pids |-> None]
    /\ ret = [p \in Pids |-> None]
    /\ s_exitrec = [i \in Slots |-> Free]
    /\ g_next_pid = ROOTS + 1
    /\ fate = [p \in Pids |-> "none"]

\* used and not TASK_ZOMBIE.
Live(p) == p \in Pids /\ st[p] \notin {"unborn", "zombie"}
ChildAlive(t, p) == Live(t) /\ ppid[t] = p

(***************************************************************************)
(* Creation                                                                *)
(***************************************************************************)
\* Processes that hold a slot of procs[]: the exit hook gives it back.
Procs == {p \in Pids : Live(p) /\ st[p] # "freed"}

\* proc_exec_as_on: the child is admitted with its ppid set.
Spawn(p) ==
    /\ st[p] = "user"
    /\ g_next_pid \in Pids
    /\ Cardinality(Procs) < MAX_USER_PROCS
    /\ st' = [st EXCEPT ![g_next_pid] = "user"]
    /\ ppid' = [ppid EXCEPT ![g_next_pid] = p]
    /\ g_next_pid' = g_next_pid + 1
    /\ UNCHANGED <<kill_pending, code, target, ret, s_exitrec, fate>>

(***************************************************************************)
(* The records                                                             *)
(***************************************************************************)
Least(i, P(_)) == P(i) /\ \A j \in Slots : P(j) => i <= j

RecordOf_AnyParent(t, p) == {i \in Slots : s_exitrec[i].pid = t}
RecordOf(t, p) == {i \in Slots : s_exitrec[i].pid = t /\ s_exitrec[i].ppid = p}

IsFree(i) == s_exitrec[i] = Free
Orphaned_ByPid(i) == ~Live(s_exitrec[i].pid)
Orphaned(i) == ~Live(s_exitrec[i].ppid)

\* The slot exitrec_put writes.
Victim(i) ==
    IF \E j \in Slots : IsFree(j) THEN Least(i, IsFree)
    ELSE IF \E j \in Slots : Orphaned(j) THEN Least(i, Orphaned)
    ELSE i = 0

Masked_Raw(c) == c
Masked(c) == c % 256

ExitrecPut(p, c) ==
    \E i \in Slots :
        /\ Victim(i)
        /\ s_exitrec' = [s_exitrec EXCEPT ![i] =
                            [pid |-> p, ppid |-> ppid[p], code |-> Masked(c)]]
        /\ fate' = [q \in Pids |-> IF q = p THEN "pending"
                                   ELSE IF q = s_exitrec[i].pid THEN "lost"
                                   ELSE fate[q]]

(***************************************************************************)
(* SYS_WAIT.  A kill may fall between the safe point of the syscall entry  *)
(* and the lock.                                                           *)
(***************************************************************************)
EnterWait(p, t) ==
    /\ st[p] = "user" /\ ~kill_pending[p]
    /\ st' = [st EXCEPT ![p] = "asks"]
    /\ target' = [target EXCEPT ![p] = t]
    /\ UNCHANGED <<ppid, kill_pending, code, ret, s_exitrec, g_next_pid, fate>>

Answer(p, r) ==
    /\ st' = [st EXCEPT ![p] = "user"]
    /\ ret' = [ret EXCEPT ![p] = r]
    /\ target' = [target EXCEPT ![p] = None]

Harvest_Keep(i) == UNCHANGED s_exitrec
Harvest(i) == s_exitrec' = [s_exitrec EXCEPT ![i] = Free]

\* One round of the loop of sched_wait_pid.
Look(p) ==
    LET t == target[p] IN
    /\ IF RecordOf(t, p) # {}
       THEN /\ \E i \in RecordOf(t, p) : Answer(p, s_exitrec[i].code) /\ Harvest(i)
            /\ fate' = [fate EXCEPT ![t] = "told"]
       ELSE /\ IF ChildAlive(t, p)
               THEN st' = [st EXCEPT ![p] = "blocked"] /\ UNCHANGED <<target, ret>>
               ELSE Answer(p, -1)
            /\ UNCHANGED <<s_exitrec, fate>>
    /\ UNCHANGED <<ppid, kill_pending, code, g_next_pid>>

FirstLook(p) == st[p] = "asks" /\ Look(p)

Dies(p, c) ==
    /\ st' = [st EXCEPT ![p] = "exits"]
    /\ code' = [code EXCEPT ![p] = c]
    /\ target' = [target EXCEPT ![p] = None]
    /\ UNCHANGED <<ppid, kill_pending, ret, s_exitrec, g_next_pid, fate>>

LookAgain_Deaf(p) == st[p] = "woken" /\ Look(p)
\* Behind sched_block_on.
LookAgain(p) ==
    /\ st[p] = "woken"
    /\ IF kill_pending[p] THEN Dies(p, TASK_EXIT_KILLED) ELSE Look(p)

(***************************************************************************)
(* SYS_KILL and the safe points                                            *)
(***************************************************************************)
Kill(p, t) ==
    /\ st[p] = "user"
    /\ t # p /\ Live(t) /\ (ppid[t] = p \/ p \in Admins)
    /\ kill_pending' = [kill_pending EXCEPT ![t] = TRUE]
    /\ st' = IF st[t] = "blocked" THEN [st EXCEPT ![t] = "woken"] ELSE st
    /\ UNCHANGED <<ppid, code, target, ret, s_exitrec, g_next_pid, fate>>

\* SYS_EXIT or a fault; a kill may have landed since the safe point.
Exit(p) ==
    /\ st[p] = "user"
    /\ \E c \in ExitCodes : Dies(p, c)

\* Syscall entry, or the way back to EL0 from an interrupt.
SafePoint(p) ==
    /\ st[p] = "user" /\ kill_pending[p]
    /\ Dies(p, TASK_EXIT_KILLED)

(***************************************************************************)
(* task_exit                                                               *)
(***************************************************************************)
Report_NoWake(p) ==
    /\ st[p] = "exits"
    /\ st' = [st EXCEPT ![p] = "reported"]
    /\ IF Live(ppid[p]) THEN ExitrecPut(p, code[p]) ELSE UNCHANGED <<s_exitrec, fate>>
    /\ UNCHANGED <<ppid, kill_pending, code, target, ret, g_next_pid>>

\* The record, and the wakeup of the parent whichever child it waits for.
Report(p) ==
    /\ st[p] = "exits"
    /\ IF Live(ppid[p])
       THEN /\ ExitrecPut(p, code[p])
            /\ st' = [st EXCEPT ![p] = "reported",
                                ![ppid[p]] = IF @ = "blocked" THEN "woken" ELSE @]
       ELSE /\ st' = [st EXCEPT ![p] = "reported"]
            /\ UNCHANGED <<s_exitrec, fate>>
    /\ UNCHANGED <<ppid, kill_pending, code, target, ret, g_next_pid>>

\* s_exit_hook: the process slot and the address space are free.
Hook(p) ==
    /\ st[p] = "reported"
    /\ st' = [st EXCEPT ![p] = "freed"]
    /\ UNCHANGED <<ppid, kill_pending, code, target, ret, s_exitrec, g_next_pid, fate>>

Zombie(p) ==
    /\ st[p] = "freed"
    /\ st' = [st EXCEPT ![p] = "zombie"]
    /\ UNCHANGED <<ppid, kill_pending, code, target, ret, s_exitrec, g_next_pid, fate>>

\* What a process does when it is dispatched, without the choices of its program.
Goes(p) ==
    \/ FirstLook(p) \/ LookAgain(p)
    \/ SafePoint(p) \/ Report(p) \/ Hook(p) \/ Zombie(p)

Next ==
    \E p \in Pids :
        \/ Spawn(p)
        \/ \E t \in Pids : EnterWait(p, t) \/ Kill(p, t)
        \/ Exit(p)
        \/ Goes(p)

Spec == Init /\ [][Next]_vars

-----------------------------------------------------------------------------
(***************************************************************************)
(* Safety                                                                  *)
(***************************************************************************)
TypeOK ==
    /\ st \in [Pids -> {"unborn", "user", "asks", "blocked", "woken",
                        "exits", "reported", "freed", "zombie"}]
    /\ ppid \in [Pids -> Pids \cup {Kernel}]
    /\ kill_pending \in [Pids -> BOOLEAN]
    /\ code \in [Pids -> Int]
    /\ target \in [Pids -> Pids \cup {None}]
    /\ ret \in [Pids -> {-1} \cup 0 .. 255]
    /\ s_exitrec \in [Slots -> [pid : Pids, ppid : Pids, code : 0 .. 255] \cup {Free}]
    /\ g_next_pid \in 2 .. MAXPID + 1
    /\ fate \in [Pids -> {"none", "pending", "told", "lost"}]

Reported(t) == st[t] \in {"reported", "freed", "zombie"}

\* The table holds each status that is still to be told, once, and nothing
\* else: exitrec_put and the harvest of sched_wait_pid keep them apart.
RecordsTrue ==
    /\ \A t \in Pids : fate[t] = "pending" <=> \E i \in Slots : s_exitrec[i].pid = t
    /\ \A i, j \in Slots :
          s_exitrec[i] # Free /\ s_exitrec[i].pid = s_exitrec[j].pid => i = j
    /\ \A i \in Slots : s_exitrec[i] # Free =>
          LET t == s_exitrec[i].pid IN
          Reported(t) /\ s_exitrec[i].ppid = ppid[t] /\ s_exitrec[i].code = code[t] % 256

Answered(p) == st[p] \in {"asks", "woken"} /\ st'[p] = "user"

\* sched_wait_pid returns the status of its own child, masked to 8 bits, and at
\* most once per child; it returns -1 only for a process that is no child of
\* the caller or whose status has already been told or was displaced.
AnswerIsTruth ==
    [][\A p \in Pids : Answered(p) =>
          LET t == target[p] IN
          IF ret'[p] = -1
          THEN ppid[t] = p => fate[t] \in {"told", "lost"}
          ELSE ppid[t] = p /\ Reported(t) /\ fate[t] = "pending" /\ ret'[p] = code[t] % 256]_vars

\* No lost wakeup: the status a blocked waiter is waiting for is not in the
\* table, since task_exit wakes the parent under the lock that stored it.
NoLostAnswer ==
    \A p \in Pids : st[p] = "blocked" => fate[target[p]] # "pending"

\* exitrec_put displaces the status of a live parent only when every record
\* has one.
EvictsOrphansFirst ==
    [][\A t \in Pids : fate[t] # "lost" /\ fate'[t] = "lost" /\ Live(ppid[t]) =>
          \A i \in Slots : Live(s_exitrec[i].ppid)]_vars

-----------------------------------------------------------------------------
(***************************************************************************)
(* Liveness, when the scheduler runs whoever is READY (Sched) and timer    *)
(* interrupts bring a process in EL0 to its safe point                     *)
(***************************************************************************)
Fairness == \A p \in Pids : WF_vars(Goes(p))
FairSpec == Spec /\ Fairness

\* A process blocked in sched_wait_pid is woken by the exit of its child.
WaitAnswered ==
    \A p \in Pids :
        st[p] = "blocked" /\ st[target[p]] = "exits" ~> st[p] # "blocked"

\* A killed process that runs in EL0 or was woken from its wait comes to its end.
KilledDies ==
    \A p \in Pids : kill_pending[p] /\ st[p] \in {"user", "woken"} ~> st[p] = "zombie"

\* sched.h:73 and sched.c:762-765: a process marked by SYS_KILL ends at its next
\* safe point, SYS_WAIT included.
KillWorks ==
    \A p \in Pids : kill_pending[p] ~> st[p] = "zombie"
=============================================================================
