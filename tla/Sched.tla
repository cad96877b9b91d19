------------------------------- MODULE Sched -------------------------------
(***************************************************************************)
(* The partitioned fixed-priority scheduler of kernel/sched.c.             *)
(*                                                                         *)
(* Every core runs the same kernel code on its own current[] task; the     *)
(* pool tasks[] is shared.  Two cores interleave at every point where one  *)
(* of them can observe the other, so a kernel path is cut into the steps   *)
(* below, named by pc[c].  Interrupts are masked in all of them except     *)
(* "task".                                                                 *)
(*                                                                         *)
(*   boot       not yet in sched_enter                                     *)
(*   task       the current task's own code, interrupts enabled            *)
(*   svc        inside a kernel service of the current task                *)
(*   publish    task_create_internal, slot filled, used still 0            *)
(*   setup      the creator is about to set ttbr/cred and to admit         *)
(*   match      sched_kill_pid has found a slot, holds s_ipclock           *)
(*   wake       sched_kill_pid is about to write READY                     *)
(*   kick       a waker is about to set need_resched of the owner          *)
(*   record     task_exit before the exit record                           *)
(*   dying      task_exit behind it, before ZOMBIE                         *)
(*   deadline   sched_tick between its two loops                           *)
(*   irq        c_irq_handler after the EOI                                *)
(*   clear, scan, pick, switch     inside schedule()                       *)
(***************************************************************************)
EXTENDS Integers, FiniteSets

CONSTANTS
    NCORES,       \* number of cores
    MAX_TASKS,    \* slots of the task pool
    TIME_SLICE,   \* ticks of a quantum
    Boot,         \* the kernel tasks made before sched_start: [slot -> [core, prio]]
    Holders,      \* kernel tasks that take a mutex others contend for (PI)
    Objs,         \* IPC objects a task can block on
    MaxSleep,     \* bound on the length of a sleep or a deadline, in ticks
    MaxPid        \* bound on the number of task instances ever created

Cores == 0 .. NCORES - 1
Tasks == 0 .. MAX_TASKS - 1
Idles == Cores                     \* sched_init: first-fit puts idle c in slot c
NBoot == NCORES + Cardinality(DOMAIN Boot)
BootTasks == NCORES .. NBoot - 1

None == -1
IDLE_PRIO == 255
NO_PRIO == 256                     \* best_prio before a candidate is seen
SPAWN_PRIO == 1                    \* proc_exec_as_on and vi_par_spawn
NotWaiting == "none"
Never == -1                        \* wake_tick = 0: no deadline

ASSUME SizesAssumption ==
    /\ NCORES \in Nat \ {0}
    /\ MAX_TASKS \in Nat
    /\ TIME_SLICE \in Nat \ {0}
    /\ MaxSleep \in Nat
    /\ MaxPid \in Nat
    /\ NBoot \in Nat
    /\ NCORES <= NBoot
    /\ NBoot <= MAX_TASKS
    /\ NBoot <= MaxPid
ASSUME BootAssumption ==
    /\ Boot \in [BootTasks -> [core : Cores, prio : 0 .. IDLE_PRIO - 1]]
    /\ Holders \subseteq BootTasks
    /\ NotWaiting \notin Objs

VARIABLES
    \* the fields of tasks[]
    used, state, priority, owner, slice, wake_tick, wait_obj, pid,
    user,          \* user_phys # 0 and the process' own ttbr
    kill_pending,
    ctx,           \* ctx_sp: the instance whose frame the saved SP points to
    exited,        \* where the task's code stands: it has passed task_exit
    \* per core
    current, need_resched, s_reap,
    pc,
    stack,         \* slot whose kernel stack the core is on
    inst,          \* the instance the core executes
    best,          \* best_prio of pick_next's first loop
    arg,           \* slot a service works on
    target,        \* the pid sched_kill_pid was asked for
    next_pc,       \* where the path goes on after "kick"
    clearing,      \* cores whose plain need_resched = 0 others may not see yet
    swallowed,     \* history: cores whose late clear took a request from behind their scan
    \* shared
    g_next_pid, s_tasklock, s_ipclock,
    locking        \* Holders that own their mutex

tcb   == <<used, state, priority, owner, slice, wake_tick, wait_obj, pid,
           user, kill_pending, ctx, exited>>
cpu   == <<current, stack, inst>>
call  == <<best, arg, target, next_pc>>
locks == <<s_tasklock, s_ipclock>>
glob  == <<g_next_pid, locking>>
resched == <<need_resched, clearing, swallowed>>
vars  == <<tcb, cpu, call, locks, resched, s_reap, pc, glob>>

States == {"UNUSED", "SETUP", "READY", "RUNNING", "SLEEPING", "BLOCKED", "ZOMBIE"}
Steps == {"boot", "task", "svc", "publish", "setup", "match", "wake", "kick",
          "record", "dying", "deadline", "irq", "clear", "scan", "pick", "switch"}

Prio0(t) == IF t \in Idles THEN IDLE_PRIO ELSE Boot[t].prio
Core0(t) == IF t \in Idles THEN t ELSE Boot[t].core

(***************************************************************************)
(* The state at sched_start: sched_init made the idle tasks, kmain the     *)
(* kernel tasks of Boot; every slot up to NBoot is READY with pid slot+1.  *)
(***************************************************************************)
Init ==
    /\ used = [t \in Tasks |-> t < NBoot]
    /\ state = [t \in Tasks |-> IF t < NBoot THEN "READY" ELSE "UNUSED"]
    /\ priority = [t \in Tasks |-> IF t < NBoot THEN Prio0(t) ELSE 0]
    /\ owner = [t \in Tasks |-> IF t < NBoot THEN Core0(t) ELSE None]
    /\ slice = [t \in Tasks |-> IF t < NBoot THEN TIME_SLICE ELSE 0]
    /\ wake_tick = [t \in Tasks |-> Never]
    /\ wait_obj = [t \in Tasks |-> NotWaiting]
    /\ pid = [t \in Tasks |-> IF t < NBoot THEN t + 1 ELSE 0]
    /\ user = [t \in Tasks |-> FALSE]
    /\ kill_pending = [t \in Tasks |-> FALSE]
    /\ ctx = [t \in Tasks |-> IF t < NBoot THEN t + 1 ELSE 0]
    /\ exited = [t \in Tasks |-> FALSE]
    /\ current = [c \in Cores |-> None]
    /\ need_resched = [c \in Cores |-> FALSE]
    /\ clearing = {}
    /\ swallowed = {}
    /\ s_reap = [c \in Cores |-> None]
    /\ pc = [c \in Cores |-> "boot"]
    /\ stack = [c \in Cores |-> None]
    /\ inst = [c \in Cores |-> 0]
    /\ best = [c \in Cores |-> NO_PRIO]
    /\ arg = [c \in Cores |-> None]
    /\ target = [c \in Cores |-> 0]
    /\ next_pc = [c \in Cores |-> "task"]
    /\ g_next_pid = NBoot + 1
    /\ s_tasklock = None
    /\ s_ipclock = None
    /\ locking = {}

Goto(c, step) == pc' = [pc EXCEPT ![c] = step]
IsKernel(t) == pid[t] \in 1 .. NBoot
Mine_EveryCore(c) == {t \in Tasks : used[t]}
Mine(c) == {t \in Tasks : used[t] /\ owner[t] = c}

(***************************************************************************)
(* sched_enter: the best READY task of the core, the first of its priority *)
(***************************************************************************)
FirstChoice(c, t) ==
    /\ t \in Mine(c) /\ state[t] = "READY"
    /\ \A u \in Mine(c) : state[u] = "READY" =>
          \/ priority[t] < priority[u]
          \/ priority[t] = priority[u] /\ t <= u

SchedEnter(c) ==
    /\ pc[c] = "boot"
    /\ \E t \in Tasks :
          /\ FirstChoice(c, t)
          /\ state' = [state EXCEPT ![t] = "RUNNING"]
          /\ slice' = [slice EXCEPT ![t] = TIME_SLICE]
          /\ current' = [current EXCEPT ![c] = t]
          /\ stack' = [stack EXCEPT ![c] = t]
          /\ inst' = [inst EXCEPT ![c] = ctx[t]]
    /\ Goto(c, "task")
    /\ UNCHANGED <<used, priority, owner, wake_tick, wait_obj, pid, user, kill_pending,
                   ctx, exited, call, locks, resched, s_reap, glob>>

(***************************************************************************)
(* schedule()                                                              *)
(***************************************************************************)
Reapable_UnderCore(c) == s_reap[c] # None
Reapable(c) == s_reap[c] # None /\ s_reap[c] # current[c]

\* reap_pending: the slot of an exited predecessor goes back to the pool.
Reap(c) ==
    IF Reapable(c)
    THEN /\ s_tasklock = None
         /\ state' = [state EXCEPT ![s_reap[c]] = "UNUSED"]
         /\ owner' = [owner EXCEPT ![s_reap[c]] = None]
         /\ used' = [used EXCEPT ![s_reap[c]] = FALSE]
         /\ s_reap' = [s_reap EXCEPT ![c] = None]
    ELSE UNCHANGED <<state, owner, used, s_reap>>

\* No barrier stands between the clear and the loads of pick_next, nor behind
\* them when the task is kept: the loads may be satisfied while the store still
\* waits (the limit named at sched.c:453 and 550).  The core itself reads its 0
\* at once; for the others the store is on its way until a barrier of the core.
ScheduleBegin(c) ==
    /\ pc[c] = "clear"
    /\ Reap(c)
    /\ need_resched' = [need_resched EXCEPT ![c] = FALSE]
    /\ clearing' = clearing \cup {c}
    /\ swallowed' = swallowed \ {c}
    /\ Goto(c, "scan")
    /\ UNCHANGED <<priority, slice, wake_tick, wait_obj, pid, user, kill_pending, ctx,
                   exited, cpu, call, locks, glob>>

Candidates_AnyCurrent(c) == {t \in Mine(c) : state[t] = "READY" \/ t = current[c]}
Candidates(c) ==
    {t \in Mine(c) : state[t] = "READY" \/ (t = current[c] /\ state[t] = "RUNNING")}

\* pick_next, first loop; the step is the moment at which its loads are satisfied.
ScanBest(c) ==
    /\ pc[c] = "scan"
    /\ \E b \in {priority[t] : t \in Candidates(c)} \cup {NO_PRIO} :
          /\ \A t \in Candidates(c) : b <= priority[t]
          /\ b = NO_PRIO => Candidates(c) = {}
          /\ best' = [best EXCEPT ![c] = b]
    /\ Goto(c, "pick")
    /\ UNCHANGED <<tcb, cpu, arg, target, next_pc, locks, resched, s_reap, glob>>

\* Places of the round-robin search before slot t, starting behind current.
Distance_FromZero(c, t) == t
Distance(c, t) == IF t > current[c] THEN t - current[c] ELSE t - current[c] + MAX_TASKS

AtBest(c) == {t \in Candidates(c) : priority[t] = best[c]}

\* pick_next, second loop: the result, with its fallback.
IsNext(c, n) ==
    IF AtBest(c) = {}
    THEN n = current[c]
    ELSE /\ n \in AtBest(c)
         /\ \A t \in AtBest(c) : Distance(c, n) <= Distance(c, t)

Keep(c) ==
    /\ IsNext(c, current[c])
    /\ slice' = [slice EXCEPT ![current[c]] = TIME_SLICE]
    /\ state' = [state EXCEPT ![current[c]] = "RUNNING"]
    /\ Goto(c, "task")
    /\ UNCHANGED <<current, clearing>>

\* The dmb in front of the switch lands the clear.
SwitchTo(c, n) ==
    /\ n # current[c]
    /\ IsNext(c, n)
    /\ state' = [state EXCEPT ![current[c]] = IF @ = "RUNNING" THEN "READY" ELSE @,
                              ![n] = "RUNNING"]
    /\ slice' = [slice EXCEPT ![n] = TIME_SLICE]
    /\ current' = [current EXCEPT ![c] = n]
    /\ clearing' = clearing \ {c}
    /\ Goto(c, "switch")

PickNext(c) ==
    /\ pc[c] = "pick"
    /\ Keep(c) \/ \E n \in Tasks : SwitchTo(c, n)
    /\ best' = [best EXCEPT ![c] = NO_PRIO]
    /\ UNCHANGED <<used, priority, owner, wake_tick, wait_obj, pid, user, kill_pending,
                   ctx, exited, stack, inst, arg, target, next_pc, locks, need_resched,
                   swallowed, s_reap, glob>>

\* context_switch: the last write to the predecessor's ctx_sp, then the load.
ContextSwitch(c) ==
    /\ pc[c] = "switch"
    /\ ctx' = [ctx EXCEPT ![stack[c]] = inst[c]]
    /\ inst' = [inst EXCEPT ![c] = ctx[current[c]]]
    /\ stack' = [stack EXCEPT ![c] = current[c]]
    /\ Goto(c, "task")
    /\ UNCHANGED <<used, state, priority, owner, slice, wake_tick, wait_obj, pid, user,
                   kill_pending, exited, current, call, locks, resched, s_reap,
                   glob>>

(***************************************************************************)
(* Interrupts                                                              *)
(***************************************************************************)
Wakeable(c) == {t \in Mine(c) : state[t] = "SLEEPING" /\ wake_tick'[t] = 0}

\* wake_tick holds the ticks still to go; only core 0 moves the time base.
Elapse_NoFloor(ticks) == ticks - 1
Elapse(ticks) == IF ticks > 0 THEN ticks - 1 ELSE ticks

\* timer_irq, then sched_tick up to its lock-free loop over the sleepers.
Tick(c) ==
    /\ pc[c] = "task"
    /\ wake_tick' = IF c = 0 THEN [t \in Tasks |-> Elapse(wake_tick[t])] ELSE wake_tick
    /\ state' = [t \in Tasks |-> IF t \in Wakeable(c) THEN "READY" ELSE state[t]]
    /\ need_resched' = [need_resched EXCEPT ![c] = @ \/ Wakeable(c) # {}]
    /\ Goto(c, "deadline")
    /\ UNCHANGED <<used, priority, owner, slice, wait_obj, pid, user, kill_pending, ctx,
                   exited, cpu, call, locks, clearing, swallowed, s_reap, glob>>

Expired(c) == {t \in Mine(c) : state[t] = "BLOCKED" /\ wake_tick[t] = 0}

\* The barrier behind the EOI: the clear of an earlier schedule() is in memory.
EndOfInterrupt(c) ==
    /\ clearing' = clearing \ {c}
    /\ Goto(c, "irq")

\* The rest of sched_tick: deadlines of blocked tasks, then the quantum.
TickDeadlines(c) ==
    /\ pc[c] = "deadline"
    /\ s_ipclock = None
    /\ state' = [t \in Tasks |-> IF t \in Expired(c) THEN "READY" ELSE state[t]]
    /\ wait_obj' = [t \in Tasks |-> IF t \in Expired(c) THEN NotWaiting ELSE wait_obj[t]]
    /\ wake_tick' = [t \in Tasks |-> IF t \in Expired(c) THEN Never ELSE wake_tick[t]]
    /\ slice' = [slice EXCEPT ![current[c]] = IF @ > 0 THEN @ - 1 ELSE 0]
    /\ need_resched' = [need_resched EXCEPT
                           ![c] = @ \/ Expired(c) # {} \/ slice[current[c]] <= 1]
    /\ EndOfInterrupt(c)
    /\ UNCHANGED <<used, priority, owner, pid, user, kill_pending, ctx, exited, cpu, call,
                   locks, swallowed, s_reap, glob>>

\* Any other interrupt, the reschedule SGI above all.
OtherIrq(c) ==
    /\ pc[c] = "task"
    /\ need_resched[c]
    /\ EndOfInterrupt(c)
    /\ UNCHANGED <<tcb, cpu, call, locks, need_resched, swallowed, s_reap, glob>>

\* schedule_if_needed behind the EOI.
IrqExit(c) ==
    /\ pc[c] = "irq"
    /\ Goto(c, IF need_resched[c] THEN "clear" ELSE "task")
    /\ need_resched' = [need_resched EXCEPT ![c] = FALSE]
    /\ UNCHANGED <<tcb, cpu, call, locks, clearing, swallowed, s_reap, glob>>

(***************************************************************************)
(* Services of the current task                                            *)
(***************************************************************************)
Me(c) == current[c]

\* A kernel task masks interrupts, an EL0 task traps: its first stop is
\* sched_exit_if_killed (c_sync_handler).
Enter(c) ==
    /\ pc[c] = "task"
    /\ Me(c) \notin Idles
    /\ ~exited[Me(c)]
    /\ ~(user[Me(c)] /\ kill_pending[Me(c)])
    /\ Goto(c, "svc")
    /\ UNCHANGED <<tcb, cpu, call, locks, resched, s_reap, glob>>

\* The service is over: eret, or daif restored.
Leave(c) ==
    /\ pc[c] = "svc"
    /\ Goto(c, "task")
    /\ UNCHANGED <<tcb, cpu, call, locks, resched, s_reap, glob>>

Yield(c) ==
    /\ pc[c] = "svc"
    /\ Goto(c, "clear")
    /\ UNCHANGED <<tcb, cpu, call, locks, resched, s_reap, glob>>

Sleep(c, ticks) ==
    /\ pc[c] = "svc"
    /\ wake_tick' = [wake_tick EXCEPT ![Me(c)] = ticks]
    /\ state' = [state EXCEPT ![Me(c)] = "SLEEPING"]
    /\ Goto(c, "clear")
    /\ UNCHANGED <<used, priority, owner, slice, wait_obj, pid, user, kill_pending, ctx,
                   exited, cpu, call, locks, resched, s_reap, glob>>

\* sched_block_on_timeout; the caller took s_ipclock and it is given back here.
Block(c, obj, deadline) ==
    /\ pc[c] = "svc"
    /\ s_ipclock = None
    /\ state' = [state EXCEPT ![Me(c)] = "BLOCKED"]
    /\ wait_obj' = [wait_obj EXCEPT ![Me(c)] = obj]
    /\ wake_tick' = [wake_tick EXCEPT ![Me(c)] = deadline]
    /\ Goto(c, "clear")
    /\ UNCHANGED <<used, priority, owner, slice, pid, user, kill_pending, ctx, exited, cpu,
                   call, locks, resched, s_reap, glob>>

Waiters(obj) == {t \in Tasks : used[t] /\ state[t] = "BLOCKED" /\ wait_obj[t] = obj}

\* sched_wake_one, up to its need_resched: the best waiter, the first of its
\* priority.  then is where its caller goes on.
WakeOne(c, obj, then) ==
    /\ s_ipclock = None
    /\ \E t \in Waiters(obj) :
          /\ \A u \in Waiters(obj) : \/ priority[t] < priority[u]
                                     \/ priority[t] = priority[u] /\ t <= u
          /\ state' = [state EXCEPT ![t] = "READY"]
          /\ wait_obj' = [wait_obj EXCEPT ![t] = NotWaiting]
          /\ wake_tick' = [wake_tick EXCEPT ![t] = Never]
          /\ arg' = [arg EXCEPT ![c] = t]
    /\ s_ipclock' = c
    /\ next_pc' = [next_pc EXCEPT ![c] = then]
    /\ Goto(c, "kick")
    /\ UNCHANGED <<used, priority, owner, slice, pid, user, kill_pending, ctx, exited, cpu,
                   best, target, s_tasklock, resched, s_reap, glob>>

\* sem_post and mutex_unlock end in sched_reschedule when they woke a task.
Post(c, obj) == pc[c] = "svc" /\ WakeOne(c, obj, "clear")

\* need_resched[owner] = 1.
Request_Lost(core) == need_resched
Request(core) == IF core \in Cores THEN [need_resched EXCEPT ![core] = TRUE] ELSE need_resched

\* The clear of the owner core has landed before the request, or lands on it and
\* the request is gone; the barrier of the caller has landed its own clear.
Deliver(c, core) ==
    /\ need_resched' = Request(core)
    /\ clearing' = clearing \ {c, core}
    /\ UNCHANGED swallowed
Swallow(c, core) ==
    /\ core \in clearing \ {c}
    /\ swallowed' = IF pc[core] \in {"clear", "scan"} THEN swallowed ELSE swallowed \cup {core}
    /\ clearing' = clearing \ {c}
    /\ UNCHANGED need_resched

\* Behind the dmb: the owner core is told; s_ipclock is given back.
Kick(c) ==
    /\ pc[c] = "kick"
    /\ Deliver(c, owner[arg[c]]) \/ Swallow(c, owner[arg[c]])
    /\ s_ipclock' = IF s_ipclock = c THEN None ELSE s_ipclock
    /\ arg' = [arg EXCEPT ![c] = None]
    /\ target' = [target EXCEPT ![c] = 0]
    /\ next_pc' = [next_pc EXCEPT ![c] = "task"]
    /\ Goto(c, next_pc[c])
    /\ UNCHANGED <<tcb, cpu, best, s_tasklock, s_reap, glob>>

\* mutex_lock_timeout on a free mutex.
Lock(c) ==
    /\ pc[c] = "svc"
    /\ s_ipclock = None
    /\ IsKernel(Me(c)) /\ Me(c) \in Holders \ locking
    /\ locking' = locking \cup {Me(c)}
    /\ UNCHANGED <<tcb, cpu, call, locks, resched, s_reap, pc, g_next_pid>>

\* mutex_lock_timeout on a held mutex: sched_set_prio(owner_tid, my priority).
Boost(c, t) ==
    /\ pc[c] = "svc"
    /\ s_ipclock = None
    /\ IsKernel(Me(c))
    /\ t \in locking /\ t # Me(c)
    /\ priority[Me(c)] < priority[t]
    /\ priority' = [priority EXCEPT ![t] = priority[Me(c)]]
    /\ s_ipclock' = c
    /\ arg' = [arg EXCEPT ![c] = t]
    /\ next_pc' = [next_pc EXCEPT ![c] = "svc"]
    /\ Goto(c, "kick")
    /\ UNCHANGED <<used, state, owner, slice, wake_tick, wait_obj, pid, user, kill_pending,
                   ctx, exited, cpu, best, target, s_tasklock, resched, s_reap,
                   glob>>

\* mutex_unlock: sched_set_prio(me, owner_orig_prio), under s_ipclock.
Unlock(c) ==
    /\ pc[c] = "svc"
    /\ s_ipclock = None
    /\ Me(c) \in locking
    /\ locking' = locking \ {Me(c)}
    /\ priority' = [priority EXCEPT ![Me(c)] = Prio0(Me(c))]
    /\ need_resched' = [need_resched EXCEPT ![c] = TRUE]
    /\ clearing' = clearing \ {c}
    /\ UNCHANGED <<used, state, owner, slice, wake_tick, wait_obj, pid, user, kill_pending,
                   ctx, exited, cpu, call, locks, swallowed, s_reap, pc, g_next_pid>>

(***************************************************************************)
(* task_create_suspended_on, task_set_user_aspace, task_admit              *)
(***************************************************************************)
NewState_Admitted == "READY"
NewState == "SETUP"
FirstFree(t) == ~used[t] /\ \A u \in Tasks : u < t => used[u]

\* task_create_internal with admit = 0 up to the barrier before used = 1.
CreateFill(c, core) ==
    /\ pc[c] = "svc"
    /\ s_tasklock = None
    /\ g_next_pid <= MaxPid
    /\ user[Me(c)] \/ core # c        \* SYS_SPAWN, or smp_runtime_spawner to core 1
    /\ \E t \in Tasks :
          /\ FirstFree(t)
          /\ pid' = [pid EXCEPT ![t] = g_next_pid]
          /\ state' = [state EXCEPT ![t] = NewState]
          /\ priority' = [priority EXCEPT ![t] = SPAWN_PRIO]
          /\ owner' = [owner EXCEPT ![t] = core]
          /\ slice' = [slice EXCEPT ![t] = TIME_SLICE]
          /\ wake_tick' = [wake_tick EXCEPT ![t] = Never]
          /\ wait_obj' = [wait_obj EXCEPT ![t] = NotWaiting]
          /\ user' = [user EXCEPT ![t] = FALSE]
          /\ kill_pending' = [kill_pending EXCEPT ![t] = FALSE]
          /\ exited' = [exited EXCEPT ![t] = FALSE]
          /\ ctx' = [ctx EXCEPT ![t] = g_next_pid]
          /\ arg' = [arg EXCEPT ![c] = t]
    /\ g_next_pid' = g_next_pid + 1
    /\ s_tasklock' = c
    /\ Goto(c, "publish")
    /\ UNCHANGED <<used, cpu, best, target, next_pc, s_ipclock, resched, s_reap, locking>>

CreatePublish(c) ==
    /\ pc[c] = "publish"
    /\ used' = [used EXCEPT ![arg[c]] = TRUE]
    /\ s_tasklock' = None
    /\ Goto(c, "setup")
    /\ UNCHANGED <<state, priority, owner, slice, wake_tick, wait_obj, pid, user,
                   kill_pending, ctx, exited, cpu, call, s_ipclock, resched, s_reap,
                   glob>>

\* proc_exec_as_on: the new task gets its address space, then task_admit. One step:
\* nobody reads the address space of a slot in SETUP, and dsb_sy orders it before READY.
Admit(c) ==
    /\ pc[c] = "setup"
    /\ user' = [user EXCEPT ![arg[c]] = TRUE]
    /\ state' = [state EXCEPT ![arg[c]] = "READY"]
    /\ next_pc' = [next_pc EXCEPT ![c] = "task"]
    /\ IF owner[arg[c]] # c
       THEN Goto(c, "kick") /\ UNCHANGED arg
       ELSE Goto(c, "task") /\ arg' = [arg EXCEPT ![c] = None]
    /\ UNCHANGED <<used, priority, owner, slice, wake_tick, wait_obj, pid, kill_pending, ctx,
                   exited, cpu, best, target, locks, resched, s_reap, glob>>

(***************************************************************************)
(* sched_kill_pid (the caller may kill: parent or admin)                   *)
(***************************************************************************)
\* The search over tasks[]: the slot whose pid is the one asked for.
KillFind(c, t) ==
    /\ pc[c] = "svc"
    /\ s_ipclock = None
    /\ user[Me(c)]
    /\ used[t] /\ user[t] /\ state[t] # "ZOMBIE"
    /\ pid[t] # pid[Me(c)]
    /\ s_ipclock' = c
    /\ arg' = [arg EXCEPT ![c] = t]
    /\ target' = [target EXCEPT ![c] = pid[t]]
    /\ Goto(c, "match")
    /\ UNCHANGED <<tcb, cpu, best, next_pc, s_tasklock, resched, s_reap, glob>>

NeedsWake_Any(st) == st # "RUNNING"
NeedsWake(st) == st \in {"SLEEPING", "BLOCKED"}

\* kill_pending = 1, and the test whether the victim has to be woken.
KillMark(c) ==
    /\ pc[c] = "match"
    /\ kill_pending' = [kill_pending EXCEPT ![arg[c]] = TRUE]
    /\ Goto(c, IF NeedsWake(state[arg[c]]) THEN "wake" ELSE "kick")
    /\ next_pc' = [next_pc EXCEPT ![c] = "task"]
    /\ UNCHANGED <<used, state, priority, owner, slice, wake_tick, wait_obj, pid, user, ctx,
                   exited, cpu, best, arg, target, locks, resched, s_reap, glob>>

KillWake(c) ==
    /\ pc[c] = "wake"
    /\ state' = [state EXCEPT ![arg[c]] = "READY"]
    /\ wait_obj' = [wait_obj EXCEPT ![arg[c]] = NotWaiting]
    /\ wake_tick' = [wake_tick EXCEPT ![arg[c]] = Never]
    /\ Goto(c, "kick")
    /\ UNCHANGED <<used, priority, owner, slice, pid, user, kill_pending, ctx, exited, cpu,
                   call, locks, resched, s_reap, glob>>

(***************************************************************************)
(* task_exit                                                               *)
(***************************************************************************)
\* Entry: a predecessor's slot is reaped first, so that s_reap is free.
ExitReap_Skipped(c) == UNCHANGED <<state, owner, used, s_reap>>
ExitReap(c) == Reap(c)

ExitEnter(c) ==
    /\ ExitReap(c)
    /\ exited' = [exited EXCEPT ![Me(c)] = TRUE]
    /\ Goto(c, "record")
    /\ UNCHANGED <<priority, slice, wake_tick, wait_obj, pid, user, kill_pending, ctx, cpu,
                   call, locks, resched, glob>>

Exit(c) == pc[c] = "svc" /\ Me(c) \notin locking /\ ExitEnter(c)

\* sched_exit_if_killed at the EL0/EL1 boundary (IRQ or trap).
SafePoint(c) ==
    /\ pc[c] = "task"
    /\ user[Me(c)] /\ kill_pending[Me(c)] /\ ~exited[Me(c)]
    /\ ExitEnter(c)

\* The exit record is put and the parent, blocked on its own TCB, is woken.
ExitNotify(c, obj) == pc[c] = "record" /\ user[Me(c)] /\ WakeOne(c, obj, "dying")

\* Nobody to wake: a kernel task, no live parent, or a parent not waiting.

ExitZombie(c) ==
    /\ pc[c] \in {"record", "dying"}
    /\ state' = [state EXCEPT ![Me(c)] = "ZOMBIE"]
    /\ s_reap' = [s_reap EXCEPT ![c] = Me(c)]
    /\ Goto(c, "clear")
    /\ UNCHANGED <<used, priority, owner, slice, wake_tick, wait_obj, pid, user, kill_pending,
                   ctx, exited, cpu, call, locks, resched, glob>>

-----------------------------------------------------------------------------
(***************************************************************************)
(* Properties                                                              *)
(***************************************************************************)
\* Every field stays in its range; a slot index is None only where the code
\* uses -1 or 0xFF.
TypeTcb ==
    /\ used \in [Tasks -> BOOLEAN]
    /\ state \in [Tasks -> States]
    /\ priority \in [Tasks -> 0 .. IDLE_PRIO]
    /\ owner \in [Tasks -> Cores \cup {None}]
    /\ slice \in [Tasks -> 0 .. TIME_SLICE]
    /\ wake_tick \in [Tasks -> {Never} \cup 0 .. MaxSleep]
    /\ wait_obj \in [Tasks -> Objs \cup {NotWaiting}]
    /\ pid \in [Tasks -> 0 .. MaxPid]
    /\ user \in [Tasks -> BOOLEAN]
    /\ kill_pending \in [Tasks -> BOOLEAN]
    /\ ctx \in [Tasks -> 0 .. MaxPid]
    /\ exited \in [Tasks -> BOOLEAN]
TypeCore ==
    /\ current \in [Cores -> Tasks \cup {None}]
    /\ need_resched \in [Cores -> BOOLEAN]
    /\ clearing \in SUBSET Cores
    /\ swallowed \in SUBSET Cores
    /\ s_reap \in [Cores -> Tasks \cup {None}]
    /\ pc \in [Cores -> Steps]
    /\ stack \in [Cores -> Tasks \cup {None}]
    /\ inst \in [Cores -> 0 .. MaxPid]
    /\ best \in [Cores -> 0 .. NO_PRIO]
    /\ arg \in [Cores -> Tasks \cup {None}]
    /\ target \in [Cores -> 0 .. MaxPid]
    /\ next_pc \in [Cores -> {"task", "svc", "clear", "dying"}]
TypeShared ==
    /\ g_next_pid \in 1 .. MaxPid + 1
    /\ s_tasklock \in Cores \cup {None}
    /\ s_ipclock \in Cores \cup {None}
    /\ locking \in SUBSET Holders
TypeOK == TypeTcb /\ TypeCore /\ TypeShared

\* The kernel stack a core runs on belongs to the instance it executes: the
\* slot of an exiting task is neither freed nor given to a new task before
\* context_switch has left it (ZOMBIE and s_reap in task_exit/reap_pending).
StackOwned ==
    \A c \in Cores : pc[c] # "boot" =>
        /\ used[stack[c]]
        /\ owner[stack[c]] = c
        /\ pid[stack[c]] = inst[c]

\* The context saved in an allocated slot is the one of the instance that
\* holds the slot: no late ctx_sp write of a predecessor destroys it.
ContextOwned == \A t \in Tasks : used[t] => ctx[t] = pid[t]

\* Two allocated slots never carry the same pid, and no core executes an
\* instance another core executes (partitioning; pids are never recycled).
OneCorePerTask ==
    /\ \A t, u \in Tasks : used[t] /\ used[u] /\ pid[t] = pid[u] => t = u
    /\ \A c, d \in Cores : pc[c] # "boot" /\ pc[d] # "boot" /\ inst[c] = inst[d] => c = d

\* A ZOMBIE slot is always the one its core will reap: a second exit on the
\* core never overwrites s_reap and loses the slot.
NoZombieLeak ==
    \A t \in Tasks : used[t] /\ state[t] = "ZOMBIE" => s_reap[owner[t]] = t

\* Someone will make core c look at its tasks again.
Flagged(c) ==
    \/ need_resched[c]
    \/ \E d \in Cores : pc[d] = "kick" /\ arg[d] # None /\ owner[arg[d]] = c

\* A wake or a boost is delayed by a slice at most ("Zustellung ist
\* bounded-by-one-slice", sched.c:458): a READY task better than what its core
\* runs, or than what pick_next has settled on, has a request under way, unless
\* the core's own late clear took it; then what runs still has a slice to end.
BoundedByOneSlice ==
    \A c \in Cores : \A t \in Mine(c) :
        state[t] = "READY" /\ ~Flagged(c) =>
            /\ pc[c] = "pick" => best[c] <= priority[t] \/ c \in swallowed
            /\ pc[c] \notin {"boot", "clear", "scan", "pick"} =>
                   \/ priority[current[c]] <= priority[t]
                   \/ c \in swallowed /\ slice[current[c]] > 0

\* A core never executes a spawned process in the kernel's address space: the
\* slot stays SETUP until ttbr and user_phys are written (task_admit).
NoPhantomAspace ==
    \A c \in Cores : pc[c] # "boot" /\ inst[c] > NBoot => user[stack[c]]

\* ZOMBIE is final for an instance (task_exit: "state != READY -> pick_next
\* waehlt ihn nie"): neither a kill nor a wake nor the scheduler revives it.
ZombieStaysDead ==
    [][\A t \in Tasks : state[t] = "ZOMBIE" => state'[t] \in {"ZOMBIE", "UNUSED"}]_vars

\* A task that went to sleep or blocked runs again only after somebody made it
\* READY: its own schedule() never returns to it at once.
WaitIsLeftByWaking ==
    [][\A t \in Tasks : state[t] \in {"SLEEPING", "BLOCKED"} => state'[t] # "RUNNING"]_vars

\* A kill marks the instance it was asked for, never a later one in the same
\* slot ("keine Verwechslung alter/neuer Instanzen").
KillHitsTarget ==
    [][\A c \in Cores : KillMark(c) => pid[arg[c]] = target[c]]_vars

-----------------------------------------------------------------------------
Schedule(c) == ScheduleBegin(c) \/ ScanBest(c) \/ PickNext(c) \/ ContextSwitch(c)
Irq(c) == Tick(c) \/ TickDeadlines(c) \/ OtherIrq(c) \/ IrqExit(c)
Create(c) == (\E core \in Cores : CreateFill(c, core)) \/ CreatePublish(c) \/ Admit(c)
Kill(c) == (\E t \in Tasks : KillFind(c, t)) \/ KillMark(c) \/ KillWake(c)
Die(c) == Exit(c) \/ SafePoint(c) \/ (\E obj \in Objs : ExitNotify(c, obj)) \/ ExitZombie(c)
Service(c) ==
    \/ Enter(c) \/ Leave(c) \/ Yield(c)
    \/ \E ticks \in 0 .. MaxSleep : Sleep(c, ticks)
    \/ \E obj \in Objs, deadline \in {Never} \cup 1 .. MaxSleep : Block(c, obj, deadline)
    \/ \E obj \in Objs : Post(c, obj)
    \/ Lock(c) \/ (\E t \in Holders : Boost(c, t)) \/ Unlock(c)
    \/ Kick(c)

CoreStep(c) == SchedEnter(c) \/ Schedule(c) \/ Irq(c) \/ Service(c) \/ Create(c) \/ Kill(c)
                  \/ Die(c)
Next == \E c \in Cores : CoreStep(c)

Spec == Init /\ [][Next]_vars

\* What the hardware and the code owe: kernel paths run on, a service ends, the
\* timer interrupt (pending while masked) is taken once unmasked again and
\* again, and the spin locks let everyone through.
Forced(c) ==
    \/ SchedEnter(c) \/ Schedule(c) \/ IrqExit(c) \/ Leave(c) \/ Kick(c)
    \/ CreatePublish(c) \/ Admit(c) \/ KillMark(c) \/ KillWake(c) \/ ExitZombie(c)
Fairness ==
    \A c \in Cores : WF_vars(Forced(c)) /\ SF_vars(Tick(c)) /\ SF_vars(TickDeadlines(c))

FairSpec == Spec /\ Fairness

\* Round robin starves nobody: a READY task with no better task on its core at
\* that time is run, or something better turns up.
NoStarvation ==
    \A t \in Tasks \ Idles :
        (used[t] /\ state[t] = "READY" /\ \A u \in Mine(owner[t]) : priority[t] <= priority[u])
            ~> (state[t] # "READY" \/ \E u \in Mine(owner[t]) : priority[u] < priority[t])
=============================================================================
