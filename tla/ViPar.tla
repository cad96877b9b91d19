------------------------------- MODULE ViPar --------------------------------
(***************************************************************************)
(* The parallel-for of the VISION build (kernel/vi_parallel.c and its EL0  *)
(* wrapper vi_par.c): a process starts workers in its own address space on *)
(* the other cores, computes its slice and joins them over a semaphore.    *)
(*                                                                         *)
(* "Nur EIN Parallel-For gleichzeitig" (vi_parallel.h:16): a process       *)
(* begins a region only when no living process is in one.  sem_wait and    *)
(* sem_post are Ipc's: here a wait takes a token when there is one.        *)
(***************************************************************************)
EXTENDS Integers

CONSTANTS
    Callers,           \* EL0 processes that use it
    VI_MAX_WORKERS,
    MaxRegions,        \* bound on the regions begun
    EndsEarly          \* may a process end between spawn and join?

Wids == 1 .. VI_MAX_WORKERS - 1
Regions == 1 .. MaxRegions
NoRegion == 0

VARIABLES
    st,                \* of a process: "el0", "spawn", "compute", "join", "gone"
    region,            \* the region it is in, or was in last
    asked, spawned,    \* n of the call, workers made so far
    joined,            \* tokens taken by its join
    worker,            \* the task of slice w of region r: "none", "ready", "run", "over"
    took,              \* the region whose co_arg it entered EL0 with
    g_barrier, g_nworkers, g_coargs,
    regions            \* regions begun

caller == <<st, region, asked, spawned, joined>>
vars == <<caller, worker, took, g_barrier, g_nworkers, g_coargs, regions>>

Init ==
    /\ st = [p \in Callers |-> "el0"]
    /\ region = [p \in Callers |-> NoRegion]
    /\ asked = [p \in Callers |-> 0]
    /\ spawned = [p \in Callers |-> 0]
    /\ joined = [p \in Callers |-> 0]
    /\ worker = [r \in Regions |-> [w \in Wids |-> "none"]]
    /\ took = [r \in Regions |-> [w \in Wids |-> NoRegion]]
    /\ g_barrier = 0 /\ g_nworkers = 0
    /\ g_coargs = [w \in Wids |-> NoRegion]
    /\ regions = 0

InRegion(p) == st[p] \in {"spawn", "compute", "join"}
Goto(p, s) == st' = [st EXCEPT ![p] = s]

\* vi_par_spawn up to its loop.
Begin(p, n) ==
    /\ st[p] = "el0" /\ ~\E q \in Callers : InRegion(q)
    /\ regions < MaxRegions
    /\ regions' = regions + 1
    /\ region' = [region EXCEPT ![p] = regions']
    /\ asked' = [asked EXCEPT ![p] = n]
    /\ spawned' = [spawned EXCEPT ![p] = 0]
    /\ g_barrier' = 0
    /\ Goto(p, "spawn")
    /\ UNCHANGED <<joined, worker, took, g_nworkers, g_coargs>>

More_OneMore(p) == spawned[p] + 1 <= asked[p]
More(p) == spawned[p] + 1 < asked[p]

SpawnWorker_KeepsArgs(p) ==
    /\ st[p] = "spawn" /\ More(p)
    /\ worker' = [worker EXCEPT ![region[p]][spawned[p] + 1] = "ready"]
    /\ spawned' = [spawned EXCEPT ![p] = @ + 1]
    /\ UNCHANGED <<st, region, asked, joined, took, g_barrier, g_nworkers, g_coargs, regions>>

\* One round of the loop: from task_admit on the worker may run, on its core.
SpawnWorker(p) ==
    LET w == spawned[p] + 1 IN
    /\ st[p] = "spawn" /\ More(p)
    /\ g_coargs' = [g_coargs EXCEPT ![w] = region[p]]
    /\ worker' = [worker EXCEPT ![region[p]][w] = "ready"]
    /\ spawned' = [spawned EXCEPT ![p] = w]
    /\ UNCHANGED <<st, region, asked, joined, took, g_barrier, g_nworkers, regions>>

Count_Asked(p) == asked[p] - 1
Count_OneLess(p) == IF spawned[p] > 0 THEN spawned[p] - 1 ELSE 0
Count(p) == spawned[p]

\* The loop is over, or tasks[] has no free slot.  vi_parallel joins only workers
\* it got.
SpawnDone(p) ==
    /\ st[p] = "spawn"
    /\ g_nworkers' = Count(p)
    /\ Goto(p, IF spawned[p] > 0 THEN "compute" ELSE "el0")
    /\ UNCHANGED <<region, asked, spawned, joined, worker, took, g_barrier, g_coargs, regions>>

\* fn(arg, 0, n) has returned: SYS_VI_PARJOIN.
Join(p) ==
    /\ st[p] = "compute"
    /\ joined' = [joined EXCEPT ![p] = 0]
    /\ Goto(p, "join")
    /\ UNCHANGED <<region, asked, spawned, worker, took, g_barrier, g_nworkers, g_coargs, regions>>

Token_Always == TRUE
Token == g_barrier > 0

JoinWait(p) ==
    /\ st[p] = "join" /\ joined[p] < g_nworkers
    /\ Token
    /\ g_barrier' = g_barrier - 1
    /\ joined' = [joined EXCEPT ![p] = @ + 1]
    /\ UNCHANGED <<st, region, asked, spawned, worker, took, g_nworkers, g_coargs, regions>>

JoinEnd(p) ==
    /\ st[p] = "join" /\ joined[p] >= g_nworkers
    /\ g_nworkers' = 0
    /\ Goto(p, "el0")
    /\ UNCHANGED <<region, asked, spawned, joined, worker, took, g_barrier, g_coargs, regions>>

\* co_enter: the argument block is read when the worker is dispatched.
WorkerEnter(r, w) ==
    /\ worker[r][w] = "ready"
    /\ worker' = [worker EXCEPT ![r][w] = "run"]
    /\ took' = [took EXCEPT ![r][w] = g_coargs[w]]
    /\ UNCHANGED <<caller, g_barrier, g_nworkers, g_coargs, regions>>

\* vi_par_worker_done: sem_post, task_exit.
WorkerDone(r, w) ==
    /\ worker[r][w] = "run"
    /\ worker' = [worker EXCEPT ![r][w] = "over"]
    /\ g_barrier' = g_barrier + 1
    /\ UNCHANGED <<caller, took, g_nworkers, g_coargs, regions>>

\* The process ends, and its exit hook frees the address space: by SYS_EXIT in
\* EL0; inside a region by a fault of its slice, or by SYS_KILL at a safe point.
End(p) ==
    /\ st[p] = "el0" \/ (EndsEarly /\ st[p] = "compute")
    /\ Goto(p, "gone")
    /\ UNCHANGED <<region, asked, spawned, joined, worker, took, g_barrier, g_nworkers,
                   g_coargs, regions>>

Working(r, w) == WorkerEnter(r, w) \/ WorkerDone(r, w)
Calling(p) == SpawnWorker(p) \/ SpawnDone(p) \/ Join(p) \/ JoinWait(p) \/ JoinEnd(p)

Next ==
    \/ \E p \in Callers :
          (\E n \in 2 .. VI_MAX_WORKERS : Begin(p, n)) \/ Calling(p) \/ End(p)
    \/ \E r \in Regions, w \in Wids : Working(r, w)

Spec == Init /\ [][Next]_vars

-----------------------------------------------------------------------------
TypeOK ==
    /\ st \in [Callers -> {"el0", "spawn", "compute", "join", "gone"}]
    /\ region \in [Callers -> 0 .. MaxRegions]
    /\ asked \in [Callers -> 0 .. VI_MAX_WORKERS]
    /\ spawned \in [Callers -> 0 .. VI_MAX_WORKERS - 1]
    /\ joined \in [Callers -> 0 .. VI_MAX_WORKERS - 1]
    /\ worker \in [Regions -> [Wids -> {"none", "ready", "run", "over"}]]
    /\ took \in [Regions -> [Wids -> 0 .. MaxRegions]]
    /\ g_barrier \in 0 .. MaxRegions * VI_MAX_WORKERS
    /\ g_nworkers \in 0 .. VI_MAX_WORKERS - 1
    /\ g_coargs \in [Wids -> 0 .. MaxRegions]
    /\ regions \in 0 .. MaxRegions

Busy(r) == {w \in Wids : worker[r][w] \in {"ready", "run"}}

\* vi_par_join is a barrier: behind it every worker of the region has reported
\* (vi_parallel.h:19).
JoinIsBarrier ==
    \A p \in Callers : st[p] = "el0" /\ region[p] # NoRegion => Busy(region[p]) = {}

\* A worker enters EL0 with the arguments of its own region, although g_coargs
\* is shared by all of them.
OwnArguments ==
    \A r \in Regions, w \in Wids : worker[r][w] = "run" => took[r][w] = r

\* Workers run (Sched) and reach SYS_VI_WORKER_DONE; the caller's slice ends.
Fairness ==
    /\ \A p \in Callers : WF_vars(Calling(p))
    /\ \A r \in Regions, w \in Wids : WF_vars(Working(r, w))
FairSpec == Spec /\ Fairness

\* A join comes back, also when tasks[] had no slot for some of the workers.
JoinReturns == \A p \in Callers : st[p] = "join" ~> st[p] # "join"
=============================================================================
