------------------------------ MODULE MC_Sched ------------------------------
\* Instances of Sched for TLC: two cores, a kernel task on each of them.
EXTENDS Sched, TLC

\* Slots 0 and 1 are the idle tasks; one kernel task on core 0.
OneBoot == 2 :> [core |-> 0, prio |-> 2]

\* Slot 2 is the mutex owner of the priority-inheritance test (kmain.c), slot 3
\* shares core 1 with it and is better; slot 4 on core 0.
InversionBoot ==
    2 :> [core |-> 1, prio |-> 3] @@ 3 :> [core |-> 1, prio |-> 1]
        @@ 4 :> [core |-> 0, prio |-> 2]

\* Core 1 has the owner and a better task; the best one of all is on core 0.
MiddleBoot ==
    2 :> [core |-> 1, prio |-> 3] @@ 3 :> [core |-> 1, prio |-> 2]
        @@ 4 :> [core |-> 0, prio |-> 1]

\* Two tasks of one priority share core 1.
EqualBoot ==
    2 :> [core |-> 1, prio |-> 3] @@ 3 :> [core |-> 1, prio |-> 3]

MCHolders == {2}
NoHolders == {}
=============================================================================
