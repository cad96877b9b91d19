----------------------------- MODULE AddrSpace ------------------------------
(***************************************************************************)
(* Where an EL0 process lives (kernel/proc.c, arch/aarch64/mmu.c): its     *)
(* slot of procs[], which is also its tile of physical memory, the shared  *)
(* buffer its ELF passes through, and its address space, a set of page     *)
(* tables named by an ASID, with what the TLB of each core may hold for    *)
(* that ASID.                                                              *)
(*                                                                         *)
(* A process stands for one call of proc_exec_as_on and, if that succeeds, *)
(* for the task it makes.  st[p] says how far it is:                       *)
(*   unborn                          not called, or a failed call is over  *)
(*   slot read loaded aspace mapped  inside proc_exec_as_on                *)
(*   tlbi free failed                on its way out of it                  *)
(*   ready run                       a task, off or on its core            *)
(*   x_tlbi x_free x_gone            in the exit hook of task_exit         *)
(*   gone                            its core has left it                  *)
(***************************************************************************)
EXTENDS Integers, FiniteSets

CONSTANTS
    Procs,             \* calls of proc_exec_as_on
    Cores,
    MAX_USER_PROCS,    \* slots of procs[]
    MMU_MAX_ASPACE     \* address spaces

Slots == 0 .. MAX_USER_PROCS - 1
Aspaces == 0 .. MMU_MAX_ASPACE - 1
None == -1
Kernel == -2                        \* mmu_kernel_ttbr(), ASID 0

ASSUME AddrSpaceAssumption ==
    /\ IsFiniteSet(Procs) /\ IsFiniteSet(Cores)
    /\ MAX_USER_PROCS \in Nat
    /\ MMU_MAX_ASPACE \in Nat
    /\ None \notin Procs

VARIABLES
    st, slot, aspace,    \* of a process: how far it is, and what it has been given
    core,                \* the core its task is made on
    slot_used, p_aspace, \* procs[]
    elf_buf, s_loadlock, \* whose ELF is in the buffer, who holds the lock
    tile,                \* whose image is in the tile of a slot
    aspace_used,
    table,               \* the tile that aspace_l2[] maps at USER_BASE
    current, ttbr,       \* what a core runs, None for a kernel task; its TTBR0
    tlb,                 \* the translations of USER_BASE a core has cached, by ASID
    late                 \* ASIDs a core has walked since their invalidation (a history)

who == <<st, slot, aspace, core>>
memory == <<elf_buf, s_loadlock, tile>>
mmu == <<aspace_used, table>>
cpu == <<current, ttbr>>
cached == <<tlb, late>>
procs == <<slot_used, p_aspace>>
vars == <<who, procs, memory, mmu, cpu, cached>>

Init ==
    /\ st = [p \in Procs |-> "unborn"]
    /\ slot = [p \in Procs |-> None]
    /\ aspace = [p \in Procs |-> None]
    /\ core \in [Procs -> Cores]
    /\ slot_used = [i \in Slots |-> FALSE]
    /\ p_aspace = [i \in Slots |-> None]
    /\ elf_buf = None /\ s_loadlock = None
    /\ tile = [i \in Slots |-> None]
    /\ aspace_used = [a \in Aspaces |-> FALSE]
    /\ table = [a \in Aspaces |-> None]
    /\ current = [c \in Cores |-> None]
    /\ ttbr = [c \in Cores |-> Kernel]
    /\ tlb = [c \in Cores |-> [a \in Aspaces |-> {}]]
    /\ late = [c \in Cores |-> {}]

Goto(p, s) == st' = [st EXCEPT ![p] = s]
FirstFree(used, i) == ~used[i] /\ \A j \in DOMAIN used : ~used[j] => i <= j

(***************************************************************************)
(* proc_exec_as_on                                                         *)
(***************************************************************************)
\* Under s_proclock.  No free slot: the call returns -1.
ReserveSlot(p, i) ==
    /\ st[p] = "unborn"
    /\ FirstFree(slot_used, i)
    /\ slot_used' = [slot_used EXCEPT ![i] = TRUE]
    /\ slot' = [slot EXCEPT ![p] = i]
    /\ Goto(p, "slot")
    /\ UNCHANGED <<aspace, core, p_aspace, memory, mmu, cpu, cached>>

Unlocked_Always == TRUE
Unlocked == s_loadlock = None

\* vfs_read_file into elf_buf, under s_loadlock.
ReadElf(p) ==
    /\ st[p] = "slot"
    /\ Unlocked
    /\ s_loadlock' = p
    /\ elf_buf' = p
    /\ Goto(p, "read")
    /\ UNCHANGED <<slot, aspace, core, procs, tile, mmu, cpu, cached>>

\* elf_load copies the image to the tile; a file that is missing, too long or no
\* ELF fails, with nothing or a part of it written.
LoadElf(p) ==
    /\ st[p] = "read"
    /\ \/ tile' = [tile EXCEPT ![slot[p]] = elf_buf] /\ Goto(p, "loaded")
       \/ tile' = [tile EXCEPT ![slot[p]] = None] /\ Goto(p, "failed")
    /\ s_loadlock' = None
    /\ UNCHANGED <<slot, aspace, core, procs, elf_buf, mmu, cpu, cached>>

\* mmu_create_aspace, under aspace_lock.
TakeAspace(p, a) ==
    /\ st[p] = "loaded"
    /\ FirstFree(aspace_used, a)
    /\ aspace_used' = [aspace_used EXCEPT ![a] = TRUE]
    /\ aspace' = [aspace EXCEPT ![p] = a]
    /\ Goto(p, "aspace")
    /\ UNCHANGED <<slot, core, procs, memory, table, cpu, cached>>

NoAspace_Unchecked(p) ==
    /\ st[p] = "loaded"
    /\ \A a \in Aspaces : aspace_used[a]
    /\ Goto(p, "aspace")
    /\ UNCHANGED <<slot, aspace, core, procs, memory, mmu, cpu, cached>>

NoAspace(p) ==
    /\ st[p] = "loaded"
    /\ \A a \in Aspaces : aspace_used[a]
    /\ Goto(p, "failed")
    /\ UNCHANGED <<slot, aspace, core, procs, memory, mmu, cpu, cached>>

\* The tables are built behind the lock, without a TLB invalidation.
MapTile(p) ==
    /\ st[p] = "aspace"
    /\ table' = [table EXCEPT ![aspace[p]] = slot[p]]
    /\ p_aspace' = [p_aspace EXCEPT ![slot[p]] = aspace[p]]
    /\ Goto(p, "mapped")
    /\ UNCHANGED <<slot, aspace, core, slot_used, memory, aspace_used, cpu, cached>>

\* task_create_suspended_on and task_admit, or no free slot in tasks[].
MakeTask(p) ==
    /\ st[p] = "mapped"
    /\ \/ Goto(p, "ready")
       \/ Goto(p, "tlbi")
    /\ UNCHANGED <<slot, aspace, core, procs, memory, mmu, cpu, cached>>

(***************************************************************************)
(* mmu_free_aspace                                                         *)
(***************************************************************************)
\* tlbi aside1is: on every core.
Invalidate_Never(a) == UNCHANGED cached
Invalidate(a) ==
    /\ tlb' = [c \in Cores |-> [tlb[c] EXCEPT ![a] = {}]]
    /\ late' = [c \in Cores |-> late[c] \ {a}]

FlushAspace(p, from, to) ==
    /\ st[p] = from
    /\ Invalidate(aspace[p])
    /\ Goto(p, to)
    /\ UNCHANGED <<slot, aspace, core, procs, memory, mmu, cpu>>

FreeAspace(p, from, to) ==
    /\ st[p] = from
    /\ aspace_used' = [aspace_used EXCEPT ![aspace[p]] = FALSE]
    /\ aspace' = [aspace EXCEPT ![p] = None]
    /\ Goto(p, to)
    /\ UNCHANGED <<slot, core, procs, memory, table, cpu, cached>>

NoTask_Leaks(p) ==
    /\ st[p] = "tlbi"
    /\ Goto(p, "failed")
    /\ UNCHANGED <<slot, aspace, core, procs, memory, mmu, cpu, cached>>
NoTask(p) == FlushAspace(p, "tlbi", "free") \/ FreeAspace(p, "free", "failed")

\* slot_release, the end of a call that failed.
ReleaseSlot(p) ==
    /\ st[p] = "failed"
    /\ slot_used' = [slot_used EXCEPT ![slot[p]] = FALSE]
    /\ slot' = [slot EXCEPT ![p] = None]
    /\ Goto(p, "unborn")
    /\ UNCHANGED <<aspace, core, p_aspace, memory, mmu, cpu, cached>>

(***************************************************************************)
(* schedule(): whom core c leaves, and whom it turns to                    *)
(***************************************************************************)
\* What becomes of the task a core leaves.  The exit hook runs masked.
Left(p) == IF st[p] = "run" THEN "ready" ELSE "gone"
MayLeave(c) == current[c] # None => st[current[c]] \in {"run", "x_gone"}

SwitchToProc(c, p) ==
    /\ MayLeave(c)
    /\ st[p] = "ready" /\ core[p] = c
    /\ st' = [q \in Procs |-> IF q = p THEN "run"
                              ELSE IF q = current[c] THEN Left(q)
                              ELSE st[q]]
    /\ current' = [current EXCEPT ![c] = p]
    /\ ttbr' = [ttbr EXCEPT ![c] = aspace[p]]
    /\ UNCHANGED <<slot, aspace, core, procs, memory, mmu, cached>>

SwitchToKernel(c) ==
    /\ MayLeave(c) /\ current[c] # None
    /\ st' = [st EXCEPT ![current[c]] = Left(current[c])]
    /\ current' = [current EXCEPT ![c] = None]
    /\ ttbr' = [ttbr EXCEPT ![c] = Kernel]
    /\ UNCHANGED <<slot, aspace, core, procs, memory, mmu, cached>>

\* The hardware walks the tables of TTBR0 and keeps the translation: for an
\* access of the process, or on its own as long as TTBR0 names them, which it
\* does until the core leaves the exiting process, behind the invalidation.
PastInvalidation(p) == st[p] \in {"x_free", "x_gone"}
Fill(c) ==
    /\ current[c] # None
    /\ table[ttbr[c]] # None
    /\ tlb' = [tlb EXCEPT ![c][ttbr[c]] = @ \cup {table[ttbr[c]]}]
    /\ late' = IF PastInvalidation(current[c]) THEN [late EXCEPT ![c] = @ \cup {ttbr[c]}] ELSE late
    /\ UNCHANGED <<who, procs, memory, mmu, cpu>>

(***************************************************************************)
(* task_exit: proc_free_slot                                               *)
(***************************************************************************)
ExitSlot(p) ==
    /\ st[p] = "run"
    /\ slot_used' = [slot_used EXCEPT ![slot[p]] = FALSE]
    /\ aspace' = [aspace EXCEPT ![p] = p_aspace[slot[p]]]
    /\ slot' = [slot EXCEPT ![p] = None]
    /\ Goto(p, "x_tlbi")
    /\ UNCHANGED <<core, p_aspace, memory, mmu, cpu, cached>>

ExitAspace(p) == FlushAspace(p, "x_tlbi", "x_free") \/ FreeAspace(p, "x_free", "x_gone")

Next ==
    \/ \E p \in Procs :
          \/ \E i \in Slots : ReserveSlot(p, i)
          \/ ReadElf(p) \/ LoadElf(p)
          \/ \E a \in Aspaces : TakeAspace(p, a)
          \/ NoAspace(p) \/ MapTile(p) \/ MakeTask(p)
          \/ NoTask(p) \/ ReleaseSlot(p)
          \/ ExitSlot(p) \/ ExitAspace(p)
    \/ \E c \in Cores :
          \/ \E p \in Procs : SwitchToProc(c, p)
          \/ SwitchToKernel(c) \/ Fill(c)

Spec == Init /\ [][Next]_vars

-----------------------------------------------------------------------------
\* Who holds a slot, and who holds an address space.
Building == {"slot", "read", "loaded", "aspace", "mapped", "tlbi", "free", "failed"}
Live == {"ready", "run"}
HasSlot == Building \cup Live
HasAspace == {"aspace", "mapped", "tlbi", "free", "x_tlbi", "x_free"} \cup Live

TypeOK ==
    /\ st \in [Procs -> HasSlot \cup HasAspace \cup {"unborn", "x_gone", "gone"}]
    /\ slot \in [Procs -> Slots \cup {None}]
    /\ aspace \in [Procs -> Aspaces \cup {None}]
    /\ core \in [Procs -> Cores]
    /\ slot_used \in [Slots -> BOOLEAN]
    /\ p_aspace \in [Slots -> Aspaces \cup {None}]
    /\ elf_buf \in Procs \cup {None}
    /\ s_loadlock \in Procs \cup {None}
    /\ tile \in [Slots -> Procs \cup {None}]
    /\ aspace_used \in [Aspaces -> BOOLEAN]
    /\ table \in [Aspaces -> Slots \cup {None}]
    /\ current \in [Cores -> Procs \cup {None}]
    /\ ttbr \in [Cores -> Aspaces \cup {Kernel}]
    /\ tlb \in [Cores -> [Aspaces -> SUBSET Slots]]
    /\ late \in [Cores -> SUBSET Aspaces]
    /\ \A p \in Procs : st[p] \in HasSlot => slot[p] \in Slots
    /\ \A p \in Procs : st[p] \in HasAspace => aspace[p] \in Aspaces

\* No slot and no address space is given to two processes, and none is leaked:
\* one that is taken has a process that will give it back.
Accounted ==
    /\ \A i \in Slots : slot_used[i] <=> \E p \in Procs : st[p] \in HasSlot /\ slot[p] = i
    /\ \A p, q \in Procs :
          st[p] \in HasSlot /\ st[q] \in HasSlot /\ slot[p] = slot[q] => p = q
    /\ \A a \in Aspaces :
          aspace_used[a] <=> \E p \in Procs : st[p] \in HasAspace /\ aspace[p] = a
    /\ \A p, q \in Procs :
          st[p] \in HasAspace /\ st[q] \in HasAspace /\ aspace[p] = aspace[q] => p = q

\* A process runs the image it asked for, in tables that map its own tile:
\* neither another load nor another process's tables get in between.
ImageOwn ==
    \A p \in Procs : st[p] \in Live => tile[slot[p]] = p /\ table[aspace[p]] = slot[p]

\* A process in EL0 uses its own tables, and no translation that is left over
\* from an earlier process with its ASID (mmu_free_aspace: "dessen ASID
\* broadcast-invalidieren (vor Reuse, alle Kerne)").  One thing can leave such a
\* translation: the exit hook invalidates while TTBR0 still names the tables, and
\* its own core walks them again before it switches away.
TranslatesOwn ==
    \A c \in Cores : current[c] # None /\ st[current[c]] = "run" =>
        LET p == current[c] IN
        /\ ttbr[c] = aspace[p]
        /\ aspace[p] \notin late[c] => tlb[c][aspace[p]] \subseteq {slot[p]}

\* Only exit hooks can be the reason that a call with a slot is refused an
\* address space, and there is at most one of them on each core: with one address
\* space for every slot and every core no call is refused (mmu.h, proc.h).
Hooks == {p \in Procs : st[p] \in {"x_tlbi", "x_free"}}
AspaceLeft ==
    /\ Cardinality(Hooks) <= Cardinality(Cores)
    /\ \A p \in Procs : st[p] = "loaded" /\ (\A a \in Aspaces : aspace_used[a]) =>
          MMU_MAX_ASPACE < MAX_USER_PROCS + Cardinality(Hooks)
=============================================================================
