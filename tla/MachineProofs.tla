---------------------------- MODULE MachineProofs ----------------------------
(***************************************************************************)
(* Proofs about the machines that MC_Machine runs, for every number of     *)
(* processes, slots, address spaces and cores, every nesting, queue size   *)
(* and width of the indices.                                               *)
(*                                                                         *)
(* The address spaces (AddrSpace). Slots and address spaces are accounted  *)
(* for, a process runs its own image, and translates by its own tables     *)
(* unless its core has walked them between an exit hook's invalidation and *)
(* the switch away: a translation belongs to who has the ASID or is late.  *)
(*                                                                         *)
(* The lock of the network stack (NetLock). A core's own reading           *)
(* s_net_owner = me is stable under the steps of the others: only the      *)
(* holder of the spinlock writes the field, with its own number or with    *)
(* None. From this follow the depth (the owner's own count) and the flags  *)
(* (those of its outermost call).                                          *)
(*                                                                         *)
(* The rings of virtio-net (VirtioNet). Driver and device go round in the  *)
(* same order, so the descriptor in a slot of a ring is always the slot's  *)
(* own number, and the window between two indices never has more than      *)
(* VNET_QSIZE slots, all of them different: nobody writes into a buffer    *)
(* the other side holds.                                                   *)
(*                                                                         *)
(* The development agent (DevAgent). Only faults leave packets behind, and *)
(* after the answer OK it takes FILE_BEGIN, every chunk and FILE_END of    *)
(* another file before anything else is written: packets in flight and     *)
(* those the table has taken are counted against the faults.               *)
(***************************************************************************)
EXTENDS MC_Machine, FiniteSetTheorems, SequenceTheorems, TLAPS

-----------------------------------------------------------------------------
(***************************************************************************)
(* AddrSpace                                                               *)
(***************************************************************************)
SlotInv ==
    /\ \A i \in Slots : slot_used[i] <=> \E p \in Procs : st[p] \in HasSlot /\ slot[p] = i
    /\ \A p, q \in Procs :
          st[p] \in HasSlot /\ st[q] \in HasSlot /\ slot[p] = slot[q] => p = q

AspaceInv ==
    /\ \A a \in Aspaces :
          aspace_used[a] <=> \E p \in Procs : st[p] \in HasAspace /\ aspace[p] = a
    /\ \A p, q \in Procs :
          st[p] \in HasAspace /\ st[q] \in HasAspace /\ aspace[p] = aspace[q] => p = q

\* A core and the process it runs or is taking leave of know each other.
OnCore == {"run", "x_tlbi", "x_free", "x_gone"}
CoreInv ==
    /\ \A c \in Cores : current[c] # None =>
          /\ st[current[c]] \in OnCore
          /\ core[current[c]] = c
          /\ st[current[c]] # "x_gone" => ttbr[c] = aspace[current[c]]
          /\ ttbr[c] \in Aspaces
    /\ \A p \in Procs : st[p] \in OnCore => current[core[p]] = p

\* What has been loaded and mapped so far stays.
ImageInv ==
    /\ s_loadlock # None => st[s_loadlock] = "read"
    /\ \A p \in Procs :
          /\ st[p] = "read" => s_loadlock = p /\ elf_buf = p
          /\ st[p] \in {"loaded", "aspace", "mapped"} \cup Live => tile[slot[p]] = p
          /\ st[p] \in {"mapped"} \cup Live =>
                table[aspace[p]] = slot[p] /\ p_aspace[slot[p]] = aspace[p]

\* A cached translation is the one of the process that has the ASID, until the
\* exit hook has flushed it; or the core has walked the tables behind that.
Caches == Live \cup {"x_tlbi"}
Cached(c, a) ==
    \/ tlb[c][a] = {} \/ a \in late[c]
    \/ \E p \in Procs : /\ st[p] \in Caches
                        /\ aspace[p] = a
                        /\ st[p] \in Live => tlb[c][a] \subseteq {slot[p]}
TlbInv == \A c \in Cores, a \in Aspaces : Cached(c, a)

IInv == TypeOK /\ SlotInv /\ AspaceInv /\ CoreInv /\ ImageInv

-----------------------------------------------------------------------------
\* How the accounts change: nobody, or one process, takes or gives back.
LEMMA SlotKept ==
    ASSUME SlotInv, UNCHANGED slot_used,
           \A q \in Procs : st'[q] \in HasSlot <=> st[q] \in HasSlot,
           \A q \in Procs : st[q] \in HasSlot => slot'[q] = slot[q]
    PROVE  SlotInv'
<1>1. \A q \in Procs : \A i : st'[q] \in HasSlot /\ slot'[q] = i <=> st[q] \in HasSlot /\ slot[q] = i
  OBVIOUS
<1> QED
  BY <1>1 DEF SlotInv

LEMMA SlotTaken ==
    ASSUME TypeOK, SlotInv, NEW p \in Procs, NEW i \in Slots, ~slot_used[i],
           slot_used' = [slot_used EXCEPT ![i] = TRUE],
           st[p] \notin HasSlot, st'[p] \in HasSlot, slot'[p] = i,
           \A q \in Procs \ {p} : st'[q] = st[q] /\ slot'[q] = slot[q]
    PROVE  SlotInv'
<1>1. \A q \in Procs : \A j : st'[q] \in HasSlot /\ slot'[q] = j <=>
          (q = p /\ j = i) \/ (st[q] \in HasSlot /\ slot[q] = j)
  OBVIOUS
<1>2. \A j \in Slots : slot_used'[j] <=> (j = i \/ slot_used[j])
  BY DEF TypeOK
<1>3. \A q \in Procs : st[q] \in HasSlot => slot[q] # i
  BY DEF SlotInv
<1> QED
  BY <1>1, <1>2, <1>3 DEF SlotInv

LEMMA SlotDropped ==
    ASSUME TypeOK, SlotInv, NEW p \in Procs, st[p] \in HasSlot, st'[p] \notin HasSlot,
           slot_used' = [slot_used EXCEPT ![slot[p]] = FALSE],
           \A q \in Procs \ {p} : st'[q] = st[q] /\ slot'[q] = slot[q]
    PROVE  SlotInv'
<1>1. \A q \in Procs : \A j : st'[q] \in HasSlot /\ slot'[q] = j <=>
          q # p /\ st[q] \in HasSlot /\ slot[q] = j
  OBVIOUS
<1>2. \A j \in Slots : slot_used'[j] <=> (j # slot[p] /\ slot_used[j])
  BY DEF TypeOK
<1> QED
  BY <1>1, <1>2 DEF SlotInv

LEMMA AspaceKept ==
    ASSUME AspaceInv, UNCHANGED aspace_used,
           \A q \in Procs : st'[q] \in HasAspace <=> st[q] \in HasAspace,
           \A q \in Procs : st[q] \in HasAspace => aspace'[q] = aspace[q]
    PROVE  AspaceInv'
<1>1. \A q \in Procs : \A i : st'[q] \in HasAspace /\ aspace'[q] = i <=> st[q] \in HasAspace /\ aspace[q] = i
  OBVIOUS
<1> QED
  BY <1>1 DEF AspaceInv

LEMMA AspaceTaken ==
    ASSUME TypeOK, AspaceInv, NEW p \in Procs, NEW i \in Aspaces, ~aspace_used[i],
           aspace_used' = [aspace_used EXCEPT ![i] = TRUE],
           st[p] \notin HasAspace, st'[p] \in HasAspace, aspace'[p] = i,
           \A q \in Procs \ {p} : st'[q] = st[q] /\ aspace'[q] = aspace[q]
    PROVE  AspaceInv'
<1>1. \A q \in Procs : \A j : st'[q] \in HasAspace /\ aspace'[q] = j <=>
          (q = p /\ j = i) \/ (st[q] \in HasAspace /\ aspace[q] = j)
  OBVIOUS
<1>2. \A j \in Aspaces : aspace_used'[j] <=> (j = i \/ aspace_used[j])
  BY DEF TypeOK
<1>3. \A q \in Procs : st[q] \in HasAspace => aspace[q] # i
  BY DEF AspaceInv
<1> QED
  BY <1>1, <1>2, <1>3 DEF AspaceInv

LEMMA AspaceDropped ==
    ASSUME TypeOK, AspaceInv, NEW p \in Procs, st[p] \in HasAspace, st'[p] \notin HasAspace,
           aspace_used' = [aspace_used EXCEPT ![aspace[p]] = FALSE],
           \A q \in Procs \ {p} : st'[q] = st[q] /\ aspace'[q] = aspace[q]
    PROVE  AspaceInv'
<1>1. \A q \in Procs : \A j : st'[q] \in HasAspace /\ aspace'[q] = j <=>
          q # p /\ st[q] \in HasAspace /\ aspace[q] = j
  OBVIOUS
<1>2. \A j \in Aspaces : aspace_used'[j] <=> (j # aspace[p] /\ aspace_used[j])
  BY DEF TypeOK
<1> QED
  BY <1>1, <1>2 DEF AspaceInv

-----------------------------------------------------------------------------
LEMMA InitInv == Init => IInv /\ TlbInv
BY AddrSpaceAssumption DEF Init, IInv, TypeOK, SlotInv, AspaceInv, CoreInv, ImageInv, TlbInv, Cached,
   OnCore, HasSlot, HasAspace, Building, Live, None

LEMMA ReserveSlotInv == ASSUME IInv, NEW p \in Procs, NEW i \in Slots, ReserveSlot(p, i) PROVE IInv'
<1> USE AddrSpaceAssumption DEF IInv, ReserveSlot, FirstFree, Goto, who, memory, mmu, cpu, cached, procs,
        HasSlot, HasAspace, Building, Live, OnCore
<1>1. TypeOK'
  BY DEF TypeOK, CoreInv, ImageInv
<1>2. SlotInv'
  <2>1. ~slot_used[i] /\ slot_used' = [slot_used EXCEPT ![i] = TRUE]
    BY DEF TypeOK
  <2>2. st[p] \notin HasSlot /\ st'[p] \in HasSlot /\ slot'[p] = i
    BY DEF TypeOK
  <2>3. \A q \in Procs \ {p} : st'[q] = st[q] /\ slot'[q] = slot[q]
    BY DEF TypeOK, CoreInv
  <2>4. TypeOK /\ SlotInv
    OBVIOUS
  <2> HIDE DEF IInv, ReserveSlot, FirstFree, Goto, HasSlot, HasAspace, Building, Live
  <2> QED
    BY <2>1, <2>2, <2>3, <2>4, SlotTaken
<1>3. AspaceInv'
  BY AspaceKept DEF TypeOK, CoreInv, ImageInv
<1>4. CoreInv'
  BY DEF TypeOK, CoreInv, ImageInv, None
<1>5. ImageInv'
  BY DEF TypeOK, SlotInv, AspaceInv, CoreInv, ImageInv, None
<1> QED
  BY <1>1, <1>2, <1>3, <1>4, <1>5

LEMMA ReadElfInv == ASSUME IInv, NEW p \in Procs, ReadElf(p) PROVE IInv'
<1> USE AddrSpaceAssumption DEF IInv, ReadElf, Unlocked, Goto, who, memory, mmu, cpu, cached, procs,
        HasSlot, HasAspace, Building, Live, OnCore
<1>1. TypeOK'
  BY DEF TypeOK, CoreInv, ImageInv
<1>2. SlotInv'
  BY SlotKept DEF TypeOK, CoreInv
<1>3. AspaceInv'
  BY AspaceKept DEF TypeOK, CoreInv, ImageInv
<1>4. CoreInv'
  BY DEF TypeOK, CoreInv, ImageInv, None
<1>5. ImageInv'
  BY DEF TypeOK, SlotInv, AspaceInv, CoreInv, ImageInv, None
<1> QED
  BY <1>1, <1>2, <1>3, <1>4, <1>5

LEMMA LoadElfInv == ASSUME IInv, NEW p \in Procs, NEW s \in {"loaded", "failed"}, LoadElf(p), Goto(p, s) PROVE IInv'
<1> USE AddrSpaceAssumption DEF IInv, LoadElf, Goto, who, memory, mmu, cpu, cached, procs,
        HasSlot, HasAspace, Building, Live, OnCore
<1>1. TypeOK'
  <2>1. tile' \in [Slots -> Procs \cup {None}]
    BY DEF TypeOK
  <2>2. /\ st' = [st EXCEPT ![p] = s] /\ s_loadlock' = None
        /\ UNCHANGED <<slot, aspace, core, procs, elf_buf, mmu, cpu, cached>>
    OBVIOUS
  <2>3. st[p] = "read" /\ s \in {"loaded", "failed"}
    OBVIOUS
  <2> HIDE DEF LoadElf, Goto
  <2> QED
    BY <2>1, <2>2, <2>3 DEF TypeOK
<1>2. SlotInv'
  BY SlotKept DEF TypeOK, CoreInv
<1>3. AspaceInv'
  BY AspaceKept DEF TypeOK, CoreInv, ImageInv
<1>4. CoreInv'
  BY DEF TypeOK, CoreInv, ImageInv, None
<1>5. ImageInv'
  BY DEF TypeOK, SlotInv, AspaceInv, CoreInv, ImageInv, None
<1> QED
  BY <1>1, <1>2, <1>3, <1>4, <1>5

LEMMA TakeAspaceInv == ASSUME IInv, NEW p \in Procs, NEW a \in Aspaces, TakeAspace(p, a) PROVE IInv'
<1> USE AddrSpaceAssumption DEF IInv, TakeAspace, FirstFree, Goto, who, memory, mmu, cpu, cached, procs,
        HasSlot, HasAspace, Building, Live, OnCore
<1>1. TypeOK'
  BY DEF TypeOK, CoreInv, ImageInv
<1>2. SlotInv'
  BY SlotKept DEF TypeOK, CoreInv
<1>3. AspaceInv'
  <2>1. ~aspace_used[a] /\ aspace_used' = [aspace_used EXCEPT ![a] = TRUE]
    BY DEF TypeOK
  <2>2. st[p] \notin HasAspace /\ st'[p] \in HasAspace /\ aspace'[p] = a
    BY DEF TypeOK
  <2>3. \A q \in Procs \ {p} : st'[q] = st[q] /\ aspace'[q] = aspace[q]
    BY DEF TypeOK, CoreInv, ImageInv
  <2>4. TypeOK /\ AspaceInv
    OBVIOUS
  <2> HIDE DEF IInv, TakeAspace, FirstFree, Goto, HasSlot, HasAspace, Building, Live
  <2> QED
    BY <2>1, <2>2, <2>3, <2>4, AspaceTaken
<1>4. CoreInv'
  BY DEF TypeOK, CoreInv, ImageInv, None
<1>5. ImageInv'
  BY DEF TypeOK, SlotInv, AspaceInv, CoreInv, ImageInv, None
<1> QED
  BY <1>1, <1>2, <1>3, <1>4, <1>5

LEMMA NoAspaceInv == ASSUME IInv, NEW p \in Procs, NoAspace(p) PROVE IInv'
<1> USE AddrSpaceAssumption DEF IInv, NoAspace, Goto, who, memory, mmu, cpu, cached, procs,
        HasSlot, HasAspace, Building, Live, OnCore
<1>1. TypeOK'
  BY DEF TypeOK, CoreInv, ImageInv
<1>2. SlotInv'
  BY SlotKept DEF TypeOK, CoreInv
<1>3. AspaceInv'
  BY AspaceKept DEF TypeOK, CoreInv, ImageInv
<1>4. CoreInv'
  BY DEF TypeOK, CoreInv, ImageInv, None
<1>5. ImageInv'
  BY DEF TypeOK, SlotInv, AspaceInv, CoreInv, ImageInv, None
<1> QED
  BY <1>1, <1>2, <1>3, <1>4, <1>5

LEMMA MapTileInv == ASSUME IInv, NEW p \in Procs, MapTile(p) PROVE IInv'
<1> USE AddrSpaceAssumption DEF IInv, MapTile, Goto, who, memory, mmu, cpu, cached, procs,
        HasSlot, HasAspace, Building, Live, OnCore
<1>1. TypeOK'
  BY DEF TypeOK, CoreInv, ImageInv
<1>2. SlotInv'
  BY SlotKept DEF TypeOK, CoreInv
<1>3. AspaceInv'
  BY AspaceKept DEF TypeOK, CoreInv, ImageInv
<1>4. CoreInv'
  BY DEF TypeOK, CoreInv, ImageInv, None
<1>5. ImageInv'
  BY DEF TypeOK, SlotInv, AspaceInv, CoreInv, ImageInv, None
<1> QED
  BY <1>1, <1>2, <1>3, <1>4, <1>5

LEMMA MakeTaskInv == ASSUME IInv, NEW p \in Procs, NEW s \in {"ready", "tlbi"}, MakeTask(p), Goto(p, s) PROVE IInv'
<1> USE AddrSpaceAssumption DEF IInv, MakeTask, Goto, who, memory, mmu, cpu, cached, procs,
        HasSlot, HasAspace, Building, Live, OnCore
<1>1. TypeOK'
  BY DEF TypeOK, CoreInv, ImageInv
<1>2. SlotInv'
  BY SlotKept DEF TypeOK, CoreInv
<1>3. AspaceInv'
  BY AspaceKept DEF TypeOK, CoreInv, ImageInv
<1>4. CoreInv'
  BY DEF TypeOK, CoreInv, ImageInv, None
<1>5. ImageInv'
  BY DEF TypeOK, SlotInv, AspaceInv, CoreInv, ImageInv, None
<1> QED
  BY <1>1, <1>2, <1>3, <1>4, <1>5

LEMMA FailFlushInv == ASSUME IInv, NEW p \in Procs, FlushAspace(p, "tlbi", "free") PROVE IInv'
<1> USE AddrSpaceAssumption DEF IInv, FlushAspace, Invalidate, Goto, who, memory, mmu, cpu, cached, procs,
        HasSlot, HasAspace, Building, Live, OnCore
<1>1. TypeOK'
  BY DEF TypeOK, CoreInv, ImageInv
<1>2. SlotInv'
  BY SlotKept DEF TypeOK, CoreInv
<1>3. AspaceInv'
  BY AspaceKept DEF TypeOK, CoreInv, ImageInv
<1>4. CoreInv'
  BY DEF TypeOK, CoreInv, ImageInv, None
<1>5. ImageInv'
  BY DEF TypeOK, SlotInv, AspaceInv, CoreInv, ImageInv, None
<1> QED
  BY <1>1, <1>2, <1>3, <1>4, <1>5

LEMMA FailFreeInv == ASSUME IInv, NEW p \in Procs, FreeAspace(p, "free", "failed") PROVE IInv'
<1> USE AddrSpaceAssumption DEF IInv, FreeAspace, Goto, who, memory, mmu, cpu, cached, procs,
        HasSlot, HasAspace, Building, Live, OnCore
<1>1. TypeOK'
  BY DEF TypeOK, CoreInv, ImageInv
<1>2. SlotInv'
  BY SlotKept DEF TypeOK, CoreInv
<1>3. AspaceInv'
  <2>1. aspace_used' = [aspace_used EXCEPT ![aspace[p]] = FALSE]
    OBVIOUS
  <2>2. st[p] \in HasAspace /\ st'[p] \notin HasAspace
    BY DEF TypeOK
  <2>3. \A q \in Procs \ {p} : st'[q] = st[q] /\ aspace'[q] = aspace[q]
    BY DEF TypeOK, CoreInv, ImageInv
  <2>4. TypeOK /\ AspaceInv
    OBVIOUS
  <2> HIDE DEF IInv, FreeAspace, Goto, HasSlot, HasAspace, Building, Live
  <2> QED
    BY <2>1, <2>2, <2>3, <2>4, AspaceDropped
<1>4. CoreInv'
  BY DEF TypeOK, CoreInv, ImageInv, None
<1>5. ImageInv'
  BY DEF TypeOK, SlotInv, AspaceInv, CoreInv, ImageInv, None
<1> QED
  BY <1>1, <1>2, <1>3, <1>4, <1>5

LEMMA ReleaseSlotInv == ASSUME IInv, NEW p \in Procs, ReleaseSlot(p) PROVE IInv'
<1> USE AddrSpaceAssumption DEF IInv, ReleaseSlot, Goto, who, memory, mmu, cpu, cached, procs,
        HasSlot, HasAspace, Building, Live, OnCore
<1>1. TypeOK'
  BY DEF TypeOK, CoreInv, ImageInv
<1>2. SlotInv'
  <2>1. slot_used' = [slot_used EXCEPT ![slot[p]] = FALSE]
    OBVIOUS
  <2>2. st[p] \in HasSlot /\ st'[p] \notin HasSlot
    BY DEF TypeOK
  <2>3. \A q \in Procs \ {p} : st'[q] = st[q] /\ slot'[q] = slot[q]
    BY DEF TypeOK, CoreInv
  <2>4. TypeOK /\ SlotInv
    OBVIOUS
  <2> HIDE DEF IInv, ReleaseSlot, Goto, HasSlot, HasAspace, Building, Live
  <2> QED
    BY <2>1, <2>2, <2>3, <2>4, SlotDropped
<1>3. AspaceInv'
  BY AspaceKept DEF TypeOK, CoreInv, ImageInv
<1>4. CoreInv'
  BY DEF TypeOK, CoreInv, ImageInv, None
<1>5. ImageInv'
  BY DEF TypeOK, SlotInv, AspaceInv, CoreInv, ImageInv, None
<1> QED
  BY <1>1, <1>2, <1>3, <1>4, <1>5

LEMMA SwitchToProcInv == ASSUME IInv, NEW c \in Cores, NEW p \in Procs, SwitchToProc(c, p) PROVE IInv'
<1> USE AddrSpaceAssumption DEF IInv, SwitchToProc, MayLeave, Left, who, memory, mmu, cpu, cached, procs,
        HasSlot, HasAspace, Building, Live, OnCore
<1>1. TypeOK'
  BY DEF TypeOK, CoreInv, ImageInv
<1>2. SlotInv'
  BY SlotKept DEF TypeOK, CoreInv
<1>3. AspaceInv'
  BY AspaceKept DEF TypeOK, CoreInv, ImageInv
<1>4. CoreInv'
  BY DEF TypeOK, CoreInv, ImageInv, None
<1>5. ImageInv'
  BY DEF TypeOK, SlotInv, AspaceInv, CoreInv, ImageInv, None
<1> QED
  BY <1>1, <1>2, <1>3, <1>4, <1>5

LEMMA SwitchToKernelInv == ASSUME IInv, NEW c \in Cores, SwitchToKernel(c) PROVE IInv'
<1> USE AddrSpaceAssumption DEF IInv, SwitchToKernel, MayLeave, Left, who, memory, mmu, cpu, cached, procs,
        HasSlot, HasAspace, Building, Live, OnCore
<1>1. TypeOK'
  BY DEF TypeOK, CoreInv, ImageInv
<1>2. SlotInv'
  BY SlotKept DEF TypeOK, CoreInv
<1>3. AspaceInv'
  BY AspaceKept DEF TypeOK, CoreInv, ImageInv
<1>4. CoreInv'
  BY DEF TypeOK, CoreInv, ImageInv, None
<1>5. ImageInv'
  BY DEF TypeOK, SlotInv, AspaceInv, CoreInv, ImageInv, None
<1> QED
  BY <1>1, <1>2, <1>3, <1>4, <1>5

LEMMA FillInv == ASSUME IInv, NEW c \in Cores, Fill(c) PROVE IInv'
<1> USE AddrSpaceAssumption DEF IInv, Fill, who, memory, mmu, cpu, cached, procs,
        HasSlot, HasAspace, Building, Live, OnCore
<1>1. TypeOK'
  BY DEF TypeOK, CoreInv, ImageInv
<1>2. SlotInv'
  BY SlotKept DEF TypeOK, CoreInv
<1>3. AspaceInv'
  BY AspaceKept DEF TypeOK, CoreInv, ImageInv
<1>4. CoreInv'
  BY DEF TypeOK, CoreInv, ImageInv, None
<1>5. ImageInv'
  BY DEF TypeOK, SlotInv, AspaceInv, CoreInv, ImageInv, None
<1> QED
  BY <1>1, <1>2, <1>3, <1>4, <1>5

LEMMA ExitSlotInv == ASSUME IInv, NEW p \in Procs, ExitSlot(p) PROVE IInv'
<1> USE AddrSpaceAssumption DEF IInv, ExitSlot, Goto, who, memory, mmu, cpu, cached, procs,
        HasSlot, HasAspace, Building, Live, OnCore
<1>1. TypeOK'
  BY DEF TypeOK, CoreInv, ImageInv
<1>2. SlotInv'
  <2>1. slot_used' = [slot_used EXCEPT ![slot[p]] = FALSE]
    OBVIOUS
  <2>2. st[p] \in HasSlot /\ st'[p] \notin HasSlot
    BY DEF TypeOK
  <2>3. \A q \in Procs \ {p} : st'[q] = st[q] /\ slot'[q] = slot[q]
    BY DEF TypeOK, CoreInv
  <2>4. TypeOK /\ SlotInv
    OBVIOUS
  <2> HIDE DEF IInv, ExitSlot, Goto, HasSlot, HasAspace, Building, Live
  <2> QED
    BY <2>1, <2>2, <2>3, <2>4, SlotDropped
<1>3. AspaceInv'
  BY AspaceKept DEF TypeOK, CoreInv, ImageInv
<1>4. CoreInv'
  BY DEF TypeOK, CoreInv, ImageInv, None
<1>5. ImageInv'
  BY DEF TypeOK, SlotInv, AspaceInv, CoreInv, ImageInv, None
<1> QED
  BY <1>1, <1>2, <1>3, <1>4, <1>5

LEMMA ExitFlushInv == ASSUME IInv, NEW p \in Procs, FlushAspace(p, "x_tlbi", "x_free") PROVE IInv'
<1> USE AddrSpaceAssumption DEF IInv, FlushAspace, Invalidate, Goto, who, memory, mmu, cpu, cached, procs,
        HasSlot, HasAspace, Building, Live, OnCore
<1>1. TypeOK'
  BY DEF TypeOK, CoreInv, ImageInv
<1>2. SlotInv'
  BY SlotKept DEF TypeOK, CoreInv
<1>3. AspaceInv'
  BY AspaceKept DEF TypeOK, CoreInv, ImageInv
<1>4. CoreInv'
  BY DEF TypeOK, CoreInv, ImageInv, None
<1>5. ImageInv'
  BY DEF TypeOK, SlotInv, AspaceInv, CoreInv, ImageInv, None
<1> QED
  BY <1>1, <1>2, <1>3, <1>4, <1>5

LEMMA ExitFreeInv == ASSUME IInv, NEW p \in Procs, FreeAspace(p, "x_free", "x_gone") PROVE IInv'
<1> USE AddrSpaceAssumption DEF IInv, FreeAspace, Goto, who, memory, mmu, cpu, cached, procs,
        HasSlot, HasAspace, Building, Live, OnCore
<1>1. TypeOK'
  BY DEF TypeOK, CoreInv, ImageInv
<1>2. SlotInv'
  BY SlotKept DEF TypeOK, CoreInv
<1>3. AspaceInv'
  <2>1. aspace_used' = [aspace_used EXCEPT ![aspace[p]] = FALSE]
    OBVIOUS
  <2>2. st[p] \in HasAspace /\ st'[p] \notin HasAspace
    BY DEF TypeOK
  <2>3. \A q \in Procs \ {p} : st'[q] = st[q] /\ aspace'[q] = aspace[q]
    BY DEF TypeOK, CoreInv, ImageInv
  <2>4. TypeOK /\ AspaceInv
    OBVIOUS
  <2> HIDE DEF IInv, FreeAspace, Goto, HasSlot, HasAspace, Building, Live
  <2> QED
    BY <2>1, <2>2, <2>3, <2>4, AspaceDropped
<1>4. CoreInv'
  BY DEF TypeOK, CoreInv, ImageInv, None
<1>5. ImageInv'
  BY DEF TypeOK, SlotInv, AspaceInv, CoreInv, ImageInv, None
<1> QED
  BY <1>1, <1>2, <1>3, <1>4, <1>5

LEMMA StepInv == IInv /\ [Next]_vars => IInv'
<1> SUFFICES ASSUME IInv, [Next]_vars PROVE IInv'
  OBVIOUS
<1>1. ASSUME NEW p \in Procs, NEW i \in Slots, ReserveSlot(p, i) PROVE IInv'
  BY <1>1, ReserveSlotInv
<1>2. ASSUME NEW p \in Procs, ReadElf(p) \/ LoadElf(p) PROVE IInv'
  <2>1. LoadElf(p) => \E s \in {"loaded", "failed"} : Goto(p, s)
    BY DEF LoadElf
  <2> QED
    BY <1>2, <2>1, ReadElfInv, LoadElfInv
<1>3. ASSUME NEW p \in Procs, NEW a \in Aspaces, TakeAspace(p, a) PROVE IInv'
  BY <1>3, TakeAspaceInv
<1>4. ASSUME NEW p \in Procs, NoAspace(p) \/ MapTile(p) \/ MakeTask(p) PROVE IInv'
  <2>1. MakeTask(p) => \E s \in {"ready", "tlbi"} : Goto(p, s)
    BY DEF MakeTask
  <2> QED
    BY <1>4, <2>1, NoAspaceInv, MapTileInv, MakeTaskInv
<1>5. ASSUME NEW p \in Procs, NoTask(p) \/ ReleaseSlot(p) PROVE IInv'
  BY <1>5, FailFlushInv, FailFreeInv, ReleaseSlotInv DEF NoTask
<1>6. ASSUME NEW p \in Procs, ExitSlot(p) \/ ExitAspace(p) PROVE IInv'
  BY <1>6, ExitSlotInv, ExitFlushInv, ExitFreeInv DEF ExitAspace
<1>7. ASSUME NEW c \in Cores, NEW p \in Procs, SwitchToProc(c, p) PROVE IInv'
  BY <1>7, SwitchToProcInv
<1>8. ASSUME NEW c \in Cores, SwitchToKernel(c) \/ Fill(c) PROVE IInv'
  BY <1>8, SwitchToKernelInv, FillInv
<1>9. CASE UNCHANGED vars
  BY <1>9 DEF vars, who, procs, memory, mmu, cpu, cached, IInv, TypeOK, SlotInv, AspaceInv, CoreInv, ImageInv
<1> QED
  BY <1>1, <1>2, <1>3, <1>4, <1>5, <1>6, <1>7, <1>8, <1>9 DEF Next

-----------------------------------------------------------------------------
\* The cached translations.
LEMMA TlbKept ==
    ASSUME TlbInv, UNCHANGED cached,
           \A p \in Procs : st[p] \in Caches =>
               /\ st'[p] \in Caches /\ aspace'[p] = aspace[p]
               /\ st'[p] \in Live => st[p] \in Live /\ slot'[p] = slot[p]
    PROVE  TlbInv'
<1> USE DEF cached
<1> SUFFICES ASSUME NEW c \in Cores, NEW a \in Aspaces, tlb'[c][a] # {}, a \notin late'[c]
             PROVE  Cached(c, a)'
  BY DEF TlbInv, Cached
<1>1. PICK p \in Procs : /\ st[p] \in Caches /\ aspace[p] = a
                         /\ (st[p] \in Live => tlb[c][a] \subseteq {slot[p]})
  <2>1. Cached(c, a)
    BY DEF TlbInv
  <2> QED
    BY <2>1 DEF Cached
<1> QED
  BY <1>1 DEF Cached

LEMMA TlbFlushed ==
    ASSUME TypeOK, TlbInv, NEW p \in Procs, Invalidate(aspace[p]), UNCHANGED <<aspace, slot>>,
           \A q \in Procs \ {p} : st'[q] = st[q]
    PROVE  TlbInv'
<1> SUFFICES ASSUME NEW c \in Cores, NEW a \in Aspaces, tlb'[c][a] # {}, a \notin late'[c]
             PROVE  Cached(c, a)'
  BY DEF TlbInv, Cached
<1>1. a # aspace[p] /\ tlb'[c][a] = tlb[c][a] /\ a \notin late[c]
  BY DEF Invalidate, TypeOK
<1>2. PICK q \in Procs : /\ st[q] \in Caches /\ aspace[q] = a
                         /\ (st[q] \in Live => tlb[c][a] \subseteq {slot[q]})
  <2>1. Cached(c, a)
    BY DEF TlbInv
  <2> QED
    BY <1>1, <2>1 DEF Cached
<1> QED
  BY <1>1, <1>2 DEF Cached

LEMMA TlbFilled ==
    ASSUME IInv, TlbInv, NEW d \in Cores, Fill(d) PROVE TlbInv'
<1> DEFINE p == current[d]
           b == ttbr[d]
<1>1. /\ p \in Procs /\ b \in Aspaces /\ UNCHANGED <<st, slot, aspace>>
      /\ tlb' = [tlb EXCEPT ![d][b] = @ \cup {table[b]}]
      /\ late' = IF PastInvalidation(p) THEN [late EXCEPT ![d] = @ \cup {b}] ELSE late
  BY DEF Fill, who, IInv, TypeOK, CoreInv
<1>2. st[p] \in OnCore /\ (~PastInvalidation(p) => st[p] \in {"run", "x_tlbi"} /\ b = aspace[p])
  BY DEF Fill, IInv, CoreInv, OnCore, PastInvalidation
<1>3. st[p] = "run" => b = aspace[p] /\ table[b] = slot[p]
  BY <1>1, <1>2 DEF IInv, ImageInv, Live, PastInvalidation
<1> HIDE DEF p, b
<1> SUFFICES ASSUME NEW c \in Cores, NEW a \in Aspaces, tlb'[c][a] # {}, a \notin late'[c]
             PROVE  Cached(c, a)'
  BY DEF TlbInv, Cached
<1>4. a \notin late[c]
  BY <1>1 DEF IInv, TypeOK
<1>5. CASE c = d /\ a = b
  <2>1. ~PastInvalidation(p)
    BY <1>1, <1>5 DEF IInv, TypeOK
  <2>2. ASSUME NEW q \in Procs, st[q] \in Caches, aspace[q] = a PROVE q = p
    BY <1>1, <1>2, <1>5, <2>1, <2>2 DEF IInv, AspaceInv, HasAspace, Caches, Live
  <2>3. st[p] \in Live => tlb[c][a] \subseteq {slot[p]}
    <3>1. Cached(c, a)
      BY DEF TlbInv
    <3> QED
      BY <1>4, <2>2, <3>1 DEF Cached
  <2>4. tlb'[c][a] = tlb[c][a] \cup {table[b]}
    BY <1>1, <1>5 DEF IInv, TypeOK
  <2>5. st[p] \in Live => st[p] = "run"
    BY <1>2, <2>1 DEF Live
  <2>6. st[p] \in Live => tlb'[c][a] \subseteq {slot[p]}
    BY <1>3, <2>3, <2>4, <2>5
  <2>7. st[p] \in Caches /\ aspace[p] = a
    BY <1>2, <1>5, <2>1 DEF Caches, Live
  <2> QED
    BY <1>1, <2>6, <2>7 DEF Cached
<1>6. CASE ~(c = d /\ a = b)
  <2>1. tlb'[c][a] = tlb[c][a]
    BY <1>1, <1>6 DEF IInv, TypeOK
  <2> QED
    BY <1>1, <1>4, <2>1 DEF TlbInv, Cached
<1> QED
  BY <1>5, <1>6

LEMMA StepTlb == IInv /\ TlbInv /\ [Next]_vars => TlbInv'
<1> SUFFICES ASSUME IInv, TlbInv, [Next]_vars PROVE TlbInv'
  OBVIOUS
<1> USE DEF Goto, Caches, Live, cached
<1>1. ASSUME NEW p \in Procs, NEW i \in Slots, ReserveSlot(p, i) PROVE TlbInv'
  BY <1>1, TlbKept DEF ReserveSlot, IInv, TypeOK
<1>2. ASSUME NEW p \in Procs, ReadElf(p) PROVE TlbInv'
  BY <1>2, TlbKept DEF ReadElf, IInv, TypeOK
<1>3. ASSUME NEW p \in Procs, LoadElf(p) PROVE TlbInv'
  BY <1>3, TlbKept DEF LoadElf, IInv, TypeOK
<1>4. ASSUME NEW p \in Procs, NEW a \in Aspaces, TakeAspace(p, a) PROVE TlbInv'
  BY <1>4, TlbKept DEF TakeAspace, IInv, TypeOK
<1>5. ASSUME NEW p \in Procs, NoAspace(p) \/ MapTile(p) \/ MakeTask(p) \/ ReleaseSlot(p)
      PROVE  TlbInv'
  BY <1>5, TlbKept DEF NoAspace, MapTile, MakeTask, ReleaseSlot, IInv, TypeOK
<1>6. ASSUME NEW p \in Procs, NoTask(p) PROVE TlbInv'
  <2>1. CASE FlushAspace(p, "tlbi", "free")
    BY <2>1, TlbFlushed DEF FlushAspace, IInv, TypeOK
  <2>2. CASE FreeAspace(p, "free", "failed")
    BY <2>2, TlbKept DEF FreeAspace, IInv, TypeOK
  <2> QED
    BY <1>6, <2>1, <2>2 DEF NoTask
<1>7. ASSUME NEW p \in Procs, ExitSlot(p) PROVE TlbInv'
  <2>1. aspace' = aspace
    BY <1>7 DEF ExitSlot, IInv, TypeOK, ImageInv
  <2> QED
    BY <1>7, <2>1, TlbKept DEF ExitSlot, IInv, TypeOK
<1>8. ASSUME NEW p \in Procs, ExitAspace(p) PROVE TlbInv'
  <2>1. CASE FlushAspace(p, "x_tlbi", "x_free")
    BY <2>1, TlbFlushed DEF FlushAspace, IInv, TypeOK
  <2>2. CASE FreeAspace(p, "x_free", "x_gone")
    BY <2>2, TlbKept DEF FreeAspace, IInv, TypeOK
  <2> QED
    BY <1>8, <2>1, <2>2 DEF ExitAspace
<1>9. ASSUME NEW c \in Cores, NEW p \in Procs, SwitchToProc(c, p) PROVE TlbInv'
  <2>1. \A q \in Procs : st[q] \in Caches => st'[q] \in Caches /\ (st'[q] \in Live => st[q] \in Live)
    <3>1. \A q \in Procs : st'[q] = IF q = p THEN "run"
                                    ELSE IF q = current[c] THEN Left(q) ELSE st[q]
      BY <1>9 DEF SwitchToProc
    <3>2. ASSUME NEW q \in Procs, q = current[c], st[q] \in Caches PROVE st[q] = "run"
      BY <1>9, <3>2, AddrSpaceAssumption DEF SwitchToProc, MayLeave, IInv, TypeOK, CoreInv
    <3>3. st[p] = "ready"
      BY <1>9 DEF SwitchToProc
    <3> QED
      BY <3>1, <3>2, <3>3 DEF Left
  <2>2. UNCHANGED <<cached, aspace, slot>>
    BY <1>9 DEF SwitchToProc
  <2> HIDE DEF Caches, Live
  <2> QED
    BY <2>1, <2>2, TlbKept
<1>10. ASSUME NEW c \in Cores, SwitchToKernel(c) PROVE TlbInv'
  BY <1>10, TlbKept DEF SwitchToKernel, MayLeave, Left, IInv, TypeOK
<1>11. ASSUME NEW c \in Cores, Fill(c) PROVE TlbInv'
  BY <1>11, TlbFilled
<1>12. CASE UNCHANGED vars
  BY <1>12, TlbKept DEF vars, who
<1> QED
  BY <1>1, <1>2, <1>3, <1>4, <1>5, <1>6, <1>7, <1>8, <1>9, <1>10, <1>11, <1>12 DEF Next

-----------------------------------------------------------------------------
\* The inductive invariant: what is taken has a taker, what a core runs knows
\* its core, and what has been loaded and mapped stays.
THEOREM Invariance == Spec => []IInv
<1>1. Init => IInv
  BY InitInv
<1> QED
  BY <1>1, StepInv, PTL DEF Spec

\* Every variable keeps its range, and a process holds what its state says.
THEOREM TypeCorrect == Spec => []TypeOK
<1>1. IInv => TypeOK
  BY DEF IInv
<1> QED
  BY <1>1, Invariance, PTL

\* Slots and address spaces are given to one process at a time and none leaks.
THEOREM Accounting == Spec => []Accounted
<1>1. IInv => Accounted
  BY DEF IInv, SlotInv, AspaceInv, Accounted
<1> QED
  BY <1>1, Invariance, PTL

\* A process runs the image it asked for, in tables that map its own tile.
THEOREM ImageSafety == Spec => []ImageOwn
<1>1. IInv => ImageOwn
  BY DEF IInv, ImageInv, ImageOwn
<1> QED
  BY <1>1, Invariance, PTL

\* Nobody in EL0 sees a translation left over from another process, except one its
\* core has walked between the invalidation of an exit hook and the switch away.
THEOREM Isolation == Spec => []TranslatesOwn
<1>1. Init => TlbInv
  BY InitInv
<1>2. IInv /\ TlbInv /\ [Next]_vars => TlbInv'
  BY StepTlb
<1>3. IInv /\ TlbInv => TranslatesOwn
  <2> SUFFICES ASSUME IInv, TlbInv, NEW c \in Cores, current[c] # None, st[current[c]] = "run"
               PROVE  /\ ttbr[c] = aspace[current[c]]
                      /\ aspace[current[c]] \notin late[c] =>
                             tlb[c][aspace[current[c]]] \subseteq {slot[current[c]]}
    BY DEF TranslatesOwn
  <2> DEFINE p == current[c]
  <2>1. p \in Procs /\ ttbr[c] = aspace[p] /\ aspace[p] \in Aspaces
    BY DEF IInv, TypeOK, CoreInv
  <2>2. ASSUME NEW q \in Procs, st[q] \in Caches, aspace[q] = aspace[p] PROVE q = p
    BY <2>1, <2>2 DEF IInv, AspaceInv, HasAspace, Caches, Live
  <2>3. Cached(c, aspace[p])
    BY <2>1 DEF TlbInv
  <2> QED
    <3>1. CASE tlb[c][aspace[p]] = {} \/ aspace[p] \in late[c]
      BY <2>1, <3>1
    <3>2. CASE ~(tlb[c][aspace[p]] = {} \/ aspace[p] \in late[c])
      <4>1. PICK q \in Procs : /\ st[q] \in Caches /\ aspace[q] = aspace[p]
                               /\ (st[q] \in Live => tlb[c][aspace[p]] \subseteq {slot[q]})
        BY <2>3, <3>2 DEF Cached
      <4>2. q = p
        BY <2>2, <4>1
      <4> QED
        BY <2>1, <4>1, <4>2 DEF Live
    <3> QED
      BY <3>1, <3>2
<1> QED
  BY <1>1, <1>2, <1>3, Invariance, PTL DEF Spec

-----------------------------------------------------------------------------
(***************************************************************************)
(* Counting: a set is no larger than the one it is mapped into one to one. *)
(***************************************************************************)
LEMMA OneToOne ==
    ASSUME NEW S, NEW T, IsFiniteSet(T), NEW h \in [S -> T],
           \A x, y \in S : h[x] = h[y] => x = y
    PROVE  IsFiniteSet(S) /\ Cardinality(S) <= Cardinality(T)
<1>1. h \in Injection(S, T)
  BY DEF Injection, IsInjective
<1> QED
  BY <1>1, FS_Injection

LEMMA Sizes ==
    /\ IsFiniteSet(Slots) /\ Cardinality(Slots) = MAX_USER_PROCS
    /\ IsFiniteSet(Aspaces) /\ Cardinality(Aspaces) = MMU_MAX_ASPACE
    /\ \A S \in SUBSET Procs : IsFiniteSet(S) /\ Cardinality(S) \in Nat
<1>1. MAX_USER_PROCS \in Nat /\ MMU_MAX_ASPACE \in Nat /\ IsFiniteSet(Procs)
  BY AddrSpaceAssumption
<1>2. IsFiniteSet(Slots) /\ Cardinality(Slots) = MAX_USER_PROCS
  BY <1>1, FS_Interval DEF Slots
<1>3. IsFiniteSet(Aspaces) /\ Cardinality(Aspaces) = MMU_MAX_ASPACE
  BY <1>1, FS_Interval DEF Aspaces
<1>4. ASSUME NEW S \in SUBSET Procs PROVE IsFiniteSet(S) /\ Cardinality(S) \in Nat
  <2>1. IsFiniteSet(S)
    BY <1>1, FS_Subset
  <2> QED
    BY <2>1, FS_CardinalityType
<1> QED
  BY <1>2, <1>3, <1>4

\* An exit hook runs on the core of its process, which runs nothing beside it.
LEMMA HooksPerCore == IInv => Cardinality(Hooks) <= Cardinality(Cores)
<1> SUFFICES ASSUME IInv PROVE Cardinality(Hooks) <= Cardinality(Cores)
  OBVIOUS
<1> DEFINE on == [p \in Hooks |-> core[p]]
<1>1. on \in [Hooks -> Cores]
  BY DEF Hooks, IInv, TypeOK
<1>2. \A p, q \in Hooks : on[p] = on[q] => p = q
  BY DEF Hooks, IInv, CoreInv, OnCore
<1>3. IsFiniteSet(Cores)
  BY AddrSpaceAssumption
<1> HIDE DEF on
<1> QED
  BY <1>1, <1>2, <1>3, OneToOne

\* Nobody builds without a slot.
Builders == {p \in Procs : st[p] \in HasSlot}
LEMMA BuildersPerSlot == IInv => Cardinality(Builders) <= MAX_USER_PROCS
<1> SUFFICES ASSUME IInv PROVE Cardinality(Builders) <= MAX_USER_PROCS
  OBVIOUS
<1> DEFINE in == [p \in Builders |-> slot[p]]
<1>1. in \in [Builders -> Slots]
  BY DEF Builders, IInv, TypeOK
<1>2. \A p, q \in Builders : in[p] = in[q] => p = q
  BY DEF Builders, IInv, SlotInv
<1> HIDE DEF in
<1> QED
  BY <1>1, <1>2, Sizes, OneToOne

\* Who holds an address space has a slot beside it, or is in the exit hook.
LEMMA Holder ==
    ASSUME IInv, NEW p \in Procs, st[p] = "loaded", NEW a \in Aspaces, aspace_used[a]
    PROVE  \E q \in (Builders \ {p}) \cup Hooks : aspace[q] = a
<1>1. PICK q \in Procs : st[q] \in HasAspace /\ aspace[q] = a
  BY DEF IInv, AspaceInv
<1>2. q # p
  BY <1>1 DEF HasAspace, Live
<1>3. q \in Builders \cup Hooks
  BY <1>1 DEF Builders, Hooks, HasAspace, HasSlot, Building, Live
<1> QED
  BY <1>1, <1>2, <1>3

LEMMA RefusedByHooks ==
    ASSUME IInv, NEW p \in Procs, st[p] = "loaded", \A a \in Aspaces : aspace_used[a]
    PROVE  MMU_MAX_ASPACE < MAX_USER_PROCS + Cardinality(Hooks)
<1> DEFINE others == (Builders \ {p}) \cup Hooks
           holder == [a \in Aspaces |-> CHOOSE q \in others : aspace[q] = a]
<1>1. \A a \in Aspaces : holder[a] \in others /\ aspace[holder[a]] = a
  BY Holder
<1>2. /\ IsFiniteSet(Builders) /\ Cardinality(Builders) \in Nat
      /\ IsFiniteSet(Hooks) /\ Cardinality(Hooks) \in Nat
  BY Sizes DEF Builders, Hooks
<1>3. p \in Builders
  BY DEF Builders, HasSlot, Building
<1>4. /\ IsFiniteSet(Builders \ {p}) /\ Cardinality(Builders \ {p}) = Cardinality(Builders) - 1
  BY <1>2, <1>3, FS_RemoveElement
<1>5. /\ IsFiniteSet(others)
      /\ Cardinality(others) <= Cardinality(Builders) - 1 + Cardinality(Hooks)
  <2>1. Cardinality((Builders \ {p}) \cap Hooks) \in Nat
    BY Sizes DEF Hooks
  <2>2. /\ IsFiniteSet(others)
        /\ Cardinality(others) = Cardinality(Builders \ {p}) + Cardinality(Hooks)
                                   - Cardinality((Builders \ {p}) \cap Hooks)
    BY <1>2, <1>4, FS_Union, Zenon
  <2> HIDE DEF others
  <2> QED
    BY <1>2, <1>4, <2>1, <2>2
<1>6. MMU_MAX_ASPACE <= Cardinality(others)
  <2>1. holder \in [Aspaces -> others]
    BY <1>1
  <2>2. \A a, b \in Aspaces : holder[a] = holder[b] => a = b
    BY <1>1
  <2> HIDE DEF others, holder
  <2> QED
    BY <1>5, <2>1, <2>2, Sizes, OneToOne
<1>7. Cardinality(others) \in Nat
  BY <1>5, FS_CardinalityType
<1> HIDE DEF others, holder
<1> QED
  BY <1>2, <1>5, <1>6, <1>7, BuildersPerSlot, AddrSpaceAssumption

\* A call that has a slot is refused an address space only while exit hooks hold some,
\* at most one for each core: MMU_MAX_ASPACE >= MAX_USER_PROCS + cores refuses nobody.
THEOREM Refused == Spec => []AspaceLeft
<1>1. IInv => AspaceLeft
  BY HooksPerCore, RefusedByHooks DEF AspaceLeft
<1> QED
  BY <1>1, Invariance, PTL

-----------------------------------------------------------------------------
(***************************************************************************)
(* NetLock                                                                 *)
(***************************************************************************)
LEMMA NetLockInit ==
    ASSUME L!Init
    PROVE  L!IInv
<1>1. L!TypeOK
  BY DEF L!Init, L!TypeOK
<1>2. \A c \in Cores :
        pc[c] = "run" /\ nest[c] = 0 /\ ~irq[c] /\ held[c] = 0 /\ daif[c] = wants[c] /\ s_net_owner # c
  BY MachineAssumption DEF L!Init
<1>3. L!LockHeld /\ L!OwnerKnown
  BY <1>2 DEF L!LockHeld, L!OwnerKnown, L!Holds
<1>4. L!Masked /\ L!FlagsKept
  BY <1>2 DEF L!Masked, L!FlagsKept
<1> QED BY <1>1, <1>3, <1>4 DEF L!IInv

\* A step of one core keeps the invariant, part by part.
LEMMA NetLockStep ==
    ASSUME L!IInv, NEW c \in Cores, L!Step(c)
    PROVE  L!IInv'
<1> USE MachineAssumption DEF L!IInv, L!Goto, L!Set, L!lock, L!code
<1>1. CASE L!net_enter(c)
  BY <1>1 DEF L!net_enter, L!TypeOK, L!LockHeld, L!OwnerKnown, L!Masked, L!FlagsKept, L!Holds
<1>2. CASE L!Deepen(c)
  BY <1>2 DEF L!Deepen, L!TypeOK, L!LockHeld, L!OwnerKnown, L!Masked, L!FlagsKept, L!Holds
<1>3. CASE L!Spin(c)
  BY <1>3 DEF L!Spin, L!TypeOK, L!LockHeld, L!OwnerKnown, L!Masked, L!FlagsKept, L!Holds
<1>4. CASE L!spin_lock(c)
  BY <1>4 DEF L!spin_lock, L!TypeOK, L!LockHeld, L!OwnerKnown, L!Masked, L!FlagsKept, L!Holds
<1>5. CASE L!Own(c)
  BY <1>5 DEF L!Own, L!TypeOK, L!LockHeld, L!OwnerKnown, L!Masked, L!FlagsKept, L!Holds
<1>6. CASE L!net_leave(c)
  BY <1>6 DEF L!net_leave, L!TypeOK, L!LockHeld, L!OwnerKnown, L!Masked, L!FlagsKept, L!Holds
<1>7. CASE L!Disown(c)
  <2>1. L!TypeOK'
    BY <1>7 DEF L!Disown, L!TypeOK
  <2>2. L!LockHeld'
    BY <1>7 DEF L!Disown, L!TypeOK, L!LockHeld, L!OwnerKnown, L!Holds
  <2>3. L!OwnerKnown'
    BY <1>7 DEF L!Disown, L!TypeOK, L!LockHeld, L!OwnerKnown, L!Masked, L!Holds
  <2>4. L!Masked'
    BY <1>7 DEF L!Disown, L!TypeOK, L!OwnerKnown, L!Masked
  <2>5. L!FlagsKept'
    BY <1>7 DEF L!Disown, L!TypeOK, L!OwnerKnown, L!Masked, L!FlagsKept
  <2> QED BY <2>1, <2>2, <2>3, <2>4, <2>5
<1>8. CASE L!spin_unlock(c)
  BY <1>8 DEF L!spin_unlock, L!TypeOK, L!LockHeld, L!OwnerKnown, L!Masked, L!FlagsKept, L!Holds
<1>9. CASE L!Mask(c)
  BY <1>9 DEF L!Mask, L!TypeOK, L!LockHeld, L!OwnerKnown, L!Masked, L!FlagsKept, L!Holds
<1>10. CASE L!Irq(c)
  <2>1. L!TypeOK'
    BY <1>10 DEF L!Irq, L!TypeOK
  <2>2. L!LockHeld'
    BY <1>10 DEF L!Irq, L!TypeOK, L!LockHeld, L!OwnerKnown, L!Holds
  <2>3. L!OwnerKnown'
    BY <1>10 DEF L!Irq, L!TypeOK, L!LockHeld, L!OwnerKnown, L!Masked, L!Holds
  <2>4. L!Masked'
    BY <1>10 DEF L!Irq, L!TypeOK, L!OwnerKnown, L!Masked
  <2>5. L!FlagsKept'
    <3>1. pc' = pc /\ f' = f /\ s_net_flags' = s_net_flags
      BY <1>10 DEF L!Irq
    <3>2. \A d \in Cores : d # c =>
            nest'[d] = nest[d] /\ daif'[d] = daif[d] /\ wants'[d] = wants[d]
      BY <1>10 DEF L!Irq, L!TypeOK
    <3>3. pc[c] = "run" /\ nest'[c] = 0 /\ daif'[c] = wants'[c]
      BY <1>10 DEF L!Irq, L!TypeOK
    <3> QED BY <3>1, <3>2, <3>3 DEF L!FlagsKept
  <2> QED BY <2>1, <2>2, <2>3, <2>4, <2>5
<1>11. CASE L!Eret(c)
  <2>1. L!TypeOK'
    BY <1>11 DEF L!Eret, L!TypeOK
  <2>2. L!LockHeld'
    BY <1>11 DEF L!Eret, L!TypeOK, L!LockHeld, L!OwnerKnown, L!Holds
  <2>3. L!OwnerKnown'
    BY <1>11 DEF L!Eret, L!TypeOK, L!OwnerKnown, L!Masked
  <2>4. L!Masked'
    BY <1>11 DEF L!Eret, L!TypeOK, L!OwnerKnown, L!Masked
  <2>5. L!FlagsKept'
    <3>1. pc' = pc /\ f' = f /\ s_net_flags' = s_net_flags
      BY <1>11 DEF L!Eret
    <3>2. \A d \in Cores : d # c =>
            nest'[d] = nest[d] /\ daif'[d] = daif[d] /\ wants'[d] = wants[d]
      BY <1>11 DEF L!Eret, L!TypeOK
    <3>3. pc[c] = "run" /\ nest'[c] = 0 /\ daif'[c] = wants'[c]
      BY <1>11 DEF L!Eret, L!TypeOK, L!Masked
    <3> QED BY <3>1, <3>2, <3>3 DEF L!FlagsKept
  <2> QED BY <2>1, <2>2, <2>3, <2>4, <2>5
<1> QED BY <1>1, <1>2, <1>3, <1>4, <1>5, <1>6, <1>7, <1>8, <1>9, <1>10, <1>11 DEF L!Step

LEMMA NetLockStutter == L!IInv /\ UNCHANGED L!vars => L!IInv'
BY DEF L!vars, L!lock, L!code, L!IInv, L!TypeOK, L!LockHeld, L!OwnerKnown, L!Masked, L!FlagsKept, L!Holds


\* The machines share no state: where the lock moves it takes a step of its own, and
\* elsewhere it stands still.
LEMMA NetLockInductive == MachineSpec => []L!IInv
<1>1. MachineInit => L!IInv
  BY NetLockInit DEF MachineInit
<1>2. L!IInv /\ [MachineNext]_machine_vars => L!IInv'
  <2> SUFFICES ASSUME L!IInv, [MachineNext]_machine_vars PROVE L!IInv'
    OBVIOUS
  <2>1. L!Next \/ UNCHANGED L!vars
    BY DEF MachineNext, InMemory, InNetLock, InVirtio, InDevAgent, machine_vars, netlock,
           L!vars, L!lock, L!code
  <2> QED BY <2>1, NetLockStep, NetLockStutter DEF L!Next
<1> QED BY <1>1, <1>2, PTL DEF MachineSpec

\* One activity at a time is inside the network stack, and no interrupt handler runs
\* above a section of its own core.
THEOREM OneInTheStack == MachineSpec => []NetExclusive
<1>1. L!IInv => NetExclusive
  BY DEF NetExclusive, L!IInv, L!OwnerKnown, L!Masked, L!NetExclusive
<1> QED BY <1>1, NetLockInductive, PTL

\* For any nesting: net_leave gives interrupts back as the outermost net_enter found them.
THEOREM MaskGivenBack == MachineSpec => []DaifRestored
<1>1. L!IInv => DaifRestored
  BY DEF DaifRestored, L!IInv, L!FlagsKept, L!DaifRestored
<1> QED BY <1>1, NetLockInductive, PTL

-----------------------------------------------------------------------------
(***************************************************************************)
(* Indices modulo Wrap, slots modulo VNET_QSIZE                            *)
(***************************************************************************)
Indices == 0 .. Wrap - 1

LEMMA IncIs == \A i \in Indices : V!Inc(i) = IF i + 1 = Wrap THEN 0 ELSE i + 1
BY MachineAssumption DEF V!Inc, Indices

LEMMA DistanceIs ==
    \A a, b \in Indices : V!Distance(a, b) = IF b >= a THEN b - a ELSE b - a + Wrap
BY MachineAssumption DEF V!Distance, Indices

LEMMA DistanceDiffers ==
    \A a, b, c \in Indices : b # c => V!Distance(a, b) # V!Distance(a, c)
BY DistanceIs, MachineAssumption DEF Indices

\* What the steps need of an index and its successor.
LEMMA Arithmetic ==
    ASSUME NEW a \in Indices, NEW b \in Indices
    PROVE  /\ V!Inc(a) \in Indices
           /\ V!Distance(a, b) \in 0 .. Wrap - 1
           /\ V!Distance(a, b) = 0 <=> a = b
           /\ V!Distance(a, b) < Wrap - 1 => V!Distance(a, V!Inc(b)) = V!Distance(a, b) + 1
           /\ a # b => V!Distance(V!Inc(a), b) = V!Distance(a, b) - 1
           /\ a + V!Distance(a, b) = b \/ a + V!Distance(a, b) = b + Wrap
BY IncIs, DistanceIs, MachineAssumption DEF Indices

LEMMA DistanceNat == \A a, b \in Indices : V!Distance(a, b) \in Nat
BY DistanceIs, MachineAssumption DEF Indices

LEMMA Division ==
    \A i \in Int : /\ i = (VNET_QSIZE * (i \div VNET_QSIZE)) + (i % VNET_QSIZE)
                   /\ i % VNET_QSIZE \in 0 .. VNET_QSIZE - 1
                   /\ i \div VNET_QSIZE \in Int
BY MachineAssumption

\* The only multiple of the size that is smaller than it, in either direction
LEMMA SmallMultiple ==
    \A d \in Int : VNET_QSIZE * d < VNET_QSIZE /\ -VNET_QSIZE < VNET_QSIZE * d => d = 0
BY MachineAssumption

LEMMA RemainderUnique ==
    ASSUME NEW a \in Int, NEW b \in Int,
           NEW r \in 0 .. VNET_QSIZE - 1, NEW s \in 0 .. VNET_QSIZE - 1,
           VNET_QSIZE * a + r = VNET_QSIZE * b + s
    PROVE  r = s
<1>1. VNET_QSIZE * (a - b) = s - r
  BY MachineAssumption
<1>2. a - b = 0
  BY <1>1, SmallMultiple, MachineAssumption
<1> QED BY <1>1, <1>2, MachineAssumption

LEMMA RemainderIs ==
    ASSUME NEW a \in Int, NEW r \in 0 .. VNET_QSIZE - 1
    PROVE  (VNET_QSIZE * a + r) % VNET_QSIZE = r
<1> DEFINE i == VNET_QSIZE * a + r
<1>1. i \in Int
  BY MachineAssumption
<1>2. /\ i = (VNET_QSIZE * (i \div VNET_QSIZE)) + (i % VNET_QSIZE)
      /\ i % VNET_QSIZE \in 0 .. VNET_QSIZE - 1
      /\ i \div VNET_QSIZE \in Int
  BY <1>1, Division
<1> QED BY <1>2, RemainderUnique

LEMMA SlotPeriod ==
    ASSUME NEW i \in Int, NEW k \in Int
    PROVE  V!Slot(i + VNET_QSIZE * k) = V!Slot(i)
<1>1. /\ i = (VNET_QSIZE * (i \div VNET_QSIZE)) + (i % VNET_QSIZE)
      /\ i % VNET_QSIZE \in 0 .. VNET_QSIZE - 1
      /\ i \div VNET_QSIZE \in Int
  BY Division
<1>2. i + VNET_QSIZE * k = (VNET_QSIZE * ((i \div VNET_QSIZE) + k)) + (i % VNET_QSIZE)
  BY <1>1, MachineAssumption
<1>3. (i \div VNET_QSIZE) + k \in Int
  BY <1>1
<1> QED BY <1>1, <1>2, <1>3, RemainderIs DEF V!Slot

\* An index and the same index before it wrapped have the same slot.
LEMMA SlotWraps == \A i \in Int : V!Slot(i) \in V!Slots /\ V!Slot(i + Wrap) = V!Slot(i)
<1> SUFFICES ASSUME NEW i \in Int PROVE V!Slot(i) \in V!Slots /\ V!Slot(i + Wrap) = V!Slot(i)
  OBVIOUS
<1>1. Wrap = VNET_QSIZE * (Wrap \div VNET_QSIZE) /\ Wrap \div VNET_QSIZE \in Int
  BY Division, MachineAssumption
<1>2. V!Slot(i + Wrap) = V!Slot(i)
  BY <1>1, SlotPeriod
<1> QED BY <1>2, Division DEF V!Slot, V!Slots

LEMMA SlotNext ==
    ASSUME NEW i \in Indices, NEW k \in Nat
    PROVE  V!Slot(V!Inc(i) + k) = V!Slot(i + (k + 1))
<1>1. V!Inc(i) + k = i + (k + 1) \/ V!Inc(i) + k + Wrap = i + (k + 1)
  BY IncIs, MachineAssumption DEF Indices
<1>2. V!Inc(i) + k \in Int
  BY IncIs, MachineAssumption DEF Indices
<1> QED BY <1>1, <1>2, SlotWraps

LEMMA SlotEnd ==
    ASSUME NEW a \in Indices, NEW b \in Indices
    PROVE  V!Slot(a + V!Distance(a, b)) = V!Slot(b)
<1>1. a + V!Distance(a, b) = b \/ a + V!Distance(a, b) = b + Wrap
  BY Arithmetic
<1> QED BY <1>1, SlotWraps DEF Indices

\* Fewer than VNET_QSIZE apart, two indices have different slots.
LEMMA SlotsDiffer ==
    ASSUME NEW i \in Int, NEW j \in Int, i < j, j < i + VNET_QSIZE
    PROVE  V!Slot(i) # V!Slot(j)
<1> SUFFICES ASSUME i % VNET_QSIZE = j % VNET_QSIZE PROVE FALSE
  BY DEF V!Slot
<1>1. i = (VNET_QSIZE * (i \div VNET_QSIZE)) + (i % VNET_QSIZE) /\ i \div VNET_QSIZE \in Int
  BY Division
<1>2. j = (VNET_QSIZE * (j \div VNET_QSIZE)) + (j % VNET_QSIZE) /\ j \div VNET_QSIZE \in Int
  BY Division
<1>3. j - i = VNET_QSIZE * ((j \div VNET_QSIZE) - (i \div VNET_QSIZE))
  BY <1>1, <1>2, Division, MachineAssumption
<1>4. (j \div VNET_QSIZE) - (i \div VNET_QSIZE) = 0
  BY <1>1, <1>2, <1>3, SmallMultiple, MachineAssumption
<1> QED BY <1>3, <1>4, MachineAssumption

\* The slot at the end of a window that is not full is none of its own.
LEMMA SlotFree ==
    ASSUME NEW a \in Indices, NEW b \in Indices, V!Distance(a, b) < VNET_QSIZE,
           NEW k \in 0 .. V!Distance(a, b) - 1
    PROVE  V!Slot(a + k) # V!Slot(b)
<1>1. V!Distance(a, b) \in Nat /\ a \in Int /\ a + k \in Int /\ a + V!Distance(a, b) \in Int
  BY Arithmetic, MachineAssumption DEF Indices
<1>2. a + k < a + V!Distance(a, b) /\ a + V!Distance(a, b) < a + k + VNET_QSIZE
  BY <1>1, MachineAssumption
<1> QED BY <1>1, <1>2, SlotsDiffer, SlotEnd

-----------------------------------------------------------------------------
(***************************************************************************)
(* The queue between two indices                                           *)
(***************************************************************************)
LEMMA QueuedType ==
    ASSUME NEW a \in Indices, NEW b \in Indices,
           NEW buf \in [V!Slots -> Frames], NEW ring \in [V!Slots -> V!Slots]
    PROVE  /\ V!Queued(buf, ring, a, b) \in Seq(Frames)
           /\ Len(V!Queued(buf, ring, a, b)) = V!Distance(a, b)
           /\ \A i \in 1 .. V!Distance(a, b) :
                 V!Queued(buf, ring, a, b)[i] = buf[ring[V!Slot(a + i - 1)]]
<1>1. V!Distance(a, b) \in Nat
  BY DistanceNat
<1>2. \A i \in 1 .. V!Distance(a, b) : buf[ring[V!Slot(a + i - 1)]] \in Frames
  BY <1>1, SlotWraps DEF Indices
<1> QED BY <1>1, <1>2, IsASeq DEF V!Queued

\* Buffers and ring entries outside the window do not matter.
LEMMA QueuedSame ==
    ASSUME NEW a \in Indices, NEW b \in Indices, NEW buf, NEW ring, NEW buf2, NEW ring2,
           \A k \in 0 .. V!Distance(a, b) - 1 :
              buf2[ring2[V!Slot(a + k)]] = buf[ring[V!Slot(a + k)]]
    PROVE  V!Queued(buf2, ring2, a, b) = V!Queued(buf, ring, a, b)
<1>1. V!Distance(a, b) \in Nat
  BY DistanceNat
<1>2. \A i \in 1 .. V!Distance(a, b) :
         buf2[ring2[V!Slot(a + i - 1)]] = buf[ring[V!Slot(a + i - 1)]]
  <2> SUFFICES ASSUME NEW i \in 1 .. V!Distance(a, b)
               PROVE  buf2[ring2[V!Slot(a + i - 1)]] = buf[ring[V!Slot(a + i - 1)]]
    OBVIOUS
  <2>1. i - 1 \in 0 .. V!Distance(a, b) - 1 /\ a + (i - 1) = a + i - 1
    BY <1>1 DEF Indices
  <2> QED BY <2>1
<1> QED BY <1>2 DEF V!Queued

\* To publish the slot at the end of the window is to append its frame.
LEMMA QueuedPut ==
    ASSUME NEW a \in Indices, NEW b \in Indices, V!Distance(a, b) < VNET_QSIZE,
           NEW buf \in [V!Slots -> Frames], NEW ring \in [V!Slots -> V!Slots]
    PROVE  V!Queued(buf, ring, a, V!Inc(b)) =
              Append(V!Queued(buf, ring, a, b), buf[ring[V!Slot(b)]])
<1> DEFINE d == V!Distance(a, b)
           s == V!Queued(buf, ring, a, V!Inc(b))
           q == V!Queued(buf, ring, a, b)
           e == buf[ring[V!Slot(b)]]
<1>1. d \in Nat /\ V!Inc(b) \in Indices /\ V!Distance(a, V!Inc(b)) = d + 1
  BY Arithmetic, MachineAssumption DEF Indices
<1>2. /\ s \in Seq(Frames) /\ Len(s) = d + 1
      /\ \A i \in 1 .. d + 1 : s[i] = buf[ring[V!Slot(a + i - 1)]]
  <2>1. /\ s \in Seq(Frames) /\ Len(s) = V!Distance(a, V!Inc(b))
        /\ \A i \in 1 .. V!Distance(a, V!Inc(b)) : s[i] = buf[ring[V!Slot(a + i - 1)]]
    BY <1>1, QueuedType, Zenon
  <2> QED BY <1>1, <2>1
<1>3. /\ q \in Seq(Frames) /\ Len(q) = d
      /\ \A i \in 1 .. d : q[i] = buf[ring[V!Slot(a + i - 1)]]
  BY QueuedType
<1>4. e \in Frames
  BY SlotWraps DEF Indices
<1>5. s[d + 1] = e
  <2>1. a + (d + 1) - 1 = a + d
    BY <1>1 DEF Indices
  <2> QED BY <1>1, <1>2, <2>1, SlotEnd
<1> HIDE DEF d, s, q, e
<1>6. Append(q, e) \in Seq(Frames) /\ Len(Append(q, e)) = d + 1
      /\ (\A i \in 1 .. d : Append(q, e)[i] = q[i]) /\ Append(q, e)[d + 1] = e
  BY <1>3, <1>4, AppendProperties
<1>7. \A i \in 1 .. d + 1 : s[i] = Append(q, e)[i]
  BY <1>1, <1>2, <1>3, <1>5, <1>6
<1> QED BY <1>2, <1>6, <1>7, SeqEqual DEF s, q, e

\* To go past the first slot of the window is to take its frame.
LEMMA QueuedTake ==
    ASSUME NEW a \in Indices, NEW b \in Indices, a # b,
           NEW buf \in [V!Slots -> Frames], NEW ring \in [V!Slots -> V!Slots]
    PROVE  /\ V!Queued(buf, ring, a, b) # <<>>
           /\ Head(V!Queued(buf, ring, a, b)) = buf[ring[V!Slot(a)]]
           /\ V!Queued(buf, ring, V!Inc(a), b) = Tail(V!Queued(buf, ring, a, b))
<1> DEFINE d == V!Distance(a, b)
           s == V!Queued(buf, ring, V!Inc(a), b)
           q == V!Queued(buf, ring, a, b)
<1>1. d \in Nat \ {0} /\ V!Inc(a) \in Indices /\ V!Distance(V!Inc(a), b) = d - 1
  BY Arithmetic, MachineAssumption DEF Indices
<1>2. /\ s \in Seq(Frames) /\ Len(s) = d - 1
      /\ \A i \in 1 .. d - 1 : s[i] = buf[ring[V!Slot(V!Inc(a) + i - 1)]]
  <2>1. /\ s \in Seq(Frames) /\ Len(s) = V!Distance(V!Inc(a), b)
        /\ \A i \in 1 .. V!Distance(V!Inc(a), b) : s[i] = buf[ring[V!Slot(V!Inc(a) + i - 1)]]
    BY <1>1, QueuedType, Zenon
  <2> QED BY <1>1, <2>1
<1>3. /\ q \in Seq(Frames) /\ Len(q) = d
      /\ \A i \in 1 .. d : q[i] = buf[ring[V!Slot(a + i - 1)]]
  BY QueuedType
<1>4. q # <<>> /\ Head(q) = buf[ring[V!Slot(a)]]
  <2>1. a + 1 - 1 = a
    BY DEF Indices
  <2>2. q[1] = buf[ring[V!Slot(a)]]
    BY <1>1, <1>3, <2>1
  <2> HIDE DEF q, d
  <2> QED BY <1>1, <1>3, <2>2
<1>5. \A i \in 1 .. d - 1 : s[i] = q[i + 1]
  <2> SUFFICES ASSUME NEW i \in 1 .. d - 1 PROVE s[i] = q[i + 1]
    OBVIOUS
  <2>1. /\ i + 1 \in 1 .. d /\ i - 1 \in Nat
        /\ V!Inc(a) + i - 1 = V!Inc(a) + (i - 1) /\ a + (i + 1) - 1 = a + ((i - 1) + 1)
    BY <1>1 DEF Indices
  <2>2. V!Slot(V!Inc(a) + i - 1) = V!Slot(a + (i + 1) - 1)
    BY <2>1, SlotNext
  <2> QED BY <1>2, <1>3, <2>1, <2>2
<1> HIDE DEF d, s, q
<1>6. Tail(q) \in Seq(Frames) /\ Len(Tail(q)) = d - 1
      /\ \A i \in 1 .. d - 1 : Tail(q)[i] = q[i + 1]
  BY <1>1, <1>3, <1>4, HeadTailProperties
<1>7. s = Tail(q)
  BY <1>2, <1>5, <1>6, SeqEqual
<1> QED BY <1>4, <1>7 DEF s, q

-----------------------------------------------------------------------------
(***************************************************************************)
(* The inductive invariant                                                 *)
(***************************************************************************)
Ring == [idx : Indices, ring : [V!Slots -> V!Slots]]
Polling == [pc : {"idle", "next", "input", "repost"}, snap : Indices, id : V!Slots]

RingsTypeOK ==
    /\ rx_buf \in [V!Slots -> Frames] /\ tx_buf \in [V!Slots -> Frames]
    /\ given \in Frames /\ sent \in Frames
    /\ rx_avail \in Ring /\ rx_used \in Ring /\ tx_avail \in Ring
    /\ {rx_last_used, rx_at, tx_used, tx_at} \subseteq Indices
    /\ {rx_busy, tx_busy, tx_filled} \subseteq BOOLEAN
    /\ poll \in Polling \cup {[pc |-> "idle"]}

\* What lies between the device and the driver's next descriptor, the one being filled
\* included, is in different slots, each naming itself.
TxWindow ==
    /\ tx_used = tx_at
    /\ V!Distance(tx_at, tx_avail.idx) <= VNET_QSIZE
    /\ tx_busy => tx_at # tx_avail.idx
    /\ tx_filled => /\ V!Distance(tx_at, tx_avail.idx) < VNET_QSIZE
                    /\ tx_avail.ring[V!Slot(tx_avail.idx)] = V!Slot(tx_avail.idx)
    /\ \A k \in 0 .. V!Distance(tx_at, tx_avail.idx) - 1 :
          tx_avail.ring[V!Slot(tx_at + k)] = V!Slot(tx_at + k)

\* Every descriptor is with the device, or waits for the driver, or is the one the driver
\* has in hand, which it puts back where it was.
RxWindow ==
    /\ rx_used.idx = rx_at
    /\ \A s \in V!Slots : rx_avail.ring[s] = s
    /\ V!Distance(rx_last_used, rx_avail.idx) =
          IF poll.pc = "repost" THEN VNET_QSIZE - 1 ELSE VNET_QSIZE
    /\ V!Distance(rx_last_used, rx_at) <= V!Distance(rx_last_used, rx_avail.idx)
    /\ rx_busy => rx_at # rx_avail.idx
    /\ \A k \in 0 .. V!Distance(rx_last_used, rx_at) - 1 :
          rx_used.ring[V!Slot(rx_last_used + k)] = V!Slot(rx_last_used + k)

\* The driver goes as far as its snapshot, which the device has long passed.
RxPoll ==
    /\ poll.pc # "idle" =>
          /\ poll \in Polling
          /\ V!Distance(rx_last_used, poll.snap) <= V!Distance(rx_last_used, rx_at)
    /\ poll.pc \in {"next", "input"} => rx_last_used # poll.snap
    /\ poll.pc = "input" => poll.id = V!Slot(rx_last_used)
    /\ poll.pc = "repost" => poll.id = V!Slot(rx_avail.idx)

RingsInv == RingsTypeOK /\ TxWindow /\ RxWindow /\ RxPoll

LEMMA RingsInit == V!Init => RingsInv
<1> SUFFICES ASSUME V!Init PROVE RingsInv
  OBVIOUS
<1>1. V!AFrame \in Frames
  BY MachineAssumption DEF V!AFrame
<1>2. 0 \in V!Slots /\ {0, VNET_QSIZE} \subseteq Indices
  BY MachineAssumption DEF V!Slots, Indices
<1>3. RingsTypeOK
  BY <1>1, <1>2 DEF V!Init, RingsTypeOK, Ring
<1>4. V!Distance(0, 0) = 0 /\ V!Distance(0, VNET_QSIZE) = VNET_QSIZE
  BY <1>2, DistanceIs, MachineAssumption
<1>5. TxWindow
  BY <1>4, MachineAssumption DEF V!Init, TxWindow
<1>6. RxWindow /\ RxPoll
  BY <1>4, MachineAssumption DEF V!Init, RxWindow, RxPoll
<1> QED BY <1>3, <1>5, <1>6 DEF RingsInv

-----------------------------------------------------------------------------
(***************************************************************************)
(* The steps: each keeps the invariant, and is a put, a take or nothing in *)
(* the queue it works on                                                   *)
(***************************************************************************)
txq == V!Queued(tx_buf, tx_avail.ring, V!TxFirst, tx_avail.idx)
txhand == IF tx_busy THEN tx_buf[tx_avail.ring[V!Slot(tx_at)]] ELSE sent
rxq == V!Queued(rx_buf, rx_used.ring, V!RxFirst, rx_used.idx)
rxhand == IF poll.pc = "input" THEN rx_buf[poll.id] ELSE given

TxPut == Len(txq) < VNET_QSIZE /\ (\E e \in Frames : txq' = Append(txq, e)) /\ txhand' = txhand
TxTake == txq # <<>> /\ txhand' = Head(txq) /\ txq' = Tail(txq)
RxPut == Len(rxq) < VNET_QSIZE /\ (\E e \in Frames : rxq' = Append(rxq, e)) /\ rxhand' = rxhand
RxTake == rxq # <<>> /\ rxhand' = Head(rxq) /\ rxq' = Tail(rxq)

TxRefines == TxPut \/ TxTake \/ (txq' = txq /\ txhand' = txhand)
RxRefines == RxPut \/ RxTake \/ (rxq' = rxq /\ rxhand' = rxhand)

LEMMA TxStill ==
    ASSUME RingsInv, UNCHANGED V!tx
    PROVE  TxWindow' /\ TxRefines
<1> SUFFICES TxWindow' /\ txq' = txq /\ txhand' = txhand
  BY DEF TxRefines
<1> QED BY DEF V!tx, RingsInv, TxWindow, txq, txhand, V!TxFirst

LEMMA RxStill ==
    ASSUME RingsInv, UNCHANGED V!rx
    PROVE  RxWindow' /\ RxPoll' /\ RxRefines
<1> SUFFICES RxWindow' /\ RxPoll' /\ rxq' = rxq /\ rxhand' = rxhand
  BY DEF RxRefines
<1> QED BY DEF V!rx, RingsInv, RxWindow, RxPoll, rxq, rxhand, V!RxFirst

\* The frame goes into a slot behind the window.
LEMMA TxFillStep ==
    ASSUME RingsInv, NEW frame \in Frames, V!TxFill(frame)
    PROVE  RingsTypeOK' /\ TxWindow' /\ TxRefines
<1> DEFINE s == V!Slot(tx_avail.idx)
           d == V!Distance(tx_at, tx_avail.idx)
<1>1. s \in V!Slots /\ tx_at \in Indices /\ tx_avail.idx \in Indices /\ d < VNET_QSIZE /\ d \in Nat
  <2>1. tx_at \in Indices /\ tx_avail.idx \in Indices /\ tx_used = tx_at
    BY DEF RingsInv, RingsTypeOK, TxWindow, Ring
  <2> QED BY <2>1, DistanceNat, SlotWraps, MachineAssumption
       DEF V!TxFill, V!TxFull, Indices
<1>2. /\ tx_buf' = [tx_buf EXCEPT ![s] = frame]
      /\ tx_avail'.idx = tx_avail.idx /\ tx_avail'.ring = [tx_avail.ring EXCEPT ![s] = s]
      /\ tx_avail' \in Ring /\ tx_at' = tx_at /\ tx_busy' = tx_busy /\ sent' = sent
      /\ tx_used' = tx_used /\ tx_filled' = TRUE
  BY <1>1 DEF RingsInv, RingsTypeOK, Ring, V!TxFill
<1>3. \A k \in 0 .. d - 1 : V!Slot(tx_at + k) # s /\ V!Slot(tx_at + k) \in V!Slots
  BY <1>1, SlotFree, SlotWraps DEF Indices
<1>4. RingsTypeOK'
  BY <1>1, <1>2 DEF RingsInv, RingsTypeOK, V!TxFill, V!rx
<1>5. TxWindow'
  BY <1>1, <1>2, <1>3 DEF RingsInv, RingsTypeOK, Ring, TxWindow
<1>6. \A k \in 0 .. d - 1 :
         tx_buf'[tx_avail'.ring[V!Slot(tx_at + k)]] = tx_buf[tx_avail.ring[V!Slot(tx_at + k)]]
  BY <1>1, <1>2, <1>3 DEF RingsInv, RingsTypeOK, Ring, TxWindow
<1>7. txhand' = txhand
  <2>1. CASE tx_busy
    <3>0. d # 0
      BY <1>1, <2>1, Arithmetic DEF RingsInv, TxWindow
    <3>1. 0 \in 0 .. d - 1 /\ tx_at + 0 = tx_at
      BY <1>1, <3>0 DEF Indices
    <3>2. tx_buf'[tx_avail'.ring[V!Slot(tx_at)]] = tx_buf[tx_avail.ring[V!Slot(tx_at)]]
      BY <1>6, <3>1
    <3> QED BY <1>2, <2>1, <3>2 DEF txhand
  <2>2. CASE ~tx_busy
    BY <1>2, <2>2 DEF txhand
  <2> QED BY <2>1, <2>2
<1>8. txq' = txq
  <2>1. V!TxFirst' = V!TxFirst /\ V!TxFirst \in Indices
    BY <1>1, <1>2, Arithmetic DEF V!TxFirst
  <2>2. \A k \in 0 .. V!Distance(V!TxFirst, tx_avail.idx) - 1 :
           tx_buf'[tx_avail'.ring[V!Slot(V!TxFirst + k)]] = tx_buf[tx_avail.ring[V!Slot(V!TxFirst + k)]]
    <3>1. CASE ~tx_busy
      BY <1>6, <3>1 DEF V!TxFirst
    <3>2. CASE tx_busy
      <4> SUFFICES ASSUME NEW k \in 0 .. V!Distance(V!Inc(tx_at), tx_avail.idx) - 1
                   PROVE  tx_buf'[tx_avail'.ring[V!Slot(V!Inc(tx_at) + k)]] =
                          tx_buf[tx_avail.ring[V!Slot(V!Inc(tx_at) + k)]]
        BY <3>2 DEF V!TxFirst
      <4>1. V!Distance(V!Inc(tx_at), tx_avail.idx) = d - 1
        BY <1>1, <3>2, Arithmetic DEF RingsInv, TxWindow
      <4>2. k + 1 \in 0 .. d - 1 /\ k \in Nat
        BY <1>1, <4>1
      <4> QED BY <1>1, <1>6, <4>2, SlotNext
    <3> QED BY <3>1, <3>2
  <2>3. V!Queued(tx_buf', tx_avail'.ring, V!TxFirst, tx_avail.idx) = txq
    BY <1>1, <2>1, <2>2, QueuedSame DEF txq
  <2> QED BY <1>2, <2>1, <2>3 DEF txq
<1> QED BY <1>4, <1>5, <1>7, <1>8 DEF TxRefines

LEMMA TxPublishStep ==
    ASSUME RingsInv, V!TxPublish
    PROVE  RingsTypeOK' /\ TxWindow' /\ TxRefines
<1> DEFINE i == tx_avail.idx
           d == V!Distance(tx_at, i)
<1>1. tx_at \in Indices /\ i \in Indices /\ d < VNET_QSIZE /\ d \in Nat /\ V!Inc(i) \in Indices
  BY DistanceNat, Arithmetic DEF RingsInv, RingsTypeOK, TxWindow, Ring, V!TxPublish
<1>2. /\ tx_avail'.idx = V!Inc(i) /\ tx_avail'.ring = tx_avail.ring /\ tx_avail' \in Ring
      /\ tx_buf' = tx_buf /\ tx_at' = tx_at /\ tx_busy' = tx_busy /\ sent' = sent
      /\ tx_used' = tx_used /\ tx_filled' = FALSE
  BY <1>1 DEF RingsInv, RingsTypeOK, Ring, V!TxPublish
<1>3. V!Distance(tx_at, V!Inc(i)) = d + 1
  BY <1>1, Arithmetic, MachineAssumption
<1>4. V!Slot(tx_at + d) = V!Slot(i) /\ tx_avail.ring[V!Slot(i)] = V!Slot(i)
  BY <1>1, SlotEnd DEF RingsInv, TxWindow, V!TxPublish
<1>5. RingsTypeOK'
  BY <1>2 DEF RingsInv, RingsTypeOK, V!TxPublish, V!rx
<1>6. TxWindow'
  <2>1. tx_at # V!Inc(i)
    <3>1. V!Distance(tx_at, V!Inc(i)) # 0
      BY <1>1, <1>3
    <3> QED BY <1>1, <3>1, Arithmetic
  <2>2. \A k \in 0 .. d : tx_avail.ring[V!Slot(tx_at + k)] = V!Slot(tx_at + k)
    <3> SUFFICES ASSUME NEW k \in 0 .. d
                 PROVE  tx_avail.ring[V!Slot(tx_at + k)] = V!Slot(tx_at + k)
      OBVIOUS
    <3>1. k = d \/ k \in 0 .. d - 1
      BY <1>1
    <3> QED BY <1>4, <3>1 DEF RingsInv, TxWindow
  <2> HIDE DEF d
  <2>3. d + 1 <= VNET_QSIZE /\ 0 .. (d + 1) - 1 = 0 .. d
    BY <1>1, MachineAssumption
  <2> QED BY <1>1, <1>2, <1>3, <2>1, <2>2, <2>3 DEF RingsInv, TxWindow
<1>7. txhand' = txhand
  BY <1>2 DEF txhand
<1>8. TxPut
  <2>1. V!TxFirst' = V!TxFirst /\ V!TxFirst \in Indices
    BY <1>1, <1>2, Arithmetic DEF V!TxFirst
  <2>2. V!Distance(V!TxFirst, i) < VNET_QSIZE
    BY <1>1, Arithmetic, MachineAssumption DEF RingsInv, TxWindow, V!TxFirst
  <2>3. tx_buf \in [V!Slots -> Frames] /\ tx_avail.ring \in [V!Slots -> V!Slots]
    BY DEF RingsInv, RingsTypeOK, Ring
  <2>4. txq' = Append(txq, tx_buf[tx_avail.ring[V!Slot(i)]])
    BY <1>1, <1>2, <2>1, <2>2, <2>3, QueuedPut DEF txq
  <2>5. Len(txq) < VNET_QSIZE
    BY <1>1, <2>1, <2>2, <2>3, QueuedType DEF txq
  <2>6. tx_buf[tx_avail.ring[V!Slot(i)]] \in Frames
    BY <1>1, <2>3, SlotWraps DEF Indices
  <2> QED BY <1>7, <2>4, <2>5, <2>6 DEF TxPut
<1> QED BY <1>5, <1>6, <1>8 DEF TxRefines

LEMMA DevSendStep ==
    ASSUME RingsInv, V!DevSend
    PROVE  RingsTypeOK' /\ TxWindow' /\ TxRefines
<1>1. RingsTypeOK' /\ TxWindow'
  BY DEF RingsInv, RingsTypeOK, TxWindow, V!DevSend, V!rx
<1>2. tx_at \in Indices /\ tx_avail.idx \in Indices /\ tx_at # tx_avail.idx
  BY DEF RingsInv, RingsTypeOK, Ring, V!DevSend
<1>3. tx_buf \in [V!Slots -> Frames] /\ tx_avail.ring \in [V!Slots -> V!Slots]
  BY DEF RingsInv, RingsTypeOK, Ring
<1>4. TxTake
  BY <1>2, <1>3, QueuedTake DEF TxTake, txq, txhand, V!TxFirst, V!DevSend
<1> QED BY <1>1, <1>4 DEF TxRefines

LEMMA DevSentStep ==
    ASSUME RingsInv, V!DevSent
    PROVE  RingsTypeOK' /\ TxWindow' /\ TxRefines
<1> DEFINE i == tx_avail.idx
           d == V!Distance(tx_at, i)
<1>1. tx_at \in Indices /\ i \in Indices /\ tx_at # i /\ d \in Nat \ {0} /\ V!Inc(tx_at) \in Indices
  BY DistanceNat, Arithmetic DEF RingsInv, RingsTypeOK, TxWindow, Ring, V!DevSent
<1>2. tx_buf \in [V!Slots -> Frames] /\ tx_avail.ring \in [V!Slots -> V!Slots]
  BY DEF RingsInv, RingsTypeOK, Ring
<1>3. tx_buf[tx_avail.ring[V!Slot(tx_at)]] \in Frames
  BY <1>1, <1>2, SlotWraps DEF Indices
<1>4. RingsTypeOK'
  BY <1>1, <1>3 DEF RingsInv, RingsTypeOK, TxWindow, V!DevSent, V!rx
<1>5. V!Distance(V!Inc(tx_at), i) = d - 1
  BY <1>1, Arithmetic
<1>6. TxWindow'
  <2>1. \A k \in 0 .. (d - 1) - 1 :
           tx_avail.ring[V!Slot(V!Inc(tx_at) + k)] = V!Slot(V!Inc(tx_at) + k)
    <3> SUFFICES ASSUME NEW k \in 0 .. (d - 1) - 1
                 PROVE  tx_avail.ring[V!Slot(V!Inc(tx_at) + k)] = V!Slot(V!Inc(tx_at) + k)
      OBVIOUS
    <3>1. k + 1 \in 0 .. d - 1 /\ k \in Nat
      BY <1>1
    <3> QED BY <1>1, <3>1, SlotNext DEF RingsInv, TxWindow
  <2>2. d - 1 < d /\ d <= VNET_QSIZE
    BY <1>1 DEF RingsInv, TxWindow
  <2> HIDE DEF d
  <2>3. d - 1 <= VNET_QSIZE /\ d - 1 < VNET_QSIZE
    BY <1>1, <2>2, MachineAssumption
  <2> QED BY <1>1, <1>5, <2>1, <2>3 DEF RingsInv, TxWindow, V!DevSent
<1>7. txq' = txq /\ txhand' = txhand
  BY DEF V!DevSent, txq, txhand, V!TxFirst
<1> QED BY <1>4, <1>6, <1>7 DEF TxRefines

\* The device writes behind the window of the frames it has delivered.
LEMMA DevReceiveStep ==
    ASSUME RingsInv, NEW frame \in Frames, V!DevReceive(frame)
    PROVE  RingsTypeOK' /\ RxWindow' /\ RxPoll' /\ RxRefines
<1> DEFINE s == V!Slot(rx_at)
           d == V!Distance(rx_last_used, rx_at)
<1>1. /\ rx_last_used \in Indices /\ rx_at \in Indices /\ rx_avail.idx \in Indices
      /\ s \in V!Slots /\ d \in Nat
  BY DistanceNat, SlotWraps DEF RingsInv, RingsTypeOK, Ring, Indices
<1>2. d < VNET_QSIZE
  <2>1. d # V!Distance(rx_last_used, rx_avail.idx)
    BY <1>1, DistanceDiffers DEF V!DevReceive
  <2> QED BY <1>1, <2>1, MachineAssumption DEF RingsInv, RxWindow
<1>3. rx_buf' = [rx_buf EXCEPT ![s] = frame]
  BY <1>1 DEF RingsInv, RxWindow, V!DevReceive
<1>4. \A k \in 0 .. d - 1 : /\ V!Slot(rx_last_used + k) # s /\ V!Slot(rx_last_used + k) \in V!Slots
                            /\ rx_used.ring[V!Slot(rx_last_used + k)] = V!Slot(rx_last_used + k)
  BY <1>1, <1>2, SlotFree, SlotWraps DEF Indices, RingsInv, RxWindow
<1>5. \A k \in 0 .. d - 1 : rx_buf'[rx_used.ring[V!Slot(rx_last_used + k)]] =
                            rx_buf[rx_used.ring[V!Slot(rx_last_used + k)]]
  BY <1>1, <1>3, <1>4 DEF RingsInv, RingsTypeOK
<1>6. RingsTypeOK' /\ RxWindow' /\ RxPoll'
  BY <1>1, <1>3 DEF RingsInv, RingsTypeOK, RxWindow, RxPoll, V!DevReceive, V!tx
<1>7. poll.pc \in {"next", "input"} => d # 0 /\ 0 \in 0 .. d - 1
  <2> SUFFICES ASSUME poll.pc \in {"next", "input"} PROVE d # 0
    BY <1>1
  <2>1. V!Distance(rx_last_used, poll.snap) # 0 /\ V!Distance(rx_last_used, poll.snap) \in Nat
    BY <1>1, Arithmetic, DistanceNat DEF RingsInv, RxPoll, Polling
  <2> QED BY <1>1, <2>1 DEF RingsInv, RxPoll
<1>8. rxhand' = rxhand
  <2>1. CASE poll.pc = "input"
    <3>1. poll.id = V!Slot(rx_last_used + 0)
      BY <1>1, <2>1 DEF RingsInv, RxPoll, Indices
    <3>2. poll.id # s /\ poll.id \in V!Slots
      BY <1>4, <1>7, <2>1, <3>1
    <3> QED BY <1>3, <2>1, <3>2 DEF rxhand, V!DevReceive, RingsInv, RingsTypeOK
  <2>2. CASE poll.pc # "input"
    BY <2>2 DEF rxhand, V!DevReceive
  <2> QED BY <2>1, <2>2
<1>9. rxq' = rxq
  <2>1. V!RxFirst' = V!RxFirst /\ V!RxFirst \in Indices
    BY <1>1, Arithmetic DEF V!RxFirst, V!DevReceive
  <2>2. \A k \in 0 .. V!Distance(V!RxFirst, rx_at) - 1 :
           rx_buf'[rx_used.ring[V!Slot(V!RxFirst + k)]] = rx_buf[rx_used.ring[V!Slot(V!RxFirst + k)]]
    <3>1. CASE poll.pc # "input"
      BY <1>5, <3>1 DEF V!RxFirst
    <3>2. CASE poll.pc = "input"
      <4> SUFFICES ASSUME NEW k \in 0 .. V!Distance(V!Inc(rx_last_used), rx_at) - 1
                   PROVE  rx_buf'[rx_used.ring[V!Slot(V!Inc(rx_last_used) + k)]] =
                          rx_buf[rx_used.ring[V!Slot(V!Inc(rx_last_used) + k)]]
        BY <3>2 DEF V!RxFirst
      <4>0. rx_last_used # rx_at
        BY <1>1, <1>7, <3>2, Arithmetic
      <4>1. V!Distance(V!Inc(rx_last_used), rx_at) = d - 1
        BY <1>1, <4>0, Arithmetic
      <4>2. k + 1 \in 0 .. d - 1 /\ k \in Nat
        BY <1>1, <4>1
      <4> QED BY <1>1, <1>5, <4>2, SlotNext
    <3> QED BY <3>1, <3>2
  <2>3. V!Queued(rx_buf', rx_used.ring, V!RxFirst, rx_at) =
        V!Queued(rx_buf, rx_used.ring, V!RxFirst, rx_at)
    BY <1>1, <2>1, <2>2, QueuedSame
  <2> QED BY <2>1, <2>3 DEF rxq, RingsInv, RxWindow, V!DevReceive
<1> QED BY <1>6, <1>8, <1>9 DEF RxRefines

LEMMA DevReceivedStep ==
    ASSUME RingsInv, V!DevReceived
    PROVE  RingsTypeOK' /\ RxWindow' /\ RxPoll' /\ RxRefines
<1> DEFINE s == V!Slot(rx_at)
           d == V!Distance(rx_last_used, rx_at)
           ring == [rx_used.ring EXCEPT ![s] = s]
<1>1. /\ rx_last_used \in Indices /\ rx_at \in Indices /\ rx_avail.idx \in Indices
      /\ V!Inc(rx_at) \in Indices /\ s \in V!Slots /\ d \in Nat
  BY DistanceNat, SlotWraps, Arithmetic DEF RingsInv, RingsTypeOK, Ring, Indices
<1>2. /\ d < V!Distance(rx_last_used, rx_avail.idx)
      /\ V!Distance(rx_last_used, rx_avail.idx) <= VNET_QSIZE
      /\ d < VNET_QSIZE
  <2>1. d # V!Distance(rx_last_used, rx_avail.idx)
    BY <1>1, DistanceDiffers DEF V!DevReceived, RingsInv, RxWindow
  <2>2. V!Distance(rx_last_used, rx_avail.idx) \in Nat
    BY <1>1, DistanceNat
  <2> QED BY <1>1, <2>1, <2>2, MachineAssumption DEF RingsInv, RxWindow
<1>3. /\ rx_used' \in Ring /\ rx_used'.idx = V!Inc(rx_at) /\ rx_used'.ring = ring
      /\ rx_at' = V!Inc(rx_at) /\ rx_busy' = FALSE
      /\ UNCHANGED <<rx_buf, rx_avail, rx_last_used, poll, given, V!tx>>
  BY <1>1 DEF RingsInv, RingsTypeOK, Ring, RxWindow, V!DevReceived
<1>4. \A k \in 0 .. d - 1 : V!Slot(rx_last_used + k) # s /\ V!Slot(rx_last_used + k) \in V!Slots
  BY <1>1, <1>2, SlotFree, SlotWraps, MachineAssumption DEF Indices
<1>5. V!Distance(rx_last_used, V!Inc(rx_at)) = d + 1 /\ V!Slot(rx_last_used + d) = s
  <2>1. d < Wrap - 1
    BY <1>1, <1>2, MachineAssumption
  <2> QED BY <1>1, <2>1, Arithmetic, SlotEnd
<1>6. RingsTypeOK'
  BY <1>1, <1>3 DEF RingsInv, RingsTypeOK, V!tx
<1>7. RxWindow'
  <2>1. \A k \in 0 .. d : ring[V!Slot(rx_last_used + k)] = V!Slot(rx_last_used + k)
    <3> SUFFICES ASSUME NEW k \in 0 .. d
                 PROVE  ring[V!Slot(rx_last_used + k)] = V!Slot(rx_last_used + k)
      OBVIOUS
    <3>1. CASE k = d
      BY <1>1, <1>5, <3>1 DEF RingsInv, RingsTypeOK, Ring
    <3>2. CASE k \in 0 .. d - 1
      BY <1>1, <1>4, <3>2 DEF RingsInv, RingsTypeOK, Ring, RxWindow
    <3> QED BY <1>1, <3>1, <3>2
  <2> HIDE DEF d, ring
  <2>2. (d + 1) - 1 = d /\ d + 1 <= V!Distance(rx_last_used, rx_avail.idx)
    <3>1. V!Distance(rx_last_used, rx_avail.idx) \in Nat
      BY <1>1, DistanceNat
    <3> QED BY <1>1, <1>2, <3>1
  <2> QED BY <1>3, <1>5, <2>1, <2>2 DEF RingsInv, RxWindow
<1>8. RxPoll'
  <2>1. poll.pc # "idle" => V!Distance(rx_last_used, poll.snap) <= d + 1
    <3> SUFFICES ASSUME poll.pc # "idle" PROVE V!Distance(rx_last_used, poll.snap) <= d + 1
      OBVIOUS
    <3>1. V!Distance(rx_last_used, poll.snap) \in Nat /\ V!Distance(rx_last_used, poll.snap) <= d
      BY <1>1, DistanceNat DEF RingsInv, RxPoll, Polling
    <3> QED BY <1>1, <3>1
  <2> QED BY <1>3, <1>5, <2>1 DEF RingsInv, RxPoll
<1>9. rxhand' = rxhand
  BY <1>3 DEF rxhand
<1>10. RxPut
  <2>1. V!RxFirst' = V!RxFirst /\ V!RxFirst \in Indices
    BY <1>1, <1>3, Arithmetic DEF V!RxFirst
  <2>2. /\ V!Distance(V!RxFirst, rx_at) \in Nat /\ V!Distance(V!RxFirst, rx_at) <= d
    <3>1. CASE poll.pc # "input"
      BY <1>1, <3>1 DEF V!RxFirst
    <3>2. CASE poll.pc = "input"
      <4>1. V!Distance(rx_last_used, poll.snap) # 0 /\ V!Distance(rx_last_used, poll.snap) \in Nat
        BY <1>1, <3>2, Arithmetic, DistanceNat DEF RingsInv, RxPoll, Polling
      <4>2. d # 0
        BY <1>1, <3>2, <4>1 DEF RingsInv, RxPoll
      <4>3. V!Distance(V!Inc(rx_last_used), rx_at) = d - 1
        BY <1>1, <4>2, Arithmetic
      <4> QED BY <1>1, <3>2, <4>2, <4>3 DEF V!RxFirst
    <3> QED BY <3>1, <3>2
  <2>3. V!Distance(V!RxFirst, rx_at) < VNET_QSIZE
    <3>1. V!Distance(rx_last_used, rx_avail.idx) \in Nat
      BY <1>1, DistanceNat
    <3> QED BY <1>1, <1>2, <2>2, <3>1, MachineAssumption
  <2>4. rx_buf \in [V!Slots -> Frames] /\ rx_used.ring \in [V!Slots -> V!Slots] /\ ring \in [V!Slots -> V!Slots]
    BY <1>3 DEF RingsInv, RingsTypeOK, Ring
  <2>5. V!Queued(rx_buf, ring, V!RxFirst, V!Inc(rx_at)) =
           Append(V!Queued(rx_buf, ring, V!RxFirst, rx_at), rx_buf[ring[s]])
    BY <1>1, <2>1, <2>3, <2>4, QueuedPut
  <2>6. \A k \in 0 .. V!Distance(V!RxFirst, rx_at) - 1 :
           rx_buf[ring[V!Slot(V!RxFirst + k)]] = rx_buf[rx_used.ring[V!Slot(V!RxFirst + k)]]
    <3> SUFFICES ASSUME NEW k \in 0 .. V!Distance(V!RxFirst, rx_at) - 1
                 PROVE  V!Slot(V!RxFirst + k) # s
      BY <2>4
    <3> QED BY <1>1, <2>1, <2>3, SlotFree
  <2>7. V!Queued(rx_buf, ring, V!RxFirst, rx_at) = V!Queued(rx_buf, rx_used.ring, V!RxFirst, rx_at)
    <3> HIDE DEF ring
    <3> QED BY <1>1, <2>1, <2>6, QueuedSame
  <2>8. rx_used.idx = rx_at
    BY DEF RingsInv, RxWindow
  <2>9. rxq' = Append(rxq, rx_buf[ring[s]])
    BY <1>3, <2>1, <2>5, <2>7, <2>8 DEF rxq
  <2>10. Len(rxq) < VNET_QSIZE
    BY <1>1, <2>1, <2>3, <2>4, <2>8, QueuedType DEF rxq
  <2>11. rx_buf[ring[s]] \in Frames
    BY <1>1, <2>4
  <2> QED BY <1>9, <2>9, <2>10, <2>11 DEF RxPut
<1> QED BY <1>6, <1>7, <1>8, <1>10 DEF RxRefines

LEMMA SnapshotStep ==
    ASSUME RingsInv, V!Snapshot
    PROVE  RingsTypeOK' /\ RxWindow' /\ RxPoll' /\ RxRefines
<1>1. poll' \in Polling /\ poll'.pc = "next" /\ poll'.snap = rx_at
  BY MachineAssumption DEF RingsInv, RingsTypeOK, RxWindow, Polling, V!Snapshot, V!Slots
<1>2. RingsTypeOK'
  BY <1>1 DEF RingsInv, RingsTypeOK, V!Snapshot, V!tx
<1>3. RxWindow'
  BY <1>1 DEF RingsInv, RxWindow, V!Snapshot
<1>4. RxPoll'
  <2>1. V!Distance(rx_last_used, rx_at) <= V!Distance(rx_last_used, rx_at)
    BY DistanceNat DEF RingsInv, RingsTypeOK
  <2> QED BY <1>1, <2>1 DEF RingsInv, RxWindow, RxPoll, V!Snapshot
<1>5. rxq' = rxq /\ rxhand' = rxhand
  BY <1>1 DEF rxq, rxhand, V!RxFirst, V!Snapshot
<1> QED BY <1>2, <1>3, <1>4, <1>5 DEF RxRefines

LEMMA InputStep ==
    ASSUME RingsInv, V!Input
    PROVE  RingsTypeOK' /\ RxWindow' /\ RxPoll' /\ RxRefines
<1>1. /\ rx_last_used \in Indices /\ rx_at \in Indices /\ rx_used.idx = rx_at
      /\ poll \in Polling /\ rx_last_used # poll.snap /\ V!Slot(rx_last_used) \in V!Slots
  BY SlotWraps DEF RingsInv, RingsTypeOK, RxWindow, RxPoll, V!Input, Indices
<1>2. V!Distance(rx_last_used, rx_at) \in Nat \ {0} /\ rx_last_used # rx_at
  <2>1. V!Distance(rx_last_used, poll.snap) # 0 /\ V!Distance(rx_last_used, poll.snap) \in Nat
    BY <1>1, Arithmetic, DistanceNat DEF Polling
  <2>2. V!Distance(rx_last_used, rx_at) # 0 /\ V!Distance(rx_last_used, rx_at) \in Nat
    BY <1>1, <2>1, DistanceNat DEF RingsInv, RxPoll, V!Input
  <2> QED BY <1>1, <2>2, Arithmetic
<1>3. rx_used.ring[V!Slot(rx_last_used)] = V!Slot(rx_last_used)
  <2>1. 0 \in 0 .. V!Distance(rx_last_used, rx_at) - 1 /\ rx_last_used + 0 = rx_last_used
    BY <1>1, <1>2 DEF Indices
  <2> QED BY <2>1 DEF RingsInv, RxWindow
<1>4. /\ poll' \in Polling /\ poll'.pc = "input" /\ poll'.snap = poll.snap
      /\ poll'.id = V!Slot(rx_last_used)
  BY <1>1, <1>3 DEF V!Input, Polling
<1>5. RingsTypeOK'
  BY <1>4 DEF RingsInv, RingsTypeOK, V!Input, V!tx
<1>6. RxWindow' /\ RxPoll'
  BY <1>1, <1>4 DEF RingsInv, RxWindow, RxPoll, V!Input
<1>7. rx_buf \in [V!Slots -> Frames] /\ rx_used.ring \in [V!Slots -> V!Slots]
  BY DEF RingsInv, RingsTypeOK, Ring
<1>8. RxTake
  BY <1>1, <1>2, <1>3, <1>4, <1>7, QueuedTake DEF RxTake, rxq, rxhand, V!RxFirst, V!Input
<1> QED BY <1>5, <1>6, <1>8 DEF RxRefines

\* The descriptor goes back into the slot it came from.
LEMMA InputDoneStep ==
    ASSUME RingsInv, V!InputDone
    PROVE  RingsTypeOK' /\ RxWindow' /\ RxPoll' /\ RxRefines
<1> DEFINE d == V!Distance(rx_last_used, rx_at)
<1>1. /\ rx_last_used \in Indices /\ rx_at \in Indices /\ rx_avail.idx \in Indices
      /\ rx_used.idx = rx_at /\ V!Inc(rx_last_used) \in Indices
      /\ poll \in Polling /\ rx_last_used # poll.snap /\ poll.id = V!Slot(rx_last_used)
  BY Arithmetic DEF RingsInv, RingsTypeOK, RxWindow, RxPoll, V!InputDone, Ring
<1>2. /\ V!Distance(rx_last_used, poll.snap) \in Nat \ {0}
      /\ V!Distance(rx_last_used, poll.snap) <= d /\ d \in Nat \ {0} /\ rx_last_used # rx_at
  <2>1. V!Distance(rx_last_used, poll.snap) # 0 /\ V!Distance(rx_last_used, poll.snap) \in Nat
    BY <1>1, Arithmetic, DistanceNat DEF Polling
  <2>2. V!Distance(rx_last_used, poll.snap) <= d /\ d \in Nat
    BY <1>1, DistanceNat DEF RingsInv, RxPoll, V!InputDone
  <2>3. d # 0
    BY <2>1, <2>2
  <2> QED BY <1>1, <2>1, <2>2, <2>3, Arithmetic
<1>3. /\ V!Distance(V!Inc(rx_last_used), rx_at) = d - 1
      /\ V!Distance(V!Inc(rx_last_used), poll.snap) = V!Distance(rx_last_used, poll.snap) - 1
  BY <1>1, <1>2, Arithmetic DEF Polling
<1>4. /\ V!Distance(rx_last_used, rx_avail.idx) = VNET_QSIZE
      /\ V!Slot(rx_avail.idx) = V!Slot(rx_last_used)
  <2>1. V!Distance(rx_last_used, rx_avail.idx) = VNET_QSIZE
    BY DEF RingsInv, RxWindow, V!InputDone
  <2>2. V!Slot(rx_last_used + VNET_QSIZE) = V!Slot(rx_avail.idx)
    BY <1>1, <2>1, SlotEnd
  <2>3. V!Slot(rx_last_used + VNET_QSIZE * 1) = V!Slot(rx_last_used)
    BY <1>1, SlotPeriod DEF Indices
  <2>4. VNET_QSIZE * 1 = VNET_QSIZE
    BY MachineAssumption
  <2> QED BY <2>1, <2>2, <2>3, <2>4
<1>5. V!Distance(V!Inc(rx_last_used), rx_avail.idx) = VNET_QSIZE - 1
  <2>1. rx_last_used # rx_avail.idx
    BY <1>1, <1>4, Arithmetic, MachineAssumption
  <2> QED BY <1>1, <1>4, <2>1, Arithmetic
<1>6. /\ rx_avail' \in Ring /\ rx_avail'.idx = rx_avail.idx
      /\ \A s \in V!Slots : rx_avail'.ring[s] = s
  BY <1>1, <1>4 DEF RingsInv, RingsTypeOK, RxWindow, Ring, Polling, V!InputDone
<1>7. /\ poll' \in Polling /\ poll'.pc = "repost" /\ poll'.snap = poll.snap /\ poll'.id = poll.id
      /\ rx_last_used' = V!Inc(rx_last_used) /\ given' = rx_buf[poll.id]
      /\ UNCHANGED <<rx_buf, rx_used, rx_at, rx_busy, V!tx>>
  BY <1>1 DEF V!InputDone, Polling
<1>8. RingsTypeOK'
  BY <1>1, <1>6, <1>7 DEF RingsInv, RingsTypeOK, Polling, V!tx
<1>9. RxWindow'
  <2>1. \A k \in 0 .. (d - 1) - 1 :
           rx_used.ring[V!Slot(V!Inc(rx_last_used) + k)] = V!Slot(V!Inc(rx_last_used) + k)
    <3> SUFFICES ASSUME NEW k \in 0 .. (d - 1) - 1
                 PROVE  rx_used.ring[V!Slot(V!Inc(rx_last_used) + k)] = V!Slot(V!Inc(rx_last_used) + k)
      OBVIOUS
    <3>1. k + 1 \in 0 .. d - 1 /\ k \in Nat
      BY <1>2
    <3> QED BY <1>1, <3>1, SlotNext DEF RingsInv, RxWindow
  <2>2. d <= VNET_QSIZE
    BY <1>4 DEF RingsInv, RxWindow
  <2> HIDE DEF d
  <2>3. d - 1 <= VNET_QSIZE - 1
    BY <1>2, <2>2, MachineAssumption
  <2> QED BY <1>3, <1>5, <1>6, <1>7, <2>1, <2>3 DEF RingsInv, RxWindow
<1>10. RxPoll'
  <2> HIDE DEF d
  <2>1. V!Distance(V!Inc(rx_last_used), poll.snap) <= V!Distance(V!Inc(rx_last_used), rx_at)
    BY <1>2, <1>3
  <2> QED BY <1>1, <1>4, <1>6, <1>7, <2>1 DEF RxPoll
<1>11. rxq' = rxq /\ rxhand' = rxhand
  BY <1>7 DEF rxq, rxhand, V!RxFirst, V!InputDone
<1> QED BY <1>8, <1>9, <1>10, <1>11 DEF RxRefines

LEMMA RepostStep ==
    ASSUME RingsInv, V!Repost
    PROVE  RingsTypeOK' /\ RxWindow' /\ RxPoll' /\ RxRefines
<1> DEFINE d == V!Distance(rx_last_used, rx_avail.idx)
<1>1. /\ rx_last_used \in Indices /\ rx_at \in Indices /\ rx_avail.idx \in Indices
      /\ V!Inc(rx_avail.idx) \in Indices /\ poll \in Polling
  BY Arithmetic DEF RingsInv, RingsTypeOK, RxPoll, V!Repost, Ring
<1>2. d = VNET_QSIZE - 1 /\ V!Distance(rx_last_used, V!Inc(rx_avail.idx)) = VNET_QSIZE
  <2>1. d = VNET_QSIZE - 1
    BY DEF RingsInv, RxWindow, V!Repost
  <2>2. d < Wrap - 1
    BY <2>1, MachineAssumption
  <2>3. V!Distance(rx_last_used, V!Inc(rx_avail.idx)) = d + 1
    BY <1>1, <2>2, Arithmetic
  <2> QED BY <2>1, <2>3, MachineAssumption
<1>3. /\ rx_avail' \in Ring /\ rx_avail'.idx = V!Inc(rx_avail.idx) /\ rx_avail'.ring = rx_avail.ring
  BY <1>1 DEF RingsInv, RingsTypeOK, Ring, V!Repost
<1>4. /\ poll' \in Polling /\ poll'.snap = poll.snap
      /\ poll'.pc = IF rx_last_used = poll.snap THEN "idle" ELSE "next"
      /\ UNCHANGED <<rx_buf, rx_used, rx_last_used, rx_at, rx_busy, given, V!tx>>
  BY <1>1 DEF V!Repost, Polling
<1>5. RingsTypeOK'
  BY <1>3, <1>4 DEF RingsInv, RingsTypeOK, V!tx
<1>6. V!Distance(rx_last_used, rx_at) \in Nat /\ V!Distance(rx_last_used, rx_at) <= VNET_QSIZE - 1
  BY <1>1, <1>2, DistanceNat DEF RingsInv, RxWindow
<1>7. RxWindow'
  <2>1. V!Distance(rx_last_used, rx_at) <= VNET_QSIZE
    BY <1>6, MachineAssumption
  <2>2. rx_at # V!Inc(rx_avail.idx)
    BY <1>2, <1>6, MachineAssumption
  <2> QED BY <1>2, <1>3, <1>4, <2>1, <2>2 DEF RingsInv, RxWindow
<1>8. RxPoll'
  BY <1>4 DEF RingsInv, RxPoll, V!Repost
<1>9. rxq' = rxq /\ rxhand' = rxhand
  BY <1>4 DEF rxq, rxhand, V!RxFirst, V!Repost
<1> QED BY <1>5, <1>7, <1>8, <1>9 DEF RxRefines

LEMMA RingsStep ==
    ASSUME RingsInv, V!Next \/ UNCHANGED V!vars
    PROVE  RingsInv' /\ TxRefines /\ RxRefines
<1>1. ASSUME NEW frame \in Frames, V!TxFill(frame) PROVE RingsInv' /\ TxRefines /\ RxRefines
  <2>1. UNCHANGED V!rx
    BY <1>1 DEF V!TxFill
  <2> QED BY <1>1, <2>1, TxFillStep, RxStill DEF RingsInv
<1>2. CASE V!TxPublish \/ V!DevSend \/ V!DevSent
  <2>1. UNCHANGED V!rx
    BY <1>2 DEF V!TxPublish, V!DevSend, V!DevSent
  <2> QED BY <1>2, <2>1, TxPublishStep, DevSendStep, DevSentStep, RxStill DEF RingsInv
<1>3. ASSUME NEW frame \in Frames, V!DevReceive(frame) PROVE RingsInv' /\ TxRefines /\ RxRefines
  <2>1. UNCHANGED V!tx
    BY <1>3 DEF V!DevReceive
  <2> QED BY <1>3, <2>1, DevReceiveStep, TxStill DEF RingsInv
<1>4. CASE V!DevReceived \/ V!Snapshot \/ V!Input \/ V!InputDone \/ V!Repost
  <2>1. UNCHANGED V!tx
    BY <1>4 DEF V!DevReceived, V!Snapshot, V!Input, V!InputDone, V!Repost
  <2> QED BY <1>4, <2>1, DevReceivedStep, SnapshotStep, InputStep, InputDoneStep, RepostStep, TxStill
       DEF RingsInv
<1>5. CASE UNCHANGED V!vars
  <2>1. UNCHANGED V!rx /\ UNCHANGED V!tx
    BY <1>5 DEF V!vars
  <2>2. RingsTypeOK'
    BY <2>1 DEF RingsInv, RingsTypeOK, V!rx, V!tx
  <2> QED BY <2>1, <2>2, TxStill, RxStill DEF RingsInv
<1> QED BY <1>1, <1>2, <1>3, <1>4, <1>5 DEF V!Next

LEMMA RingsStart == V!Init => V!Tx!Init /\ V!Rx!Init
<1> SUFFICES ASSUME V!Init PROVE V!Tx!Init /\ V!Rx!Init
  OBVIOUS
<1>1. V!Distance(0, 0) = 0 /\ 0 \in Indices
  BY DistanceIs, MachineAssumption DEF Indices
<1>2. \A buf, ring : V!Queued(buf, ring, 0, 0) = <<>>
  BY <1>1 DEF V!Queued
<1>3. V!AFrame \in Frames
  BY MachineAssumption DEF V!AFrame
<1>4. txq = <<>> /\ rxq = <<>>
  BY <1>2 DEF V!Init, txq, rxq, V!TxFirst, V!RxFirst
<1>5. txhand \in Frames /\ rxhand \in Frames
  BY <1>3 DEF V!Init, txhand, rxhand
<1> QED BY <1>4, <1>5 DEF V!Tx!Init, V!Rx!Init, txq, rxq, txhand, rxhand

\* Both rings of virtio-net are bounded queues, whatever the size of the queue and the
\* width of the indices: each frame comes out once, in order and as it went in.
THEOREM RingsRefine == MachineSpec => RingsAreQueues
<1>1. MachineInit => RingsInv /\ V!Tx!Init /\ V!Rx!Init
  BY RingsInit, RingsStart DEF MachineInit
<1>2. RingsInv /\ [MachineNext]_machine_vars => RingsInv' /\ TxRefines /\ RxRefines
  <2> SUFFICES ASSUME RingsInv, [MachineNext]_machine_vars
               PROVE  RingsInv' /\ TxRefines /\ RxRefines
    OBVIOUS
  <2>1. V!Next \/ UNCHANGED V!vars
    BY DEF MachineNext, InMemory, InNetLock, InVirtio, InDevAgent, machine_vars, virtio,
           V!vars, V!rx, V!tx
  <2> QED BY <2>1, RingsStep
<1>3. TxRefines => [V!Tx!Next]_<<txq, txhand>>
  BY DEF TxRefines, TxPut, TxTake, V!Tx!Next, V!Tx!Put, V!Tx!Take, txq, txhand
<1>4. RxRefines => [V!Rx!Next]_<<rxq, rxhand>>
  BY DEF RxRefines, RxPut, RxTake, V!Rx!Next, V!Rx!Put, V!Rx!Take, rxq, rxhand
<1>5. RingsInv /\ [MachineNext]_machine_vars =>
         RingsInv' /\ [V!Tx!Next]_<<txq, txhand>> /\ [V!Rx!Next]_<<rxq, rxhand>>
  BY <1>2, <1>3, <1>4
<1> QED BY <1>1, <1>5, PTL
     DEF MachineSpec, RingsAreQueues, V!RingsAreQueues, V!Tx!Spec, V!Rx!Spec, txq, txhand, rxq, rxhand

-----------------------------------------------------------------------------
(***************************************************************************)
(* DevAgent                                                                *)
(***************************************************************************)
Buffers == UNION {[S -> Nat] : S \in SUBSET Nat}

DevTypeOK ==
    /\ host \in [n : Nat, what : Nat, tries : Nat, end : {"open", "ok", "failed"}]
    /\ file \in [path : Nat, total : Nat, buf : Buffers, got : SUBSET Nat]
    /\ file_active \in BOOLEAN
    /\ netFaults \in 0 .. MaxNetFaults
    /\ IsFiniteSet(up) /\ IsFiniteSet(down) /\ IsFiniteSet(file.got)

\* The host is within its file, and nothing on its way is ahead of it.
HostInv == host.end = "open" => host.n \in D!Transfers /\ host.what <= Len(File[host.n]) + 1
Sane(p) ==
    /\ p.n \in D!Transfers /\ p.n <= host.n /\ p.what \in 0 .. Len(File[p.n]) + 1
    /\ p.n = host.n => p.what <= host.what
PacketsInv == \A p \in up : Sane(p)

\* Each chunk of the table is that chunk of some file.
Filled(i) ==
    /\ i \in 1 .. file.total /\ i \in DOMAIN file.buf
    /\ \E k \in D!Transfers : i <= Len(File[k]) /\ file.buf[i] = File[k][i]
TableInv ==
    /\ \A i \in file.got : Filled(i)
    /\ file_active => file.path \in D!Transfers /\ file.total = Len(File[file.path])

\* Of what is on its way one packet is due to no fault, while a transfer runs.
Travelling ==
    Cardinality(up) + Cardinality(down) <= netFaults + (IF host.end = "open" THEN 1 ELSE 0)

OkDown == \E p \in down : p.type = "OK"
OkSeen == host.end = "ok" \/ (host.end = "open" /\ OkDown)
\* What the table has taken of the packets since the last FILE_END
Used == IF file_active THEN 1 + Cardinality(file.got) ELSE 0
OkInv ==
    /\ host.end = "open" /\ OkDown => D!AtEnd(host)
    /\ OkSeen => written.data = File[host.n] /\ Cardinality(up) + Used <= netFaults

DevInv == DevTypeOK /\ HostInv /\ PacketsInv /\ TableInv /\ Travelling /\ OkInv

-----------------------------------------------------------------------------
LEMMA FileIs ==
    ASSUME NEW n \in D!Transfers
    PROVE  /\ n \in Nat /\ File[n] \in Seq(Nat) /\ Len(File[n]) \in Nat
           /\ \A i \in 1 .. Len(File[n]) : File[n][i] \in Nat
<1>1. n \in 1 .. Len(File) /\ File[n] \in Seq(Nat)
  BY TransferAssumption DEF D!Transfers
<1> QED BY <1>1

\* Numbers of packets
LEMMA OneMore ==
    ASSUME NEW S, IsFiniteSet(S), NEW x
    PROVE  /\ IsFiniteSet(S \cup {x}) /\ Cardinality(S) \in Nat
           /\ Cardinality(S \cup {x}) \in Nat /\ Cardinality(S \cup {x}) <= Cardinality(S) + 1
BY FS_AddElement, FS_CardinalityType

LEMMA OneLess ==
    ASSUME NEW S, IsFiniteSet(S), NEW x \in S
    PROVE  /\ IsFiniteSet(S \ {x}) /\ Cardinality(S) \in Nat
           /\ Cardinality(S \ {x}) \in Nat /\ Cardinality(S \ {x}) = Cardinality(S) - 1
BY FS_RemoveElement, FS_CardinalityType

\* A table that has as many chunks as it should has all of them.
LEMMA TableFull ==
    ASSUME NEW t \in Nat, NEW G, IsFiniteSet(G), G \subseteq 1 .. t, Cardinality(G) = t
    PROVE  G = 1 .. t
<1>1. IsFiniteSet(1 .. t) /\ Cardinality(1 .. t) = t
  BY FS_Interval
<1> QED BY <1>1, FS_Subset

LEMMA SameSize == \A S : D!Cardinality(S) = Cardinality(S)
BY Zenon DEF Cardinality, D!Cardinality

LEMMA DevStart == D!Init => DevInv
<1> SUFFICES ASSUME D!Init PROVE DevInv
  OBVIOUS
<1>0. IsFiniteSet({}) /\ Cardinality({}) = 0
  BY FS_EmptySet
<1>1. <<>> \in Buffers
  BY DEF Buffers
<1>2. DevTypeOK
  <2>1. file = [path |-> 0, total |-> 0, buf |-> <<>>, got |-> {}]
        /\ host = [n |-> 0, what |-> 0, tries |-> 0, end |-> "failed"]
        /\ file_active = FALSE /\ netFaults = 0 /\ up = {} /\ down = {}
    BY DEF D!Init
  <2>2. file \in [path : Nat, total : Nat, buf : Buffers, got : SUBSET Nat] /\ file.got = {}
    BY <2>1, <1>1
  <2>3. host \in [n : Nat, what : Nat, tries : Nat, end : {"open", "ok", "failed"}]
    BY <2>1
  <2>4. IsFiniteSet(up) /\ IsFiniteSet(down) /\ IsFiniteSet(file.got)
    BY <1>0, <2>1, <2>2
  <2>5. MaxNetFaults \in Nat
    BY TransferAssumption
  <2>6. netFaults \in 0 .. MaxNetFaults
    BY <2>1, <2>5
  <2>7. file_active \in BOOLEAN
    BY <2>1, Zenon
  <2> QED BY <2>2, <2>3, <2>4, <2>6, <2>7 DEF DevTypeOK
<1>3. HostInv /\ PacketsInv /\ TableInv
  BY DEF D!Init, HostInv, PacketsInv, TableInv
<1>4. Travelling
  BY <1>0, TransferAssumption DEF D!Init, Travelling
<1>5. OkInv
  BY DEF D!Init, OkInv, OkSeen, OkDown
<1> QED BY <1>2, <1>3, <1>4, <1>5 DEF DevInv

-----------------------------------------------------------------------------
\* The host
LEMMA SendfileStep ==
    ASSUME DevInv, D!sendfile
    PROVE  DevInv'
<1>0. IsFiniteSet({}) /\ Cardinality({}) = 0
  BY FS_EmptySet
<1>1. /\ host.end # "open" /\ host.n + 1 \in D!Transfers /\ host.n \in Nat
      /\ host' = [n |-> host.n + 1, what |-> 0, tries |-> 1, end |-> "open"]
      /\ down' = {} /\ UNCHANGED <<file_active, file, written, netFaults>>
  BY DEF D!sendfile, D!agent, DevInv, DevTypeOK
<1>9. PICK q : up' = up \cup {q} /\ q.n = host.n + 1 /\ q.what = 0
  <2> DEFINE r == [n |-> host.n + 1, what |-> 0, copy |-> 1]
  <2>1. r.n = host.n + 1 /\ r.what = 0
    OBVIOUS
  <2>2. up' = up \cup {r}
    BY DEF D!sendfile, D!Send
  <2> HIDE DEF r
  <2> QED BY <2>1, <2>2
<1>10. /\ IsFiniteSet(up') /\ Cardinality(up) \in Nat /\ Cardinality(down) \in Nat
       /\ Cardinality(up') \in Nat /\ Cardinality(up') <= Cardinality(up) + 1
  BY <1>9, OneMore, FS_CardinalityType DEF DevInv, DevTypeOK
<1>2. Len(File[host.n + 1]) \in Nat
  BY <1>1, FileIs
<1>3. DevTypeOK'
  BY <1>0, <1>1, <1>10 DEF DevInv, DevTypeOK
<1>4. HostInv'
  BY <1>1, <1>2 DEF HostInv
<1>5. PacketsInv'
  BY <1>1, <1>2, <1>9, FileIs DEF DevInv, PacketsInv, Sane
<1>6. TableInv'
  BY <1>1 DEF DevInv, TableInv, Filled
<1>7. Travelling'
  <2>1. netFaults \in Int
    BY DEF DevInv, DevTypeOK
  <2>2. Cardinality(up) + Cardinality(down) <= netFaults
    BY <1>1, <1>10, <2>1 DEF DevInv, Travelling
  <2> QED BY <1>0, <1>1, <1>10, <2>1, <2>2 DEF Travelling
<1>8. OkInv'
  BY <1>1 DEF OkInv, OkSeen, OkDown
<1> QED BY <1>3, <1>4, <1>5, <1>6, <1>7, <1>8 DEF DevInv

LEMMA TimeoutStep ==
    ASSUME DevInv, D!Timeout
    PROVE  DevInv'
<1>1. /\ host.end = "open" /\ host.n \in D!Transfers /\ host.n \in Nat /\ host.what \in Nat
      /\ host.what <= Len(File[host.n]) + 1 /\ Len(File[host.n]) \in Nat
      /\ netFaults' = netFaults + 1 /\ netFaults' \in 0 .. MaxNetFaults
      /\ UNCHANGED <<down, file_active, file, written>>
  BY TransferAssumption, FileIs
     DEF D!Timeout, D!Fault, D!agent, DevInv, DevTypeOK, HostInv
<1>2. PICK q :
        /\ q.n = host.n /\ q.what = host.what
        /\ \/ ~D!AtEnd(host) /\ host' = [host EXCEPT !.tries = @ + 1] /\ up' = up \cup {q}
           \/ host' = [host EXCEPT !.end = "failed"] /\ up' = up
  <2> DEFINE r == [n |-> host.n, what |-> host.what, copy |-> host.tries + 1]
  <2>1. r.n = host.n /\ r.what = host.what
    OBVIOUS
  <2>2. \/ ~D!AtEnd(host) /\ host' = [host EXCEPT !.tries = @ + 1] /\ up' = up \cup {r}
        \/ host' = [host EXCEPT !.end = "failed"] /\ up' = up
    BY DEF D!Timeout, D!Send
  <2> HIDE DEF r
  <2> QED BY <2>1, <2>2
<1>10. /\ IsFiniteSet(up') /\ Cardinality(up) \in Nat /\ Cardinality(down) \in Nat
       /\ Cardinality(up') \in Nat /\ Cardinality(up') <= Cardinality(up) + 1
  <2>1. IsFiniteSet(up) /\ IsFiniteSet(down) /\ (up' = up \cup {q} \/ up' = up)
    BY <1>2 DEF DevInv, DevTypeOK
  <2>2. CASE up' = up
    BY <2>1, <2>2, FS_CardinalityType
  <2>3. CASE up' = up \cup {q}
    BY <2>1, <2>3, OneMore, FS_CardinalityType
  <2> QED BY <2>1, <2>2, <2>3
<1>3. DevTypeOK'
  <2>1. host' \in [n : Nat, what : Nat, tries : Nat, end : {"open", "ok", "failed"}]
    BY <1>2 DEF DevInv, DevTypeOK
  <2> QED BY <1>1, <1>10, <2>1 DEF DevInv, DevTypeOK
<1>4. /\ host'.n = host.n /\ host'.what = host.what
      /\ (host'.end = "open" /\ ~D!AtEnd(host)) \/ host'.end = "failed"
  BY <1>1, <1>2 DEF DevInv, DevTypeOK
<1>5. HostInv'
  BY <1>1, <1>4 DEF HostInv
<1>6. PacketsInv'
  <2>1. up' \subseteq up \cup {q}
    BY <1>2
  <2>2. Sane(q)'
    BY <1>1, <1>2, <1>4 DEF Sane
  <2>3. \A p \in up : Sane(p)'
    BY <1>4 DEF DevInv, PacketsInv, Sane
  <2> QED BY <2>1, <2>2, <2>3 DEF PacketsInv
<1>7. TableInv'
  BY <1>1 DEF DevInv, TableInv, Filled
<1>8. Travelling'
  <2>1. Cardinality(up) + Cardinality(down) <= netFaults + 1
    BY <1>1 DEF DevInv, Travelling
  <2>2. netFaults \in Int
    BY DEF DevInv, DevTypeOK
  <2>3. CASE host'.end = "open"
    BY <1>1, <1>10, <2>1, <2>2, <2>3 DEF Travelling
  <2>4. CASE host'.end = "failed"
    <3>1. up' = up
      BY <1>1, <1>2, <2>4 DEF DevInv, DevTypeOK
    <3> QED BY <1>1, <1>10, <2>1, <2>2, <2>4, <3>1 DEF Travelling
  <2> QED BY <1>4, <2>3, <2>4
<1>9. OkInv'
  BY <1>1, <1>4 DEF DevInv, OkInv, OkSeen, OkDown
<1> QED BY <1>3, <1>5, <1>6, <1>7, <1>8, <1>9 DEF DevInv

LEMMA RecvStep ==
    ASSUME DevInv, NEW p \in down, D!recv(p), down' = down \ {p}
    PROVE  DevInv'
<1>1. /\ host.end = "open" /\ host.n \in D!Transfers /\ host.n \in Nat /\ host.what \in Nat
      /\ host.what <= Len(File[host.n]) + 1 /\ Len(File[host.n]) \in Nat
      /\ UNCHANGED <<file_active, file, written, netFaults>>
  BY FileIs DEF D!recv, D!agent, DevInv, DevTypeOK, HostInv
<1>2. PICK q :
        /\ q.n = host.n /\ q.what = host.what + 1
        /\ \/ /\ D!AtEnd(host) /\ up' = up
              /\ host' = [host EXCEPT !.end = IF p.type = "OK" THEN "ok" ELSE "failed"]
           \/ /\ ~D!AtEnd(host) /\ up' = up \cup {q}
              /\ host' = [host EXCEPT !.what = @ + 1, !.tries = 1]
           \/ ~D!AtEnd(host) /\ host' = host /\ up' = up
  <2> DEFINE r == [n |-> host.n, what |-> host.what + 1, copy |-> 1]
  <2>1. r.n = host.n /\ r.what = host.what + 1
    OBVIOUS
  <2>2. \/ /\ D!AtEnd(host) /\ up' = up
           /\ host' = [host EXCEPT !.end = IF p.type = "OK" THEN "ok" ELSE "failed"]
        \/ /\ ~D!AtEnd(host) /\ up' = up \cup {r}
           /\ host' = [host EXCEPT !.what = @ + 1, !.tries = 1]
        \/ ~D!AtEnd(host) /\ host' = host /\ up' = up
    BY DEF D!recv, D!Send
  <2> HIDE DEF r
  <2> QED BY <2>1, <2>2
<1>3. /\ IsFiniteSet(down') /\ Cardinality(down) \in Nat
      /\ Cardinality(down') \in Nat /\ Cardinality(down') = Cardinality(down) - 1
  BY OneLess DEF DevInv, DevTypeOK
<1>4. /\ IsFiniteSet(up') /\ Cardinality(up) \in Nat
      /\ Cardinality(up') \in Nat /\ Cardinality(up') <= Cardinality(up) + 1
  <2>1. IsFiniteSet(up) /\ (up' = up \cup {q} \/ up' = up)
    BY <1>2 DEF DevInv, DevTypeOK
  <2>2. CASE up' = up
    BY <2>1, <2>2, FS_CardinalityType
  <2>3. CASE up' = up \cup {q}
    BY <2>1, <2>3, OneMore
  <2> QED BY <2>1, <2>2, <2>3
<1>5. DevTypeOK'
  <2>1. host' \in [n : Nat, what : Nat, tries : Nat, end : {"open", "ok", "failed"}]
    <3>1. host \in [n : Nat, what : Nat, tries : Nat, end : {"open", "ok", "failed"}]
      BY DEF DevInv, DevTypeOK
    <3>2. CASE host' = [host EXCEPT !.end = IF p.type = "OK" THEN "ok" ELSE "failed"]
      BY <3>1, <3>2
    <3>3. CASE host' = [host EXCEPT !.what = @ + 1, !.tries = 1]
      <4>1. host.what + 1 \in Nat
        BY <1>1
      <4> QED BY <3>1, <3>3, <4>1
    <3>4. CASE host' = host
      BY <3>1, <3>4
    <3> QED BY <1>2, <3>2, <3>3, <3>4
  <2> QED BY <1>1, <1>3, <1>4, <2>1 DEF DevInv, DevTypeOK
<1>6. Cardinality(up) + Cardinality(down) <= netFaults + 1 /\ netFaults \in Int
  BY <1>1 DEF DevInv, DevTypeOK, Travelling
<1>7. CASE D!AtEnd(host)
  <2>1. /\ up' = up /\ host'.n = host.n /\ host'.what = host.what
        /\ host'.end = IF p.type = "OK" THEN "ok" ELSE "failed"
    BY <1>2, <1>7 DEF DevInv, DevTypeOK
  <2>2. HostInv' /\ PacketsInv' /\ TableInv'
    BY <1>1, <2>1 DEF DevInv, HostInv, PacketsInv, Sane, TableInv, Filled
  <2>3. Travelling'
    BY <1>1, <1>3, <1>4, <1>6, <2>1 DEF Travelling
  <2>4. OkInv'
    BY <1>1, <2>1 DEF DevInv, OkInv, OkSeen, OkDown, Used
  <2> QED BY <1>5, <2>2, <2>3, <2>4 DEF DevInv
<1>8. CASE ~D!AtEnd(host)
  <2>1. /\ host'.end = "open" /\ host'.n = host.n /\ host'.what \in {host.what, host.what + 1}
        /\ up' = up \/ (up' = up \cup {q} /\ host'.what = host.what + 1)
    BY <1>1, <1>2, <1>8 DEF DevInv, DevTypeOK
  <2>2. host.what <= Len(File[host.n])
    BY <1>1, <1>8 DEF D!AtEnd
  <2>3. HostInv'
    BY <1>1, <2>1, <2>2 DEF HostInv
  <2>4. PacketsInv'
    <3>1. \A r \in up : Sane(r)'
      BY <1>1, <2>1, FileIs DEF DevInv, PacketsInv, Sane
    <3>2. host'.what = host.what + 1 => Sane(q)'
      BY <1>1, <1>2, <2>1, <2>2 DEF Sane
    <3> QED BY <2>1, <3>1, <3>2 DEF PacketsInv
  <2>5. TableInv'
    BY <1>1 DEF DevInv, TableInv, Filled
  <2>6. Travelling'
    BY <1>1, <1>3, <1>4, <1>6, <2>1 DEF Travelling
  <2>7. OkInv'
    <3>1. ~OkDown
      BY <1>1, <1>8 DEF DevInv, OkInv
    <3> QED BY <2>1, <3>1 DEF OkInv, OkSeen, OkDown
  <2> QED BY <1>5, <2>3, <2>4, <2>5, <2>6, <2>7 DEF DevInv
<1> QED BY <1>7, <1>8

-----------------------------------------------------------------------------
\* The agent. What its answer adds is on its way to the host, if that one waits.
LEMMA AnswerGrows ==
    ASSUME DevInv, NEW p \in up, NEW type, D!Answer(p, type)
    PROVE  /\ IsFiniteSet(down')
           /\ Cardinality(up \ {p}) + Cardinality(down') <= netFaults + (IF host.end = "open" THEN 1 ELSE 0)
           /\ \/ down' = down
              \/ /\ p.n = host.n /\ host.end = "open"
                 /\ \E a : a.type = type /\ a.what = p.what /\ down' = down \cup {a}
<1> DEFINE r == [what |-> p.what, copy |-> p.copy, type |-> type]
<1>1. r.type = type /\ r.what = p.what
  OBVIOUS
<1>2. down' = down \/ (p.n = host.n /\ host.end = "open" /\ down' = down \cup {r})
  BY DEF D!Answer, DevInv, DevTypeOK
<1> HIDE DEF r
<1>3. /\ IsFiniteSet(up) /\ IsFiniteSet(down) /\ netFaults \in Int
      /\ Cardinality(up) + Cardinality(down) <= netFaults + (IF host.end = "open" THEN 1 ELSE 0)
  BY DEF DevInv, DevTypeOK, Travelling
<1>4. Cardinality(up) \in Nat /\ Cardinality(up \ {p}) = Cardinality(up) - 1
  BY <1>3, OneLess
<1>5. IsFiniteSet(down') /\ Cardinality(down) \in Nat /\ Cardinality(down') \in Nat
      /\ Cardinality(down') <= Cardinality(down) + 1
  <2>1. CASE down' = down
    BY <1>3, <2>1, FS_CardinalityType
  <2>2. CASE down' = down \cup {r}
    BY <1>3, <2>2, OneMore
  <2> QED BY <1>2, <2>1, <2>2
<1> QED BY <1>1, <1>2, <1>3, <1>4, <1>5

\* An answer that is not OK gives the host no reason to believe anything.
LEMMA OkStays ==
    ASSUME DevInv, NEW p \in up, NEW type, type # "OK", D!Answer(p, type), UNCHANGED host
    PROVE  OkSeen' => OkSeen /\ (host.end = "open" => OkDown)
<1>1. \A a \in down' : a.type = "OK" => a \in down
  <2>1. down' = down \/ \E b : b.type = type /\ down' = down \cup {b}
    BY AnswerGrows
  <2> QED BY <2>1
<1> QED BY <1>1 DEF OkSeen, OkDown

\* The common part of what a packet does to the agent
LEMMA InputKeeps ==
    ASSUME DevInv, NEW p \in up, NEW type, D!Answer(p, type), up' = up \ {p}, UNCHANGED host,
           netFaults' \in {netFaults, netFaults + 1}
    PROVE  /\ IsFiniteSet(up') /\ IsFiniteSet(down')
           /\ HostInv' /\ PacketsInv' /\ Travelling'
<1>1. IsFiniteSet(up')
  BY OneLess DEF DevInv, DevTypeOK
<1>2. HostInv' /\ PacketsInv'
  BY DEF DevInv, HostInv, PacketsInv, Sane
<1>3. /\ IsFiniteSet(down')
      /\ Cardinality(up') + Cardinality(down') <= netFaults + (IF host.end = "open" THEN 1 ELSE 0)
  BY AnswerGrows
<1>4. Cardinality(up') \in Nat /\ Cardinality(down') \in Nat /\ netFaults \in Int
  BY <1>1, <1>3, FS_CardinalityType DEF DevInv, DevTypeOK
<1>5. Travelling'
  BY <1>3, <1>4 DEF Travelling
<1> QED BY <1>1, <1>2, <1>3, <1>5

LEMMA BeginStep ==
    ASSUME DevInv, NEW p \in up, D!Begin(p), up' = up \ {p}, UNCHANGED host
    PROVE  DevInv'
<1>1. /\ file' = [path |-> p.n, total |-> Len(File[p.n]), got |-> {}, buf |-> file.buf]
      /\ file_active' = TRUE /\ D!Answer(p, "ACK") /\ written' = written /\ netFaults' = netFaults
  BY DEF D!Begin
<1>2. p.n \in D!Transfers /\ p.n \in Nat /\ Len(File[p.n]) \in Nat
  BY FileIs DEF DevInv, PacketsInv, Sane
<1>3. IsFiniteSet({}) /\ Cardinality({}) = 0
  BY FS_EmptySet
<1>4. IsFiniteSet(up') /\ IsFiniteSet(down') /\ HostInv' /\ PacketsInv' /\ Travelling'
  BY <1>1, InputKeeps
<1>5. /\ file'.got = {} /\ file'.total = Len(File[p.n]) /\ file'.path = p.n
      /\ file' \in [path : Nat, total : Nat, buf : Buffers, got : SUBSET Nat]
  BY <1>1, <1>2 DEF DevInv, DevTypeOK
<1>6. DevTypeOK'
  BY <1>1, <1>3, <1>4, <1>5 DEF DevInv, DevTypeOK
<1>7. TableInv'
  BY <1>1, <1>2, <1>5 DEF TableInv
<1>8. OkInv'
  <2>1. OkSeen' => OkSeen /\ (host.end = "open" => OkDown)
    BY <1>1, OkStays
  <2>2. Cardinality(up) \in Nat /\ Cardinality(up') = Cardinality(up) - 1 /\ netFaults \in Int
    BY OneLess DEF DevInv, DevTypeOK
  <2>3. Used \in Nat /\ Used' = 1
    BY <1>1, <1>3, <1>5, FS_CardinalityType DEF Used, DevInv, DevTypeOK
  <2> QED BY <1>1, <2>1, <2>2, <2>3 DEF DevInv, OkInv, OkSeen
<1> QED BY <1>4, <1>6, <1>7, <1>8 DEF DevInv

\* A chunk put into the table
LEMMA BufferPut ==
    ASSUME NEW buffer \in Buffers, NEW i \in Nat, NEW v \in Nat
    PROVE  [k \in DOMAIN buffer \cup {i} |-> IF k = i THEN v ELSE buffer[k]] \in Buffers
<1>1. PICK S \in SUBSET Nat : buffer \in [S -> Nat]
  BY DEF Buffers
<1>2. S \cup {i} \in SUBSET Nat /\ DOMAIN buffer = S
  BY <1>1
<1>3. [k \in DOMAIN buffer \cup {i} |-> IF k = i THEN v ELSE buffer[k]] \in [S \cup {i} -> Nat]
  BY <1>1, <1>2
<1> QED BY <1>2, <1>3 DEF Buffers

LEMMA ChunkStep ==
    ASSUME DevInv, NEW p \in up, D!Chunk(p), up' = up \ {p}, UNCHANGED host
    PROVE  DevInv'
<1>1. /\ file_active' = file_active /\ written' = written /\ netFaults' = netFaults
      /\ p.what # 0 /\ ~D!AtEnd(p)
  BY DEF D!Chunk
<1>2. p.n \in D!Transfers /\ p.what \in 1 .. Len(File[p.n]) /\ File[p.n][p.what] \in Nat
  <2>1. /\ p.n \in D!Transfers /\ p.what \in 0 .. Len(File[p.n]) + 1
        /\ p.what # Len(File[p.n]) + 1
    BY <1>1 DEF DevInv, PacketsInv, Sane, D!AtEnd
  <2>2. Len(File[p.n]) \in Nat /\ \A i \in 1 .. Len(File[p.n]) : File[p.n][i] \in Nat
    BY <2>1, FileIs
  <2>3. p.what \in 1 .. Len(File[p.n])
    BY <1>1, <2>1, <2>2
  <2> QED BY <2>1, <2>2, <2>3
<1>3. CASE ~file_active
  <2>1. file' = file /\ down' = down
    BY <1>3 DEF D!Chunk
  <2>2. /\ IsFiniteSet(up') /\ Cardinality(up) \in Nat /\ Cardinality(up') \in Nat
        /\ Cardinality(up') = Cardinality(up) - 1 /\ netFaults \in Int
        /\ Cardinality(down) \in Nat
    BY OneLess, FS_CardinalityType DEF DevInv, DevTypeOK
  <2>3. DevTypeOK' /\ HostInv' /\ PacketsInv' /\ TableInv'
    BY <1>1, <2>1, <2>2
       DEF DevInv, DevTypeOK, HostInv, PacketsInv, Sane, TableInv, Filled
  <2>4. Travelling'
    BY <1>1, <2>1, <2>2 DEF DevInv, Travelling
  <2>5. OkInv'
    BY <1>1, <1>3, <2>1, <2>2 DEF DevInv, OkInv, OkSeen, OkDown, Used
  <2> QED BY <2>3, <2>4, <2>5 DEF DevInv
<1>4. CASE file_active
  <2>1. /\ D!Answer(p, "ACK")
        /\ file' = IF p.what > file.total \/ p.what \in file.got THEN file
                   ELSE [file EXCEPT !.got = @ \cup {p.what},
                                     !.buf = [i \in DOMAIN @ \cup {p.what} |->
                                                 IF i = p.what THEN File[p.n][i] ELSE @[i]]]
    BY <1>4 DEF D!Chunk
  <2>2. IsFiniteSet(up') /\ IsFiniteSet(down') /\ HostInv' /\ PacketsInv' /\ Travelling'
    BY <1>1, <2>1, InputKeeps
  <2>3. OkSeen' => OkSeen /\ (host.end = "open" => OkDown)
    BY <2>1, OkStays
  <2>4. Cardinality(up) \in Nat /\ Cardinality(up') = Cardinality(up) - 1 /\ netFaults \in Int
    BY OneLess DEF DevInv, DevTypeOK
  <2>5. CASE p.what > file.total \/ p.what \in file.got
    <3>1. file' = file
      BY <2>1, <2>5
    <3>2. DevTypeOK' /\ TableInv'
      BY <1>1, <2>2, <3>1 DEF DevInv, DevTypeOK, TableInv, Filled
    <3>3. Used \in Nat /\ Used' = Used
      BY <1>1, <3>1, FS_CardinalityType DEF Used, DevInv, DevTypeOK
    <3>4. OkInv'
      BY <1>1, <2>3, <2>4, <3>3 DEF DevInv, OkInv, OkSeen
    <3> QED BY <2>2, <3>2, <3>4 DEF DevInv
  <2>6. CASE ~(p.what > file.total \/ p.what \in file.got)
    <3> DEFINE b == [i \in DOMAIN file.buf \cup {p.what} |->
                        IF i = p.what THEN File[p.n][i] ELSE file.buf[i]]
    <3>1. /\ file'.got = file.got \cup {p.what} /\ file'.buf = b
          /\ file'.path = file.path /\ file'.total = file.total
          /\ file' = [file EXCEPT !.got = file.got \cup {p.what}, !.buf = b]
      BY <2>1, <2>6 DEF DevInv, DevTypeOK
    <3>2. /\ DOMAIN b = DOMAIN file.buf \cup {p.what} /\ b[p.what] = File[p.n][p.what]
          /\ \A i \in DOMAIN file.buf : i # p.what => b[i] = file.buf[i]
      OBVIOUS
    <3>5. b \in Buffers
      <4>1. file.buf \in Buffers /\ p.what \in Nat
        BY <1>2, FileIs DEF DevInv, DevTypeOK
      <4>2. b = [k \in DOMAIN file.buf \cup {p.what} |->
                   IF k = p.what THEN File[p.n][p.what] ELSE file.buf[k]]
        OBVIOUS
      <4> QED BY <1>2, <4>1, <4>2, BufferPut
    <3> HIDE DEF b
    <3>6. /\ IsFiniteSet(file'.got) /\ Cardinality(file.got) \in Nat
          /\ Cardinality(file'.got) \in Nat /\ Cardinality(file'.got) <= Cardinality(file.got) + 1
      <4> DEFINE G == file.got
      <4>1. IsFiniteSet(G)
        BY DEF DevInv, DevTypeOK
      <4> HIDE DEF G
      <4>2. /\ IsFiniteSet(G \cup {p.what}) /\ Cardinality(G) \in Nat
            /\ Cardinality(G \cup {p.what}) \in Nat /\ Cardinality(G \cup {p.what}) <= Cardinality(G) + 1
        BY <4>1, OneMore
      <4> QED BY <3>1, <4>2 DEF G
    <3>7. DevTypeOK'
      <4>1. file' \in [path : Nat, total : Nat, buf : Buffers, got : SUBSET Nat]
        <5>1. /\ file \in [path : Nat, total : Nat, buf : Buffers, got : SUBSET Nat]
              /\ file.got \cup {p.what} \in SUBSET Nat
          BY <1>2, FileIs DEF DevInv, DevTypeOK
        <5> QED BY <3>1, <3>5, <5>1
      <4> QED BY <1>1, <2>2, <3>6, <4>1 DEF DevInv, DevTypeOK
    <3>8. TableInv'
      <4>1. \A i \in file.got : Filled(i)'
        <5>1. TAKE i \in file.got
        <5>2. Filled(i)
          BY DEF DevInv, TableInv
        <5>3. i # p.what
          BY <2>6
        <5> QED BY <3>1, <3>2, <5>2, <5>3 DEF Filled
      <4>2. Filled(p.what)'
        <5>1. p.what \in 1 .. file.total
          BY <1>2, <2>6, FileIs DEF DevInv, DevTypeOK
        <5> QED BY <1>2, <3>1, <3>2, <5>1 DEF Filled
      <4> QED BY <1>1, <3>1, <4>1, <4>2 DEF DevInv, TableInv
    <3>9. Used \in Nat /\ Used' \in Nat /\ Used' <= Used + 1
      BY <1>1, <3>6 DEF Used
    <3>10. OkInv'
      BY <1>1, <2>3, <2>4, <3>9 DEF DevInv, OkInv, OkSeen
    <3> QED BY <2>2, <3>7, <3>8, <3>10 DEF DevInv
  <2> QED BY <2>5, <2>6
<1> QED BY <1>3, <1>4

\* FILE_END. A full table is a mix of the chunks of files, so by its checksum the file; and
\* a file of an earlier transfer takes more packets than faults can have left.
LEMMA EndStep ==
    ASSUME D!ChecksumTells, D!FewFaults,
           DevInv, NEW p \in up, D!End(p), up' = up \ {p}, UNCHANGED host
    PROVE  DevInv'
<1>1. /\ D!AtEnd(p) /\ file_active' = FALSE /\ file' = file
      /\ p.n \in D!Transfers /\ Len(File[p.n]) \in Nat /\ p.what = Len(File[p.n]) + 1
      /\ netFaults' \in {netFaults, netFaults + 1} /\ netFaults' \in 0 .. MaxNetFaults
      /\ netFaults \in Int
  <2>1. p.n \in D!Transfers
    BY DEF DevInv, PacketsInv, Sane
  <2>2. netFaults \in 0 .. MaxNetFaults
    BY DEF DevInv, DevTypeOK
  <2> QED BY <2>1, <2>2, FileIs, TransferAssumption DEF D!End, D!AtEnd, D!Fault
<1>2. Cardinality(up) \in Nat /\ Cardinality(up') \in Nat /\ Cardinality(up') = Cardinality(up) - 1
  BY OneLess DEF DevInv, DevTypeOK
<1>3. Used' = 0 /\ Used \in Nat
  BY <1>1, FS_CardinalityType DEF Used, DevInv, DevTypeOK
<1>4. ASSUME NEW type, D!Answer(p, type)
      PROVE  DevTypeOK' /\ HostInv' /\ PacketsInv' /\ TableInv' /\ Travelling'
  <2>1. IsFiniteSet(up') /\ IsFiniteSet(down') /\ HostInv' /\ PacketsInv' /\ Travelling'
    BY <1>1, <1>4, InputKeeps
  <2>2. DevTypeOK'
    BY <1>1, <2>1 DEF DevInv, DevTypeOK
  <2>3. TableInv'
    BY <1>1 DEF DevInv, TableInv, Filled
  <2> QED BY <2>1, <2>2, <2>3
<1>5. ASSUME NEW type, type # "OK", D!Answer(p, type), written' = written
      PROVE  DevInv'
  <2>1. OkSeen' => OkSeen /\ (host.end = "open" => OkDown)
    BY <1>5, OkStays
  <2>2. OkInv'
    BY <1>1, <1>2, <1>3, <1>5, <2>1 DEF DevInv, OkInv, OkSeen
  <2> QED BY <1>4, <1>5, <2>2 DEF DevInv
<1>6. ASSUME file_active, Cardinality(file.got) = file.total, D!ChecksumFits(p),
             written' = [path |-> file.path, data |-> D!Contents], D!Answer(p, "OK"),
             UNCHANGED netFaults
      PROVE  DevInv'
  <2>1. file.path \in D!Transfers /\ file.total = Len(File[file.path]) /\ Len(File[file.path]) \in Nat
    BY <1>6, FileIs DEF DevInv, TableInv
  <2>2. /\ \A i \in file.got : Filled(i)
        /\ IsFiniteSet(file.got)
    BY DEF DevInv, DevTypeOK, TableInv
  <2>3. file.got = 1 .. file.total
    <3>1. file.got \subseteq 1 .. file.total
      BY <2>2 DEF Filled
    <3> QED BY <1>6, <2>1, <2>2, <3>1, TableFull
  <2>4. D!Contents = File[p.n]
    <3> DEFINE m == file.path
               c == [i \in 1 .. Len(File[m]) |-> file.buf[i]]
               Chunks == UNION {D!Range(File[k]) : k \in D!Transfers}
    <3>1. D!Contents = c
      BY <2>1 DEF D!Contents
    <3>2. \A i \in 1 .. Len(File[m]) : \E k \in D!Transfers : i <= Len(File[k]) /\ c[i] = File[k][i]
      BY <2>1, <2>2, <2>3 DEF Filled
    <3>3. \A i \in 1 .. Len(File[m]) : c[i] \in Chunks
      <4>1. TAKE i \in 1 .. Len(File[m])
      <4>2. PICK k \in D!Transfers : i <= Len(File[k]) /\ c[i] = File[k][i]
        BY <3>2
      <4>3. i \in DOMAIN File[k]
        BY <2>1, <4>2, FileIs
      <4> QED BY <4>2, <4>3 DEF D!Range
    <3>4. c \in [1 .. Len(File[m]) -> Chunks]
      BY <3>3
    <3>5. D!Sum(c) = D!Sum(File[p.n])
      BY <1>6, <3>1 DEF D!ChecksumFits
    <3> HIDE DEF c
    <3> QED BY <1>1, <2>1, <3>1, <3>2, <3>4, <3>5 DEF D!ChecksumTells
  <2>5. ~(OkSeen /\ p.n # host.n)
    <3> SUFFICES ASSUME OkSeen PROVE FALSE
      OBVIOUS
    <3>1. Cardinality(up) + Used <= netFaults /\ Cardinality(up) >= 1
      BY <1>2 DEF DevInv, OkInv
    <3>2. Used = 1 + Len(File[file.path])
      BY <1>6, <2>1 DEF Used
    <3>3. MaxNetFaults <= Len(File[file.path]) + 1 /\ netFaults <= MaxNetFaults
      BY <2>1, TransferAssumption DEF D!FewFaults, DevInv, DevTypeOK
    <3> QED BY <1>1, <1>2, <2>1, <3>1, <3>2, <3>3, TransferAssumption
  <2>6. OkInv'
    <3>1. ASSUME OkSeen' PROVE written'.data = File[host.n]
      <4>1. CASE p.n = host.n
        BY <1>6, <2>4, <4>1
      <4>2. CASE p.n # host.n
        <5>1. down' = down
          BY <1>6, <4>2 DEF D!Answer
        <5> QED BY <2>5, <3>1, <4>2, <5>1 DEF OkSeen, OkDown
      <4> QED BY <4>1, <4>2
    <3>2. ASSUME OkSeen' PROVE Cardinality(up') + Used' <= netFaults'
      <4>1. CASE OkSeen
        BY <1>1, <1>2, <1>3, <1>6, <4>1 DEF DevInv, OkInv
      <4>2. CASE ~OkSeen
        <5>1. host.end = "open" /\ OkDown'
          BY <3>2, <4>2 DEF OkSeen
        <5>2. down' # {} /\ IsFiniteSet(down')
          BY <1>4, <1>6, <5>1 DEF OkDown, DevTypeOK
        <5>3. Cardinality(down') \in Nat /\ Cardinality(down') # 0
          BY <5>2, FS_CardinalityType, FS_EmptySet
        <5>4. Cardinality(up') + Cardinality(down') <= netFaults' + 1
          BY <1>4, <1>6, <5>1 DEF Travelling
        <5> QED BY <1>1, <1>2, <1>3, <1>6, <5>3, <5>4
      <4> QED BY <4>1, <4>2
    <3>3. ASSUME host.end = "open", OkDown' PROVE D!AtEnd(host)
      <4>1. CASE OkDown
        BY <3>3, <4>1 DEF DevInv, OkInv
      <4>2. CASE ~OkDown
        <5>1. p.n = host.n
          BY <1>6, <3>3, <4>2 DEF D!Answer, OkDown
        <5>2. p.what <= host.what /\ host.what <= Len(File[host.n]) + 1 /\ host.what \in Nat
          BY <3>3, <5>1 DEF DevInv, DevTypeOK, HostInv, PacketsInv, Sane
        <5> QED BY <1>1, <5>1, <5>2 DEF D!AtEnd
      <4> QED BY <4>1, <4>2
    <3> QED BY <3>1, <3>2, <3>3 DEF OkInv, D!AtEnd
  <2> QED BY <1>4, <1>6, <2>6 DEF DevInv
<1>7. CASE ~file_active
  <2>1. D!Answer(p, "ERRnofile") /\ written' = written
    BY <1>7 DEF D!End
  <2> QED BY <1>5, <2>1
<1>8. CASE file_active /\ Cardinality(file.got) # file.total
  <2>1. D!Answer(p, "ERRincomplete") /\ written' = written
    BY <1>8, SameSize DEF D!End
  <2> QED BY <1>5, <2>1
<1>9. CASE file_active /\ Cardinality(file.got) = file.total /\ ~D!ChecksumFits(p)
  <2>1. D!Answer(p, "ERRcksum") /\ written' = written
    BY <1>9, SameSize DEF D!End
  <2> QED BY <1>5, <2>1
<1>10. CASE file_active /\ Cardinality(file.got) = file.total /\ D!ChecksumFits(p)
  <2>1. \/ D!Answer(p, "ERRwrite") /\ written' = written
        \/ /\ written' = [path |-> file.path, data |-> D!Contents]
           /\ D!Answer(p, "OK") /\ UNCHANGED netFaults
    BY <1>10, SameSize DEF D!End
  <2> QED BY <1>5, <1>6, <1>10, <2>1
<1> QED BY <1>7, <1>8, <1>9, <1>10

LEMMA RebootStep ==
    ASSUME DevInv, D!Reboot
    PROVE  DevInv'
<1>1. /\ netFaults' = netFaults + 1 /\ netFaults' \in 0 .. MaxNetFaults /\ netFaults \in Int
      /\ file_active' = FALSE /\ file' = [file EXCEPT !.got = {}, !.total = 0]
      /\ UNCHANGED <<up, down, host, written>>
  BY TransferAssumption DEF D!Reboot, D!Fault, DevInv, DevTypeOK
<1>2. IsFiniteSet({}) /\ file'.got = {}
  BY <1>1, FS_EmptySet DEF DevInv, DevTypeOK
<1>3. DevTypeOK'
  BY <1>1, <1>2 DEF DevInv, DevTypeOK
<1>4. HostInv' /\ PacketsInv' /\ TableInv'
  BY <1>1, <1>2 DEF DevInv, HostInv, PacketsInv, Sane, TableInv
<1>5. Cardinality(up) \in Nat /\ Cardinality(down) \in Nat
  BY FS_CardinalityType DEF DevInv, DevTypeOK
<1>6. Travelling'
  BY <1>1, <1>5 DEF DevInv, Travelling
<1>7. Used' = 0 /\ Used \in Nat
  BY <1>1, FS_CardinalityType DEF Used, DevInv, DevTypeOK
<1>8. OkInv'
  BY <1>1, <1>5, <1>7 DEF DevInv, OkInv, OkSeen, OkDown
<1> QED BY <1>3, <1>4, <1>6, <1>8 DEF DevInv

\* A copy costs a fault.
LEMMA DoubleStep ==
    ASSUME DevInv, NEW p \in up, D!Double(p)
    PROVE  DevInv'
<1>1. PICK q : /\ q.n = p.n /\ q.what = p.what /\ up' = up \cup {q}
               /\ netFaults' = netFaults + 1 /\ netFaults' \in 0 .. MaxNetFaults /\ netFaults \in Int
               /\ UNCHANGED <<down, host, file_active, file, written>>
  <2> DEFINE r == [p EXCEPT !.copy = 0]
  <2>1. r.n = p.n /\ r.what = p.what
    OBVIOUS
  <2>2. up' = up \cup {r}
    BY DEF D!Double
  <2>3. netFaults' = netFaults + 1 /\ netFaults' \in 0 .. MaxNetFaults /\ netFaults \in Int
    BY TransferAssumption DEF D!Double, D!Fault, DevInv, DevTypeOK
  <2>4. UNCHANGED <<down, host, file_active, file, written>>
    BY DEF D!Double, D!agent
  <2> HIDE DEF r
  <2> QED BY <2>1, <2>2, <2>3, <2>4
<1>2. /\ IsFiniteSet(up') /\ Cardinality(up) \in Nat /\ Cardinality(up') \in Nat
      /\ Cardinality(up') <= Cardinality(up) + 1
  <2>1. IsFiniteSet(up)
    BY DEF DevInv, DevTypeOK
  <2> QED BY <1>1, <2>1, OneMore
<1>3. Cardinality(down) \in Nat
  BY FS_CardinalityType DEF DevInv, DevTypeOK
<1>4. DevTypeOK' /\ HostInv' /\ TableInv'
  BY <1>1, <1>2 DEF DevInv, DevTypeOK, HostInv, TableInv, Filled
<1>5. PacketsInv'
  <2>1. \A r \in up : Sane(r)'
    BY <1>1 DEF DevInv, PacketsInv, Sane
  <2>2. Sane(q)'
    BY <1>1, <2>1 DEF Sane
  <2> QED BY <1>1, <2>1, <2>2 DEF PacketsInv
<1>6. Travelling'
  BY <1>1, <1>2, <1>3 DEF DevInv, Travelling
<1>7. Used' = Used /\ Used \in Nat
  BY <1>1, FS_CardinalityType DEF Used, DevInv, DevTypeOK
<1>8. OkInv'
  BY <1>1, <1>2, <1>7 DEF DevInv, OkInv, OkSeen, OkDown
<1> QED BY <1>4, <1>5, <1>6, <1>8 DEF DevInv

\* A transfer that reports OK has written its own contents: for any number of transfers,
\* files, tries and so many faults that an earlier transfer cannot leave behind a whole file,
\* if the checksum tells a file from a mix of chunks (TwoFiles of the run is so).
THEOREM OkIsWritten ==
    ASSUME D!ChecksumTells, D!FewFaults
    PROVE  MachineSpec => []OkMeansWritten
<1>1. MachineInit => DevInv
  BY DevStart DEF MachineInit
<1>2. DevInv /\ [MachineNext]_machine_vars => DevInv'
  <2> SUFFICES ASSUME DevInv, [MachineNext]_machine_vars PROVE DevInv'
    OBVIOUS
  <2>1. D!Next \/ UNCHANGED dev_agent
    BY DEF MachineNext, InMemory, InNetLock, InVirtio, InDevAgent, machine_vars
  <2>2. CASE D!sendfile \/ D!Timeout \/ D!Reboot
    BY <2>2, SendfileStep, TimeoutStep, RebootStep
  <2>3. CASE \E p \in up : D!Double(p)
    BY <2>3, DoubleStep
  <2>4. ASSUME NEW p \in up, D!dev_agent_input(p), up' = up \ {p} PROVE DevInv'
    BY <2>4, BeginStep, ChunkStep, EndStep DEF D!dev_agent_input
  <2>5. ASSUME NEW p \in down, D!recv(p), down' = down \ {p} PROVE DevInv'
    BY <2>5, RecvStep
  <2>6. CASE UNCHANGED dev_agent
    BY <2>6 DEF dev_agent, DevInv, DevTypeOK, HostInv, PacketsInv, Sane, TableInv, Filled,
           Travelling, OkInv, OkSeen, OkDown, Used, D!AtEnd
  <2> QED BY <2>1, <2>2, <2>3, <2>4, <2>5, <2>6 DEF D!Next
<1>3. DevInv => OkMeansWritten
  BY DEF DevInv, OkInv, OkSeen, OkMeansWritten, D!OkMeansWritten
<1> QED BY <1>1, <1>2, <1>3, PTL DEF MachineSpec

==============================================================================
