----------------------------- MODULE KernelProofs -----------------------------
(***************************************************************************)
(* Proofs about the machines of the kernel that MC_Kernel runs beside the  *)
(* scheduler, whose own proofs are in SchedProofs.                         *)
(*                                                                         *)
(* GuiInput: for every size of the ring, what the timer interrupt pushes   *)
(* and the GUI task pops is the bounded queue of EventQueue, although pop  *)
(* may free its slot before it has copied it. ViPar: the join of a         *)
(* parallel region is a barrier. UsbInput: the cursor and the console end  *)
(* up with what mouse and keyboard have reported.                          *)
(***************************************************************************)
EXTENDS MC_Kernel, SequenceTheorems, FiniteSetTheorems, TLAPS

-----------------------------------------------------------------------------
(***************************************************************************)
(* The machines share no state: one takes a step of its own or stands      *)
(* still.                                                                  *)
(***************************************************************************)
LEMMA GuiMoves == [KernelNext]_kernel_vars => [G!Next]_(G!vars)
BY DEF KernelNext, InSched, InGui, InVi, InUsb, kernel_vars, ring, G!vars, G!push, G!pop

LEMMA ViMoves == [KernelNext]_kernel_vars => [V!Next]_(V!vars)
BY DEF KernelNext, InSched, InGui, InVi, InUsb, kernel_vars, vi, V!vars, V!caller

LEMMA UsbMoves == [KernelNext]_kernel_vars => [U!Next]_(U!vars)
BY DEF KernelNext, InSched, InGui, InVi, InUsb, kernel_vars, usb, U!vars, U!devices

-----------------------------------------------------------------------------
(***************************************************************************)
(* The event ring                                                          *)
(***************************************************************************)
\* While a push is under way there is room for it.
RoomKept == ppc # "idle" => G!Succ(g_head) # g_tail
\* Behind its store the slot at g_head holds the event.
Stored == ppc = "publish" => g_evq[g_head] = ev
\* A pop works on the slot at g_tail until it has freed it.
Popping ==
    /\ "free" \in todo => t = g_tail /\ g_tail # g_head
    /\ "read" \in todo /\ "free" \notin todo => g_tail = G!Succ(t)

RingInv ==
    /\ G!TypeOK
    /\ RoomKept
    /\ Stored
    /\ Popping

-----------------------------------------------------------------------------
LEMMA SuccType == \A i \in G!Slots : G!Succ(i) \in G!Slots /\ G!Succ(i) # i
BY GuiInputAssumption DEF G!Slots, G!Succ

LEMMA SuccInjective == \A i, j \in G!Slots : G!Succ(i) = G!Succ(j) => i = j
BY GuiInputAssumption DEF G!Slots, G!Succ

\* The room kept for the push and the pop under way keep the indices apart.
LEMMA Apart == RingInv => G!NoTornEvent
<1> SUFFICES ASSUME RingInv, ppc = "store", "read" \in todo PROVE g_head # t
  BY DEF G!NoTornEvent
<1>1. CASE "free" \in todo
  BY <1>1 DEF RingInv, Popping
<1>2. CASE "free" \notin todo
  BY <1>2 DEF RingInv, Popping, RoomKept
<1> QED
  BY <1>1, <1>2

LEMMA RingInit == G!Init => RingInv
BY GuiInputAssumption DEF G!Init, RingInv, G!TypeOK, RoomKept, Stored, Popping, G!Slots

LEMMA RingStep == RingInv /\ [G!Next]_(G!vars) => RingInv'
<1> SUFFICES ASSUME RingInv, [G!Next]_(G!vars) PROVE RingInv'
  OBVIOUS
<1> USE SuccType DEF RingInv, G!TypeOK, RoomKept, Stored, Popping
<1>1. ASSUME NEW e \in Events, G!PushCheck(e) PROVE RingInv'
  BY <1>1 DEF G!PushCheck, G!pop, G!Full
<1>2. CASE G!PushStore
  BY <1>2 DEF G!PushStore, G!pop
<1>3. CASE G!PushPublish
  <2>1. G!TypeOK' /\ RoomKept' /\ Stored'
    BY <1>3 DEF G!PushPublish, G!pop
  <2>2. "free" \in todo => G!Succ(g_head) # g_tail
    BY <1>3 DEF G!PushPublish
  <2>3. Popping'
    BY <1>3, <2>2 DEF G!PushPublish, G!pop
  <2> QED
    BY <2>1, <2>3
<1>4. CASE G!PopCheck
  BY <1>4 DEF G!PopCheck, G!push
<1>5. CASE G!PopRead
  BY <1>5 DEF G!PopRead, G!push
<1>6. CASE G!PopFree
  BY <1>6, SuccInjective DEF G!PopFree, G!push
<1>7. CASE UNCHANGED G!vars
  BY <1>7 DEF G!vars, G!push, G!pop
<1> QED
  BY <1>1, <1>2, <1>3, <1>4, <1>5, <1>6, <1>7 DEF G!Next

-----------------------------------------------------------------------------
\* The slots that hold the queue: in use, distinct, and none of them g_head.
LEMMA Window ==
    ASSUME RingInv
    PROVE  /\ G!First \in G!Slots
           /\ G!Length \in 0 .. EVQ_N - 1
           /\ \A i \in 0 .. G!Length : G!At(i) \in G!Slots
           /\ \A i \in 0 .. G!Length - 1 : G!At(i) # g_head
           /\ G!At(G!Length) = g_head /\ G!At(0) = G!First
<1>1. G!First \in G!Slots /\ g_head \in G!Slots
  BY SuccType DEF RingInv, G!TypeOK, G!First
<1> HIDE DEF G!First
<1> QED
  BY <1>1, GuiInputAssumption DEF G!Length, G!At, G!Slots

LEMMA QueueType ==
    ASSUME RingInv
    PROVE  G!queue \in Seq(Events) /\ Len(G!queue) = G!Length
<1>1. G!queue \in [1 .. G!Length -> Events]
  <2>1. \A i \in 1 .. G!Length : G!At(i - 1) \in G!Slots
    BY Window
  <2> QED
    BY <2>1 DEF G!queue, RingInv, G!TypeOK
<1>2. G!Length \in Nat
  BY Window, GuiInputAssumption
<1> QED
  BY <1>1, <1>2, SeqDef

\* A step that leaves indices and used slots alone leaves the queue alone.
LEMMA QueueSame ==
    ASSUME RingInv, G!First' = G!First, g_head' = g_head,
           \A i \in 1 .. G!Length : g_evq'[G!At(i - 1)] = g_evq[G!At(i - 1)]
    PROVE  G!queue' = G!queue
<1>1. G!Length' = G!Length
  BY DEF G!Length
<1>2. \A i : G!At(i)' = G!At(i)
  BY DEF G!At
<1> QED
  BY <1>1, <1>2 DEF G!queue

LEMMA StoreRefines == ASSUME RingInv, G!PushStore PROVE G!queue' = G!queue /\ G!held' = G!held
<1>1. G!First' = G!First /\ g_head' = g_head
  BY DEF G!PushStore, G!pop, G!First
<1>2. \A i \in 1 .. G!Length : g_evq'[G!At(i - 1)] = g_evq[G!At(i - 1)]
  <2> SUFFICES ASSUME NEW i \in 1 .. G!Length PROVE g_evq'[G!At(i - 1)] = g_evq[G!At(i - 1)]
    OBVIOUS
  <2>1. i - 1 \in 0 .. G!Length - 1 /\ i - 1 \in 0 .. G!Length
    BY Window, GuiInputAssumption
  <2>2. G!At(i - 1) \in G!Slots /\ G!At(i - 1) # g_head
    BY <2>1, Window
  <2> QED
    BY <2>2 DEF G!PushStore, RingInv, G!TypeOK
<1>3. G!queue' = G!queue
  BY <1>1, <1>2, QueueSame
<1>4. G!held' = G!held
  BY Apart DEF G!PushStore, G!pop, G!held, G!NoTornEvent, RingInv, G!TypeOK
<1> QED
  BY <1>3, <1>4

LEMMA PublishRefines == ASSUME RingInv, G!PushPublish PROVE G!Queue!Put(ev)
<1>1. RingInv'
  BY RingStep DEF G!Next
<1>2. G!First' = G!First /\ G!First \in G!Slots /\ g_head \in G!Slots /\ G!Succ(g_head) # G!First
  <2>1. CASE "free" \in todo
    BY <2>1, SuccInjective, Window DEF RingInv, G!TypeOK, Popping, G!PushPublish, G!pop, G!First
  <2>2. CASE "free" \notin todo
    BY <2>2, Window DEF RingInv, G!TypeOK, RoomKept, G!PushPublish, G!pop, G!First
  <2> QED
    BY <2>1, <2>2
<1>3. g_head' = G!Succ(g_head) /\ g_evq' = g_evq /\ g_evq[g_head] = ev
  BY DEF G!PushPublish, RingInv, Stored
<1>4. G!Length' = G!Length + 1
  BY <1>2, <1>3, GuiInputAssumption DEF G!Length, G!Slots, G!Succ
<1>5. G!Length < EVQ_N - 1
  <2>1. (G!Length \in 0 .. EVQ_N - 1)'
    BY <1>1, Window, PTL
  <2> QED
    BY <1>4, <2>1, Window, GuiInputAssumption
<1>6. G!queue' = Append(G!queue, ev)
  <2>1. /\ G!queue \in Seq(Events) /\ Len(G!queue) = G!Length
        /\ G!queue' \in Seq(Events) /\ Len(G!queue') = G!Length'
    <3>1. (G!queue \in Seq(Events) /\ Len(G!queue) = G!Length)'
      BY <1>1, QueueType, PTL
    <3> QED
      BY <3>1, QueueType
  <2>2. ev \in Events
    BY DEF RingInv, G!TypeOK
  <2>3. \A i : G!At(i)' = G!At(i)
    BY <1>2 DEF G!At
  <2>4. \A i \in 1 .. G!Length + 1 : G!queue'[i] = g_evq[G!At(i - 1)]
    BY <1>3, <1>4, <2>3 DEF G!queue
  <2>5. G!At(G!Length) = g_head /\ G!Length \in Nat
    BY Window, GuiInputAssumption
  <2>6. \A i \in 1 .. G!Length : G!queue[i] = g_evq[G!At(i - 1)]
    BY DEF G!queue
  <2>7. /\ Append(G!queue, ev) \in Seq(Events) /\ Len(Append(G!queue, ev)) = G!Length + 1
        /\ \A i \in 1 .. G!Length + 1 :
              Append(G!queue, ev)[i] = IF i = G!Length + 1 THEN ev ELSE G!queue[i]
    BY <2>1, <2>2, <2>5
  <2>8. \A i \in 1 .. G!Length + 1 : G!queue'[i] = Append(G!queue, ev)[i]
    <3> SUFFICES ASSUME NEW i \in 1 .. G!Length + 1 PROVE G!queue'[i] = Append(G!queue, ev)[i]
      OBVIOUS
    <3>1. CASE i = G!Length + 1
      BY <1>3, <2>4, <2>5, <2>7, <3>1
    <3>2. CASE i # G!Length + 1
      BY <2>4, <2>5, <2>6, <2>7, <3>2
    <3> QED
      BY <3>1, <3>2
  <2> QED
    BY <1>4, <2>1, <2>7, <2>8, SeqEqual
<1>7. G!held' = G!held
  BY DEF G!PushPublish, G!pop, G!held
<1> QED
  BY <1>5, <1>6, <1>7, QueueType DEF G!Queue!Put

LEMMA CheckRefines == ASSUME RingInv, G!PopCheck PROVE G!Queue!Take
<1>1. RingInv'
  BY RingStep DEF G!Next
<1>2. /\ G!First = g_tail /\ G!First' = G!Succ(g_tail)
      /\ g_head' = g_head /\ g_evq' = g_evq /\ g_tail # g_head
      /\ g_head \in G!Slots /\ g_tail \in G!Slots
  BY DEF G!PopCheck, G!First, RingInv, G!TypeOK
<1>3. G!Length' = G!Length - 1 /\ G!Length > 0
  BY <1>2, GuiInputAssumption DEF G!Length, G!Slots, G!Succ
<1>4. \A i \in 1 .. G!Length - 1 : G!At(i - 1)' = G!At(i)
  BY <1>2, Window, GuiInputAssumption DEF G!At, G!Length, G!Slots, G!Succ
<1>5. /\ G!queue \in Seq(Events) /\ Len(G!queue) = G!Length
      /\ G!queue' \in Seq(Events) /\ Len(G!queue') = G!Length'
  <2>1. (G!queue \in Seq(Events) /\ Len(G!queue) = G!Length)'
    BY <1>1, QueueType, PTL
  <2> QED
    BY <2>1, QueueType
<1>6. G!Length \in Nat
  BY Window, GuiInputAssumption
<1>7. G!queue # <<>>
  BY <1>3, <1>5
<1>8. G!queue' = Tail(G!queue)
  <2>1. /\ Tail(G!queue) \in Seq(Events) /\ Len(Tail(G!queue)) = G!Length - 1
        /\ \A i \in 1 .. G!Length - 1 : Tail(G!queue)[i] = G!queue[i + 1]
    BY <1>5, <1>7, HeadTailProperties
  <2>2. \A i \in 1 .. G!Length - 1 : G!queue'[i] = g_evq[G!At(i)]
    BY <1>2, <1>3, <1>4 DEF G!queue
  <2>3. \A i \in 1 .. G!Length - 1 : G!queue[i + 1] = g_evq[G!At(i)]
    BY <1>6 DEF G!queue
  <2>4. \A i \in 1 .. G!Length - 1 : G!queue'[i] = Tail(G!queue)[i]
    BY <2>1, <2>2, <2>3
  <2> QED
    BY <1>3, <1>5, <2>1, <2>4, SeqEqual
<1>9. G!held' = Head(G!queue)
  <2>1. G!held' = g_evq[g_tail]
    BY DEF G!PopCheck, G!held
  <2>2. G!queue[1] = g_evq[g_tail]
    BY <1>2, <1>3, <1>6, Window DEF G!queue
  <2> QED
    BY <1>5, <1>7, <2>1, <2>2
<1> QED
  BY <1>7, <1>8, <1>9 DEF G!Queue!Take

LEMMA ReadRefines == ASSUME RingInv, G!PopRead PROVE G!queue' = G!queue /\ G!held' = G!held
<1>1. G!First' = G!First /\ g_head' = g_head /\ g_evq' = g_evq
  BY DEF G!PopRead, G!push, G!First
<1>2. G!queue' = G!queue
  BY <1>1, QueueSame
<1>3. G!held' = G!held
  BY DEF G!PopRead, G!held
<1> QED
  BY <1>2, <1>3

LEMMA FreeRefines == ASSUME RingInv, G!PopFree PROVE G!queue' = G!queue /\ G!held' = G!held
<1>1. G!First' = G!First /\ g_head' = g_head /\ g_evq' = g_evq
  BY DEF G!PopFree, G!push, G!First, RingInv, Popping, G!TypeOK
<1>2. G!queue' = G!queue
  BY <1>1, QueueSame
<1>3. G!held' = G!held
  BY DEF G!PopFree, G!held
<1> QED
  BY <1>2, <1>3

LEMMA InitRefines == G!Init => G!Queue!Init
<1> SUFFICES ASSUME G!Init PROVE G!Queue!Init
  OBVIOUS
<1>1. G!Length = 0
  BY DEF G!Init, G!Length, G!First
<1>2. G!queue = <<>>
  BY <1>1 DEF G!queue
<1>3. G!held \in Events
  BY GuiInputAssumption DEF G!Init, G!held
<1> QED
  BY <1>2, <1>3 DEF G!Queue!Init

LEMMA StepRefines == RingInv /\ [G!Next]_(G!vars) => [G!Queue!Next]_<<G!queue, G!held>>
<1> SUFFICES ASSUME RingInv, [G!Next]_(G!vars) PROVE G!Queue!Next \/ UNCHANGED <<G!queue, G!held>>
  OBVIOUS
<1>1. ASSUME NEW e \in Events, G!PushCheck(e) PROVE UNCHANGED <<G!queue, G!held>>
  <2>1. G!First' = G!First /\ g_head' = g_head /\ g_evq' = g_evq /\ G!held' = G!held
    BY <1>1 DEF G!PushCheck, G!pop, G!First, G!held
  <2> QED
    BY <2>1, QueueSame
<1>2. CASE G!PushStore
  BY <1>2, StoreRefines
<1>3. CASE G!PushPublish
  <2>1. ev \in Events
    BY DEF RingInv, G!TypeOK
  <2> QED
    BY <1>3, <2>1, PublishRefines DEF G!Queue!Next
<1>4. CASE G!PopCheck
  BY <1>4, CheckRefines DEF G!Queue!Next
<1>5. CASE G!PopRead
  BY <1>5, ReadRefines
<1>6. CASE G!PopFree
  BY <1>6, FreeRefines
<1>7. CASE UNCHANGED G!vars
  <2>1. G!First' = G!First /\ g_head' = g_head /\ g_evq' = g_evq /\ G!held' = G!held
    BY <1>7 DEF G!vars, G!push, G!pop, G!First, G!held
  <2> QED
    BY <2>1, QueueSame
<1> QED
  BY <1>1, <1>2, <1>3, <1>4, <1>5, <1>6, <1>7 DEF G!Next

-----------------------------------------------------------------------------
LEMMA RingInductive == KernelSpec => []RingInv
<1>1. KernelInit => RingInv
  BY RingInit DEF KernelInit
<1>2. RingInv /\ [KernelNext]_kernel_vars => RingInv'
  BY GuiMoves, RingStep
<1> QED BY <1>1, <1>2, PTL DEF KernelSpec

\* The ring of gui_input_push and gui_input_pop is a bounded queue of any size: events are
\* popped in the order they were pushed, once each, none of them torn.
THEOREM RingRefines == KernelSpec => ImplementsQueue
<1>1. KernelInit => G!Queue!Init
  BY InitRefines DEF KernelInit
<1>2. RingInv /\ [KernelNext]_kernel_vars => [G!Queue!Next]_<<G!queue, G!held>>
  BY GuiMoves, StepRefines
<1> QED
  BY <1>1, <1>2, RingInductive, PTL
     DEF KernelSpec, ImplementsQueue, G!ImplementsQueue, G!Queue!Spec

-----------------------------------------------------------------------------
(***************************************************************************)
(* The parallel regions. One caller at a time is in a region; the tokens   *)
(* its join took, those that lie in g_barrier and the workers still busy   *)
(* are together the workers it has made.                                   *)
(***************************************************************************)
ViTypeOK ==
    /\ st \in [Callers -> {"el0", "spawn", "compute", "join", "gone"}]
    /\ region \in [Callers -> 0 .. MaxRegions] /\ regions \in 0 .. MaxRegions
    /\ asked \in [Callers -> 0 .. VI_MAX_WORKERS]
    /\ spawned \in [Callers -> 0 .. VI_MAX_WORKERS - 1]
    /\ joined \in [Callers -> Nat]
    /\ worker \in [V!Regions -> [V!Wids -> {"none", "ready", "run", "over"}]]
    /\ g_barrier \in Nat /\ g_nworkers \in Nat

\* A region is its caller's alone, and the one in progress began last.
OneRegion ==
    /\ \A p, q \in Callers : V!InRegion(p) /\ V!InRegion(q) => p = q
    /\ \A p, q \in Callers : region[p] # 0 /\ region[p] = region[q] => p = q
    /\ \A p \in Callers : /\ V!InRegion(p) => region[p] = regions /\ regions # 0
                          /\ region[p] <= regions

\* Workers are busy only in the region in progress, and in the slices it has given out.
BusyInside ==
    \A r \in V!Regions, w \in V!Wids :
        /\ worker[r][w] \in {"ready", "run"} => \E p \in Callers : V!InRegion(p) /\ region[p] = r
        /\ r > regions => worker[r][w] = "none"
        /\ \A p \in Callers : V!InRegion(p) /\ region[p] = r /\ w > spawned[p] => worker[r][w] = "none"

Taken(p) == IF st[p] = "join" THEN joined[p] ELSE 0

TokensCount ==
    \A p \in Callers : V!InRegion(p) =>
        /\ Taken(p) + g_barrier + Cardinality(V!Busy(region[p])) = spawned[p]
        /\ st[p] # "spawn" => g_nworkers = spawned[p]

ViInv == ViTypeOK /\ OneRegion /\ BusyInside /\ TokensCount

LEMMA BusyFinite ==
    \A r : IsFiniteSet(V!Busy(r)) /\ Cardinality(V!Busy(r)) \in Nat
<1>1. IsFiniteSet(V!Wids)
  BY FS_Interval, KernelAssumption DEF V!Wids
<1>2. \A r : V!Busy(r) \in SUBSET V!Wids
  BY DEF V!Busy
<1> QED BY <1>1, <1>2, FS_Subset, FS_CardinalityType

LEMMA ViInit == V!Init => ViInv
<1> SUFFICES ASSUME V!Init PROVE ViInv
  OBVIOUS
<1>1. ViTypeOK
  BY KernelAssumption DEF V!Init, ViTypeOK, V!NoRegion
<1>2. OneRegion /\ BusyInside /\ TokensCount
  BY DEF V!Init, OneRegion, BusyInside, TokensCount, V!InRegion, V!NoRegion
<1> QED BY <1>1, <1>2 DEF ViInv

LEMMA BeginStep ==
    ASSUME ViInv, NEW p \in Callers, NEW n \in 2 .. VI_MAX_WORKERS, V!Begin(p, n)
    PROVE  ViInv'
<1>1. /\ regions + 1 \in V!Regions /\ regions' = regions + 1 /\ regions \in Nat
      /\ st' = [st EXCEPT ![p] = "spawn"] /\ region' = [region EXCEPT ![p] = regions + 1]
      /\ asked' = [asked EXCEPT ![p] = n] /\ spawned' = [spawned EXCEPT ![p] = 0]
      /\ g_barrier' = 0 /\ UNCHANGED <<joined, worker, g_nworkers>>
      /\ \A q \in Callers : ~V!InRegion(q)
  BY KernelAssumption DEF V!Begin, V!Goto, V!Regions, ViInv, ViTypeOK
<1>2. \A q \in Callers : V!InRegion(q)' <=> q = p
  BY <1>1 DEF V!InRegion, ViInv, ViTypeOK
<1>3. ViTypeOK'
  BY <1>1, KernelAssumption DEF ViInv, ViTypeOK, V!Regions
<1>4. OneRegion'
  <2>1. \A q \in Callers : region[q] \in Nat /\ region[q] <= regions
    BY DEF ViInv, ViTypeOK, OneRegion
  <2> QED BY <1>1, <1>2, <2>1 DEF ViInv, ViTypeOK, OneRegion
<1>5. \A r \in V!Regions, w \in V!Wids : worker[r][w] \notin {"ready", "run"}
  BY <1>1 DEF ViInv, BusyInside
<1>6. BusyInside'
  BY <1>1, <1>2, <1>5 DEF ViInv, ViTypeOK, BusyInside, V!Regions
<1>7. TokensCount'
  <2>1. V!Busy(regions + 1) = {}
    BY <1>1, <1>5 DEF V!Busy
  <2>2. Cardinality(V!Busy(regions + 1)) = 0
    BY <2>1, FS_EmptySet
  <2>4. region'[p] = regions + 1 /\ spawned'[p] = 0 /\ st'[p] = "spawn"
    BY <1>1 DEF ViInv, ViTypeOK
  <2>5. Taken(p)' = 0
    BY <2>4 DEF Taken
  <2>6. (V!Busy(region[p]))' = V!Busy(regions + 1)
    BY <1>1, <2>4 DEF V!Busy
  <2> QED BY <1>1, <1>2, <2>2, <2>4, <2>5, <2>6 DEF TokensCount
<1> QED BY <1>3, <1>4, <1>6, <1>7 DEF ViInv

LEMMA SpawnStep ==
    ASSUME ViInv, NEW p \in Callers, V!SpawnWorker(p)
    PROVE  ViInv'
<1> DEFINE w == spawned[p] + 1
           r == region[p]
<1>1. /\ V!InRegion(p) /\ st[p] = "spawn" /\ r = regions /\ r \in V!Regions /\ w \in V!Wids
      /\ spawned[p] \in Nat
  BY KernelAssumption
     DEF V!SpawnWorker, V!More, V!InRegion, ViInv, ViTypeOK, OneRegion, V!Regions, V!Wids
<1>2. /\ worker' = [worker EXCEPT ![r] = [worker[r] EXCEPT ![w] = "ready"]]
      /\ spawned' = [spawned EXCEPT ![p] = w]
      /\ UNCHANGED <<st, region, asked, joined, g_barrier, g_nworkers, regions>>
  BY <1>1 DEF V!SpawnWorker, ViInv, ViTypeOK
<1>3. \A q \in Callers : V!InRegion(q)' = V!InRegion(q) /\ (V!InRegion(q) => q = p)
  BY <1>1, <1>2 DEF V!InRegion, ViInv, OneRegion
<1>4. ViTypeOK'
  BY <1>1, <1>2, KernelAssumption DEF ViInv, ViTypeOK, V!Wids
<1>5. OneRegion'
  BY <1>2, <1>3 DEF ViInv, OneRegion
<1>6. worker[r][w] = "none"
  BY <1>1 DEF ViInv, BusyInside
<1>7. BusyInside'
  <2> SUFFICES ASSUME NEW r2 \in V!Regions, NEW w2 \in V!Wids
               PROVE  /\ worker'[r2][w2] \in {"ready", "run"} => \E q \in Callers : V!InRegion(q) /\ region[q] = r2
                      /\ r2 > regions => worker'[r2][w2] = "none"
                      /\ \A q \in Callers : V!InRegion(q) /\ region[q] = r2 /\ w2 > spawned'[q]
                            => worker'[r2][w2] = "none"
    BY <1>2, <1>3 DEF BusyInside
  <2>1. CASE r2 = r /\ w2 = w
    BY <1>1, <1>2, <1>3, <2>1 DEF ViInv, ViTypeOK, V!Regions, V!Wids
  <2>2. CASE ~(r2 = r /\ w2 = w)
    <3>1. worker'[r2][w2] = worker[r2][w2]
      BY <1>1, <1>2, <2>2 DEF ViInv, ViTypeOK
    <3>2. \A q \in Callers : w2 > spawned'[q] /\ V!InRegion(q) => w2 > spawned[q]
      BY <1>1, <1>2, <1>3 DEF ViInv, ViTypeOK, V!Wids
    <3> QED BY <3>1, <3>2 DEF ViInv, BusyInside
  <2> QED BY <2>1, <2>2
<1>8. TokensCount'
  <2>1. (V!Busy(region[p]))' = V!Busy(r) \cup {w}
    BY <1>1, <1>2 DEF V!Busy, ViInv, ViTypeOK
  <2>2. w \notin V!Busy(r)
    BY <1>6 DEF V!Busy
  <2>3. Cardinality((V!Busy(region[p]))') = Cardinality(V!Busy(r)) + 1
    BY <2>1, <2>2, BusyFinite, FS_AddElement
  <2>4. spawned'[p] = spawned[p] + 1 /\ Taken(p)' = Taken(p) /\ Taken(p) = 0
    BY <1>1, <1>2 DEF ViInv, ViTypeOK, Taken
  <2>5. Taken(p) + g_barrier + Cardinality(V!Busy(r)) = spawned[p]
    BY <1>1 DEF ViInv, TokensCount
  <2>6. Taken(p)' + g_barrier' + Cardinality((V!Busy(region[p]))') = spawned'[p]
    BY <1>1, <1>2, <2>3, <2>4, <2>5, BusyFinite DEF ViInv, ViTypeOK
  <2> QED BY <1>1, <1>2, <1>3, <2>6 DEF TokensCount
<1> QED BY <1>4, <1>5, <1>7, <1>8 DEF ViInv

\* A caller that leaves its region, with no worker busy, leaves none behind.
LEMMA LeaveStep ==
    ASSUME ViInv, NEW p \in Callers, V!InRegion(p), V!Busy(region[p]) = {},
           st' = [st EXCEPT ![p] = "el0"], g_nworkers' \in Nat,
           UNCHANGED <<region, asked, spawned, joined, worker, g_barrier, regions>>
    PROVE  ViInv'
<1>1. \A q \in Callers : ~V!InRegion(q)'
  BY DEF V!InRegion, ViInv, ViTypeOK, OneRegion
<1>2. ViTypeOK'
  BY DEF ViInv, ViTypeOK
<1>3. OneRegion'
  BY <1>1 DEF ViInv, OneRegion
<1>4. BusyInside'
  BY <1>1 DEF ViInv, BusyInside, OneRegion, V!Busy
<1>5. TokensCount'
  BY <1>1 DEF TokensCount
<1> QED BY <1>2, <1>3, <1>4, <1>5 DEF ViInv

\* From one part of its region to the next
LEMMA MoveStep ==
    ASSUME ViInv, NEW p \in Callers, NEW s \in {"compute", "join"}, V!InRegion(p),
           st' = [st EXCEPT ![p] = s],
           s = "compute" => st[p] = "spawn" /\ g_nworkers' = spawned[p] /\ joined' = joined,
           s = "join" => st[p] = "compute" /\ g_nworkers' = g_nworkers
                         /\ joined' = [joined EXCEPT ![p] = 0],
           UNCHANGED <<region, asked, spawned, worker, g_barrier, regions>>
    PROVE  ViInv'
<1>1. \A q \in Callers : V!InRegion(q)' = V!InRegion(q) /\ (V!InRegion(q) => q = p)
  BY DEF V!InRegion, ViInv, ViTypeOK, OneRegion
<1>2. ViTypeOK'
  BY DEF ViInv, ViTypeOK
<1>3. OneRegion' /\ BusyInside'
  BY <1>1 DEF ViInv, OneRegion, BusyInside
<1>4. Taken(p)' = 0 /\ Taken(p) = 0 /\ st'[p] = s /\ g_nworkers' = spawned[p]
  BY DEF ViInv, ViTypeOK, Taken, TokensCount, V!InRegion
<1>5. (V!Busy(region[p]))' = V!Busy(region[p])
  BY DEF V!Busy
<1>6. TokensCount'
  BY <1>1, <1>4, <1>5 DEF ViInv, TokensCount
<1> QED BY <1>2, <1>3, <1>6 DEF ViInv

LEMMA JoinWaitStep ==
    ASSUME ViInv, NEW p \in Callers, V!JoinWait(p)
    PROVE  ViInv'
<1>1. /\ V!InRegion(p) /\ st[p] = "join" /\ g_barrier > 0 /\ g_barrier' = g_barrier - 1
      /\ joined' = [joined EXCEPT ![p] = joined[p] + 1]
      /\ UNCHANGED <<st, region, asked, spawned, worker, g_nworkers, regions>>
  BY DEF V!JoinWait, V!Token, V!InRegion
<1>2. \A q \in Callers : V!InRegion(q)' = V!InRegion(q) /\ (V!InRegion(q) => q = p)
  BY <1>1 DEF V!InRegion, ViInv, OneRegion
<1>3. ViTypeOK'
  BY <1>1 DEF ViInv, ViTypeOK
<1>4. OneRegion' /\ BusyInside'
  BY <1>1, <1>2 DEF ViInv, OneRegion, BusyInside
<1>5. Taken(p)' = Taken(p) + 1
  BY <1>1 DEF ViInv, ViTypeOK, Taken
<1>6. (V!Busy(region[p]))' = V!Busy(region[p])
  BY <1>1 DEF V!Busy
<1>7. Taken(p) \in Nat /\ spawned[p] \in Nat
  BY DEF ViInv, ViTypeOK, Taken
<1>8. TokensCount'
  <2> SUFFICES Taken(p)' + g_barrier' + Cardinality((V!Busy(region[p]))') = spawned'[p]
    BY <1>1, <1>2 DEF ViInv, TokensCount
  <2>1. Taken(p) + g_barrier + Cardinality(V!Busy(region[p])) = spawned[p] /\ g_barrier \in Nat
    BY <1>1 DEF ViInv, ViTypeOK, TokensCount
  <2> QED BY <1>1, <1>5, <1>6, <1>7, <2>1, BusyFinite
<1> QED BY <1>3, <1>4, <1>8 DEF ViInv

\* A worker enters EL0, or posts its token and is no longer busy.
LEMMA WorkingStep ==
    ASSUME ViInv, NEW r \in V!Regions, NEW w \in V!Wids, V!Working(r, w)
    PROVE  ViInv'
<1> DEFINE to == IF worker[r][w] = "ready" THEN "run" ELSE "over"
<1>1. /\ worker[r][w] \in {"ready", "run"}
      /\ worker' = [worker EXCEPT ![r] = [worker[r] EXCEPT ![w] = to]]
      /\ g_barrier' = IF worker[r][w] = "ready" THEN g_barrier ELSE g_barrier + 1
      /\ UNCHANGED <<st, region, asked, spawned, joined, g_nworkers, regions>>
  BY DEF V!Working, V!WorkerEnter, V!WorkerDone, V!caller, ViInv, ViTypeOK
<1>2. PICK p \in Callers : V!InRegion(p) /\ region[p] = r
  BY <1>1 DEF ViInv, BusyInside
<1>3. \A q \in Callers : V!InRegion(q)' = V!InRegion(q) /\ (V!InRegion(q) => q = p)
  BY <1>1, <1>2 DEF V!InRegion, ViInv, OneRegion
<1>4. ViTypeOK'
  BY <1>1 DEF ViInv, ViTypeOK
<1>5. OneRegion'
  BY <1>1, <1>3 DEF ViInv, OneRegion
<1>6. BusyInside'
  <2>1. \A r2 \in V!Regions, w2 \in V!Wids :
           /\ worker'[r2][w2] \in {"ready", "run"} => worker[r2][w2] \in {"ready", "run"}
           /\ worker[r2][w2] = "none" => worker'[r2][w2] = "none"
    BY <1>1 DEF ViInv, ViTypeOK
  <2> QED BY <1>1, <1>3, <2>1 DEF ViInv, BusyInside
<1>7. TokensCount'
  <2>1. Taken(p)' = Taken(p) /\ Taken(p) \in Nat /\ g_barrier \in Nat /\ spawned[p] \in Nat
    BY <1>1 DEF Taken, ViInv, ViTypeOK
  <2>2. Taken(p) + g_barrier + Cardinality(V!Busy(r)) = spawned[p]
    BY <1>2 DEF ViInv, TokensCount
  <2>3. CASE worker[r][w] = "ready"
    <3>1. (V!Busy(region[p]))' = V!Busy(r)
      BY <1>1, <1>2, <2>3 DEF V!Busy, ViInv, ViTypeOK
    <3> QED BY <1>1, <1>2, <1>3, <2>1, <2>2, <2>3, <3>1 DEF ViInv, TokensCount
  <2>4. CASE worker[r][w] = "run"
    <3>1. (V!Busy(region[p]))' = V!Busy(r) \ {w} /\ w \in V!Busy(r)
      BY <1>1, <1>2, <2>4 DEF V!Busy, ViInv, ViTypeOK
    <3>2. Cardinality((V!Busy(region[p]))') = Cardinality(V!Busy(r)) - 1
      BY <3>1, BusyFinite, FS_RemoveElement
    <3>3. Taken(p)' + g_barrier' + Cardinality((V!Busy(region[p]))') = spawned[p]
      BY <1>1, <2>1, <2>2, <2>4, <3>2, BusyFinite
    <3> QED BY <1>1, <1>2, <1>3, <3>3 DEF ViInv, TokensCount
  <2> QED BY <1>1, <2>3, <2>4
<1> QED BY <1>4, <1>5, <1>6, <1>7 DEF ViInv

LEMMA ViStep ==
    ASSUME ~EndsEarly, ViInv, [V!Next]_(V!vars)
    PROVE  ViInv'
<1>1. ASSUME NEW p \in Callers, NEW n \in 2 .. VI_MAX_WORKERS, V!Begin(p, n) PROVE ViInv'
  BY <1>1, BeginStep
<1>2. ASSUME NEW p \in Callers, V!SpawnWorker(p) PROVE ViInv'
  BY <1>2, SpawnStep
<1>3. ASSUME NEW p \in Callers, V!SpawnDone(p) PROVE ViInv'
  <2>1. V!InRegion(p) /\ spawned[p] \in Nat
    BY <1>3 DEF V!SpawnDone, V!InRegion, ViInv, ViTypeOK
  <2>2. CASE spawned[p] > 0
    BY <1>3, <2>1, <2>2, MoveStep DEF V!SpawnDone, V!Goto, V!Count
  <2>3. CASE spawned[p] = 0
    <3>1. Cardinality(V!Busy(region[p])) = 0
      <4>1. Taken(p) + g_barrier + Cardinality(V!Busy(region[p])) = 0 /\ Taken(p) \in Nat /\ g_barrier \in Nat
        BY <2>1, <2>3 DEF ViInv, ViTypeOK, TokensCount, Taken
      <4> QED BY <4>1, BusyFinite
    <3>2. V!Busy(region[p]) = {}
      BY <3>1, BusyFinite, FS_EmptySet
    <3>3. /\ st' = [st EXCEPT ![p] = "el0"] /\ g_nworkers' \in Nat
          /\ UNCHANGED <<region, asked, spawned, joined, worker, g_barrier, regions>>
      BY <1>3, <2>1, <2>3 DEF V!SpawnDone, V!Goto, V!Count
    <3> QED BY <2>1, <3>2, <3>3, LeaveStep
  <2> QED BY <2>1, <2>2, <2>3
<1>4. ASSUME NEW p \in Callers, V!Join(p) PROVE ViInv'
  BY <1>4, MoveStep DEF V!Join, V!Goto, V!InRegion
<1>5. ASSUME NEW p \in Callers, V!JoinWait(p) PROVE ViInv'
  BY <1>5, JoinWaitStep
<1>6. ASSUME NEW p \in Callers, V!JoinEnd(p) PROVE ViInv'
  <2>1. V!InRegion(p) /\ Taken(p) >= spawned[p] /\ Taken(p) \in Nat /\ spawned[p] \in Nat /\ g_barrier \in Nat
    BY <1>6 DEF V!JoinEnd, V!InRegion, ViInv, ViTypeOK, TokensCount, Taken
  <2>2. Taken(p) + g_barrier + Cardinality(V!Busy(region[p])) = spawned[p]
    BY <2>1 DEF ViInv, TokensCount
  <2>3. Cardinality(V!Busy(region[p])) = 0
    BY <2>1, <2>2, BusyFinite
  <2>4. V!Busy(region[p]) = {}
    BY <2>3, BusyFinite, FS_EmptySet
  <2> QED BY <1>6, <2>1, <2>4, LeaveStep DEF V!JoinEnd, V!Goto
<1>7. ASSUME NEW p \in Callers, V!End(p) PROVE ViInv'
  <2>1. \A q \in Callers : V!InRegion(q)' = V!InRegion(q) /\ Taken(q)' = Taken(q)
    BY <1>7 DEF V!End, V!Goto, V!InRegion, Taken, ViInv, ViTypeOK
  <2>2. ViTypeOK'
    BY <1>7 DEF V!End, V!Goto, ViInv, ViTypeOK
  <2>3. OneRegion' /\ BusyInside'
    BY <1>7, <2>1 DEF V!End, V!Goto, ViInv, OneRegion, BusyInside
  <2>4. \A q \in Callers : (V!Busy(region[q]))' = V!Busy(region[q]) /\ (V!InRegion(q) => st'[q] = st[q])
    BY <1>7 DEF V!End, V!Goto, V!Busy, V!InRegion, ViInv, ViTypeOK
  <2>5. TokensCount'
    BY <1>7, <2>1, <2>4 DEF V!End, ViInv, TokensCount
  <2> QED BY <2>2, <2>3, <2>5 DEF ViInv
<1>8. ASSUME NEW r \in V!Regions, NEW w \in V!Wids, V!Working(r, w) PROVE ViInv'
  BY <1>8, WorkingStep
<1>9. CASE UNCHANGED V!vars
  BY <1>9 DEF V!vars, V!caller, ViInv, ViTypeOK, OneRegion, BusyInside, TokensCount, Taken,
              V!InRegion, V!Busy
<1> QED BY <1>1, <1>2, <1>3, <1>4, <1>5, <1>6, <1>7, <1>8, <1>9 DEF V!Next, V!Calling

\* Behind vi_par_join every worker of the region has reported, for any number of callers,
\* workers and regions, provided that no caller ends inside a region (the process that
\* does leaves workers behind, whose tokens the next region takes for its own).
THEOREM Barrier ==
    ASSUME ~EndsEarly
    PROVE  KernelSpec => []JoinIsBarrier
<1>1. KernelInit => ViInv
  BY ViInit DEF KernelInit
<1>2. ViInv /\ [KernelNext]_kernel_vars => ViInv'
  BY ViMoves, ViStep
<1>3. ViInv => JoinIsBarrier
  <2> SUFFICES ASSUME ViInv, NEW p \in Callers, st[p] = "el0", region[p] # 0,
                      NEW w \in V!Wids, worker[region[p]][w] \in {"ready", "run"}
               PROVE  FALSE
    BY DEF JoinIsBarrier, V!JoinIsBarrier, V!Busy, V!NoRegion
  <2>1. region[p] \in V!Regions
    BY DEF ViInv, ViTypeOK, V!Regions
  <2> QED BY <2>1 DEF ViInv, BusyInside, OneRegion, V!InRegion
<1> QED BY <1>1, <1>2, <1>3, PTL DEF KernelSpec

-----------------------------------------------------------------------------
(***************************************************************************)
(* Mouse and keyboard. A device has a transfer queued, or its report lies  *)
(* in the event ring, or usb_input_loop is at work on it.                  *)
(***************************************************************************)
Devs == U!Hid \cup {"port"}
Reports == [move : Int \X Int, btn : Buttons]
Screen == [x : 0 .. XMAX, y : 0 .. YMAX, btn : Buttons]
Held == Keys \cup {NoKey}

UsbTypeOK ==
    /\ evt \in Seq(Devs) /\ hid_buf \in [mouse : Reports, kbd : Held]
    /\ primed \in [U!Hid -> {0, 1}] /\ idx \in U!Hid
    /\ loop \in {"wait", "copy", "x", "y", "btn", "dirty", "key", "prime"}
    /\ rep \in [mouse : Reports, kbd : Held]
    /\ g_xm \in Screen /\ mouse \in Screen /\ g_xm_dirty \in BOOLEAN
    /\ s_prev \in Held /\ key \in Held
    /\ s_xk_ring \in Seq(Keys) /\ console \in Seq(Keys) /\ pressed \in Seq(Keys)

Handling(d) == loop # "wait" /\ idx = d

OneOutstanding ==
    /\ \A d \in U!Hid :
          \/ primed[d] = 1 /\ U!At(d) = {} /\ ~Handling(d)
          \/ primed[d] = 0 /\ (\E i \in DOMAIN evt : U!At(d) = {i}) /\ ~Handling(d)
          \/ primed[d] = 0 /\ U!At(d) = {} /\ Handling(d)
    /\ loop \in {"x", "y", "btn", "dirty"} => idx = "mouse"
    /\ loop = "key" => idx = "kbd"

\* The report that d has sent is still in the buffer of the controller.
Pending(d) == primed[d] = 0 /\ (Handling(d) => loop = "copy")

\* The task has published all the mouse did, or all but the report it works on.
MouseInv ==
    LET m == U!Moved(g_xm, rep.mouse) IN
    /\ Pending("mouse") => mouse = U!Moved(g_xm, hid_buf.mouse)
    /\ ~Pending("mouse") /\ loop \notin {"x", "y", "btn"} => mouse = g_xm
    /\ loop = "x" => mouse = m
    /\ loop = "y" => mouse = [m EXCEPT !.x = g_xm.x]
    /\ loop = "btn" => mouse = [g_xm EXCEPT !.btn = m.btn]
    /\ ~g_xm_dirty /\ loop \notin {"y", "btn", "dirty"} => cursor = g_xm

\* The key whose report is still to be decoded
Coming(d) ==
    IF (Pending(d) \/ loop = "key") /\ key # NoKey THEN <<key>> ELSE <<>>

KeyInv ==
    /\ IF Pending("kbd") \/ loop = "key" THEN key # s_prev ELSE key = s_prev
    /\ Pending("kbd") => hid_buf.kbd = key
    /\ loop = "key" => rep.kbd = key
    /\ Len(pressed) < XK_RING => (console \o s_xk_ring) \o Coming("kbd") = pressed

UsbInv == UsbTypeOK /\ OneOutstanding /\ MouseInv /\ KeyInv

LEMMA AppendAt ==
    ASSUME evt \in Seq(Devs), NEW e \in Devs, evt' = Append(evt, e), NEW d
    PROVE  /\ evt' \in Seq(Devs)
           /\ (U!At(d))' = IF e = d THEN U!At(d) \cup {Len(evt) + 1} ELSE U!At(d)
<1>1. evt' \in Seq(Devs)
  BY AppendProperties
<1>2. /\ DOMAIN evt' = DOMAIN evt \cup {Len(evt) + 1} /\ evt'[Len(evt) + 1] = e
      /\ \A i \in DOMAIN evt : evt'[i] = evt[i] /\ i # Len(evt) + 1
  OBVIOUS
<1> QED BY <1>1, <1>2 DEF U!At

\* Where a device has one event, taking the oldest event takes it or moves it up.
LEMMA TailAt ==
    ASSUME evt \in Seq(Devs), evt # <<>>, evt' = Tail(evt), NEW d
    PROVE  /\ evt' \in Seq(Devs) /\ Head(evt) \in Devs
           /\ U!At(d) = {} => (U!At(d))' = {} /\ Head(evt) # d
           /\ \A i \in DOMAIN evt : U!At(d) = {i} =>
                 IF Head(evt) = d THEN (U!At(d))' = {}
                 ELSE \E j \in DOMAIN evt' : (U!At(d))' = {j}
<1>1. evt' \in Seq(Devs) /\ Head(evt) \in Devs /\ Head(evt) = evt[1] /\ Len(evt) \in Nat \ {0}
  BY HeadTailProperties
<1>2. /\ DOMAIN evt = 1 .. Len(evt) /\ DOMAIN evt' = 1 .. Len(evt) - 1
      /\ \A i \in 1 .. Len(evt) - 1 : evt'[i] = evt[i + 1]
  BY <1>1
<1>3. U!At(d) = {} => (U!At(d))' = {} /\ Head(evt) # d
  <2> SUFFICES ASSUME U!At(d) = {} PROVE (U!At(d))' = {} /\ Head(evt) # d
    OBVIOUS
  <2>1. \A i \in 1 .. Len(evt) : evt[i] # d
    BY <1>2 DEF U!At
  <2>2. \A i \in 1 .. Len(evt) - 1 : i + 1 \in 1 .. Len(evt)
    BY <1>1
  <2> QED BY <1>1, <1>2, <2>1, <2>2 DEF U!At
<1>4. ASSUME NEW i \in DOMAIN evt, U!At(d) = {i}
      PROVE  IF Head(evt) = d THEN (U!At(d))' = {} ELSE \E j \in DOMAIN evt' : (U!At(d))' = {j}
  <2>1. evt[i] = d /\ \A k \in 1 .. Len(evt) : evt[k] = d => k = i
    BY <1>2, <1>4 DEF U!At
  <2>2. CASE Head(evt) = d
    <3>1. i = 1
      BY <1>1, <2>1, <2>2
    <3> QED BY <1>1, <1>2, <2>1, <2>2, <3>1 DEF U!At
  <2>3. CASE Head(evt) # d
    <3>1. i - 1 \in DOMAIN evt' /\ evt'[i - 1] = d
      BY <1>1, <1>2, <1>4, <2>1, <2>3
    <3>2. \A k \in DOMAIN evt' : evt'[k] = d => k = i - 1
      BY <1>1, <1>2, <1>4, <2>1
    <3>3. (U!At(d))' = {i - 1}
      BY <3>1, <3>2 DEF U!At
    <3> QED BY <2>3, <3>1, <3>3
  <2> QED BY <2>2, <2>3
<1> QED BY <1>1, <1>3, <1>4

LEMMA MovedType ==
    \A m \in Screen, r \in Reports : U!Moved(m, r) \in Screen /\ U!Moved(m, r).btn = r.btn
BY KernelAssumption DEF U!Moved, U!Clamp, Screen, Reports

LEMMA AfterIs ==
    U!After("x") = "y" /\ U!After("y") = "btn" /\ U!After("btn") = "dirty" /\ U!After("dirty") = "prime"
BY DEF U!After, U!Stores

LEMMA UsbInit == U!Init => UsbInv
<1> SUFFICES ASSUME U!Init PROVE UsbInv
  OBVIOUS
<1>1. U!Start \in Screen /\ [mouse |-> U!Still, kbd |-> NoKey] \in [mouse : Reports, kbd : Held]
  BY KernelAssumption DEF U!Start, U!Still, Screen, Reports, Held
<1>2. UsbTypeOK
  <2>1. /\ hid_buf \in [mouse : Reports, kbd : Held] /\ rep = hid_buf
        /\ g_xm \in Screen /\ mouse \in Screen
    BY <1>1 DEF U!Init
  <2>2. /\ evt = <<>> /\ s_xk_ring = <<>> /\ console = <<>> /\ pressed = <<>>
        /\ primed = [d \in U!Hid |-> 1] /\ idx = "mouse" /\ loop = "wait" /\ g_xm_dirty = FALSE
        /\ s_prev = NoKey /\ key = NoKey
    BY DEF U!Init
  <2>3. evt \in Seq(Devs) /\ s_xk_ring \in Seq(Keys) /\ console \in Seq(Keys) /\ pressed \in Seq(Keys)
    BY <2>2
  <2>4. primed \in [U!Hid -> {0, 1}] /\ idx \in U!Hid /\ g_xm_dirty \in BOOLEAN /\ s_prev \in Held /\ key \in Held
        /\ loop \in {"wait", "copy", "x", "y", "btn", "dirty", "key", "prime"}
    BY <2>2 DEF U!Hid, Held
  <2> QED BY <2>1, <2>3, <2>4 DEF UsbTypeOK
<1>3. OneOutstanding
  BY DEF U!Init, U!Hid, OneOutstanding, U!At, Handling
<1>4. MouseInv
  BY DEF U!Init, U!Hid, MouseInv, Pending, Handling
<1>5. KeyInv
  BY DEF U!Init, U!Hid, KeyInv, Pending, Handling, Coming
<1> QED BY <1>2, <1>3, <1>4, <1>5 DEF UsbInv

\* The controller completes the transfer of a device.
LEMMA CompleteStep ==
    ASSUME UsbInv, NEW d \in U!Hid, NEW r, U!Complete(d, r)
    PROVE  /\ OneOutstanding' /\ evt' \in Seq(Devs) /\ primed' \in [U!Hid -> {0, 1}]
           /\ ~Pending(d) /\ ~Handling(d) /\ (Pending(d))'
           /\ \A e \in U!Hid \ {d} : (Pending(e))' = Pending(e)
<1>0. /\ primed[d] > 0 /\ primed' = [primed EXCEPT ![d] = primed[d] - 1] /\ evt' = Append(evt, d)
      /\ UNCHANGED <<loop, idx>> /\ d \in Devs /\ evt \in Seq(Devs)
      /\ primed \in [U!Hid -> {0, 1}]
  BY DEF U!Complete, UsbInv, UsbTypeOK, Devs
<1>1. /\ primed[d] = 1 /\ primed' = [primed EXCEPT ![d] = 0] /\ evt' = Append(evt, d)
      /\ UNCHANGED <<loop, idx>> /\ d \in Devs /\ evt \in Seq(Devs)
  <2>1. primed[d] = 1 /\ primed[d] - 1 = 0
    BY <1>0
  <2> QED BY <1>0, <2>1, Zenon
<1>2. U!At(d) = {} /\ ~Handling(d)
  BY <1>1 DEF UsbInv, OneOutstanding
<1>3. /\ evt' \in Seq(Devs) /\ (U!At(d))' = {Len(evt) + 1} /\ Len(evt) + 1 \in DOMAIN evt'
      /\ \A e \in U!Hid \ {d} : (U!At(e))' = U!At(e)
  BY <1>1, <1>2, AppendAt DEF U!Hid
<1>4. \A i \in DOMAIN evt : i \in DOMAIN evt'
  BY <1>1
<1>5. \A e \in U!Hid : (Handling(e))' = Handling(e)
  BY <1>1 DEF Handling
<1>6. OneOutstanding'
  BY <1>1, <1>2, <1>3, <1>4, <1>5 DEF UsbInv, UsbTypeOK, OneOutstanding
<1> QED BY <1>1, <1>2, <1>3, <1>5, <1>6 DEF Pending, UsbInv, UsbTypeOK

LEMMA MouseReportStep == UsbInv /\ U!MouseReport => UsbInv'
<1> SUFFICES ASSUME UsbInv, NEW m \in Moves, NEW b \in Buttons,
                    U!Complete("mouse", [move |-> m, btn |-> b]),
                    mouse' = U!Moved(mouse, [move |-> m, btn |-> b]), UNCHANGED <<key, pressed>>
             PROVE  UsbInv'
  BY DEF U!MouseReport
<1> DEFINE r == [move |-> m, btn |-> b]
<1>1. r \in Reports
  BY KernelAssumption DEF Reports
<1>2. /\ hid_buf' = [hid_buf EXCEPT !["mouse"] = r]
      /\ UNCHANGED <<loop, idx, rep, g_xm, g_xm_dirty, s_prev, s_xk_ring, cursor, console, key, pressed>>
  BY DEF U!Complete, U!xm, U!keyboard, U!readers
<1>3. /\ OneOutstanding' /\ evt' \in Seq(Devs) /\ primed' \in [U!Hid -> {0, 1}]
      /\ ~Pending("mouse") /\ ~Handling("mouse") /\ (Pending("mouse"))'
      /\ (Pending("kbd"))' = Pending("kbd")
  BY CompleteStep DEF U!Hid
<1>4. hid_buf' \in [mouse : Reports, kbd : Held] /\ hid_buf'.mouse = r /\ hid_buf'.kbd = hid_buf.kbd
  BY <1>1, <1>2 DEF UsbInv, UsbTypeOK
<1>5. UsbTypeOK'
  BY <1>1, <1>2, <1>3, <1>4, MovedType DEF UsbInv, UsbTypeOK
<1>6. MouseInv'
  <2>1. loop \notin {"x", "y", "btn", "dirty"}
    BY <1>3 DEF UsbInv, OneOutstanding, Handling
  <2>2. mouse = g_xm
    BY <1>3, <2>1 DEF UsbInv, MouseInv
  <2> QED BY <1>2, <1>3, <1>4, <2>1, <2>2 DEF UsbInv, MouseInv
<1>7. KeyInv'
  BY <1>2, <1>3, <1>4 DEF UsbInv, KeyInv, Coming
<1> QED BY <1>3, <1>5, <1>6, <1>7 DEF UsbInv

LEMMA KeyReportStep == UsbInv /\ U!KeyReport => UsbInv'
<1> SUFFICES ASSUME UsbInv, NEW k \in Held \ {key}, U!Complete("kbd", k), key' = k,
                    pressed' = IF k = NoKey THEN pressed ELSE Append(pressed, k), mouse' = mouse
             PROVE  UsbInv'
  BY DEF U!KeyReport, Held
<1>2. /\ hid_buf' = [hid_buf EXCEPT !["kbd"] = k]
      /\ UNCHANGED <<loop, idx, rep, g_xm, g_xm_dirty, s_prev, s_xk_ring, cursor, console>>
  BY DEF U!Complete, U!xm, U!keyboard, U!readers
<1>3. /\ OneOutstanding' /\ evt' \in Seq(Devs) /\ primed' \in [U!Hid -> {0, 1}]
      /\ ~Pending("kbd") /\ ~Handling("kbd") /\ (Pending("kbd"))'
      /\ (Pending("mouse"))' = Pending("mouse")
  BY CompleteStep DEF U!Hid
<1>4. hid_buf' \in [mouse : Reports, kbd : Held] /\ hid_buf'.kbd = k /\ hid_buf'.mouse = hid_buf.mouse
  BY <1>2 DEF UsbInv, UsbTypeOK
<1>5. pressed' \in Seq(Keys)
  BY AppendProperties DEF UsbInv, UsbTypeOK, Held
<1>6. UsbTypeOK'
  BY <1>2, <1>3, <1>4, <1>5 DEF UsbInv, UsbTypeOK
<1>7. MouseInv'
  BY <1>2, <1>3, <1>4 DEF UsbInv, MouseInv
<1>8. KeyInv'
  <2>1. loop # "key" /\ key = s_prev /\ Coming("kbd") = <<>> /\ (Coming("kbd"))' = IF k = NoKey THEN <<>> ELSE <<k>>
    BY <1>2, <1>3 DEF UsbInv, KeyInv, OneOutstanding, Handling, Coming
  <2>2. ASSUME Len(pressed') < XK_RING PROVE (console \o s_xk_ring) \o (Coming("kbd"))' = pressed'
    <3>1. Len(pressed) < XK_RING
      BY <2>2, KernelAssumption DEF UsbInv, UsbTypeOK
    <3>2. (console \o s_xk_ring) \o <<>> = pressed
      BY <2>1, <3>1 DEF UsbInv, KeyInv
    <3>3. console \o s_xk_ring = pressed
      BY <3>2 DEF UsbInv, UsbTypeOK
    <3>4. CASE k = NoKey
      BY <2>1, <3>2, <3>4
    <3>5. CASE k # NoKey
      <4>1. pressed \in Seq(Keys) /\ k \in Keys
        BY <3>5 DEF UsbInv, UsbTypeOK, Held
      <4>2. Append(pressed, k) = pressed \o <<k>>
        BY <4>1
      <4> QED BY <2>1, <3>3, <3>5, <4>2
    <3> QED BY <3>4, <3>5
  <2> QED BY <1>2, <1>3, <1>4, <2>1, <2>2 DEF KeyInv
<1> QED BY <1>3, <1>6, <1>7, <1>8 DEF UsbInv

LEMMA PortEventStep == UsbInv /\ U!PortEvent => UsbInv'
<1> SUFFICES ASSUME UsbInv, U!PortEvent PROVE UsbInv'
  OBVIOUS
<1>1. /\ evt' = Append(evt, "port") /\ "port" \in Devs /\ evt \in Seq(Devs)
      /\ UNCHANGED <<hid_buf, primed, loop, idx, rep, g_xm, g_xm_dirty, s_prev, s_xk_ring, cursor,
                     console, mouse, key, pressed>>
  BY DEF U!PortEvent, U!xm, U!keyboard, U!readers, U!devices, UsbInv, UsbTypeOK, Devs
<1>2. evt' \in Seq(Devs) /\ \A d \in U!Hid : (U!At(d))' = U!At(d)
  BY <1>1, AppendAt DEF U!Hid
<1>3. OneOutstanding'
  <2>1. \A i \in DOMAIN evt : i \in DOMAIN evt'
    BY <1>1
  <2> QED BY <1>1, <1>2, <2>1 DEF UsbInv, OneOutstanding, Handling
<1>4. UsbTypeOK' /\ MouseInv' /\ KeyInv'
  BY <1>1, <1>2 DEF UsbInv, UsbTypeOK, MouseInv, KeyInv, Pending, Handling, Coming
<1> QED BY <1>3, <1>4 DEF UsbInv

LEMMA WaitStep == UsbInv /\ U!hid_wait => UsbInv'
<1> SUFFICES ASSUME UsbInv, U!hid_wait PROVE UsbInv'
  OBVIOUS
<1>1. /\ loop = "wait" /\ evt # <<>> /\ evt' = Tail(evt) /\ evt \in Seq(Devs)
      /\ IF Head(evt) = "port" THEN UNCHANGED <<loop, idx>> ELSE loop' = "copy" /\ idx' = Head(evt)
      /\ UNCHANGED <<hid_buf, primed, rep, g_xm, g_xm_dirty, s_prev, s_xk_ring, cursor,
                     console, mouse, key, pressed>>
  BY DEF U!hid_wait, U!xm, U!keyboard, U!readers, U!devices, UsbInv, UsbTypeOK
<1>2. /\ evt' \in Seq(Devs) /\ Head(evt) \in Devs
      /\ \A d : U!At(d) = {} => (U!At(d))' = {} /\ Head(evt) # d
      /\ \A d : \A i \in DOMAIN evt : U!At(d) = {i} =>
            IF Head(evt) = d THEN (U!At(d))' = {} ELSE \E j \in DOMAIN evt' : (U!At(d))' = {j}
  BY <1>1, TailAt
<1>3. \A d \in U!Hid : ~Handling(d) /\ ((Handling(d))' <=> Head(evt) = d)
  BY <1>1 DEF Handling, U!Hid
<1>4. OneOutstanding'
  <2>1. ASSUME NEW d \in U!Hid
        PROVE  \/ primed'[d] = 1 /\ (U!At(d))' = {} /\ ~(Handling(d))'
               \/ primed'[d] = 0 /\ (\E i \in DOMAIN evt' : (U!At(d))' = {i}) /\ ~(Handling(d))'
               \/ primed'[d] = 0 /\ (U!At(d))' = {} /\ (Handling(d))'
    BY <1>1, <1>2, <1>3 DEF UsbInv, OneOutstanding
  <2> QED BY <1>1, <2>1 DEF OneOutstanding
<1>5. UsbTypeOK'
  BY <1>1, <1>2 DEF UsbInv, UsbTypeOK, Devs
<1>6. \A d \in U!Hid : (Pending(d))' = Pending(d)
  BY <1>1 DEF Pending, Handling
<1>7. (Coming("kbd"))' = Coming("kbd")
  BY <1>1, <1>6 DEF Coming, U!Hid
<1>8. MouseInv' /\ KeyInv'
  BY <1>1, <1>6, <1>7 DEF UsbInv, MouseInv, KeyInv, U!Hid
<1> QED BY <1>4, <1>5, <1>8 DEF UsbInv

LEMMA CopyStep == UsbInv /\ U!Copy => UsbInv'
<1> SUFFICES ASSUME UsbInv, U!Copy PROVE UsbInv'
  OBVIOUS
<1>1. /\ loop = "copy" /\ loop' = IF idx = "mouse" THEN "x" ELSE "key"
      /\ rep' = [rep EXCEPT ![idx] = hid_buf[idx]] /\ idx \in {"mouse", "kbd"}
      /\ UNCHANGED <<evt, hid_buf, primed, idx, g_xm, g_xm_dirty, s_prev, s_xk_ring, cursor,
                     console, mouse, key, pressed>>
  BY DEF U!Copy, U!Stores, U!xm, U!keyboard, U!readers, U!devices, UsbInv, UsbTypeOK, U!Hid
<1>2. OneOutstanding' /\ primed[idx] = 0
  BY <1>1 DEF UsbInv, OneOutstanding, U!At, Handling, U!Hid
<1>3. UsbTypeOK' /\ rep'[idx] = hid_buf[idx]
  BY <1>1 DEF UsbInv, UsbTypeOK, U!Hid
<1>4. Pending(idx) /\ ~(Pending(idx))' /\ \A d \in U!Hid \ {idx} : (Pending(d))' = Pending(d)
  BY <1>1, <1>2 DEF Pending, Handling, U!Hid
<1>5. CASE idx = "mouse"
  <2>1. MouseInv'
    BY <1>1, <1>3, <1>4, <1>5 DEF UsbInv, MouseInv
  <2>2. KeyInv'
    BY <1>1, <1>4, <1>5 DEF UsbInv, KeyInv, Coming, U!Hid
  <2> QED BY <1>2, <1>3, <2>1, <2>2 DEF UsbInv
<1>6. CASE idx = "kbd"
  <2>1. MouseInv'
    BY <1>1, <1>3, <1>4, <1>6 DEF UsbInv, MouseInv, U!Hid
  <2>2. KeyInv'
    BY <1>1, <1>3, <1>4, <1>6 DEF UsbInv, KeyInv, Coming
  <2> QED BY <1>2, <1>3, <2>1, <2>2 DEF UsbInv
<1> QED BY <1>1, <1>5, <1>6

LEMMA StoreStep == UsbInv /\ U!Store => UsbInv'
<1> SUFFICES ASSUME UsbInv, U!Store PROVE UsbInv'
  OBVIOUS
<1> DEFINE m == U!Moved(g_xm, rep.mouse)
<1>1. /\ loop \in {"x", "y", "btn", "dirty"} /\ loop' = U!After(loop) /\ idx = "mouse"
      /\ IF loop = "dirty" THEN g_xm_dirty' = TRUE /\ g_xm' = g_xm
         ELSE g_xm' = [g_xm EXCEPT ![loop] = m[loop]] /\ g_xm_dirty' = g_xm_dirty
      /\ UNCHANGED <<evt, hid_buf, primed, idx, rep, s_prev, s_xk_ring, cursor,
                     console, mouse, key, pressed>>
  BY DEF U!Store, U!keyboard, U!readers, U!devices, UsbInv, OneOutstanding
<1>2. loop' \in {"y", "btn", "dirty", "prime"}
  BY <1>1, AfterIs
<1>3. OneOutstanding' /\ primed["mouse"] = 0
  BY <1>1, <1>2 DEF UsbInv, OneOutstanding, U!At, Handling, U!Hid
<1>4. m \in Screen /\ g_xm \in Screen /\ mouse \in Screen /\ m.btn = rep.mouse.btn
  BY MovedType DEF UsbInv, UsbTypeOK
<1>5. UsbTypeOK'
  BY <1>1, <1>2, <1>4 DEF UsbInv, UsbTypeOK, Screen
<1>6. ~Pending("mouse") /\ ~(Pending("mouse"))' /\ (Pending("kbd"))' = Pending("kbd")
  BY <1>1, <1>2, <1>3 DEF Pending, Handling
<1>7. KeyInv'
  BY <1>1, <1>2, <1>6 DEF UsbInv, KeyInv, Coming
<1>8. MouseInv'
  <2>1. CASE loop = "x"
    <3>1. loop' = "y" /\ mouse = m /\ g_xm' = [g_xm EXCEPT !.x = m.x]
      BY <1>1, <2>1, AfterIs DEF UsbInv, MouseInv
    <3>2. (U!Moved(g_xm, rep.mouse))'.y = m.y /\ (U!Moved(g_xm, rep.mouse))'.btn = m.btn
      BY <1>1, <1>4, <3>1 DEF U!Moved, Screen
    <3>3. (U!Moved(g_xm, rep.mouse))' \in Screen /\ g_xm'.x = m.x
      BY <1>4, <1>5, <3>1, MovedType DEF UsbTypeOK, Screen
    <3>4. m = [(U!Moved(g_xm, rep.mouse))' EXCEPT !.x = g_xm'.x]
      BY <1>4, <3>2, <3>3 DEF Screen
    <3> QED BY <1>1, <1>6, <3>1, <3>4 DEF MouseInv
  <2>2. CASE loop = "y"
    <3>1. loop' = "btn" /\ mouse = [m EXCEPT !.x = g_xm.x] /\ g_xm' = [g_xm EXCEPT !.y = m.y]
      BY <1>1, <2>2, AfterIs DEF UsbInv, MouseInv
    <3>2. (U!Moved(g_xm, rep.mouse))'.btn = m.btn
      BY <1>1, <1>4, <3>1 DEF U!Moved, Screen
    <3>3. mouse = [g_xm' EXCEPT !.btn = m.btn]
      BY <1>4, <3>1 DEF Screen
    <3> QED BY <1>1, <1>6, <3>1, <3>2, <3>3 DEF MouseInv
  <2>3. CASE loop = "btn"
    <3>1. loop' = "dirty" /\ mouse = [g_xm EXCEPT !.btn = m.btn] /\ g_xm' = [g_xm EXCEPT !.btn = m.btn]
      BY <1>1, <2>3, AfterIs DEF UsbInv, MouseInv
    <3> QED BY <1>1, <1>6, <3>1 DEF MouseInv
  <2>4. CASE loop = "dirty"
    <3>1. loop' = "prime" /\ mouse = g_xm /\ g_xm' = g_xm /\ g_xm_dirty' = TRUE
      BY <1>1, <1>6, <2>4, AfterIs DEF UsbInv, MouseInv
    <3> QED BY <1>1, <1>6, <3>1 DEF MouseInv
  <2> QED BY <1>1, <2>1, <2>2, <2>3, <2>4
<1> QED BY <1>3, <1>5, <1>7, <1>8 DEF UsbInv

LEMMA DecodeStep == UsbInv /\ U!Decode => UsbInv'
<1> SUFFICES ASSUME UsbInv, U!Decode PROVE UsbInv'
  OBVIOUS
<1>1. /\ loop = "key" /\ loop' = "prime" /\ s_prev' = rep.kbd /\ idx = "kbd"
      /\ s_xk_ring' = IF U!Fresh(rep.kbd) /\ Len(s_xk_ring) < XK_RING - 1
                      THEN Append(s_xk_ring, rep.kbd) ELSE s_xk_ring
      /\ UNCHANGED <<evt, hid_buf, primed, idx, rep, g_xm, g_xm_dirty, cursor,
                     console, mouse, key, pressed>>
  BY DEF U!Decode, U!xm, U!readers, U!devices, UsbInv, OneOutstanding
<1>2. OneOutstanding' /\ primed["kbd"] = 0
  BY <1>1 DEF UsbInv, OneOutstanding, U!At, Handling, U!Hid
<1>3. rep.kbd = key /\ key # s_prev /\ rep.kbd \in Held
  BY <1>1 DEF UsbInv, UsbTypeOK, KeyInv
<1>4. U!Fresh(rep.kbd) <=> key # NoKey
  BY <1>3 DEF U!Fresh
<1>5. s_xk_ring' \in Seq(Keys)
  BY <1>1, <1>3, AppendProperties DEF U!Fresh, UsbInv, UsbTypeOK, Held
<1>6. UsbTypeOK'
  BY <1>1, <1>3, <1>5 DEF UsbInv, UsbTypeOK
<1>7. ~(Pending("kbd"))' /\ (Pending("mouse"))' = Pending("mouse")
  BY <1>1 DEF Pending, Handling
<1>8. MouseInv'
  BY <1>1, <1>7 DEF UsbInv, MouseInv
<1>9. KeyInv'
  <2>1. (Coming("kbd"))' = <<>> /\ Coming("kbd") = IF key # NoKey THEN <<key>> ELSE <<>>
    BY <1>1, <1>7 DEF Coming
  <2>2. ASSUME Len(pressed) < XK_RING PROVE (console \o s_xk_ring') \o <<>> = pressed
    <3>1. (console \o s_xk_ring) \o Coming("kbd") = pressed
      BY <2>2 DEF UsbInv, KeyInv
    <3>2. console \in Seq(Keys) /\ s_xk_ring \in Seq(Keys) /\ XK_RING \in Nat
      BY KernelAssumption DEF UsbInv, UsbTypeOK
    <3>3. CASE key = NoKey
      BY <1>1, <1>4, <2>1, <3>1, <3>3
    <3>4. CASE key # NoKey
      <4>1. key \in Keys
        BY <1>3, <3>4 DEF Held
      <4>2. Len(pressed) = Len(console) + Len(s_xk_ring) + 1
        <5>1. console \o s_xk_ring \in Seq(Keys) /\ Len(console \o s_xk_ring) = Len(console) + Len(s_xk_ring)
          BY <3>2, ConcatProperties
        <5>2. pressed = (console \o s_xk_ring) \o <<key>>
          BY <2>1, <3>1, <3>4
        <5>3. <<key>> \in Seq(Keys) /\ Len(<<key>>) = 1
          BY <4>1
        <5> QED BY <5>1, <5>2, <5>3, ConcatProperties
      <4>3. s_xk_ring' = Append(s_xk_ring, key)
        BY <1>1, <1>3, <1>4, <2>2, <3>2, <3>4, <4>2
      <4>4. (console \o s_xk_ring) \o <<key>> = (console \o Append(s_xk_ring, key)) \o <<>>
        BY <3>2, <4>1
      <4> QED BY <2>1, <3>1, <3>4, <4>3, <4>4
    <3> QED BY <3>3, <3>4
  <2> QED BY <1>1, <1>3, <1>7, <2>1, <2>2 DEF KeyInv
<1> QED BY <1>2, <1>6, <1>8, <1>9 DEF UsbInv

LEMMA PrimeStep == UsbInv /\ U!hid_prime => UsbInv'
<1> SUFFICES ASSUME UsbInv, U!hid_prime PROVE UsbInv'
  OBVIOUS
<1>1. /\ loop = "prime" /\ loop' = "wait" /\ primed' = [primed EXCEPT ![idx] = @ + 1]
      /\ UNCHANGED <<evt, hid_buf, idx, rep, g_xm, g_xm_dirty, s_prev, s_xk_ring, cursor,
                     console, mouse, key, pressed>>
  BY DEF U!hid_prime, U!xm, U!keyboard, U!readers, U!devices
<1>2. primed[idx] = 0 /\ U!At(idx) = {} /\ idx \in U!Hid
  BY <1>1 DEF UsbInv, UsbTypeOK, OneOutstanding, Handling
<1>3. UsbTypeOK' /\ primed'[idx] = 1 /\ \A d \in U!Hid \ {idx} : primed'[d] = primed[d]
  BY <1>1, <1>2 DEF UsbInv, UsbTypeOK
<1>4. OneOutstanding'
  BY <1>1, <1>2, <1>3 DEF UsbInv, OneOutstanding, U!At, Handling
<1>5. ~Pending(idx) /\ \A d \in U!Hid : (Pending(d))' = Pending(d)
  BY <1>1, <1>2, <1>3 DEF Pending, Handling
<1>6. MouseInv' /\ KeyInv'
  BY <1>1, <1>5 DEF UsbInv, MouseInv, KeyInv, Coming, U!Hid
<1> QED BY <1>3, <1>4, <1>6 DEF UsbInv

LEMMA ReadersStep == UsbInv /\ (U!mouse_get \/ U!kbd_get) => UsbInv'
<1> SUFFICES ASSUME UsbInv, U!mouse_get \/ U!kbd_get PROVE UsbInv'
  OBVIOUS
<1>1. CASE U!mouse_get
  <2>1. /\ cursor' = g_xm /\ g_xm_dirty' = FALSE
        /\ UNCHANGED <<evt, hid_buf, primed, loop, idx, rep, g_xm, s_prev, s_xk_ring, console,
                       mouse, key, pressed>>
    BY <1>1 DEF U!mouse_get, U!keyboard, U!devices
  <2>2. UsbTypeOK'
    BY <2>1 DEF UsbInv, UsbTypeOK
  <2>3. OneOutstanding'
    BY <2>1 DEF UsbInv, OneOutstanding, U!At, Handling
  <2>4. MouseInv' /\ KeyInv'
    BY <2>1 DEF UsbInv, MouseInv, KeyInv, Handling, Pending, Coming
  <2> QED BY <2>2, <2>3, <2>4 DEF UsbInv
<1>2. CASE U!kbd_get
  <2>1. /\ s_xk_ring # <<>> /\ console' = Append(console, Head(s_xk_ring)) /\ s_xk_ring' = Tail(s_xk_ring)
        /\ UNCHANGED <<evt, hid_buf, primed, loop, idx, rep, g_xm, g_xm_dirty, s_prev, cursor,
                       mouse, key, pressed>>
    BY <1>2 DEF U!kbd_get, U!xm, U!devices
  <2>2. /\ console' \in Seq(Keys) /\ s_xk_ring' \in Seq(Keys)
        /\ console' \o s_xk_ring' = console \o s_xk_ring
    BY <2>1 DEF UsbInv, UsbTypeOK
  <2>3. UsbTypeOK'
    BY <2>1, <2>2 DEF UsbInv, UsbTypeOK
  <2>4. OneOutstanding'
    BY <2>1 DEF UsbInv, OneOutstanding, U!At, Handling
  <2>5. MouseInv'
    BY <2>1 DEF UsbInv, MouseInv, Handling, Pending
  <2>6. KeyInv'
    BY <2>1, <2>2 DEF UsbInv, KeyInv, Pending, Handling, Coming
  <2> QED BY <2>3, <2>4, <2>5, <2>6 DEF UsbInv
<1> QED BY <1>1, <1>2

LEMMA UsbStep == UsbInv /\ [U!Next]_(U!vars) => UsbInv'
<1>1. ASSUME UsbInv, UNCHANGED U!vars PROVE UsbInv'
  <2>1. UNCHANGED <<evt, hid_buf, primed, loop, idx, rep, g_xm, g_xm_dirty, s_prev, s_xk_ring,
                    cursor, console, mouse, key, pressed>>
    BY <1>1 DEF U!vars, U!xm, U!keyboard, U!readers, U!devices
  <2>2. UsbTypeOK'
    BY <1>1, <2>1 DEF UsbInv, UsbTypeOK
  <2>3. OneOutstanding'
    BY <1>1, <2>1 DEF UsbInv, OneOutstanding, U!At, Handling
  <2>4. MouseInv' /\ KeyInv'
    BY <1>1, <2>1 DEF UsbInv, MouseInv, KeyInv, Handling, Pending, Coming
  <2> QED BY <2>2, <2>3, <2>4 DEF UsbInv
<1> QED BY <1>1, MouseReportStep, KeyReportStep, PortEventStep, WaitStep, CopyStep, StoreStep,
           DecodeStep, PrimeStep, ReadersStep DEF U!Next

\* Whenever the task waits, each device has one transfer outstanding or one report in the
\* ring; once all is processed, cursor, buttons and console are what the devices did: for
\* any keys, screen and ring size, and wherever the timer interrupt falls between stores.
THEOREM Settles == KernelSpec => []InputSettles
<1>1. KernelInit => UsbInv
  BY UsbInit DEF KernelInit
<1>2. UsbInv /\ [KernelNext]_kernel_vars => UsbInv'
  BY UsbMoves, UsbStep
<1>3. UsbInv => InputSettles
  <2> SUFFICES ASSUME UsbInv PROVE U!InputSettles
    BY DEF InputSettles
  <2>4. loop = "wait" => \A d \in U!Hid :
                            \/ primed[d] = 1 /\ U!At(d) = {}
                            \/ primed[d] = 0 /\ \E i \in DOMAIN evt : U!At(d) = {i}
    BY DEF UsbInv, OneOutstanding, Handling
  <2>5. U!Quiet => loop = "wait" /\ ~Pending("mouse") /\ ~Pending("kbd")
    BY <2>4 DEF U!Quiet, Pending, U!Hid
  <2>6. U!Quiet /\ ~g_xm_dirty => cursor = mouse
    BY <2>5 DEF UsbInv, MouseInv
  <2>7. U!Quiet /\ Len(pressed) < XK_RING => console \o s_xk_ring = pressed
    <3>1. U!Quiet => Coming("kbd") = <<>>
      BY <2>5 DEF Coming
    <3>2. (console \o s_xk_ring) \o <<>> = console \o s_xk_ring
      BY DEF UsbInv, UsbTypeOK
    <3> QED BY <3>1, <3>2 DEF UsbInv, KeyInv
  <2> QED BY <2>4, <2>6, <2>7 DEF U!InputSettles
<1> QED BY <1>1, <1>2, <1>3, PTL DEF KernelSpec
===============================================================================
