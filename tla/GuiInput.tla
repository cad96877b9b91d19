------------------------------ MODULE GuiInput ------------------------------
(***************************************************************************)
(* The lock-free ring of kernel/gui_input.c between the timer interrupt of *)
(* core 0 (gui_input_tick) and the GUI task in SYS_POLL_EVENT or           *)
(* SYS_WAIT_EVENT, which may run on another core.  The staging ring and    *)
(* the key ring of net/dev_agent.c are written the same way.               *)
(*                                                                         *)
(* A step is one access to shared memory.  What the dmb of push and the    *)
(* control dependency on its check order stays ordered; pop has no barrier *)
(* between its copy of the event and the store to g_tail, so the two may   *)
(* take effect in either order (the copy is done before the dmb of the     *)
(* next pop).                                                              *)
(***************************************************************************)
EXTENDS GuiConstants, FiniteSets, Sequences

Slots == 0 .. EVQ_N - 1

VARIABLES
    g_evq, g_head, g_tail,
    ppc, ev,       \* gui_input_push: "idle", "store" or "publish", and its argument
    todo, t,       \* gui_input_pop: which of "read" and "free" are still to come,
    out            \*   the slot, and the event read

push == <<ppc, ev>>
pop == <<todo, t, out>>
vars == <<g_evq, g_head, g_tail, push, pop>>

Init ==
    /\ g_evq = [i \in Slots |-> Zero]
    /\ g_head = 0
    /\ g_tail = 0
    /\ ppc = "idle" /\ ev = Zero
    /\ todo = {} /\ t = 0 /\ out = Zero

Succ_NoWrap(i) == i + 1
\* (i + 1) & (EVQ_N - 1): EVQ_N is a power of two.
Succ(i) == IF i = EVQ_N - 1 THEN 0 ELSE i + 1

(***************************************************************************)
(* gui_input_push                                                          *)
(***************************************************************************)
Full_Never == FALSE
Full == Succ(g_head) = g_tail

\* A full ring drops the event.
PushCheck(e) ==
    /\ ppc = "idle"
    /\ ~Full
    /\ ppc' = "store"
    /\ ev' = e
    /\ UNCHANGED <<g_evq, g_head, g_tail, pop>>

PushStore ==
    /\ ppc = "store"
    /\ g_evq' = [g_evq EXCEPT ![g_head] = ev]
    /\ ppc' = "publish"
    /\ UNCHANGED <<g_head, g_tail, ev, pop>>

PushPublish ==
    /\ ppc = "publish"
    /\ g_head' = Succ(g_head)
    /\ ppc' = "idle"
    /\ UNCHANGED <<g_evq, g_tail, ev, pop>>

(***************************************************************************)
(* gui_input_pop                                                           *)
(***************************************************************************)
\* An empty ring answers 0, at once.
PopCheck ==
    /\ todo = {}
    /\ g_tail # g_head
    /\ t' = g_tail
    /\ todo' = {"read", "free"}
    /\ UNCHANGED <<g_evq, g_head, g_tail, push, out>>

PopRead_AtTail ==
    /\ "read" \in todo
    /\ out' = g_evq[g_tail]
    /\ todo' = todo \ {"read"}
    /\ UNCHANGED <<g_evq, g_head, g_tail, push, t>>

PopRead ==
    /\ "read" \in todo
    /\ out' = g_evq[t]
    /\ todo' = todo \ {"read"}
    /\ UNCHANGED <<g_evq, g_head, g_tail, push, t>>

PopFree ==
    /\ "free" \in todo
    /\ g_tail' = Succ(t)
    /\ todo' = todo \ {"free"}
    /\ UNCHANGED <<g_evq, g_head, push, t, out>>

Next ==
    \/ \E e \in Events : PushCheck(e)
    \/ PushStore \/ PushPublish
    \/ PopCheck \/ PopRead \/ PopFree

Spec == Init /\ [][Next]_vars

-----------------------------------------------------------------------------
TypeOK ==
    /\ g_evq \in [Slots -> Events]
    /\ g_head \in Slots
    /\ g_tail \in Slots
    /\ ppc \in {"idle", "store", "publish"}
    /\ ev \in Events
    /\ todo \in SUBSET {"read", "free"}
    /\ t \in Slots
    /\ out \in Events

\* The writer never stores into the slot the reader still has to copy, even when
\* the copy takes effect after g_tail was advanced: the slot that stays empty in
\* a full ring keeps them apart.
NoTornEvent == ppc = "store" /\ "read" \in todo => g_head # t

(***************************************************************************)
(* The ring implements the queue: an event is put by the store to g_head   *)
(* and taken by the check that finds the ring not empty.                   *)
(***************************************************************************)
First == IF "free" \in todo THEN Succ(g_tail) ELSE g_tail
Length == IF First <= g_head THEN g_head - First ELSE g_head - First + EVQ_N
At(i) == IF First + i < EVQ_N THEN First + i ELSE First + i - EVQ_N

queue == [i \in 1 .. Length |-> g_evq[At(i - 1)]]
held == IF "read" \in todo THEN g_evq[t] ELSE out

Queue == INSTANCE EventQueue WITH q <- queue, hand <- held, Capacity <- EVQ_N - 1

\* Events reach the GUI in the order of the interrupts that queued them, none of
\* them twice, torn or overwritten.
ImplementsQueue == Queue!Spec
=============================================================================
