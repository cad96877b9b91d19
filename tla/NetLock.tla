------------------------------- MODULE NetLock -------------------------------
(***************************************************************************)
(* The reentrant lock around the network stack (net/net.c): net_enter and  *)
(* net_leave over a test-and-set spinlock. Callbacks of the stack call it  *)
(* again on the core that holds it; an interrupt handler may call it too.  *)
(* The owner is read without the lock, with interrupts masked.             *)
(***************************************************************************)
EXTENDS Integers

CONSTANTS
    Cores,
    None,          \* s_net_owner = -1, no number of a core
    MaxDepth       \* bound on the nesting of net_enter

VARIABLES
    s_netlock, s_net_owner, s_net_depth,
    s_net_flags,   \* were interrupts enabled at the outermost net_enter?
    pc, f,         \* per core: where it is in a call, and the call's local flags
    daif,          \* per core: are interrupts enabled?
    wants,         \* per core: what the code that runs has set them to
    nest,          \* per core: calls of net_enter it has not left
    irq, held      \* per core: in a handler, and the calls of the code it interrupted

lock == <<s_netlock, s_net_owner, s_net_depth, s_net_flags>>
code == <<wants, irq, held>>
vars == <<lock, pc, f, daif, nest, code>>

Init ==
    /\ s_netlock = FALSE /\ s_net_owner = None
    /\ s_net_depth = 0 /\ s_net_flags = FALSE
    /\ pc = [c \in Cores |-> "run"]
    /\ f = [c \in Cores |-> FALSE]
    /\ daif \in [Cores -> BOOLEAN] /\ wants = daif
    /\ nest = [c \in Cores |-> 0]
    /\ irq = [c \in Cores |-> FALSE] /\ held = [c \in Cores |-> 0]

Goto(c, from, to) == pc[c] = from /\ pc' = [pc EXCEPT ![c] = to]
Set(x, c, v) == [x EXCEPT ![c] = v]

-----------------------------------------------------------------------------
net_enter(c) ==
    /\ Goto(c, "run", "check") /\ nest[c] < MaxDepth
    /\ f' = Set(f, c, daif[c])
    /\ daif' = Set(daif, c, FALSE)
    /\ UNCHANGED <<lock, nest, code>>

Deepen_Flags(c) ==
    /\ s_net_owner = c /\ Goto(c, "check", "run")
    /\ s_net_depth' = s_net_depth + 1 /\ s_net_flags' = f[c]
    /\ nest' = Set(nest, c, nest[c] + 1)
    /\ UNCHANGED <<s_netlock, s_net_owner, f, daif, code>>

\* The owner goes one level deeper: its flags are not touched.
Deepen(c) ==
    /\ s_net_owner = c /\ Goto(c, "check", "run")
    /\ s_net_depth' = s_net_depth + 1
    /\ nest' = Set(nest, c, nest[c] + 1)
    /\ UNCHANGED <<s_netlock, s_net_owner, s_net_flags, f, daif, code>>

Spin(c) ==
    /\ s_net_owner # c /\ Goto(c, "check", "spin")
    /\ UNCHANGED <<lock, f, daif, nest, code>>

spin_lock(c) ==
    /\ ~s_netlock /\ Goto(c, "spin", "own")
    /\ s_netlock' = TRUE
    /\ UNCHANGED <<s_net_owner, s_net_depth, s_net_flags, f, daif, nest, code>>

Own(c) ==
    /\ Goto(c, "own", "run")
    /\ s_net_owner' = c /\ s_net_depth' = 1 /\ s_net_flags' = f[c]
    /\ nest' = Set(nest, c, 1)
    /\ UNCHANGED <<s_netlock, f, daif, code>>

net_leave_Early(c) ==
    /\ nest[c] > 0 /\ Goto(c, "run", "disown")
    /\ s_net_depth' = s_net_depth - 1
    /\ f' = Set(f, c, s_net_flags)
    /\ nest' = Set(nest, c, nest[c] - 1)
    /\ UNCHANGED <<s_netlock, s_net_owner, s_net_flags, daif, code>>

\* An inner net_leave only counts; the outermost one goes on to release the lock.
net_leave(c) ==
    /\ nest[c] > 0 /\ Goto(c, "run", IF s_net_depth = 1 THEN "disown" ELSE "run")
    /\ s_net_depth' = s_net_depth - 1
    /\ f' = Set(f, c, s_net_flags)
    /\ nest' = Set(nest, c, nest[c] - 1)
    /\ UNCHANGED <<s_netlock, s_net_owner, s_net_flags, daif, code>>

Disown(c) ==
    /\ Goto(c, "disown", "unlock")
    /\ s_net_owner' = None
    /\ UNCHANGED <<s_netlock, s_net_depth, s_net_flags, f, daif, nest, code>>

spin_unlock(c) ==
    /\ Goto(c, "unlock", "run")
    /\ s_netlock' = FALSE
    /\ daif' = Set(daif, c, f[c])
    /\ UNCHANGED <<s_net_owner, s_net_depth, s_net_flags, f, nest, code>>

-----------------------------------------------------------------------------
\* Code outside the stack masks and unmasks interrupts.
Mask(c) ==
    /\ pc[c] = "run" /\ nest[c] = 0 /\ ~irq[c]
    /\ daif' = Set(daif, c, ~daif[c])
    /\ wants' = Set(wants, c, ~daif[c])
    /\ UNCHANGED <<lock, pc, f, nest, irq, held>>

\* An interrupt, and the eret of its handler
Irq(c) ==
    /\ pc[c] = "run" /\ daif[c] /\ ~irq[c]
    /\ irq' = Set(irq, c, TRUE)
    /\ held' = Set(held, c, nest[c]) /\ nest' = Set(nest, c, 0)
    /\ daif' = Set(daif, c, FALSE) /\ wants' = Set(wants, c, FALSE)
    /\ UNCHANGED <<lock, pc, f>>

Eret(c) ==
    /\ pc[c] = "run" /\ irq[c] /\ nest[c] = 0
    /\ irq' = Set(irq, c, FALSE)
    /\ nest' = Set(nest, c, held[c]) /\ held' = Set(held, c, 0)
    /\ daif' = Set(daif, c, TRUE) /\ wants' = Set(wants, c, TRUE)
    /\ UNCHANGED <<lock, pc, f>>

Step(c) ==
    \/ net_enter(c) \/ Deepen(c) \/ Spin(c) \/ spin_lock(c) \/ Own(c)
    \/ net_leave(c) \/ Disown(c) \/ spin_unlock(c)
    \/ Mask(c) \/ Irq(c) \/ Eret(c)

Next == \E c \in Cores : Step(c)

Spec == Init /\ [][Next]_vars

-----------------------------------------------------------------------------
TypeOK ==
    /\ s_netlock \in BOOLEAN /\ s_net_owner \in Cores \cup {None}
    /\ s_net_depth \in Nat /\ s_net_flags \in BOOLEAN
    /\ pc \in [Cores -> {"run", "check", "spin", "own", "disown", "unlock"}]
    /\ f \in [Cores -> BOOLEAN] /\ daif \in [Cores -> BOOLEAN] /\ wants \in [Cores -> BOOLEAN]
    /\ nest \in [Cores -> Nat]
    /\ irq \in [Cores -> BOOLEAN] /\ held \in [Cores -> Nat]

\* The inductive invariant: who holds the spinlock, what the owner fields say of him,
\* and that his interrupts are masked.
Holds(c) == s_net_owner = c \/ pc[c] \in {"own", "unlock"}
LockHeld ==
    /\ \A c \in Cores : Holds(c) => s_netlock
    /\ \A c, d \in Cores : Holds(c) /\ Holds(d) => c = d
OwnerKnown ==
    \A c \in Cores :
        /\ nest[c] > 0 \/ pc[c] = "disown" => s_net_owner = c
        /\ s_net_owner = c => pc[c] \in {"run", "check", "disown"} /\ s_net_depth = nest[c]
        /\ s_net_owner = c => (nest[c] = 0 <=> pc[c] = "disown")
Masked ==
    \A c \in Cores :
        /\ nest[c] > 0 \/ pc[c] # "run" => ~daif[c]
        /\ irq[c] => held[c] = 0 /\ ~wants[c]
        /\ ~irq[c] => held[c] = 0
FlagsKept ==
    \A c \in Cores :
        /\ nest[c] > 0 => s_net_flags = wants[c]
        /\ pc[c] # "run" /\ nest[c] = 0 => f[c] = wants[c]
        /\ pc[c] = "run" /\ nest[c] = 0 => daif[c] = wants[c]
IInv == TypeOK /\ LockHeld /\ OwnerKnown /\ Masked /\ FlagsKept

\* One activity at a time in the stack: no two cores, and no handler above a section of
\* its own core (net.c:24 "IRQ-maskiert beim Halten ... die Owner-Pruefung ist rennfrei").
NetExclusive ==
    /\ \A c, d \in Cores : nest[c] > 0 /\ nest[d] > 0 => c = d
    /\ \A c \in Cores : irq[c] => held[c] = 0

\* Whoever leaves the stack finds interrupts as he had them, however deep the calls were
\* and whatever other cores wrote into the one s_net_flags.
DaifRestored ==
    \A c \in Cores : pc[c] = "run" /\ nest[c] = 0 => daif[c] = wants[c]
==============================================================================
