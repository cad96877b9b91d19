---------------------------- MODULE GuiConstants -----------------------------
\* The parameters of GuiInput.
EXTENDS Naturals

CONSTANTS
    EVQ_N,         \* slots of the ring
    Events,        \* what a gui_event_t can be
    Zero           \* the initial contents of the ring

ASSUME GuiInputAssumption ==
    /\ EVQ_N \in Nat \ {0, 1}
    /\ Zero \in Events
==============================================================================
