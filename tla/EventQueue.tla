----------------------------- MODULE EventQueue -----------------------------
(***************************************************************************)
(* What the GUI event queue promises: a bounded queue between one writer   *)
(* and one reader.  Events are taken in the order they were put, each of   *)
(* them once, as a whole, and what the reader holds in hand stays what it  *)
(* took.  A put into a full queue is dropped (no step here).               *)
(***************************************************************************)
EXTENDS Naturals, Sequences

CONSTANTS Events, Capacity

VARIABLES q, hand

Init == q = <<>> /\ hand \in Events

Put(e) ==
    /\ Len(q) < Capacity
    /\ q' = Append(q, e)
    /\ UNCHANGED hand

Take ==
    /\ q # <<>>
    /\ hand' = Head(q)
    /\ q' = Tail(q)

Next == Take \/ \E e \in Events : Put(e)

Spec == Init /\ [][Next]_<<q, hand>>
=============================================================================
