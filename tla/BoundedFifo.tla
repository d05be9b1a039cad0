----------------------------- MODULE BoundedFifo -----------------------------
(***************************************************************************)
(* A queue of at most Capacity items and the one item its consumer has     *)
(* taken out and works on.                                                 *)
(***************************************************************************)
EXTENDS Naturals, Sequences

CONSTANTS Items, Capacity, None

VARIABLES items, current

fifoVars == <<items, current>>

Init == items = <<>> /\ current = None

Put(x) ==
    /\ Len(items) < Capacity
    /\ items' = Append(items, x)
    /\ UNCHANGED current

Take ==
    /\ items # <<>> /\ current = None
    /\ current' = Head(items)
    /\ items' = Tail(items)

Done == current # None /\ current' = None /\ UNCHANGED items

Next == Take \/ Done \/ \E x \in Items : Put(x)

Spec == Init /\ [][Next]_fifoVars
=============================================================================
