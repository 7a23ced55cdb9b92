-------------------------- MODULE InventoryPromise --------------------------
(***************************************************************************)
(* What a reader of the inventory is promised: what is shown for a kind of *)
(* resource is replaced as a whole, for one kind at a time, and only by a  *)
(* refresh accepted after the one shown.                                   *)
(***************************************************************************)
EXTENDS Naturals

CONSTANTS Kinds, Natives

VARIABLES
    shown,   \* the resources shown for each kind
    asof     \* the number of the refresh they come from, 0 before the first

vars == <<shown, asof>>

Init ==
    /\ shown = [k \in Kinds |-> {}]
    /\ asof = [k \in Kinds |-> 0]

Replace(k) ==
    /\ asof'[k] > asof[k]
    /\ asof' = [asof EXCEPT ![k] = asof'[k]]
    /\ shown' = [shown EXCEPT ![k] = shown'[k]]
    /\ shown'[k] \subseteq Natives

Next == \E k \in Kinds : Replace(k)

Spec == Init /\ [][Next]_vars
=============================================================================
