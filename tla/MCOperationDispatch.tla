------------------------- MODULE MCOperationDispatch -------------------------
(* Instances of OperationDispatch for TLC: every operation is on the one    *)
(* target, so that acceptance competes for its reservation.                 *)
EXTENDS OperationDispatch, TLC

CONSTANT t1

MCTargets == {t1}
MCTargetOf == [o \in Ops |-> t1]

WorkerSymmetry == Permutations(Workers)
=============================================================================
