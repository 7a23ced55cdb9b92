--------------------------- MODULE MutationPromise ---------------------------
(***************************************************************************)
(* What Sama promises about mutations, whatever its workers, leases and    *)
(* retries do: a target is held by at most one operation, from acceptance  *)
(* until the operation is settled or an owner gives the target up; the     *)
(* provider is called at most once per operation, never before the         *)
(* operation is committed to, and never once it is closed without effect.  *)
(***************************************************************************)
EXTENDS Naturals

CONSTANTS Ops, Targets, TargetOf, NoOp

VARIABLES
    phase,    \* how far each operation has come
    holder,   \* the operation holding each target
    calls     \* mutating calls made for each operation

vars == <<phase, holder, calls>>

Phase == {"none", "unsent", "committed", "succeeded", "closed", "released"}

Init ==
    /\ phase = [o \in Ops |-> "none"]
    /\ holder = [t \in Targets |-> NoOp]
    /\ calls = [o \in Ops |-> 0]

Move(o, from, to) == phase[o] \in from /\ phase' = [phase EXCEPT ![o] = to]

Accept(o) ==
    /\ Move(o, {"none"}, "unsent")
    /\ holder[TargetOf[o]] = NoOp
    /\ holder' = [holder EXCEPT ![TargetOf[o]] = o]
    /\ UNCHANGED calls

(* From here on the call may happen at any later moment, even after its     *)
(* outcome was observed or given up.                                        *)
Commit(o) == Move(o, {"unsent"}, "committed") /\ UNCHANGED <<holder, calls>>

Call(o) ==
    /\ phase[o] \in {"committed", "succeeded", "released"}
    /\ calls[o] = 0
    /\ calls' = [calls EXCEPT ![o] = 1]
    /\ UNCHANGED <<phase, holder>>

GiveBack(o) ==
    /\ holder[TargetOf[o]] = o
    /\ holder' = [holder EXCEPT ![TargetOf[o]] = NoOp]
    /\ UNCHANGED calls

Succeed(o) == Move(o, {"committed"}, "succeeded") /\ GiveBack(o)
Close(o) == Move(o, {"unsent", "committed"}, "closed") /\ GiveBack(o)
GiveUp(o) == Move(o, {"committed"}, "released") /\ GiveBack(o)

Next ==
    \E o \in Ops : \/ Accept(o) \/ Commit(o) \/ Call(o)
                   \/ Succeed(o) \/ Close(o) \/ GiveUp(o)

Spec == Init /\ [][Next]_vars
=============================================================================
