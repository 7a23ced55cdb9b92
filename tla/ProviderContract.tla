-------------------------- MODULE ProviderContract --------------------------
(***************************************************************************)
(* What durable operations may rely on when they call a provider adapter   *)
(* (backend/internal/provider/mutation.go).  OperationDispatch takes every *)
(* answer from here; ProviderAdapters shows that the four adapters give no *)
(* other.                                                                  *)
(***************************************************************************)

(* What Submit may answer: whether the request left, its effect, and the    *)
(* receipt.  Rejected means no effect; an error says nothing about the      *)
(* effect.                                                                  *)
SubmitAnswers ==
    {[left |-> FALSE, effect |-> "none", receipt |-> "error"],
     [left |-> FALSE, effect |-> "none", receipt |-> "rejected"],
     [left |-> TRUE, effect |-> "none", receipt |-> "rejected"],
     [left |-> TRUE, effect |-> "none", receipt |-> "error"],
     [left |-> TRUE, effect |-> "pending", receipt |-> "accepted"],
     [left |-> TRUE, effect |-> "pending", receipt |-> "noref"],
     [left |-> TRUE, effect |-> "pending", receipt |-> "error"]}

(* What Observe may answer of a request with the given effect.  With a      *)
(* native reference, evidence speaks of the referenced action; without one  *)
(* an adapter may take the target's current state for success, whoever      *)
(* caused it, and never proves failure.                                     *)
AnswersAbout(effect, hasRef) ==
    {"error", "unproven", "pending", "unknown"}
    \cup {a \in {"succeeded"} : hasRef => effect = "done"}
    \cup {a \in {"failed"} : hasRef /\ effect = "failed"}
=============================================================================
