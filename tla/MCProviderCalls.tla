-------------------------- MODULE MCProviderCalls --------------------------
(***************************************************************************)
(* The four parts of a process that make provider calls, for one run: the  *)
(* outbound budget, the mutation ports of the adapters, the nested         *)
(* snapshot walk and the shared access token.  They share no state in the  *)
(* code, so a behaviour runs the one that `part' names and leaves the      *)
(* variables of the others unused.                                         *)
(*                                                                         *)
(* Budget: on one connection two operations' calls, each with a nested     *)
(* request in the scope of the adapter, and a read in that scope; on       *)
(* another connection of the same provider account a call in the scope of  *)
(* the operations.                                                         *)
(***************************************************************************)
EXTENDS OutboundBudget, TLC

CONSTANTS c1, c2, c3, c4, n1, n2, k1, k2, s1, s2

MCCallers == {c1, c2, c3, c4, n1, n2}
MCConnectionOf == [c \in MCCallers |-> IF c = c4 THEN k2 ELSE k1]
MCScopeOf == [c \in MCCallers |-> IF c \in {c1, c2, c4} THEN s1 ELSE s2]
MCWithin == [c \in MCCallers |-> CASE c = n1 -> c1 [] c = n2 -> c2 [] OTHER -> None]
MCHeaders == [seconds: {-1, 0, 3}, date: {0, 1}, reset: {0, 2}]

CONSTANTS Families, MaxChanges, Readers, MaxEpoch
CONSTANTS Instances, Images, InstanceRows, ImageRows, MaxSteps, Orders

(* The order of the ids, with the last two instances and the two snapshots  *)
(* exchanged, and with the first instance last.                             *)
Exchanged == [x \in {2, 3, 11, 12} |-> CASE x = 2 -> 3 [] x = 3 -> 2 [] x = 11 -> 12 [] x = 12 -> 11]

MCOrders ==
    LET Id == Instances \cup Images
    IN  {[x \in Id |-> x],
         [x \in Id |-> IF x \in DOMAIN Exchanged THEN Exchanged[x] ELSE x],
         [x \in Id |-> IF x = 1 THEN 4 ELSE x]}

VARIABLES
    part,
    port, world, review, pc, request, native, receipt, seen, changes,
    account, order, cursor, page, status, staged, stayed, blind, shrunk, overtaken, moves,
    current, gate, reader, due, void

adapters == <<port, world, review, pc, request, native, receipt, seen, changes>>
walk ==
    <<account, order, cursor, page, status, staged, stayed, blind, shrunk, overtaken, moves>>
tokens == <<current, gate, reader, due, void>>
all == <<part, vars, adapters, walk, tokens>>

Adapters == INSTANCE ProviderAdapters
Walk == INSTANCE SnapshotWalk WITH changes <- moves
Tokens == INSTANCE AccessTokens WITH Nobody <- None

ASSUME MCAssumption == Adapters!ConstantsOK /\ Walk!ConstantsOK

-----------------------------------------------------------------------------
Unused(x) == x = "unused"

AdaptersUnused ==
    /\ Unused(port) /\ Unused(world) /\ Unused(review) /\ Unused(pc) /\ Unused(request)
    /\ Unused(native) /\ Unused(receipt) /\ Unused(seen) /\ Unused(changes)

WalkUnused ==
    /\ Unused(account) /\ Unused(order) /\ Unused(cursor) /\ Unused(page) /\ Unused(status)
    /\ Unused(staged) /\ Unused(stayed) /\ Unused(blind) /\ Unused(shrunk) /\ Unused(overtaken)
    /\ Unused(moves)

TokensUnused ==
    Unused(current) /\ Unused(gate) /\ Unused(reader) /\ Unused(due) /\ Unused(void)

MCInit ==
    /\ Init
    /\ \/ part = "budget" /\ AdaptersUnused /\ WalkUnused /\ TokensUnused
       \/ part = "adapters" /\ Adapters!Init /\ WalkUnused /\ TokensUnused
       \/ part = "walk" /\ AdaptersUnused /\ Walk!Init /\ TokensUnused
       \/ part = "tokens" /\ AdaptersUnused /\ WalkUnused /\ Tokens!Init

BudgetStep(A) == part = "budget" /\ A /\ UNCHANGED <<part, adapters, walk, tokens>>

MCNext ==
    \/ BudgetStep(Next)
    \/ part = "adapters" /\ Adapters!Next /\ UNCHANGED <<part, vars, walk, tokens>>
    \/ part = "walk" /\ Walk!Next /\ UNCHANGED <<part, vars, adapters, tokens>>
    \/ part = "tokens" /\ Tokens!Next /\ UNCHANGED <<part, vars, adapters, walk>>

(* The fairness of OutboundBudget, and none of the others.                  *)
MCFairness ==
    /\ WF_all(BudgetStep(Tick))
    /\ \A c \in Callers : /\ WF_all(BudgetStep(Resume(c) \/ GiveUp(c)))
                          /\ WF_all(BudgetStep(Release(c)))
                          /\ Within[c] # None => WF_all(BudgetStep(Cancel(c)))

MCSpec == MCInit /\ [][MCNext]_all /\ MCFairness

-----------------------------------------------------------------------------
(* Bounds *)

(* Of the two operations, which behave alike, c1 is the first to call; the  *)
(* other connection is used together with one operation.                    *)
UnderWay(c) == caller'[c].pc # "idle"

Bound ==
    /\ caller[c2].pc = "idle" /\ UnderWay(c2) => UnderWay(c1)
    /\ ~(UnderWay(c4) /\ (UnderWay(c2) \/ UnderWay(c3)))

-----------------------------------------------------------------------------
(* The properties of the other parts, in the behaviours that run them.      *)

(* No adapter's Submit gives an answer that ProviderContract does not       *)
(* allow, and no answer turns false later (ProviderAdapters).               *)
ReceiptIsTruthful == part = "adapters" => Adapters!ReceiptIsTruthful

(* No adapter's Observe claims what the contract does not allow of the      *)
(* request's true effect (ProviderAdapters).                                *)
ObservationIsTruthful == part = "adapters" => Adapters!ObservationIsTruthful

(* Nobody else's change is called this request's success, except by the     *)
(* two providers that leave no other evidence (ProviderAdapters).           *)
SuccessIsOwn == part = "adapters" => Adapters!SuccessIsOwn

(* A completed walk returned every snapshot that existed throughout, unless *)
(* an instance went where the cursor names none, a snapshot went from the   *)
(* instance being read, or a reordering listed behind the cursor what was   *)
(* ahead of it (SnapshotWalk).                                              *)
WalkIsExact == part = "walk" => Walk!WalkIsExact

(* A fetch replaces only a token that is refused, due or was never obtained *)
(* (AccessTokens).                                                          *)
FetchHasCause == [][part = "tokens" => Tokens!ReplacedForCause]_all
=============================================================================
