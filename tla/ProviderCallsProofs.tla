------------------------- MODULE ProviderCallsProofs -------------------------
(* Theorems about the parts of MCProviderCalls besides the outbound budget, *)
(* for every set of provider brands, of readers, of instances and of        *)
(* snapshots, and every number of changes.                                  *)
EXTENDS MCProviderCalls, FiniteSetTheorems, TLAPS

-----------------------------------------------------------------------------
(* Access tokens: a reader that asks again holds the epoch of a token that  *)
(* the API refused, and refusals are never taken back.                      *)
ReaderState ==
    [pc: {"idle", "asking", "fetching", "reading"}, epoch: Int, refused: BOOLEAN]

AskingAgain(q) == q.pc = "asking" /\ q.refused

RefusedIsVoid ==
    /\ reader \in [Readers -> ReaderState]
    /\ current \in [epoch: Int, value: BOOLEAN]
    /\ \A r \in Readers : /\ reader[r].pc = "idle" => ~reader[r].refused
                          /\ AskingAgain(reader[r]) => reader[r].epoch \in void

(* No reader has anything at first.                                         *)
LEMMA TokensInit == Tokens!Init => RefusedIsVoid
BY DEF Tokens!Init, Tokens!Idle, RefusedIsVoid, ReaderState, AskingAgain

(* Refusals are remembered through every step of the readers.               *)
LEMMA TokensStep ==
    ASSUME RefusedIsVoid, Tokens!Next
    PROVE  RefusedIsVoid'
<1>1. /\ reader \in [Readers -> ReaderState]
      /\ current \in [epoch: Int, value: BOOLEAN]
      /\ \A r \in Readers : /\ reader[r].pc = "idle" => ~reader[r].refused
                            /\ AskingAgain(reader[r]) => reader[r].epoch \in void
      BY DEF RefusedIsVoid
<1>2. Tokens!Idle \in ReaderState /\ Tokens!Idle.pc = "idle" /\ ~Tokens!Idle.refused
      BY DEF Tokens!Idle, ReaderState
<1>3. CASE Tokens!FallsDue
      BY <1>1, <1>3 DEF Tokens!FallsDue, RefusedIsVoid
<1>4. CASE Tokens!Revoke
      BY <1>1, <1>4 DEF Tokens!Revoke, RefusedIsVoid
<1>5. ASSUME NEW r \in Readers, NEW q \in ReaderState,
             reader' = [reader EXCEPT ![r] = q], current' \in [epoch: Int, value: BOOLEAN],
             UNCHANGED void, q.pc = "idle" => ~q.refused, AskingAgain(q) => q.epoch \in void
      PROVE  RefusedIsVoid'
  <2>1. reader' \in [Readers -> ReaderState]
        BY <1>1, <1>5
  <2>2. \A x \in Readers : reader'[x] = IF x = r THEN q ELSE reader[x]
        BY <1>1, <1>5
  <2> QED BY <1>1, <1>5, <2>1, <2>2 DEF RefusedIsVoid
<1>6. ASSUME NEW r \in Readers, Tokens!Ask(r)
      PROVE  RefusedIsVoid'
  <2> DEFINE q == [reader[r] EXCEPT !.pc = "asking"]
  <2>1. reader[r] \in ReaderState /\ reader[r].pc = "idle" /\ ~reader[r].refused
        BY <1>1, <1>6 DEF Tokens!Ask
  <2>2. q \in ReaderState /\ q.pc = "asking" /\ q.refused = reader[r].refused
        BY <2>1 DEF ReaderState
  <2>3. reader' = [reader EXCEPT ![r] = q]
        BY <1>1, <1>6 DEF Tokens!Ask
  <2> QED BY <1>1, <1>5, <1>6, <2>1, <2>2, <2>3 DEF Tokens!Ask, AskingAgain
<1>7. ASSUME NEW r \in Readers, Tokens!Get(r) \/ Tokens!Fetched(r)
      PROVE  RefusedIsVoid'
  <2> DEFINE q == [reader[r] EXCEPT !.pc = "reading", !.epoch = current.epoch]
  <2>1. reader[r] \in ReaderState /\ current.epoch \in Int
        BY <1>1
  <2>2. q \in ReaderState /\ q.pc = "reading"
        BY <2>1 DEF ReaderState
  <2>3. reader' = [reader EXCEPT ![r] = q]
        BY <1>1, <1>7 DEF Tokens!Get, Tokens!Fetched
  <2>4. current' \in [epoch: Int, value: BOOLEAN] /\ UNCHANGED void
        BY <1>1, <1>7 DEF Tokens!Get, Tokens!Fetched
  <2> QED BY <1>5, <2>2, <2>3, <2>4 DEF AskingAgain
<1>8. ASSUME NEW r \in Readers, Tokens!Fetch(r)
      PROVE  RefusedIsVoid'
  <2> DEFINE q == [reader[r] EXCEPT !.pc = "fetching"]
  <2>1. q \in ReaderState /\ q.pc = "fetching"
        BY <1>1 DEF ReaderState
  <2>2. reader' = [reader EXCEPT ![r] = q]
        BY <1>1, <1>8 DEF Tokens!Fetch
  <2>3. current' \in [epoch: Int, value: BOOLEAN] /\ UNCHANGED void
        BY <1>1, <1>8 DEF Tokens!Fetch
  <2> QED BY <1>5, <2>1, <2>2, <2>3 DEF AskingAgain
<1>9. ASSUME NEW r \in Readers, Tokens!FetchFails(r) \/ Tokens!Withdraw(r) \/ Tokens!Read(r)
      PROVE  RefusedIsVoid'
  <2>1. reader' = [reader EXCEPT ![r] = Tokens!Idle] /\ UNCHANGED <<current, void>>
        BY <1>9 DEF Tokens!FetchFails, Tokens!Withdraw, Tokens!Read
  <2> QED BY <1>1, <1>2, <1>5, <2>1 DEF AskingAgain
<1>10. ASSUME NEW r \in Readers, Tokens!Refuse(r)
       PROVE  RefusedIsVoid'
  <2> DEFINE a == [reader[r] EXCEPT !.pc = "asking", !.refused = TRUE]
             q == IF reader[r].refused THEN Tokens!Idle ELSE a
  <2>1. a \in ReaderState /\ a.pc = "asking" /\ a.epoch = reader[r].epoch
        BY <1>1 DEF ReaderState
  <2>2. reader' = [reader EXCEPT ![r] = q] /\ reader[r].epoch \in void /\ UNCHANGED <<current, void>>
        BY <1>1, <1>10 DEF Tokens!Refuse
  <2>3. q \in ReaderState /\ (q.pc = "idle" => ~q.refused) /\ (AskingAgain(q) => q.epoch \in void)
        BY <1>2, <2>1, <2>2 DEF AskingAgain
  <2> HIDE DEF q
  <2> QED BY <1>1, <1>5, <2>2, <2>3
<1> QED BY <1>3, <1>4, <1>6, <1>7, <1>8, <1>9, <1>10 DEF Tokens!Next

(* The fetch of a reader that was refused replaces the very token that was  *)
(* refused: get compares epochs inside the gate.                            *)
LEMMA FetchesReplaceBadTokens ==
    ASSUME RefusedIsVoid, Tokens!Next
    PROVE  Tokens!ReplacedForCause
<1>1. ASSUME NEW r \in Readers, Tokens!Fetch(r)
      PROVE  Tokens!ReplacedForCause
      BY <1>1 DEF Tokens!Fetch, Tokens!Reuses, Tokens!ReplacedForCause, RefusedIsVoid, AskingAgain
<1>2. ASSUME NEW r \in Readers, Tokens!Fetched(r)
      PROVE  Tokens!ReplacedForCause
      BY <1>2 DEF Tokens!Fetched, Tokens!ReplacedForCause, RefusedIsVoid
<1>3. CASE UNCHANGED current
      BY <1>3 DEF Tokens!ReplacedForCause
<1> QED BY <1>1, <1>2, <1>3 DEF Tokens!Next, Tokens!FallsDue, Tokens!Revoke, Tokens!Ask, Tokens!Get,
          Tokens!FetchFails, Tokens!Withdraw, Tokens!Read, Tokens!Refuse

(* A good token is never thrown away, however many readers share it.        *)
THEOREM TokensReplacedForCause == MCSpec => FetchHasCause
<1> DEFINE I == part = "tokens" => RefusedIsVoid
<1>1. MCInit => I
      BY TokensInit DEF MCInit
<1>2. I /\ [MCNext]_all => I'
  <2> SUFFICES ASSUME I, [MCNext]_all, part' = "tokens" PROVE RefusedIsVoid'
      OBVIOUS
  <2>1. CASE part = "tokens" /\ Tokens!Next
        BY <2>1, TokensStep
  <2>2. CASE UNCHANGED <<part, tokens>>
        BY <2>2 DEF tokens, RefusedIsVoid
  <2> QED BY <2>1, <2>2 DEF MCNext, BudgetStep, all
<1>3. I /\ [MCNext]_all => [part = "tokens" => Tokens!ReplacedForCause]_all
  <2> SUFFICES ASSUME I, [MCNext]_all, part = "tokens", ~UNCHANGED all PROVE Tokens!ReplacedForCause
      OBVIOUS
  <2> QED BY FetchesReplaceBadTokens DEF MCNext, BudgetStep
<1> QED BY <1>1, <1>2, <1>3, PTL DEF MCSpec, FetchHasCause

-----------------------------------------------------------------------------
(* Adapters.  The request and its answer: a receipt is given once, rejected *)
(* only where nothing left or the provider refused, and accepted or without *)
(* a reference only where the provider took the request on.                 *)
Effect == {"none", "pending", "done", "failed"}

RequestInv ==
    /\ port \in Adapters!Port
    /\ world = [server |-> world.server, locked |-> world.locked, image |-> world.image]
    /\ pc \in {"review", "submit", "answer", "observe"}
    /\ request \in {"unsent", "travelling", "taken", "refused", "dropped"}
    /\ native \in Effect
    /\ receipt \in {"none", "error", "rejected", "accepted", "noref"}
    /\ pc \in {"review", "submit"} => request = "unsent"
    /\ pc = "answer" => request # "unsent"
    /\ receipt # "none" => pc = "observe"
    /\ native # "none" <=> request = "taken"
    /\ receipt = "rejected" => request \in {"unsent", "refused"}
    /\ receipt \in {"accepted", "noref"} => request = "taken"

(* The snapshot follows the request: one that is being created is not there *)
(* before the provider is done, and one whose deletion was taken on is gone *)
(* only when that is done, whoever else deleted it.                         *)
ImageInv ==
    /\ port.action = "create" => /\ native = "none" => world.image = "absent"
                                 /\ native = "pending" => world.image = "pending"
                                 /\ native = "failed" => world.image = "absent"
    /\ port.action = "delete" => /\ native = "pending" => world.image \in {"pending", "available"}
                                 /\ native # "failed"

(* What was observed and stays true: the effect of a request ends once.     *)
SeenInv ==
    /\ seen # "none" => pc = "observe"
    /\ seen \in {"none", "error", "unknown", "pending", "succeeded", "failed"}
    /\ seen = "failed" => receipt = "accepted" /\ native = "failed"
    /\ seen = "succeeded" =>
         \/ native = "done"
         \/ /\ receipt # "accepted"
            /\ port.family \in {"vultr", "contabo"}
            /\ port.action \in Adapters!PowerActions \ {"reboot"}

AdaptersInv == RequestInv /\ ImageInv /\ SeenInv

(* The four brands are all there is.                                        *)
LEMMA PortFields ==
    ASSUME port \in Adapters!Port
    PROVE  /\ port.family \in {"hetzner", "digitalocean", "vultr", "contabo"}
           /\ port.action \in Adapters!PowerActions \cup {"create", "delete"}
BY MCAssumption DEF Adapters!Port, Adapters!ConstantsOK

(* A reviewed operation of the adapters starts with no request.             *)
LEMMA AdaptersInit == Adapters!Init => AdaptersInv
<1> SUFFICES ASSUME Adapters!Init PROVE AdaptersInv
    OBVIOUS
<1>1. world = [server |-> world.server, locked |-> world.locked, image |-> world.image]
      BY DEF Adapters!Init, Adapters!World
<1>2. port.action = "create" => world.image = "absent"
      BY DEF Adapters!Init, Adapters!SnapshotBefore
<1> QED BY <1>1, <1>2 DEF Adapters!Init, AdaptersInv, RequestInv, ImageInv, SeenInv, Effect

(* What Submit can return, by what it met, for every adapter: rejected only *)
(* before sending or on a definite refusal, and accepted or without a       *)
(* reference only on a success.                                             *)
LEMMA SubmitReturns ==
    ASSUME RequestInv, NEW h \in {"unread", "stale", "definite", "overload", "silence", "garbled",
                                  "odd", "fine"}
    PROVE  /\ Adapters!Submit(h) \in {"error", "rejected", "accepted", "noref"}
           /\ Adapters!Submit(h) = "rejected" => h \in {"stale", "definite"}
           /\ Adapters!Submit(h) \in {"accepted", "noref"} => h \in {"fine", "odd", "garbled"}
<1>1. port.family \in {"hetzner", "digitalocean", "vultr", "contabo"}
      BY PortFields DEF RequestInv
<1> DEFINE Good(r) == /\ r \in {"error", "rejected", "accepted", "noref"}
                      /\ r = "rejected" => h \in {"stale", "definite"}
                      /\ r \in {"accepted", "noref"} => h \in {"fine", "odd", "garbled"}
<1>2. Good(Adapters!Guarded(h, Adapters!Referring(h)))
      BY DEF Adapters!Guarded, Adapters!Referring, Adapters!PostMutation, Adapters!Fails
<1>3. Good(Adapters!Guarded(h, Adapters!PostMutation(h, FALSE)))
      BY DEF Adapters!Guarded, Adapters!PostMutation, Adapters!Fails
<1>4. Good(Adapters!ContaboSubmitPower(h))
      BY DEF Adapters!ContaboSubmitPower, Adapters!Guarded, Adapters!PostMutation, Adapters!Fails
<1>5. Good(Adapters!Guarded(h, Adapters!DeleteSnapshotRequest(h)))
      BY DEF Adapters!Guarded, Adapters!DeleteSnapshotRequest, Adapters!Fails
<1>6. Good(Adapters!HetznerSubmitDelete(h))
      BY DEF Adapters!HetznerSubmitDelete, Adapters!Guarded
<1> HIDE DEF Good
<1>7. Good(Adapters!Submit(h))
      BY <1>1, <1>2, <1>3, <1>4, <1>5, <1>6
      DEF Adapters!Submit, Adapters!By, Adapters!HetznerSubmitPower, Adapters!DigitalOceanSubmitPower,
          Adapters!VultrSubmitPower, Adapters!HetznerSubmitCreate,
          Adapters!DigitalOceanSubmitCreate, Adapters!VultrSubmitCreate, Adapters!ContaboSubmitCreate,
          Adapters!DigitalOceanSubmitDelete, Adapters!VultrSubmitDelete, Adapters!ContaboSubmitDelete
<1> QED BY <1>7 DEF Good

(* What Observe can return, for every adapter: failure only with a          *)
(* reference to a native action that failed, success only of a request that *)
(* is done, but for Vultr's and Contabo's power actions.                    *)
LEMMA ObserveReturns ==
    ASSUME RequestInv, ImageInv, NEW o \in {"error"} \cup Adapters!Outcomes
    PROVE  /\ o \in {"error", "unknown", "pending", "succeeded", "failed"}
           /\ o = "failed" => receipt = "accepted" /\ native = "failed"
           /\ o = "succeeded" =>
                \/ native = "done"
                \/ /\ receipt # "accepted"
                   /\ port.family \in {"vultr", "contabo"}
                   /\ port.action \in Adapters!PowerActions \ {"reboot"}
<1> DEFINE Other == /\ receipt # "accepted"
                    /\ port.family \in {"vultr", "contabo"}
                    /\ port.action \in Adapters!PowerActions \ {"reboot"}
           Good(S) == \A s \in S :
                        /\ s \in {"error", "unknown", "pending", "succeeded", "failed"}
                        /\ s = "failed" => receipt = "accepted" /\ native = "failed"
                        /\ s = "succeeded" => native = "done" \/ Other
<1>1. /\ port.family \in {"hetzner", "digitalocean", "vultr", "contabo"}
      /\ port.action \in Adapters!PowerActions \cup {"create", "delete"}
      BY PortFields DEF RequestInv
<1>2. native \in Effect /\ (receipt = "accepted" => native # "none")
      BY DEF RequestInv
<1>3. ASSUME NEW S, S \in SUBSET {"succeeded", "pending"}, receipt = "accepted"
      PROVE  Good(Adapters!ByAction(S))
      BY <1>2, <1>3 DEF Adapters!ByAction, Effect
<1>4. \A s : Adapters!ByStatus(s) \in SUBSET {"succeeded", "pending"}
      BY DEF Adapters!ByStatus
<1>5. Good({"error"}) /\ Good({"unknown"}) /\ Good({})
      OBVIOUS
<1>6. Good(Adapters!HetznerObservePower) /\ Good(Adapters!DigitalOceanObservePower)
  <2> HIDE DEF Good
  <2> QED BY <1>3, <1>4, <1>5 DEF Adapters!HetznerObservePower, Adapters!DigitalOceanObservePower,
             Adapters!HasRef
<1>7. ASSUME port.family \in {"vultr", "contabo"}, port.action \in Adapters!PowerActions
      PROVE  Good(Adapters!VultrObservePower) /\ Good(Adapters!ContaboObservePower)
  <2>1. \A s : receipt # "accepted" /\ port.action # "reboot" => Good(Adapters!ByStatus(s))
        BY <1>4, <1>7
  <2> HIDE DEF Good
  <2> QED BY <1>5, <2>1 DEF Adapters!VultrObservePower, Adapters!ContaboObservePower, Adapters!HasRef
<1>8. Good(Adapters!HetznerObserveCreate) /\ Good(Adapters!DigitalOceanObserveCreate)
      /\ Good(Adapters!ContaboObserveCreate)
  <2>1. (CASE world.image = "available" -> {"succeeded"}
           [] world.image = "absent" -> {}
           [] OTHER -> {"pending"}) \in SUBSET {"succeeded", "pending"}
        OBVIOUS
  <2> HIDE DEF Good
  <2> QED BY <1>3, <1>5, <2>1 DEF Adapters!HetznerObserveCreate, Adapters!DigitalOceanObserveCreate,
             Adapters!ContaboObserveCreate, Adapters!HasRef
<1>9. ASSUME port.action = "create" PROVE Good(Adapters!VultrObserveCreate)
      BY <1>2, <1>9 DEF Adapters!VultrObserveCreate, Adapters!HasRef, ImageInv, Effect
<1>10. ASSUME port.action = "delete"
       PROVE  /\ Good(Adapters!HetznerObserveDelete) /\ Good(Adapters!DigitalOceanObserveDelete)
              /\ Good(Adapters!VultrObserveDelete) /\ Good(Adapters!ContaboObserveDelete)
      BY <1>2, <1>10 DEF Adapters!HetznerObserveDelete, Adapters!DigitalOceanObserveDelete,
         Adapters!VultrObserveDelete, Adapters!ContaboObserveDelete, Adapters!HasRef, ImageInv, Effect
<1>11. Good(Adapters!Outcomes)
  <2> HIDE DEF Good
  <2> QED BY <1>1, <1>6, <1>7, <1>8, <1>9, <1>10 DEF Adapters!Outcomes, Adapters!By, Adapters!PowerActions
<1> QED BY <1>5, <1>11

(* Steps of the caller of an adapter keep what is known of the request.     *)
LEMMA CallerStep ==
    ASSUME AdaptersInv,
           Adapters!Review \/ Adapters!SubmitStops \/ Adapters!SubmitSends \/ Adapters!Answer
             \/ Adapters!Observe
    PROVE  AdaptersInv'
<1>1. CASE Adapters!Review
      BY <1>1 DEF Adapters!Review, AdaptersInv, RequestInv, ImageInv, SeenInv
<1>2. CASE Adapters!SubmitSends
      BY <1>2 DEF Adapters!SubmitSends, AdaptersInv, RequestInv, ImageInv, SeenInv
<1>3. ASSUME NEW h \in {"unread", "stale", "definite", "overload", "silence", "garbled", "odd", "fine"},
             Adapters!Returned(h), pc \in {"submit", "answer"},
             UNCHANGED <<port, world, request, native, seen>>,
             h \in {"stale", "definite"} => request \in {"unsent", "refused"},
             h \in {"fine", "odd", "garbled"} => request = "taken"
      PROVE  AdaptersInv'
  <2>1. /\ receipt' \in {"error", "rejected", "accepted", "noref"} /\ pc' = "observe"
        /\ receipt' = "rejected" => h \in {"stale", "definite"}
        /\ receipt' \in {"accepted", "noref"} => h \in {"fine", "odd", "garbled"}
        BY <1>3, SubmitReturns DEF Adapters!Returned, AdaptersInv
  <2>2. seen = "none"
        BY <1>3 DEF AdaptersInv, SeenInv
  <2> QED BY <1>3, <2>1, <2>2 DEF AdaptersInv, RequestInv, ImageInv, SeenInv
<1>4. CASE Adapters!SubmitStops
  <2>1. /\ Adapters!Returned("unread") \/ Adapters!Returned("stale") 
        /\ pc = "submit" /\ UNCHANGED <<port, world, request, native, seen>>
        BY <1>4 DEF Adapters!SubmitStops
  <2>2. request = "unsent"
        BY <2>1 DEF AdaptersInv, RequestInv
  <2> QED BY <1>3, <2>1, <2>2
<1>5. CASE Adapters!Answer
  <2>1. PICK h \in Adapters!Heard : Adapters!Returned(h)
        BY <1>5 DEF Adapters!Answer
  <2>2. pc = "answer" /\ UNCHANGED <<port, world, request, native, seen>>
        BY <1>5 DEF Adapters!Answer
  <2>3. /\ h \in {"unread", "stale", "definite", "overload", "silence", "garbled", "odd", "fine"}
        /\ h \in {"stale", "definite"} => request = "refused"
        /\ h \in {"fine", "odd", "garbled"} => request = "taken"
        BY <2>1 DEF Adapters!Heard
  <2> QED BY <1>3, <2>1, <2>2, <2>3
<1>6. CASE Adapters!Observe
  <2>1. PICK o \in {"error"} \cup Adapters!Outcomes : seen' = o
        BY <1>6 DEF Adapters!Observe
  <2>2. /\ o \in {"error", "unknown", "pending", "succeeded", "failed"}
        /\ o = "failed" => receipt = "accepted" /\ native = "failed"
        /\ o = "succeeded" =>
             \/ native = "done"
             \/ /\ receipt # "accepted"
                /\ port.family \in {"vultr", "contabo"}
                /\ port.action \in Adapters!PowerActions \ {"reboot"}
        BY ObserveReturns DEF AdaptersInv
  <2>3. pc = "observe" /\ UNCHANGED <<port, world, review, pc, request, native, receipt, changes>>
        BY <1>6 DEF Adapters!Observe
  <2>4. SeenInv'
        BY <2>1, <2>2, <2>3 DEF SeenInv
  <2>5. RequestInv' /\ ImageInv'
        BY <2>3 DEF AdaptersInv, RequestInv, ImageInv
  <2> QED BY <2>4, <2>5 DEF AdaptersInv
<1> QED BY <1>1, <1>2, <1>4, <1>5, <1>6

(* So do the provider's own steps and other people's changes: a request     *)
(* that has ended does not start again.                                     *)
LEMMA ProviderStep ==
    ASSUME AdaptersInv,
           Adapters!Take \/ Adapters!Decline \/ Adapters!Finish \/ Adapters!Break \/ Adapters!Meddle
    PROVE  AdaptersInv'
<1>0. /\ port.action \in Adapters!PowerActions \cup {"create", "delete"}
      /\ world = [server |-> world.server, locked |-> world.locked, image |-> world.image]
      BY PortFields DEF AdaptersInv, RequestInv
<1>1. ASSUME NEW i
      PROVE  /\ [world EXCEPT !.image = i] = [server |-> world.server, locked |-> world.locked, image |-> i]
             /\ [world EXCEPT !.image = i].image = i
      BY <1>0
<1>2. ASSUME NEW i
      PROVE  /\ [world EXCEPT !.server = i] = [server |-> i, locked |-> world.locked, image |-> world.image]
             /\ [world EXCEPT !.server = i].image = world.image
      BY <1>0
<1>3. ASSUME NEW s, NEW l, NEW i, world' = [server |-> s, locked |-> l, image |-> i]
      PROVE  /\ world' = [server |-> world'.server, locked |-> world'.locked, image |-> world'.image]
             /\ world'.image = i
      BY <1>3
<1>4. CASE Adapters!Decline
  <2>1. request = "travelling" /\ request' \in {"refused", "dropped"}
        /\ UNCHANGED <<port, world, review, pc, native, receipt, seen, changes>>
        BY <1>4 DEF Adapters!Decline
  <2>2. ImageInv' /\ SeenInv'
        BY <2>1 DEF AdaptersInv, ImageInv, SeenInv
  <2> QED BY <2>1, <2>2 DEF AdaptersInv, RequestInv
<1>5. CASE Adapters!Take
  <2>1. /\ request = "travelling" /\ request' = "taken" /\ native' = "pending"
        /\ port.action = "delete" => world.image \in {"pending", "available"}
        /\ world' = IF port.action = "create" THEN [world EXCEPT !.image = "pending"] ELSE world
        /\ UNCHANGED <<port, review, pc, receipt, seen, changes>>
        BY <1>5 DEF Adapters!Take
  <2>2. /\ world' = [server |-> world'.server, locked |-> world'.locked, image |-> world'.image]
        /\ world'.image = IF port.action = "create" THEN "pending" ELSE world.image
    <3>1. CASE port.action = "create"
          BY <1>1, <1>3, <2>1, <3>1
    <3>2. CASE port.action # "create"
          BY <1>0, <2>1, <3>2
    <3> QED BY <3>1, <3>2
  <2>3. native = "none" /\ receipt \in {"none", "error"}
        BY <2>1 DEF AdaptersInv, RequestInv
  <2>4. RequestInv'
        BY <2>1, <2>2, <2>3 DEF AdaptersInv, RequestInv, Effect
  <2>5. ImageInv'
        BY <2>1, <2>2 DEF ImageInv
  <2>6. SeenInv'
        BY <2>1, <2>3 DEF AdaptersInv, SeenInv
  <2> QED BY <2>4, <2>5, <2>6 DEF AdaptersInv
<1>6. ASSUME native = "pending", native' \in {"pending", "done", "failed"},
             native' = "failed" => port.action # "delete",
             world' = [server |-> world'.server, locked |-> world'.locked, image |-> world'.image],
             native' = "pending" => world'.image = world.image,
             native' = "failed" /\ port.action = "create" => world'.image = "absent",
             UNCHANGED <<port, pc, request, receipt, seen>>
      PROVE  AdaptersInv'
  <2>1. RequestInv'
        BY <1>6 DEF AdaptersInv, RequestInv, Effect
  <2>2. ImageInv'
        BY <1>6 DEF AdaptersInv, ImageInv
  <2>3. SeenInv'
        BY <1>6 DEF AdaptersInv, SeenInv
  <2> QED BY <2>1, <2>2, <2>3 DEF AdaptersInv
<1>7. CASE Adapters!Finish
  <2>1. /\ native = "pending" /\ native' = "done"
        /\ world' = Adapters!By([world EXCEPT !.server = Adapters!NativeState(port.family, Adapters!Wanted)],
                                [world EXCEPT !.image = "available"],
                                [world EXCEPT !.image = IF port.family = "vultr" THEN "deleted" ELSE "absent"])
        /\ UNCHANGED <<port, review, pc, request, receipt, seen, changes>>
        BY <1>7 DEF Adapters!Finish
  <2>2. world' = [server |-> world'.server, locked |-> world'.locked, image |-> world'.image]
    <3>1. CASE port.action = "create"
          BY <1>1, <1>3, <2>1, <3>1 DEF Adapters!By
    <3>2. CASE port.action = "delete"
          BY <1>1, <1>3, <2>1, <3>2 DEF Adapters!By
    <3>3. CASE port.action \notin {"create", "delete"}
          BY <1>2, <1>3, <2>1, <3>3 DEF Adapters!By
    <3> QED BY <3>1, <3>2, <3>3
  <2> QED BY <1>6, <2>1, <2>2
<1>8. CASE Adapters!Break
  <2>1. /\ native = "pending" /\ native' = "failed" /\ port.action # "delete"
        /\ world' = IF port.action = "create" THEN [world EXCEPT !.image = "absent"] ELSE world
        /\ UNCHANGED <<port, review, pc, request, receipt, seen, changes>>
        BY <1>8 DEF Adapters!Break
  <2>2. /\ world' = [server |-> world'.server, locked |-> world'.locked, image |-> world'.image]
        /\ port.action = "create" => world'.image = "absent"
    <3>1. CASE port.action = "create"
          BY <1>1, <1>3, <2>1, <3>1
    <3>2. CASE port.action # "create"
          BY <1>0, <2>1, <3>2
    <3> QED BY <3>1, <3>2
  <2> QED BY <1>6, <2>1, <2>2
<1>9. CASE Adapters!Meddle
  <2>1. UNCHANGED <<port, review, pc, request, receipt, seen>>
        BY <1>9 DEF Adapters!Meddle
  <2>2. CASE (\E w \in Adapters!World(port.family) : world' = [w EXCEPT !.image = world.image])
             /\ UNCHANGED native
    <3>1. PICK w \in Adapters!World(port.family) : world' = [w EXCEPT !.image = world.image]
          BY <2>2
    <3>2. world' = [server |-> w.server, locked |-> w.locked, image |-> world.image]
          BY <3>1 DEF Adapters!World
    <3>3. /\ world' = [server |-> world'.server, locked |-> world'.locked, image |-> world'.image]
          /\ world'.image = world.image
          BY <1>3, <3>2
    <3>4. RequestInv'
          BY <2>1, <2>2, <3>3 DEF AdaptersInv, RequestInv
    <3>5. ImageInv' /\ SeenInv'
          BY <2>1, <2>2, <3>3 DEF AdaptersInv, ImageInv, SeenInv
    <3> QED BY <3>4, <3>5 DEF AdaptersInv
  <2>3. CASE /\ world.image = "available" \/ (world.image = "pending" /\ port.action = "delete")
             /\ world' = [world EXCEPT !.image = "absent"]
             /\ native' = IF native = "pending" THEN "done" ELSE native
    <3>1. /\ world' = [server |-> world'.server, locked |-> world'.locked, image |-> world'.image]
          /\ world'.image = "absent"
          BY <1>1, <1>3, <2>3
    <3>2. CASE native = "pending"
          BY <1>6, <2>1, <2>3, <3>1, <3>2
    <3>3. CASE native # "pending"
      <4>1. RequestInv'
            BY <2>1, <2>3, <3>1, <3>3 DEF AdaptersInv, RequestInv
      <4>2. ImageInv' /\ SeenInv'
            BY <2>1, <2>3, <3>1, <3>3 DEF AdaptersInv, ImageInv, SeenInv
      <4> QED BY <4>1, <4>2 DEF AdaptersInv
    <3> QED BY <3>2, <3>3
  <2> QED BY <1>9, <2>2, <2>3 DEF Adapters!Meddle
<1> QED BY <1>4, <1>5, <1>7, <1>8, <1>9

(* The invariant of the adapters, in the behaviours that run them.          *)
THEOREM AdaptersInvariant == MCSpec => [](part = "adapters" => AdaptersInv)
<1> DEFINE I == part = "adapters" => AdaptersInv
<1>1. MCInit => I
      BY AdaptersInit DEF MCInit
<1>2. I /\ [MCNext]_all => I'
  <2> SUFFICES ASSUME I, [MCNext]_all, part' = "adapters" PROVE AdaptersInv'
      OBVIOUS
  <2>1. CASE part = "adapters" /\ Adapters!Next
        BY <2>1, CallerStep, ProviderStep DEF Adapters!Next
  <2>2. CASE UNCHANGED <<part, adapters>>
        BY <2>2 DEF adapters, AdaptersInv, RequestInv, ImageInv, SeenInv
  <2> QED BY <2>1, <2>2 DEF MCNext, BudgetStep, all
<1> QED BY <1>1, <1>2, PTL DEF MCSpec

(* What Submit of any adapter returns is in the contract, and stays true.   *)
THEOREM ReceiptsAreTruthful == MCSpec => []ReceiptIsTruthful
<1>1. (part = "adapters" => AdaptersInv) => ReceiptIsTruthful
  <2> SUFFICES ASSUME AdaptersInv, receipt # "none"
               PROVE  [left |-> request # "unsent",
                       effect |-> IF request \in {"travelling", "taken"} THEN "pending" ELSE "none",
                       receipt |-> receipt] \in Adapters!SubmitAnswers
      BY DEF ReceiptIsTruthful, Adapters!ReceiptIsTruthful
  <2>1. /\ receipt \in {"error", "rejected", "accepted", "noref"}
        /\ request \in {"unsent", "travelling", "taken", "refused", "dropped"}
        /\ receipt = "rejected" => request \in {"unsent", "refused"}
        /\ receipt \in {"accepted", "noref"} => request = "taken"
        BY DEF AdaptersInv, RequestInv
  <2> QED BY <2>1 DEF Adapters!SubmitAnswers
<1> QED BY <1>1, AdaptersInvariant, PTL

(* What Observe of any adapter returns is in the contract, and stays true.  *)
THEOREM ObservationsAreTruthful == MCSpec => []ObservationIsTruthful
<1>1. (part = "adapters" => AdaptersInv) => ObservationIsTruthful
      BY DEF AdaptersInv, SeenInv, ObservationIsTruthful, Adapters!ObservationIsTruthful,
             Adapters!AnswersAbout, Adapters!HasRef
<1> QED BY <1>1, AdaptersInvariant, PTL

(* No adapter takes somebody else's change for the success of its request,  *)
(* but for the power actions of Vultr and Contabo.                          *)
THEOREM SuccessesAreOwn == MCSpec => []SuccessIsOwn
<1>1. (part = "adapters" => AdaptersInv) => SuccessIsOwn
      BY DEF AdaptersInv, SeenInv, SuccessIsOwn, Adapters!SuccessIsOwn
<1> QED BY <1>1, AdaptersInvariant, PTL

-----------------------------------------------------------------------------
(* The nested walk.  What is still to be returned lies ahead of the cursor: *)
(* in the instance being read, beyond the snapshot pages read; in later     *)
(* instances otherwise.  Between two instances of a page the cursor names   *)
(* the next, and no instance that was there from the start lies between;    *)
(* between two pages it names none, and what is left is on later pages as   *)
(* long as no instance goes.                                                *)
CursorType ==
    [ip: Nat \ {0}, index: Nat, sp: Nat \ {0}, step: Nat, expected: Instances \cup {0}]

PageType == [rows: Nat, next: BOOLEAN, id: Instances \cup {0}, following: Instances \cup {0}]

Ids == Instances \cup Images

WalkTypes ==
    /\ order \in Orders
    /\ DOMAIN account \in SUBSET Instances
    /\ account \in [DOMAIN account -> SUBSET Images]
    /\ cursor \in CursorType
    /\ page \in PageType
    /\ status \in {"sources", "snapshots", "complete", "failed"}
    /\ stayed \in SUBSET (Instances \X Images)
    /\ \A x \in stayed : x[1] \in DOMAIN account /\ x[2] \in account[x[1]]
    /\ staged \in SUBSET (Instances \X Images)
    /\ blind \in BOOLEAN /\ shrunk \in BOOLEAN /\ overtaken \in BOOLEAN

Left == stayed \ staged

AheadOf(id) ==
    \A x \in Left :
      /\ order[x[1]] >= order[id]
      /\ x[1] = id => Walk!PositionIn(order, account[id], x[2]) >= (cursor.sp - 1) * ImageRows

OnLaterPages(n) == \A x \in Left : Walk!PositionIn(order, DOMAIN account, x[1]) >= n * InstanceRows

Guided ==
    IF cursor.expected = 0
      THEN cursor.sp = 1 /\ cursor.index = 0 /\ OnLaterPages(cursor.ip - 1)
      ELSE AheadOf(cursor.expected)

LastRow ==
    /\ page.next => \A x \in Left : order[x[1]] > order[page.id] =>
                      Walk!PositionIn(order, DOMAIN account, x[1]) >= cursor.ip * InstanceRows
    /\ ~page.next => \A x \in Left : order[x[1]] <= order[page.id]

Reading ==
    /\ page.id # 0
    /\ AheadOf(page.id)
    /\ page.following # 0 <=> cursor.index + 1 < page.rows
    /\ IF page.following = 0
         THEN LastRow
         ELSE \A x \in Left : order[x[1]] > order[page.id] => order[x[1]] >= order[page.following]

WalkInv ==
    /\ WalkTypes
    /\ status # "snapshots" => page.id = 0
    /\ ~blind /\ ~shrunk /\ ~overtaken =>
         /\ status = "sources" => Guided
         /\ status = "snapshots" => Reading
         /\ status = "complete" => Left = {}

(* SnapshotWalk counts as the library's theorems do.                        *)
LEMMA WalkCounts ==
    ASSUME NEW S
    PROVE  Walk!Cardinality(S) = Cardinality(S) /\ (Walk!IsFiniteSet(S) <=> IsFiniteSet(S))
<1>1. Walk!Cardinality(S) = Cardinality(S)
      BY DEF Walk!Cardinality, Cardinality
<1>2. Walk!IsFiniteSet(S) <=> IsFiniteSet(S)
      BY DEF Walk!IsFiniteSet, IsFiniteSet
<1> QED BY <1>1, <1>2

(* An order ranks every id differently, and there are finitely many ids.    *)
LEMMA Ranks ==
    /\ \A o \in Orders : o \in [Ids -> Int] /\ \A x, y \in Ids : x # y => o[x] # o[y]
    /\ Instances \in SUBSET Ids /\ Images \in SUBSET Ids
    /\ IsFiniteSet(Instances) /\ IsFiniteSet(Images) /\ IsFiniteSet(Ids)
<1>1. IsFiniteSet(Instances) /\ IsFiniteSet(Images)
      BY MCAssumption, WalkCounts DEF Walk!ConstantsOK
<1>2. IsFiniteSet(Ids)
      BY <1>1, FS_Union DEF Ids
<1> QED BY <1>1, <1>2, MCAssumption DEF Walk!ConstantsOK, Ids

(* Positions in a finite list are numbers below its length that grow along  *)
(* it.                                                                      *)
LEMMA PositionsGrow ==
    ASSUME NEW o \in Orders, NEW S \in SUBSET Ids, NEW x \in Ids, NEW y \in Ids
    PROVE  /\ Walk!PositionIn(o, S, x) \in Nat
           /\ x \in S => Walk!PositionIn(o, S, x) < Cardinality(S)
           /\ o[x] <= o[y] => Walk!PositionIn(o, S, x) <= Walk!PositionIn(o, S, y)
           /\ x \in S /\ o[x] < o[y] => Walk!PositionIn(o, S, x) < Walk!PositionIn(o, S, y)
<1> DEFINE X == {m \in S : o[m] < o[x]}
           Y == {m \in S : o[m] < o[y]}
<1>0. o \in [Ids -> Int] /\ IsFiniteSet(S)
      BY Ranks, FS_Subset
<1>1. X \in SUBSET S /\ Y \in SUBSET S /\ (o[x] <= o[y] => X \in SUBSET Y)
  <2>1. X \in SUBSET S /\ Y \in SUBSET S
        OBVIOUS
  <2>2. ASSUME o[x] <= o[y], NEW m \in X PROVE m \in Y
        BY <1>0, <2>2
  <2> QED BY <2>1, <2>2
<1>2. x \in S => X # S
      BY <1>0
<1>3. x \in S /\ o[x] < o[y] => X # Y
      BY <1>0
<1>4. Walk!PositionIn(o, S, x) = Cardinality(X) /\ Walk!PositionIn(o, S, y) = Cardinality(Y)
      BY WalkCounts DEF Walk!PositionIn
<1> HIDE DEF X, Y
<1>5. IsFiniteSet(X) /\ IsFiniteSet(Y)
      BY <1>0, <1>1, FS_Subset
<1>6. Cardinality(X) \in Nat /\ Cardinality(Y) \in Nat /\ Cardinality(S) \in Nat
      BY <1>0, <1>5, FS_CardinalityType
<1>7. Cardinality(X) <= Cardinality(S) /\ (Cardinality(S) = Cardinality(X) => S = X)
      BY <1>0, <1>1, FS_Subset
<1>8. o[x] <= o[y] => Cardinality(X) <= Cardinality(Y) /\ (Cardinality(Y) = Cardinality(X) => Y = X)
      BY <1>1, <1>5, FS_Subset
<1> QED BY <1>0, <1>2, <1>3, <1>4, <1>6, <1>7, <1>8

(* A longer list moves nothing to the front.                                *)
LEMMA PositionsInLonger ==
    ASSUME NEW o \in Orders, NEW T \in SUBSET Ids, NEW S \in SUBSET T, NEW x \in Ids
    PROVE  Walk!PositionIn(o, S, x) <= Walk!PositionIn(o, T, x)
<1> DEFINE X == {m \in S : o[m] < o[x]}
           Y == {m \in T : o[m] < o[x]}
<1>1. X \in SUBSET Y /\ Y \in SUBSET T
      OBVIOUS
<1>2. Walk!PositionIn(o, S, x) = Cardinality(X) /\ Walk!PositionIn(o, T, x) = Cardinality(Y)
      BY WalkCounts DEF Walk!PositionIn
<1> HIDE DEF X, Y
<1>3. IsFiniteSet(Y)
      BY <1>1, Ranks, FS_Subset
<1> QED BY <1>1, <1>2, <1>3, FS_Subset

(* Every position below the length of a list is taken.                      *)
LEMMA PositionsTaken ==
    ASSUME NEW o \in Orders, NEW S \in SUBSET Ids, NEW i \in Nat, i < Cardinality(S)
    PROVE  \E x \in S : Walk!PositionIn(o, S, x) = i
<1> DEFINE n == Cardinality(S)
           T == 0 .. (n - 1)
           f == [x \in S |-> Walk!PositionIn(o, S, x)]
<1>1. n \in Nat /\ n > 0 /\ IsFiniteSet(S)
      BY Ranks, FS_Subset, FS_CardinalityType
<1>2. IsFiniteSet(T) /\ Cardinality(T) = n
  <2> HIDE DEF n
  <2>1. n - 1 \in Int /\ ~(0 > n - 1) /\ (n - 1) - 0 + 1 = n
        BY <1>1
  <2> QED BY <2>1, FS_Interval
<1>3. \A x \in S : Walk!PositionIn(o, S, x) \in Nat /\ Walk!PositionIn(o, S, x) < n
      BY PositionsGrow
<1>4. f \in [S -> T]
      BY <1>1, <1>3
<1>5. ASSUME NEW x \in S, NEW y \in S, x # y PROVE Walk!PositionIn(o, S, x) # Walk!PositionIn(o, S, y)
  <2>1. CASE o[x] < o[y]
        BY <2>1, <1>3, PositionsGrow
  <2>2. CASE o[y] < o[x]
        BY <2>2, <1>3, PositionsGrow
  <2>3. o[x] \in Int /\ o[y] \in Int /\ o[x] # o[y]
        BY <1>5, Ranks
  <2> QED BY <2>1, <2>2, <2>3
<1>6. \A x, y \in S : f[x] = f[y] => x = y
      BY <1>5
<1> HIDE DEF f, T
<1>7. f \in Injection(S, T)
      BY <1>4, <1>6 DEF Injection, IsInjective
<1>8. f \in Surjection(S, T)
      BY <1>1, <1>2, <1>7, FS_Injection
<1>9. i \in T
      BY <1>1 DEF T
<1>10. PICK x \in S : f[x] = i
      BY <1>8, <1>9 DEF Surjection
<1> QED BY <1>10 DEF f

(* Quotients and pages: where a position is, and what the pages hold.       *)
LEMMA Quotients ==
    ASSUME NEW a \in Nat, NEW d \in Nat \ {0}, NEW q \in Nat
    PROVE  /\ a \div d = q => a >= q * d /\ a < (q + 1) * d
           /\ a >= q * d /\ a \div d # q => a >= (q + 1) * d
           /\ a \div d \in Nat
<1>1. /\ a = d * (a \div d) + (a % d) /\ a % d >= 0 /\ a % d < d
      /\ a \div d \in Int /\ a % d \in Int
      BY SMT
<1>2. a \div d >= 0
      BY <1>1, SMT
<1>3. ASSUME a \div d = q PROVE a >= q * d /\ a < (q + 1) * d
      BY <1>1, <1>3, SMT
<1>4. ASSUME a >= q * d, a \div d # q PROVE a >= (q + 1) * d
      BY <1>1, <1>4, SMT
<1> QED BY <1>1, <1>2, <1>3, <1>4

(* As many pages as a list has hold all of it.                              *)
LEMMA PagesHold ==
    ASSUME NEW S, IsFiniteSet(S), NEW d \in Nat \ {0}, NEW q \in Nat, Walk!Pages(S, d) <= q
    PROVE  Cardinality(S) <= q * d
<1> DEFINE c == Cardinality(S)
           p == (c + d - 1) \div d
<1>1. c \in Nat
      BY FS_CardinalityType
<1> HIDE DEF c
<1>2. c + d - 1 \in Nat
      BY <1>1
<1>3. p \in Nat /\ c + d - 1 < (p + 1) * d
      BY <1>2, Quotients
<1>4. p <= q
      BY WalkCounts DEF Walk!Pages, c
<1> HIDE DEF p
<1>5. c - 1 < p * d
      BY <1>1, <1>3, SMT
<1>6. p * d <= q * d
      BY <1>3, <1>4, SMT
<1> QED BY <1>1, <1>3, <1>5, <1>6 DEF c

(* What the pages before have not held, and this one does not hold, is on a *)
(* later page, and there is one.                                            *)
LEMMA BeyondPage ==
    ASSUME order \in Orders, NEW S \in SUBSET Ids, NEW d \in Nat \ {0}, NEW n \in Nat \ {0}, NEW x \in S,
           Walk!PositionIn(order, S, x) >= (n - 1) * d, x \notin Walk!PageOf(S, d, n)
    PROVE  Walk!PositionIn(order, S, x) >= n * d /\ Walk!Pages(S, d) > n
<1>0. IsFiniteSet(S)
      BY Ranks, FS_Subset
<1>1. /\ Walk!PositionIn(order, S, x) \in Nat /\ Walk!PositionIn(order, S, x) < Cardinality(S)
      /\ Cardinality(S) \in Nat
      BY <1>0, PositionsGrow, FS_CardinalityType
<1>2. Walk!PositionIn(order, S, x) \div d # n - 1
      BY DEF Walk!PageOf, Walk!Position
<1>3. n - 1 \in Nat /\ (n - 1) + 1 = n
      OBVIOUS
<1>4. Walk!PositionIn(order, S, x) >= n * d
      BY <1>1, <1>2, <1>3, Quotients
<1>5. Walk!Pages(S, d) \in Int
  <2>1. Cardinality(S) + d - 1 \in Nat
        BY <1>1
  <2> QED BY <2>1, Quotients, WalkCounts DEF Walk!Pages
<1>6. ~(Walk!Pages(S, d) <= n)
  <2> SUFFICES ASSUME Walk!Pages(S, d) <= n PROVE FALSE
      OBVIOUS
  <2>1. Cardinality(S) <= n * d /\ n * d \in Int
        BY <1>0, PagesHold
  <2> QED BY <1>1, <1>4, <2>1
<1> QED BY <1>4, <1>5, <1>6

(* A page of a list, and the order of its rows: nothing of the list that is *)
(* not before the page lies before its first row, between two rows, or      *)
(* after the last one on this page.                                         *)
LEMMA RowsInOrder ==
    ASSUME order \in Orders, NEW E \in SUBSET Ids, NEW d \in Nat \ {0}, NEW n \in Nat \ {0},
           NEW id \in Walk!PageOf(E, d, n), NEW x \in E
    PROVE  /\ Walk!PageOf(E, d, n) \in SUBSET E /\ IsFiniteSet(Walk!PageOf(E, d, n))
           /\ Walk!PositionIn(order, E, x) >= (n - 1) * d /\ order[x] < order[id] =>
                x \in Walk!PageOf(E, d, n)
           /\ order[x] > order[id] =>
                \/ x \in Walk!PageOf(E, d, n)
                \/ Walk!PositionIn(order, E, x) >= n * d /\ Walk!Pages(E, d) > n
<1> DEFINE P == Walk!PageOf(E, d, n)
<1>1. P \in SUBSET E /\ id \in E /\ Walk!PositionIn(order, E, id) \div d = n - 1
      BY DEF Walk!PageOf, Walk!Position
<1>2. n - 1 \in Nat /\ (n - 1) + 1 = n
      OBVIOUS
<1>3. /\ Walk!PositionIn(order, E, id) \in Nat /\ Walk!PositionIn(order, E, x) \in Nat 
      /\ id \in Ids /\ x \in Ids /\ order[id] \in Int /\ order[x] \in Int
      BY <1>1, PositionsGrow, Ranks
<1>4. Walk!PositionIn(order, E, id) >= (n - 1) * d /\ Walk!PositionIn(order, E, id) < n * d
      BY <1>1, <1>2, <1>3, Quotients
<1>4a. (n - 1) * d \in Int /\ n * d \in Int
      OBVIOUS
<1>5. ASSUME Walk!PositionIn(order, E, x) >= (n - 1) * d, order[x] < order[id] PROVE x \in P
  <2>1. Walk!PositionIn(order, E, x) <= Walk!PositionIn(order, E, id)
        BY <1>3, <1>5, PositionsGrow
  <2>2. Walk!PositionIn(order, E, x) < n * d
        BY <1>3, <1>4, <1>4a, <2>1
  <2>3. Walk!PositionIn(order, E, x) \div d = n - 1
    <3> SUFFICES ASSUME Walk!PositionIn(order, E, x) \div d # n - 1 PROVE FALSE
        OBVIOUS
    <3>1. Walk!PositionIn(order, E, x) >= n * d
          BY <1>2, <1>3, <1>5, Quotients
    <3> QED BY <1>3, <1>4a, <2>2, <3>1
  <2> QED BY <2>3 DEF Walk!PageOf, Walk!Position
<1>6. ASSUME order[x] > order[id], x \notin P
      PROVE  Walk!PositionIn(order, E, x) >= n * d /\ Walk!Pages(E, d) > n
  <2>1. Walk!PositionIn(order, E, id) <= Walk!PositionIn(order, E, x)
        BY <1>1, <1>3, <1>6, PositionsGrow
  <2>2. Walk!PositionIn(order, E, x) >= (n - 1) * d
        BY <1>3, <1>4, <1>4a, <2>1
  <2> QED BY <1>6, <2>2, BeyondPage
<1>7. IsFiniteSet(P)
      BY <1>1, Ranks, FS_Subset
<1> QED BY <1>1, <1>5, <1>6, <1>7

(* The row of a page that the cursor points at, and the one after it.       *)
LEMMA RowAt ==
    ASSUME WalkTypes, NEW n \in Nat \ {0}, NEW i \in Nat, i < Cardinality(Walk!Sources(n))
    PROVE  /\ Walk!At(n, i) \in Walk!Row(n, i)
           /\ Walk!At(n, i) \in Walk!Sources(n)
           /\ Walk!At(n, i) \in DOMAIN account
           /\ Walk!PositionIn(order, Walk!Sources(n), Walk!At(n, i)) = i
<1>1. /\ Walk!Sources(n) \in SUBSET DOMAIN account /\ Walk!Sources(n) \in SUBSET Ids
      BY Ranks DEF WalkTypes, Walk!Sources, Walk!PageOf, Walk!Existing
<1>2. order \in Orders
      BY DEF WalkTypes
<1>3. \E x \in Walk!Sources(n) : Walk!PositionIn(order, Walk!Sources(n), x) = i
      BY <1>1, <1>2, PositionsTaken
<1>4. \E x : x \in Walk!Row(n, i)
      BY <1>3 DEF Walk!Row, Walk!Position
<1>5. Walk!At(n, i) \in Walk!Row(n, i)
      BY <1>4 DEF Walk!At
<1> QED BY <1>1, <1>5 DEF Walk!Row, Walk!Position

(* How the instances that exist lie around the row the cursor points at.    *)
LEMMA AroundRow ==
    ASSUME WalkTypes, NEW n \in Nat \ {0}, NEW i \in Nat, i < Cardinality(Walk!Sources(n)),
           NEW x \in DOMAIN account
    PROVE  /\ i = 0 /\ Walk!PositionIn(order, DOMAIN account, x) >= (n - 1) * InstanceRows =>
                order[x] >= order[Walk!At(n, i)]
           /\ i + 1 < Cardinality(Walk!Sources(n)) /\ order[x] > order[Walk!At(n, i)] =>
                order[x] >= order[Walk!At(n, i + 1)]
           /\ i + 1 >= Cardinality(Walk!Sources(n)) /\ order[x] > order[Walk!At(n, i)] =>
                /\ Walk!PositionIn(order, DOMAIN account, x) >= n * InstanceRows
                /\ Walk!Pages(DOMAIN account, InstanceRows) > n
<1> DEFINE E == DOMAIN account
           P == Walk!PageOf(E, InstanceRows, n)
           id == Walk!At(n, i)
<1>1. /\ order \in Orders /\ order \in [Ids -> Int] /\ E \in SUBSET Ids /\ IsFiniteSet(E)
      /\ InstanceRows \in Nat \ {0}
  <2>1. order \in Orders /\ E \in SUBSET Ids
        BY Ranks DEF WalkTypes
  <2> QED BY <2>1, Ranks, FS_Subset, MCAssumption DEF Walk!ConstantsOK
<1>2. P = Walk!Sources(n)
      BY DEF Walk!Sources, Walk!Existing
<1>3. id \in P /\ Walk!PositionIn(order, P, id) = i /\ id \in Ids
      BY <1>1, <1>2, RowAt DEF WalkTypes
<1>4. /\ P \in SUBSET E /\ IsFiniteSet(P) /\ P \in SUBSET Ids
      /\ Walk!PositionIn(order, E, x) >= (n - 1) * InstanceRows /\ order[x] < order[id] => x \in P
      /\ order[x] > order[id] =>
           x \in P \/ (Walk!PositionIn(order, E, x) >= n * InstanceRows /\ Walk!Pages(E, InstanceRows) > n)
      BY <1>1, <1>3, RowsInOrder
<1>5. /\ Cardinality(P) \in Nat /\ x \in Ids
      /\ order[x] \in Int /\ order[id] \in Int
      BY <1>1, <1>3, <1>4, FS_CardinalityType
<1>6. \A y \in Ids : Walk!PositionIn(order, P, y) \in Nat
      BY <1>1, <1>4, PositionsGrow
<1> HIDE DEF P, id
<1>7. ASSUME x \in P, order[x] < order[id] PROVE i > 0
  <2>1. Walk!PositionIn(order, P, x) < Walk!PositionIn(order, P, id)
        BY <1>1, <1>3, <1>4, <1>5, <1>7, PositionsGrow
  <2> QED BY <1>3, <1>5, <1>6, <2>1
<1>8. ASSUME x \in P, order[x] > order[id]
      PROVE  Walk!PositionIn(order, P, x) > i /\ Walk!PositionIn(order, P, x) < Cardinality(P)
      BY <1>1, <1>3, <1>4, <1>5, <1>8, PositionsGrow
<1>9. ASSUME i + 1 < Cardinality(P), order[x] > order[id]
      PROVE  order[x] >= order[Walk!At(n, i + 1)]
  <2> DEFINE f == Walk!At(n, i + 1)
  <2>1. i + 1 \in Nat
        OBVIOUS
  <2>2. f \in P /\ Walk!PositionIn(order, P, f) = i + 1
        BY <1>2, <1>9, <2>1, RowAt
  <2> HIDE DEF f
  <2>3. f \in Ids /\ order[f] \in Int
        BY <1>1, <1>4, <2>2
  <2> SUFFICES ASSUME order[x] < order[f] PROVE FALSE
      BY <1>5, <2>3 DEF f
  <2>4. x \in P
    <3>1. Walk!PositionIn(order, E, x) >= (n - 1) * InstanceRows
      <4>1. Walk!PositionIn(order, E, id) >= (n - 1) * InstanceRows
        <5>1. Walk!PositionIn(order, E, id) \div InstanceRows = n - 1 /\ id \in E
              BY <1>3, <1>4 DEF P, Walk!PageOf, Walk!Position
        <5>2. Walk!PositionIn(order, E, id) \in Nat /\ n - 1 \in Nat
              BY <1>1, <1>3, PositionsGrow
        <5> QED BY <1>1, <5>1, <5>2, Quotients
      <4>2. Walk!PositionIn(order, E, id) <= Walk!PositionIn(order, E, x)
        <5>1. order[id] <= order[x]
              BY <1>5, <1>9
        <5> QED BY <1>1, <1>3, <1>5, <5>1, PositionsGrow
      <4>3. /\ Walk!PositionIn(order, E, id) \in Int /\ Walk!PositionIn(order, E, x) \in Int
            /\ (n - 1) * InstanceRows \in Int
            BY <1>1, <1>3, <1>5, PositionsGrow
      <4> QED BY <4>1, <4>2, <4>3
    <3> QED BY <1>1, <2>2, <3>1, RowsInOrder DEF P
  <2>5. Walk!PositionIn(order, P, x) > i
        BY <1>8, <1>9, <2>4
  <2>6. Walk!PositionIn(order, P, x) < Walk!PositionIn(order, P, f)
        BY <1>1, <1>4, <1>5, <2>3, <2>4, PositionsGrow
  <2> QED BY <1>5, <1>6, <2>2, <2>5, <2>6
<1>10. ASSUME i + 1 >= Cardinality(P), order[x] > order[id] PROVE x \notin P
      BY <1>5, <1>6, <1>8, <1>10
<1>11. ASSUME i = 0, Walk!PositionIn(order, E, x) >= (n - 1) * InstanceRows
       PROVE  order[x] >= order[id]
      BY <1>3, <1>4, <1>5, <1>7, <1>11
<1> QED BY <1>2, <1>4, <1>9, <1>10, <1>11 DEF id

(* The ids of instances are positive numbers.                               *)
LEMMA InstanceIds == \A j \in Instances : j \in Int /\ j > 0 /\ j # 0
BY MCAssumption DEF Walk!ConstantsOK

(* A walk that has ended, in whatever way, points nowhere.                  *)
LEMMA WalkEnds ==
    ASSUME WalkTypes, NEW s \in {"complete", "failed"}, Walk!Ends(s),
           UNCHANGED <<account, order, stayed, blind, shrunk, overtaken>>,
           staged' \in SUBSET (Instances \X Images),
           s = "complete" /\ ~blind /\ ~shrunk /\ ~overtaken => stayed \ staged' = {}
    PROVE  WalkInv'
<1>1. /\ cursor' = [ip |-> 1, index |-> 0, sp |-> 1, step |-> 1, expected |-> 0]
      /\ page' = [rows |-> 0, next |-> FALSE, id |-> 0, following |-> 0] /\ status' = s
      BY DEF Walk!Ends, Walk!Start, Walk!NoPage
<1>2. cursor' \in CursorType
      BY <1>1 DEF CursorType
<1>3. page' \in PageType /\ page'.id = 0
      BY <1>1 DEF PageType
<1>4. WalkTypes'
      BY <1>1, <1>2, <1>3 DEF WalkTypes
<1> QED BY <1>1, <1>3, <1>4 DEF WalkInv, Left

(* A new walk has everything ahead of it.                                   *)
LEMMA WalkInit == Walk!Init => WalkInv
<1> SUFFICES ASSUME Walk!Init PROVE WalkInv
    OBVIOUS
<1>1. PICK e \in SUBSET Instances : account \in [e -> SUBSET Images]
      BY DEF Walk!Init
<1>2. DOMAIN account \in SUBSET Instances /\ account \in [DOMAIN account -> SUBSET Images]
      BY <1>1
<1>3. /\ cursor = [ip |-> 1, index |-> 0, sp |-> 1, step |-> 1, expected |-> 0]
      /\ page = [rows |-> 0, next |-> FALSE, id |-> 0, following |-> 0]
      BY DEF Walk!Init, Walk!Start, Walk!NoPage
<1>4. cursor \in CursorType /\ cursor.expected = 0 /\ cursor.sp = 1 /\ cursor.index = 0 /\ cursor.ip = 1
      BY <1>3 DEF CursorType
<1>5. page \in PageType /\ page.id = 0
      BY <1>3 DEF PageType
<1>6. stayed = UNION {{<<i, s>> : s \in account[i]} : i \in DOMAIN account}
      BY DEF Walk!Init, Walk!All
<1>7. \A x \in stayed : /\ x \in Instances \X Images
                        /\ x[1] \in DOMAIN account /\ x[2] \in account[x[1]]
  <2> SUFFICES ASSUME NEW x \in stayed
               PROVE  /\ x \in Instances \X Images
                      /\ x[1] \in DOMAIN account /\ x[2] \in account[x[1]]
      OBVIOUS
  <2>1. PICK i \in DOMAIN account : x \in {<<i, s>> : s \in account[i]}
        BY <1>6
  <2>2. PICK s \in account[i] : x = <<i, s>>
        BY <2>1
  <2>3. i \in Instances /\ s \in Images
        BY <1>2
  <2> QED BY <2>2, <2>3
<1>8. WalkTypes
      BY <1>2, <1>4, <1>5, <1>7 DEF WalkTypes, Walk!Init
<1>9. OnLaterPages(0)
  <2> SUFFICES ASSUME NEW x \in Left PROVE Walk!PositionIn(order, DOMAIN account, x[1]) >= 0 * InstanceRows
      BY DEF OnLaterPages
  <2>1. x[1] \in Instances
        BY <1>2, <1>7 DEF Left
  <2>2. DOMAIN account \in SUBSET Ids /\ x[1] \in Ids /\ order \in Orders
        BY <1>2, <2>1, Ranks DEF Walk!Init
  <2>3. Walk!PositionIn(order, DOMAIN account, x[1]) \in Nat
        BY <2>2, PositionsGrow
  <2>4. 0 * InstanceRows = 0
        BY MCAssumption DEF Walk!ConstantsOK
  <2> QED BY <2>3, <2>4
<1>10. Guided
       BY <1>4, <1>9 DEF Guided
<1> QED BY <1>5, <1>8, <1>10 DEF WalkInv, Walk!Init

(* A page of instances shows the one the cursor expects; what is left to    *)
(* return is in it or in later ones, and the next one is known unless this  *)
(* is the last of the page.                                                 *)
LEMMA WalkSources ==
    ASSUME WalkInv, Walk!ReadSources
    PROVE  WalkInv'
<1> DEFINE n == cursor.ip
           i == cursor.index
           S == Walk!Sources(n)
           id == Walk!At(n, i)
           more == Walk!Pages(DOMAIN account, InstanceRows) > n
           f == IF i + 1 < Cardinality(S) THEN Walk!At(n, i + 1) ELSE 0
<1>1. /\ WalkTypes /\ status = "sources"
      /\ UNCHANGED <<account, order, staged, stayed, blind, shrunk, overtaken>>
      BY DEF WalkInv, Walk!ReadSources
<1>2. \/ Walk!Ends("failed")
      \/ DOMAIN account = {} /\ Walk!Ends("complete")
      \/ /\ ~Walk!Unexpected
         /\ page' = [rows |-> Cardinality(S), next |-> more, id |-> id, following |-> f]
         /\ status' = "snapshots" /\ UNCHANGED cursor
      BY WalkCounts DEF Walk!ReadSources, Walk!Existing
<1>3. CASE Walk!Ends("failed")
      BY <1>1, <1>3, WalkEnds DEF WalkTypes
<1>4. CASE DOMAIN account = {} /\ Walk!Ends("complete")
  <2>1. stayed = {}
        BY <1>1, <1>4 DEF WalkTypes
  <2> QED BY <1>1, <1>4, <2>1, WalkEnds DEF WalkTypes
<1>5. CASE /\ ~Walk!Unexpected
           /\ page' = [rows |-> Cardinality(S), next |-> more, id |-> id, following |-> f]
           /\ status' = "snapshots" /\ UNCHANGED cursor
  <2>1. n \in Nat \ {0} /\ i \in Nat /\ cursor.sp \in Nat \ {0} /\ cursor.expected \in Instances \cup {0}
        BY <1>1 DEF WalkTypes, CursorType
  <2>2. /\ DOMAIN account \in SUBSET Instances /\ Instances \in SUBSET (Nat \ {0})
        /\ IsFiniteSet(S) /\ Cardinality(S) \in Nat /\ S \in SUBSET Ids
        /\ order \in Orders /\ order \in [Ids -> Int]
    <3>1. IsFiniteSet(Instances) /\ Instances \in SUBSET (Nat \ {0})
          BY MCAssumption, WalkCounts DEF Walk!ConstantsOK
    <3>2. S \in SUBSET DOMAIN account /\ DOMAIN account \in SUBSET Instances
          BY <1>1 DEF WalkTypes, Walk!Sources, Walk!PageOf, Walk!Position, Walk!Existing
    <3>3. S \in SUBSET Instances /\ S \in SUBSET Ids
      <4> HIDE DEF S
      <4> QED BY <3>2, Ranks
    <3>4. IsFiniteSet(S)
          BY <3>1, <3>3, FS_Subset
    <3>5. order \in Orders
          BY <1>1 DEF WalkTypes
    <3> QED BY <3>1, <3>2, <3>3, <3>4, <3>5, Ranks, FS_CardinalityType
  <2>3. /\ i < Cardinality(S)
        /\ cursor.expected # 0 => cursor.expected \in Walk!Row(n, i)
        BY <1>5, <2>1, <2>2, WalkCounts DEF Walk!Unexpected
  <2>4. id \in Walk!Row(n, i) /\ id \in DOMAIN account /\ id \in Instances /\ id # 0 /\ id \in Ids
        BY <1>1, <2>1, <2>2, <2>3, RowAt, Ranks
  <2>5. cursor.expected # 0 => cursor.expected = id
    <3> SUFFICES ASSUME cursor.expected # 0, cursor.expected # id PROVE FALSE
        OBVIOUS
    <3> DEFINE y == cursor.expected
    <3>1. /\ y \in S /\ id \in S /\ Walk!PositionIn(order, S, y) = i /\ Walk!PositionIn(order, S, id) = i
          BY <2>3, <2>4 DEF Walk!Row, Walk!Position
    <3>2. y \in Ids /\ (order[y] < order[id] \/ order[id] < order[y])
      <4>1. y \in Ids /\ y # id
            BY <2>2, <3>1
      <4>2. order[y] \in Int /\ order[id] \in Int /\ order[y] # order[id]
            BY <2>2, <2>4, <4>1, Ranks
      <4> QED BY <4>1, <4>2
    <3> HIDE DEF y, id, S
    <3>3. Walk!PositionIn(order, S, y) # Walk!PositionIn(order, S, id)
      <4>1. CASE order[y] < order[id]
            BY <2>1, <2>2, <2>4, <3>1, <3>2, <4>1, PositionsGrow
      <4>2. CASE order[id] < order[y]
            BY <2>1, <2>2, <2>4, <3>1, <3>2, <4>2, PositionsGrow
      <4> QED BY <3>2, <4>1, <4>2
    <3> QED BY <3>1, <3>3
  <2>6. f \in Instances \cup {0} /\ (f # 0 <=> i + 1 < Cardinality(S))
    <3>1. ASSUME i + 1 < Cardinality(S) PROVE Walk!At(n, i + 1) \in Instances /\ Walk!At(n, i + 1) # 0
      <4>1. i + 1 \in Nat
            BY <2>1
      <4> QED BY <1>1, <2>1, <2>2, <3>1, <4>1, RowAt
    <3> QED BY <3>1
  <2>6a. more \in BOOLEAN
        OBVIOUS
  <2>7. /\ page'.id = id /\ page'.following = f /\ page'.rows = Cardinality(S) /\ page'.next = more
        /\ page' \in PageType
    <3> HIDE DEF id, f, more, S, n, i
    <3> QED BY <1>5, <2>2, <2>4, <2>6, <2>6a DEF PageType
  <2>8. WalkTypes'
        BY <1>1, <1>5, <2>7 DEF WalkTypes
  <2>9. ASSUME ~blind, ~shrunk, ~overtaken PROVE Reading'
    <3>1. Guided
          BY <1>1, <2>9 DEF WalkInv
    <3>2. Left' = Left
          BY <1>1 DEF Left
    <3>3. ASSUME NEW x \in Left
          PROVE  /\ x[1] \in DOMAIN account /\ x[1] \in Ids /\ order[x[1]] \in Int /\ x[2] \in account[x[1]]
                 /\ i = 0 /\ Walk!PositionIn(order, DOMAIN account, x[1]) >= (n - 1) * InstanceRows =>
                      order[x[1]] >= order[id]
                 /\ i + 1 < Cardinality(S) /\ order[x[1]] > order[id] =>
                      order[x[1]] >= order[Walk!At(n, i + 1)]
                 /\ i + 1 >= Cardinality(S) /\ order[x[1]] > order[id] =>
                      Walk!PositionIn(order, DOMAIN account, x[1]) >= n * InstanceRows /\ more
      <4>1. x[1] \in DOMAIN account /\ x[2] \in account[x[1]]
            BY <1>1 DEF WalkTypes, Left
      <4>2. x[1] \in Ids /\ order[x[1]] \in Int
            BY <2>2, <4>1, Ranks
      <4> QED BY <1>1, <2>1, <2>3, <4>1, <4>2, AroundRow
    <3>4. ASSUME NEW x \in Left
          PROVE  /\ order[x[1]] >= order[id]
                 /\ x[1] = id => Walk!PositionIn(order, account[id], x[2]) >= (cursor.sp - 1) * ImageRows
      <4>1. CASE cursor.expected = 0
        <5>1. cursor.sp = 1 /\ i = 0 /\ OnLaterPages(n - 1)
              BY <3>1, <4>1 DEF Guided
        <5>2. order[x[1]] >= order[id]
              BY <3>3, <5>1 DEF OnLaterPages
        <5>3. account[x[1]] \in SUBSET Ids /\ x[2] \in Ids
          <6>1. account[x[1]] \in SUBSET Images
                BY <1>1, <3>3 DEF WalkTypes
          <6> QED BY <3>3, <6>1, Ranks
        <5>4. Walk!PositionIn(order, account[x[1]], x[2]) \in Nat
              BY <2>2, <5>3, PositionsGrow
        <5>5. (cursor.sp - 1) * ImageRows = 0
              BY <5>1, MCAssumption DEF Walk!ConstantsOK
        <5> QED BY <5>2, <5>4, <5>5
      <4>2. CASE cursor.expected # 0
            BY <2>5, <3>1, <4>2 DEF Guided, AheadOf
      <4> QED BY <4>1, <4>2
    <3>5. AheadOf(page.id)'
      <4> HIDE DEF id
      <4> QED BY <1>1, <1>5, <2>7, <3>2, <3>4 DEF AheadOf
    <3>6. ASSUME page'.following = 0 PROVE LastRow'
      <4>1. i + 1 >= Cardinality(S)
            BY <2>1, <2>2, <2>6, <2>7, <3>6
      <4>2. \A x \in Left : order[x[1]] > order[id] =>
              Walk!PositionIn(order, DOMAIN account, x[1]) >= n * InstanceRows /\ more
            BY <3>3, <4>1
      <4>3. order[id] \in Int /\ \A x \in Left : order[x[1]] \in Int
            BY <2>2, <2>4, <3>3
      <4> HIDE DEF id, more, S, f
      <4> QED BY <1>1, <1>5, <2>4, <2>7, <3>2, <4>2, <4>3 DEF LastRow
    <3>7. ASSUME page'.following # 0 
          PROVE  \A x \in Left' : order'[x[1]] > order'[page'.id] => order'[x[1]] >= order'[page'.following]
      <4>1. i + 1 < Cardinality(S) /\ page'.following = Walk!At(n, i + 1)
            BY <2>6, <2>7, <3>7
      <4> QED BY <1>1, <2>7, <3>2, <3>3, <4>1
    <3> QED BY <1>5, <2>4, <2>6, <2>7, <3>5, <3>6, <3>7 DEF Reading
  <2> QED BY <1>1, <1>5, <2>8, <2>9 DEF WalkInv
<1> QED BY <1>2, <1>3, <1>4, <1>5

(* Where the cursor goes from a page of snapshots.                          *)
LEMMA NextCursorRow ==
    ASSUME cursor \in CursorType, page \in PageType, NEW more \in BOOLEAN
    PROVE  LET c == Walk!NextCursor(more)
           IN  /\ c \in CursorType
               /\ more => c.expected = page.id /\ c.sp = cursor.sp + 1
               /\ ~more /\ cursor.index + 1 < page.rows => c.expected = page.following /\ c.sp = 1
               /\ ~more /\ ~(cursor.index + 1 < page.rows) =>
                    c.expected = 0 /\ c.sp = 1 /\ c.index = 0 /\ c.ip = cursor.ip + 1
<1> DEFINE at == [cursor EXCEPT !.step = @ + 1]
<1>1. /\ at \in CursorType /\ at.ip = cursor.ip /\ at.index = cursor.index /\ at.sp = cursor.sp
      BY DEF CursorType
<1>2. /\ page.id \in Instances \cup {0} /\ page.following \in Instances \cup {0}
      BY DEF PageType
<1>3. Walk!NextCursor(more) =
        IF more THEN [at EXCEPT !.sp = @ + 1, !.expected = page.id]
        ELSE IF cursor.index + 1 < page.rows
               THEN [at EXCEPT !.sp = 1, !.index = @ + 1, !.expected = page.following]
        ELSE [at EXCEPT !.sp = 1, !.index = 0, !.ip = @ + 1, !.expected = 0]
      BY DEF Walk!NextCursor
<1>3a. /\ at.sp + 1 \in Nat \ {0} /\ at.index + 1 \in Nat /\ at.ip + 1 \in Nat \ {0}
       /\ 1 \in Nat \ {0} /\ 0 \in Nat /\ 0 \in Instances \cup {0}
       BY <1>1 DEF CursorType
<1> HIDE DEF at
<1>4. CASE more
  <2>1. [at EXCEPT !.sp = @ + 1, !.expected = page.id] \in CursorType
        BY <1>1, <1>2, <1>3a DEF CursorType
  <2>2. /\ [at EXCEPT !.sp = @ + 1, !.expected = page.id].expected = page.id
        /\ [at EXCEPT !.sp = @ + 1, !.expected = page.id].sp = cursor.sp + 1
        BY <1>1 DEF CursorType
  <2> QED BY <1>3, <1>4, <2>1, <2>2
<1>5. CASE ~more /\ cursor.index + 1 < page.rows
  <2>1. [at EXCEPT !.sp = 1, !.index = @ + 1, !.expected = page.following] \in CursorType
        BY <1>1, <1>2, <1>3a DEF CursorType
  <2>2. /\ [at EXCEPT !.sp = 1, !.index = @ + 1, !.expected = page.following].expected = page.following
        /\ [at EXCEPT !.sp = 1, !.index = @ + 1, !.expected = page.following].sp = 1
        BY <1>1 DEF CursorType
  <2> QED BY <1>3, <1>5, <2>1, <2>2
<1>6. CASE ~more /\ ~(cursor.index + 1 < page.rows)
  <2>1. [at EXCEPT !.sp = 1, !.index = 0, !.ip = @ + 1, !.expected = 0] \in CursorType
        BY <1>1, <1>2, <1>3a DEF CursorType
  <2>2. /\ [at EXCEPT !.sp = 1, !.index = 0, !.ip = @ + 1, !.expected = 0].expected = 0
        /\ [at EXCEPT !.sp = 1, !.index = 0, !.ip = @ + 1, !.expected = 0].sp = 1
        BY <1>1 DEF CursorType
  <2>3. /\ [at EXCEPT !.sp = 1, !.index = 0, !.ip = @ + 1, !.expected = 0].index = 0
        /\ [at EXCEPT !.sp = 1, !.index = 0, !.ip = @ + 1, !.expected = 0].ip = cursor.ip + 1
        BY <1>1 DEF CursorType
  <2> QED BY <1>3, <1>6, <2>1, <2>2, <2>3
<1> QED BY <1>4, <1>5, <1>6

(* The lists of snapshots are lists of ids.                                 *)
LEMMA ImageLists ==
    ASSUME WalkTypes, NEW i \in DOMAIN account
    PROVE  account[i] \in SUBSET Images /\ account[i] \in SUBSET Ids
<1>1. account[i] \in SUBSET Images
      BY DEF WalkTypes
<1> QED BY <1>1, Ranks

(* A page of snapshots takes what it shows, and the cursor goes on behind   *)
(* it; the walk completes only where nothing is left.                       *)
LEMMA WalkSnapshots ==
    ASSUME WalkInv, Walk!ReadSnapshots
    PROVE  WalkInv'
<1> DEFINE id == page.id
           list == account[id]
           more == Walk!Pages(list, ImageRows) > cursor.sp
           D == {<<id, s>> : s \in Walk!PageOf(list, ImageRows, cursor.sp)}
<1>1. /\ WalkTypes /\ UNCHANGED <<account, order, stayed, blind, shrunk, overtaken>> /\ status = "snapshots"
      /\ cursor \in CursorType /\ page \in PageType /\ ImageRows \in Nat \ {0}
      /\ order \in Orders
      BY MCAssumption DEF WalkInv, WalkTypes, Walk!ReadSnapshots, Walk!ConstantsOK
<1>2. \/ Walk!Ends("failed") /\ UNCHANGED staged
      \/ /\ id \in DOMAIN account /\ staged' = staged \cup D
         /\ Walk!LastOfWalk(more) /\ Walk!Ends("complete")
      \/ /\ id \in DOMAIN account /\ staged' = staged \cup D
         /\ ~Walk!LastOfWalk(more) /\ cursor' = Walk!NextCursor(more)
         /\ page' = Walk!NoPage /\ status' = "sources"
      BY DEF Walk!ReadSnapshots, Walk!Existing
<1>3. CASE Walk!Ends("failed") /\ UNCHANGED staged
      BY <1>1, <1>3, WalkEnds DEF WalkTypes
<1>4. /\ cursor.sp \in Nat \ {0} /\ cursor.ip \in Nat \ {0} /\ cursor.index \in Nat /\ page.rows \in Nat
      /\ page.next \in BOOLEAN /\ id \in Instances \cup {0} /\ more \in BOOLEAN
      BY <1>1 DEF CursorType, PageType
<1>5. ASSUME id \in DOMAIN account
      PROVE  D \in SUBSET (Instances \X Images)
  <2>1. list \in SUBSET Images /\ Walk!PageOf(list, ImageRows, cursor.sp) \in SUBSET list
        BY <1>1, <1>5, ImageLists DEF Walk!PageOf, Walk!Position
  <2>2. id \in Instances
        BY <1>1, <1>5 DEF WalkTypes
  <2> QED BY <2>1, <2>2
<1>6. ASSUME ~blind, ~shrunk, ~overtaken, id \in DOMAIN account, NEW x \in stayed \ (staged \cup D)
      PROVE  /\ x \in Left /\ x[1] \in Ids /\ id \in Ids /\ order[x[1]] \in Int /\ order[id] \in Int
             /\ order[x[1]] >= order[id] /\ (x[1] # id => order[x[1]] # order[id])
             /\ x[1] \in DOMAIN account
             /\ x[1] = id => more /\ Walk!PositionIn(order, list, x[2]) >= cursor.sp * ImageRows
             /\ x[2] \in account[x[1]]
  <2>1. /\ x \in Left /\ x \in Instances \X Images /\ x[1] \in DOMAIN account
        /\ x[2] \in account[x[1]] /\ id \in Instances
        BY <1>1, <1>6 DEF Left, WalkTypes
  <2>2. Reading
        BY <1>1, <1>6 DEF WalkInv
  <2>3. /\ order[x[1]] >= order[id]
        /\ x[1] = id => Walk!PositionIn(order, list, x[2]) >= (cursor.sp - 1) * ImageRows
        BY <2>1, <2>2 DEF Reading, AheadOf
  <2>4. ASSUME x[1] = id PROVE Walk!PositionIn(order, list, x[2]) >= cursor.sp * ImageRows /\ more
    <3>1. x = <<id, x[2]>>
          BY <2>1, <2>4
    <3>2. x[2] \notin Walk!PageOf(list, ImageRows, cursor.sp)
          BY <1>6, <3>1
    <3>3. list \in SUBSET Ids /\ x[2] \in list
          BY <1>1, <1>6, <2>1, <2>4, ImageLists
    <3> QED BY <1>1, <1>4, <2>3, <2>4, <3>2, <3>3, BeyondPage
  <2>5. /\ x[1] \in Ids /\ id \in Ids /\ order[x[1]] \in Int /\ order[id] \in Int
        /\ x[1] # id => order[x[1]] # order[id]
        BY <1>1, <2>1, Ranks
  <2> QED BY <2>1, <2>3, <2>4, <2>5
<1>7. CASE /\ id \in DOMAIN account /\ staged' = staged \cup D
           /\ Walk!LastOfWalk(more) /\ Walk!Ends("complete")
  <2>1. ~more /\ ~(cursor.index + 1 < page.rows) /\ ~page.next
        BY <1>4, <1>7 DEF Walk!LastOfWalk
  <2>2. ASSUME ~blind, ~shrunk, ~overtaken, NEW x \in stayed \ (staged \cup D) PROVE FALSE
    <3>1. /\ x \in Left /\ order[x[1]] >= order[id] /\ order[x[1]] # order[id]
          /\ order[x[1]] \in Int /\ order[id] \in Int
          BY <1>6, <1>7, <2>1, <2>2
    <3>2. Reading
          BY <1>1, <2>2 DEF WalkInv
    <3>3. order[x[1]] <= order[id]
          BY <2>1, <3>1, <3>2 DEF Reading, LastRow
    <3> QED BY <3>1, <3>3
  <2>3. staged' \in SUBSET (Instances \X Images)
        BY <1>1, <1>5, <1>7 DEF WalkTypes
  <2>4. ~blind /\ ~shrunk /\ ~overtaken => stayed \ staged' = {}
        BY <1>7, <2>2
  <2> QED BY <1>1, <1>7, <2>3, <2>4, WalkEnds
<1>8. CASE /\ id \in DOMAIN account /\ staged' = staged \cup D
           /\ ~Walk!LastOfWalk(more) /\ cursor' = Walk!NextCursor(more)
           /\ page' = Walk!NoPage /\ status' = "sources"
  <2>1. /\ cursor' \in CursorType
        /\ more => cursor'.expected = page.id /\ cursor'.sp = cursor.sp + 1
        /\ ~more /\ cursor.index + 1 < page.rows => cursor'.expected = page.following /\ cursor'.sp = 1
        /\ ~more /\ ~(cursor.index + 1 < page.rows) =>
             cursor'.expected = 0 /\ cursor'.sp = 1 /\ cursor'.index = 0 /\ cursor'.ip = cursor.ip + 1
    <3> HIDE DEF more
    <3> QED BY <1>1, <1>4, <1>8, NextCursorRow
  <2>2. page' \in PageType /\ page'.id = 0
        BY <1>8 DEF Walk!NoPage, PageType
  <2>3. staged' \in SUBSET (Instances \X Images)
        BY <1>1, <1>5, <1>8 DEF WalkTypes
  <2>4. WalkTypes'
        BY <1>1, <1>8, <2>1, <2>2, <2>3 DEF WalkTypes
  <2>5. ASSUME ~blind, ~shrunk, ~overtaken PROVE Guided'
    <3>1. Reading
          BY <1>1, <2>5 DEF WalkInv
    <3>2. Left' = stayed \ (staged \cup D)
          BY <1>1, <1>8 DEF Left
    <3>3. id # 0
          BY <3>1 DEF Reading
    <3>4. CASE more
      <4>1. cursor'.expected = id /\ cursor'.sp - 1 = cursor.sp
            BY <1>4, <2>1, <3>4
      <4>2. \A x \in Left' : /\ order[x[1]] >= order[id]
                             /\ x[1] = id => Walk!PositionIn(order, list, x[2]) >= cursor.sp * ImageRows
            BY <1>6, <1>8, <2>5, <3>2
      <4> QED BY <1>1, <3>3, <4>1, <4>2 DEF Guided, AheadOf
    <3>5. CASE ~more /\ cursor.index + 1 < page.rows
      <4> DEFINE f == page.following
      <4>1. f # 0 /\ \A x \in Left : order[x[1]] > order[id] => order[x[1]] >= order[f]
            BY <3>1, <3>5 DEF Reading
      <4>2. cursor'.expected = f /\ (cursor'.sp - 1) * ImageRows = 0
            BY <1>1, <2>1, <3>5
      <4>3. ASSUME NEW x \in Left'
            PROVE  order[x[1]] >= order[f] /\ Walk!PositionIn(order, account[x[1]], x[2]) >= 0
        <5>1. /\ x \in Left /\ order[x[1]] \in Int /\ order[id] \in Int
              /\ order[x[1]] >= order[id] /\ order[x[1]] # order[id]
              /\ x[1] \in DOMAIN account /\ x[2] \in account[x[1]]
              BY <1>6, <1>8, <2>5, <3>2, <3>5
        <5>2. account[x[1]] \in SUBSET Ids /\ x[2] \in Ids
              BY <1>1, <5>1, ImageLists
        <5>3. Walk!PositionIn(order, account[x[1]], x[2]) \in Nat
              BY <1>1, <5>2, PositionsGrow
        <5> QED BY <4>1, <5>1, <5>3
      <4> HIDE DEF f
      <4> QED BY <1>1, <4>1, <4>2, <4>3 DEF Guided, AheadOf
    <3>6. CASE ~more /\ ~(cursor.index + 1 < page.rows)
      <4>1. page.next /\ page.following = 0 /\ LastRow
            BY <1>4, <1>8, <3>1, <3>6 DEF Walk!LastOfWalk, Reading
      <4>2. cursor'.expected = 0 /\ cursor'.sp = 1 /\ cursor'.index = 0 /\ cursor'.ip - 1 = cursor.ip
            BY <1>4, <2>1, <3>6
      <4>3. ASSUME NEW x \in Left'
            PROVE  Walk!PositionIn(order, DOMAIN account, x[1]) >= cursor.ip * InstanceRows
        <5>1. /\ x \in Left /\ order[x[1]] \in Int /\ order[id] \in Int
              /\ order[x[1]] >= order[id] /\ order[x[1]] # order[id]
              BY <1>6, <1>8, <2>5, <3>2, <3>6
        <5> QED BY <4>1, <5>1 DEF LastRow
      <4> QED BY <1>1, <4>2, <4>3 DEF Guided, OnLaterPages
    <3> QED BY <1>4, <3>4, <3>5, <3>6
  <2> QED BY <1>1, <1>8, <2>2, <2>4, <2>5 DEF WalkInv
<1> QED BY <1>2, <1>3, <1>7, <1>8

(* The account changes under the walk: as long as no instance goes where    *)
(* the cursor names none, and no snapshot of the instance being read, what  *)
(* is left to return stays ahead.                                           *)
LEMMA WalkChanges ==
    ASSUME WalkInv, NEW a, Walk!Changed(a),
           DOMAIN a \in SUBSET Instances, a \in [DOMAIN a -> SUBSET Images],
           blind' \in BOOLEAN, shrunk' \in BOOLEAN, blind => blind', shrunk => shrunk',
           ~blind' /\ Walk!Unguided => DOMAIN account \in SUBSET DOMAIN a,
           ~shrunk' => \A i \in DOMAIN account \cap DOMAIN a :
                         i \in {page.id, cursor.expected} => account[i] \in SUBSET a[i]
    PROVE  WalkInv'
<1>1. /\ WalkTypes /\ account' = a /\ UNCHANGED <<order, overtaken, cursor, page, status, staged>>
      /\ stayed' = stayed \cap UNION {{<<i, s>> : s \in a[i]} : i \in DOMAIN a}
      /\ status \in {"sources", "snapshots"}
      BY DEF WalkInv, Walk!Changed, Walk!All, Walk!Walking
<1>2. ASSUME NEW x \in stayed'
      PROVE  /\ x \in stayed /\ x[1] \in DOMAIN a /\ x[2] \in a[x[1]]
             /\ x[1] \in DOMAIN account /\ x[2] \in account[x[1]]
  <2>1. PICK i \in DOMAIN a : x \in {<<i, s>> : s \in a[i]}
        BY <1>1
  <2>2. x[1] = i /\ x[2] \in a[i]
        BY <2>1
  <2> QED BY <1>1, <2>2 DEF WalkTypes
<1>3. WalkTypes'
      BY <1>1, <1>2 DEF WalkTypes
<1>4. Left' \in SUBSET Left
      BY <1>1, <1>2 DEF Left
<1>5. ASSUME NEW x \in Left'
      PROVE  /\ x \in Left /\ x[1] \in Ids /\ x[1] \in DOMAIN a /\ x[1] \in DOMAIN account
             /\ x[2] \in a[x[1]] /\ x[2] \in account[x[1]]
      BY <1>2, <1>3, <1>4, <1>1, Ranks DEF Left
<1>6. DOMAIN a \in SUBSET Ids /\ DOMAIN account \in SUBSET Ids /\ order \in Orders
      BY <1>1, Ranks DEF WalkTypes
<1>7. \A i \in DOMAIN a : a[i] \in SUBSET Ids
      BY Ranks
<1>8. /\ cursor.sp \in Nat \ {0} /\ cursor.ip \in Nat \ {0} /\ ImageRows \in Nat \ {0}
      /\ InstanceRows \in Nat \ {0}
      BY <1>1, MCAssumption DEF WalkTypes, CursorType, Walk!ConstantsOK
<1>9. ASSUME ~blind', Walk!Unguided, NEW n \in Nat, NEW x \in Left',
             Walk!PositionIn(order, DOMAIN account, x[1]) >= n * InstanceRows
      PROVE  Walk!PositionIn(order, DOMAIN a, x[1]) >= n * InstanceRows
  <2>1. Walk!PositionIn(order, DOMAIN account, x[1]) <= Walk!PositionIn(order, DOMAIN a, x[1])
        BY <1>5, <1>6, <1>9, PositionsInLonger
  <2>2. x[1] \in Ids
        BY <1>5
  <2>3. /\ Walk!PositionIn(order, DOMAIN account, x[1]) \in Nat
        /\ Walk!PositionIn(order, DOMAIN a, x[1]) \in Nat
        BY <1>6, <2>2, PositionsGrow
  <2>4. n * InstanceRows \in Int
        BY <1>8
  <2> QED BY <1>9, <2>1, <2>3, <2>4
<1>10. ASSUME ~shrunk', NEW e \in {page.id, cursor.expected}, AheadOf(e), NEW x \in Left'
       PROVE  /\ order[x[1]] >= order[e]
              /\ x[1] = e => Walk!PositionIn(order, a[e], x[2]) >= (cursor.sp - 1) * ImageRows
  <2>1. /\ order[x[1]] >= order[e]
        /\ x[1] = e => Walk!PositionIn(order, account[e], x[2]) >= (cursor.sp - 1) * ImageRows
        BY <1>5, <1>10 DEF AheadOf
  <2>2. ASSUME x[1] = e PROVE Walk!PositionIn(order, a[e], x[2]) >= (cursor.sp - 1) * ImageRows
    <3>1. e \in DOMAIN account /\ e \in DOMAIN a /\ x[2] \in a[e]
          BY <1>5, <2>2
    <3>2. account[e] \in SUBSET a[e] /\ a[e] \in SUBSET Ids
          BY <1>7, <1>10, <3>1
    <3>3. x[2] \in Ids /\ account[e] \in SUBSET Ids
          BY <3>1, <3>2
    <3>4. Walk!PositionIn(order, account[e], x[2]) <= Walk!PositionIn(order, a[e], x[2])
          BY <1>6, <3>2, <3>3, PositionsInLonger
    <3>5. /\ Walk!PositionIn(order, account[e], x[2]) \in Nat
          /\ Walk!PositionIn(order, a[e], x[2]) \in Nat
          BY <1>6, <3>2, <3>3, PositionsGrow
    <3>6. (cursor.sp - 1) * ImageRows \in Int
          BY <1>8
    <3> QED BY <2>1, <2>2, <3>4, <3>5, <3>6
  <2> QED BY <2>1, <2>2
<1>11. ASSUME ~blind', ~shrunk', ~overtaken', status = "sources" PROVE Guided'
  <2>1. Guided
        BY <1>1, <1>11 DEF WalkInv
  <2>2. CASE cursor.expected # 0
    <3>1. AheadOf(cursor.expected)
          BY <2>1, <2>2 DEF Guided
    <3> QED BY <1>1, <1>10, <1>11, <2>2, <3>1 DEF Guided, AheadOf
  <2>3. CASE cursor.expected = 0 /\ cursor.ip = 1
    <3>1. (cursor.ip - 1) * InstanceRows = 0
          BY <1>8, <2>3
    <3>2. \A x \in Left' : Walk!PositionIn(order, DOMAIN a, x[1]) \in Nat
          BY <1>5, <1>6, PositionsGrow
    <3>3. OnLaterPages(cursor.ip - 1)'
          BY <1>1, <3>1, <3>2 DEF OnLaterPages
    <3> QED BY <1>1, <2>1, <2>3, <3>3 DEF Guided
  <2>4. CASE cursor.expected = 0 /\ cursor.ip # 1
    <3>1. Walk!Unguided
          BY <1>8, <1>11, <2>4 DEF Walk!Unguided
    <3>2. cursor.ip - 1 \in Nat /\ OnLaterPages(cursor.ip - 1)
          BY <1>8, <2>1, <2>4 DEF Guided
    <3>3. \A x \in Left' : Walk!PositionIn(order, DOMAIN a, x[1]) >= (cursor.ip - 1) * InstanceRows
          BY <1>5, <1>9, <1>11, <3>1, <3>2 DEF OnLaterPages
    <3>4. OnLaterPages(cursor.ip - 1)'
          BY <1>1, <3>3 DEF OnLaterPages
    <3> QED BY <1>1, <2>1, <2>4, <3>4 DEF Guided
  <2> QED BY <2>2, <2>3, <2>4
<1>12. ASSUME ~blind', ~shrunk', ~overtaken', status = "snapshots" PROVE Reading'
  <2>1. Reading
        BY <1>1, <1>12 DEF WalkInv
  <2>2. AheadOf(page.id)'
    <3>1. AheadOf(page.id)
          BY <2>1 DEF Reading
    <3> QED BY <1>1, <1>10, <1>12, <3>1 DEF AheadOf
  <2>3. ASSUME page.following = 0 PROVE LastRow'
    <3>1. Walk!Unguided /\ LastRow /\ cursor.ip \in Nat
          BY <1>8, <1>12, <2>1, <2>3 DEF Walk!Unguided, Reading
    <3>2. ASSUME page.next, NEW x \in Left', order[x[1]] > order[page.id]
          PROVE  Walk!PositionIn(order, DOMAIN a, x[1]) >= cursor.ip * InstanceRows
          BY <1>5, <1>9, <1>12, <3>1, <3>2 DEF LastRow
    <3>3. ~page.next => \A x \in Left' : order[x[1]] <= order[page.id]
          BY <1>5, <3>1 DEF LastRow
    <3> QED BY <1>1, <3>2, <3>3 DEF LastRow
  <2>4. page.following # 0 =>
          \A x \in Left' : order[x[1]] > order[page.id] => order[x[1]] >= order[page.following]
        BY <1>5, <2>1 DEF Reading
  <2> QED BY <1>1, <2>1, <2>2, <2>3, <2>4 DEF Reading
<1> QED BY <1>1, <1>3, <1>11, <1>12 DEF WalkInv

(* Every change at the provider is one of these.                            *)
LEMMA WalkAccount ==
    ASSUME WalkInv, NEW i \in Instances,
           \/ Walk!Remove(i) \/ Walk!Create(i)
           \/ \E s \in Images : Walk!DeleteImage(i, s) \/ Walk!TakeImage(i, s)
    PROVE  WalkInv'
<1>1. /\ WalkTypes /\ DOMAIN account \in SUBSET Instances
      /\ account \in [DOMAIN account -> SUBSET Images] /\ blind \in BOOLEAN /\ shrunk \in BOOLEAN
      BY DEF WalkInv, WalkTypes
<1>2. CASE Walk!Remove(i)
  <2> DEFINE a == [j \in DOMAIN account \ {i} |-> account[j]]
  <2>1. /\ Walk!Changed(a) /\ blind' = (blind \/ Walk!Unguided) /\ shrunk' = shrunk
        BY <1>2 DEF Walk!Remove, Walk!Existing
  <2>2. DOMAIN a \in SUBSET Instances /\ a \in [DOMAIN a -> SUBSET Images]
        BY <1>1
  <2>3. \A j \in DOMAIN a : a[j] = account[j]
        OBVIOUS
  <2>4. blind' \in BOOLEAN
        BY <2>1 DEF Walk!Unguided
  <2> HIDE DEF a
  <2> QED BY <1>1, <2>1, <2>2, <2>3, <2>4, WalkChanges
<1>3. CASE Walk!Create(i)
  <2> DEFINE a == [j \in DOMAIN account \cup {i} |-> IF j = i THEN {} ELSE account[j]]
  <2>1. /\ Walk!Changed(a) /\ blind' = blind /\ shrunk' = shrunk /\ i \notin DOMAIN account
        BY <1>3 DEF Walk!Create, Walk!Existing
  <2>2. DOMAIN a \in SUBSET Instances /\ a \in [DOMAIN a -> SUBSET Images]
        BY <1>1
  <2>3. DOMAIN account \in SUBSET DOMAIN a /\ \A j \in DOMAIN account : a[j] = account[j]
        BY <2>1
  <2> HIDE DEF a
  <2> QED BY <1>1, <2>1, <2>2, <2>3, WalkChanges
<1>4. ASSUME NEW s \in Images, Walk!DeleteImage(i, s)
      PROVE  WalkInv'
  <2> DEFINE a == [account EXCEPT ![i] = @ \ {s}]
  <2>1. /\ Walk!Changed(a) /\ blind' = blind /\ i \in DOMAIN account
        /\ shrunk' = (shrunk \/ i \in {page.id, cursor.expected})
        BY <1>4 DEF Walk!DeleteImage, Walk!Existing
  <2>2. DOMAIN a = DOMAIN account /\ a \in [DOMAIN a -> SUBSET Images]
        BY <1>1, <2>1
  <2>3. \A j \in DOMAIN account : j # i => a[j] = account[j]
        BY <1>1
  <2>4. ~shrunk' => \A j \in DOMAIN account \cap DOMAIN a :
                      j \in {page.id, cursor.expected} => account[j] \in SUBSET a[j]
    <3> HIDE DEF a
    <3> QED BY <2>1, <2>3
  <2> HIDE DEF a
  <2> QED BY <1>1, <2>1, <2>2, <2>4, WalkChanges
<1>5. ASSUME NEW s \in Images, Walk!TakeImage(i, s)
      PROVE  WalkInv'
  <2> DEFINE a == [account EXCEPT ![i] = @ \cup {s}]
  <2>1. /\ Walk!Changed(a) /\ blind' = blind /\ i \in DOMAIN account /\ shrunk' = shrunk
        BY <1>5 DEF Walk!TakeImage, Walk!Existing
  <2>2. DOMAIN a = DOMAIN account /\ a \in [DOMAIN a -> SUBSET Images]
        BY <1>1, <2>1
  <2>3. \A j \in DOMAIN account : account[j] \in SUBSET a[j]
        BY <1>1
  <2> HIDE DEF a
  <2> QED BY <1>1, <2>1, <2>2, <2>3, WalkChanges
<1> QED BY <1>2, <1>3, <1>4, <1>5

(* Another order that lists nothing behind the cursor that was ahead of it  *)
(* leaves ahead what is left to return.                                     *)
LEMMA WalkReorders ==
    ASSUME WalkInv, NEW o \in Orders, Walk!Reorder(o)
    PROVE  WalkInv'
<1>1. /\ WalkTypes /\ order' = o /\ status \in {"sources", "snapshots"}
      /\ UNCHANGED <<account, cursor, page, status, staged, stayed, blind, shrunk>>
      /\ overtaken' = (overtaken \/ Walk!Overtakes(o))
      BY DEF WalkInv, Walk!Reorder, Walk!Walking
<1>2. WalkTypes' /\ Left' = Left
  <2>1. overtaken' \in BOOLEAN
        BY <1>1
  <2> QED BY <1>1, <2>1 DEF WalkTypes, Left
<1>3. ASSUME ~blind', ~shrunk', ~overtaken'
      PROVE  /\ status = "sources" => Guided'
             /\ status = "snapshots" => Reading'
  <2>1. /\ status = "sources" => Guided
        /\ status = "snapshots" => Reading
        /\ ~Walk!Overtakes(o)
        BY <1>1, <1>3 DEF WalkInv
  <2>2. /\ order \in [Ids -> Int] /\ o \in [Ids -> Int]
        /\ \A x, y \in Ids : x # y => order[x] # order[y] /\ o[x] # o[y]
        BY <1>1, Ranks DEF WalkTypes
  <2>3. ASSUME NEW x \in Left
        PROVE  /\ x[1] \in DOMAIN account /\ x[2] \in account[x[1]] /\ x[1] \in Ids
               /\ order[x[1]] \in Int /\ o[x[1]] \in Int
        BY <1>1, <2>2, Ranks DEF WalkTypes, Left
  <2>4. /\ page.id \in Instances \cup {0} /\ page.following \in Instances \cup {0}
        /\ cursor.expected \in Instances \cup {0}
        BY <1>1 DEF WalkTypes, PageType, CursorType
  <2>5. ASSUME NEW e \in {page.id, page.following, cursor.expected}, e # 0, NEW x \in Left,
               order[x[1]] >= order[e]
        PROVE  o[x[1]] >= o[e]
    <3>1. e \in Ids /\ order[e] \in Int /\ o[e] \in Int
          BY <2>2, <2>4, <2>5, Ranks
    <3>2. Walk!ListedAfter(order, e) \in SUBSET Walk!ListedAfter(o, e)
          BY <2>1, <2>5 DEF Walk!Overtakes
    <3>3. order[x[1]] > order[e] => o[x[1]] > o[e]
          BY <2>3, <3>2 DEF Walk!ListedAfter, Walk!Existing
    <3>4. x[1] = e \/ order[x[1]] > order[e]
          BY <2>2, <2>3, <2>5, <3>1
    <3> QED BY <2>3, <3>1, <3>3, <3>4
  <2>6. ASSUME NEW e \in {page.id, cursor.expected}, e # 0, AheadOf(e), NEW x \in Left
        PROVE  /\ o[x[1]] >= o[e]
               /\ x[1] = e => Walk!PositionIn(o, account[e], x[2]) >= (cursor.sp - 1) * ImageRows
    <3>1. o[x[1]] >= o[e]
          BY <2>5, <2>6 DEF AheadOf
    <3>2. ASSUME x[1] = e
          PROVE  Walk!PositionIn(o, account[e], x[2]) >= (cursor.sp - 1) * ImageRows
      <4>1. e \in DOMAIN account /\ x[2] \in account[e]
            BY <2>3, <3>2
      <4>2. Walk!OnPagesAfter(order, account[e], ImageRows, cursor.sp - 1)
              \in SUBSET Walk!OnPagesAfter(o, account[e], ImageRows, cursor.sp - 1)
            BY <2>1, <2>6, <4>1 DEF Walk!Overtakes, Walk!Existing
      <4>3. Walk!PositionIn(order, account[e], x[2]) >= (cursor.sp - 1) * ImageRows
            BY <2>6, <3>2 DEF AheadOf
      <4> QED BY <4>1, <4>2, <4>3 DEF Walk!OnPagesAfter
    <3> QED BY <3>1, <3>2
  <2>7. ASSUME Walk!Unguided, NEW x \in Left,
               Walk!PositionIn(order, DOMAIN account, x[1]) >= Walk!PagesPassed * InstanceRows
        PROVE  Walk!PositionIn(o, DOMAIN account, x[1]) >= Walk!PagesPassed * InstanceRows
    <3>1. Walk!OnPagesAfter(order, DOMAIN account, InstanceRows, Walk!PagesPassed)
            \in SUBSET Walk!OnPagesAfter(o, DOMAIN account, InstanceRows, Walk!PagesPassed)
          BY <2>1, <2>7 DEF Walk!Overtakes, Walk!Existing
    <3> QED BY <2>3, <2>7, <3>1 DEF Walk!OnPagesAfter
  <2>8. ASSUME status = "sources" PROVE Guided'
    <3>1. CASE cursor.expected # 0
      <4>1. AheadOf(cursor.expected)
            BY <2>1, <2>8, <3>1 DEF Guided
      <4> QED BY <1>1, <1>2, <2>6, <3>1, <4>1 DEF Guided, AheadOf
    <3>2. CASE cursor.expected = 0 /\ cursor.ip = 1
      <4>1. (cursor.ip - 1) * InstanceRows = 0
            BY <3>2, MCAssumption DEF Walk!ConstantsOK
      <4>2. \A x \in Left : Walk!PositionIn(o, DOMAIN account, x[1]) \in Nat
        <5>1. DOMAIN account \in SUBSET Ids
              BY <1>1, Ranks DEF WalkTypes
        <5> QED BY <2>3, <5>1, PositionsGrow
      <4> QED BY <1>1, <1>2, <2>1, <2>8, <3>2, <4>1, <4>2 DEF Guided, OnLaterPages
    <3>3. CASE cursor.expected = 0 /\ cursor.ip # 1
      <4>1. Walk!Unguided /\ Walk!PagesPassed = cursor.ip - 1
            BY <1>1, <2>8, <3>3 DEF Walk!Unguided, Walk!PagesPassed, WalkTypes, CursorType
      <4>2. \A x \in Left : Walk!PositionIn(o, DOMAIN account, x[1]) >= (cursor.ip - 1) * InstanceRows
            BY <2>1, <2>7, <2>8, <3>3, <4>1 DEF Guided, OnLaterPages
      <4> QED BY <1>1, <1>2, <2>1, <2>8, <3>3, <4>2 DEF Guided, OnLaterPages
    <3> QED BY <3>1, <3>2, <3>3
  <2>9. ASSUME status = "snapshots" PROVE Reading'
    <3>1. Reading /\ page.id # 0 /\ AheadOf(page.id)
          BY <2>1, <2>9 DEF Reading
    <3>2. AheadOf(page.id)'
          BY <1>1, <1>2, <2>6, <3>1 DEF AheadOf
    <3>3. ASSUME NEW x \in Left, o[x[1]] > o[page.id] PROVE order[x[1]] > order[page.id]
      <4>1. page.id \in Ids /\ order[page.id] \in Int /\ o[page.id] \in Int
            BY <2>2, <2>4, <3>1, Ranks
      <4>2. order[x[1]] >= order[page.id] /\ x[1] # page.id
            BY <2>3, <3>1, <3>3, <4>1 DEF AheadOf
      <4> QED BY <2>2, <2>3, <4>1, <4>2
    <3>4. ASSUME page.following = 0 PROVE LastRow'
      <4>1. Walk!Unguided /\ Walk!PagesPassed = cursor.ip /\ LastRow
            BY <2>9, <3>1, <3>4 DEF Walk!Unguided, Walk!PagesPassed, Reading
      <4>2. ASSUME page.next, NEW x \in Left, o[x[1]] > o[page.id]
            PROVE  Walk!PositionIn(o, DOMAIN account, x[1]) >= cursor.ip * InstanceRows
            BY <2>7, <3>3, <4>1, <4>2 DEF LastRow
      <4>3. ASSUME ~page.next, NEW x \in Left PROVE o[x[1]] <= o[page.id]
        <5>1. order[x[1]] <= order[page.id] /\ page.id \in Ids /\ o[page.id] \in Int
              /\ order[page.id] \in Int
              BY <2>2, <2>4, <3>1, <4>1, <4>3, Ranks DEF LastRow
        <5> QED BY <2>3, <3>3, <5>1
      <4> QED BY <1>1, <1>2, <4>2, <4>3 DEF LastRow
    <3>5. ASSUME page.following # 0, NEW x \in Left, o[x[1]] > o[page.id]
          PROVE  o[x[1]] >= o[page.following]
      <4>1. order[x[1]] >= order[page.following]
            BY <3>1, <3>3, <3>5 DEF Reading
      <4> QED BY <2>5, <3>5, <4>1
    <3> QED BY <1>1, <1>2, <3>1, <3>2, <3>4, <3>5 DEF Reading
  <2> QED BY <2>8, <2>9
<1> QED BY <1>1, <1>2, <1>3 DEF WalkInv

(* The invariant of the nested walk, in the behaviours that run it.         *)
THEOREM WalkInvariant == MCSpec => [](part = "walk" => WalkInv)
<1> DEFINE I == part = "walk" => WalkInv
<1>1. MCInit => I
      BY WalkInit DEF MCInit
<1>2. I /\ [MCNext]_all => I'
  <2> SUFFICES ASSUME I, [MCNext]_all, part' = "walk" PROVE WalkInv'
      OBVIOUS
  <2>1. CASE part = "walk" /\ Walk!Next
        BY <2>1, WalkSources, WalkSnapshots, WalkAccount, WalkReorders DEF Walk!Next
  <2>2. CASE UNCHANGED <<part, walk>>
        BY <2>2 DEF walk, WalkInv, WalkTypes, Guided, Reading, Left, LastRow, AheadOf, OnLaterPages
  <2> QED BY <2>1, <2>2 DEF MCNext, BudgetStep, all
<1> QED BY <1>1, <1>2, PTL DEF MCSpec

(* A completed walk returned every snapshot that existed throughout, unless *)
(* an instance went where the cursor names none, a snapshot went from the   *)
(* instance being read, or a reordering listed behind the cursor what was   *)
(* ahead of it: in whatever orders the provider lists.                      *)
THEOREM WalksAreExact == MCSpec => []WalkIsExact
<1>1. (part = "walk" => WalkInv) => WalkIsExact
      BY DEF WalkInv, Left, WalkIsExact, Walk!WalkIsExact
<1> QED BY <1>1, WalkInvariant, PTL
=============================================================================
