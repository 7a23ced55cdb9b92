----------------------------- MODULE Admission -----------------------------
(***************************************************************************)
(* How an action on a provider resource is admitted: a review of what it   *)
(* would do, and the confirmation that turns the review into an operation  *)
(* (backend/internal/operation: review.go, accept.go, idempotency.go,      *)
(* reservation.go), while the grants, the membership and the connection    *)
(* they rest on change (workspace/grants.go, connection).                  *)
(*                                                                         *)
(* Prepare and Confirm both read the provider between two transactions.    *)
(* Every transaction locks the workspace row for update, so that each is   *)
(* one step here; the reads between them are steps of their own.           *)
(***************************************************************************)
EXTENDS Roles, Integers, FiniteSets

CONSTANTS
    Users,
    Targets,        \* provider resources of one connection
    ActionOf,       \* the action asked for on a target: "power" or "snapshot"
    Facts,          \* what a provider says of a target
    AllowedFacts,   \* facts in which the action is possible
    HighFacts,      \* facts in which the action is of high impact
    Reviews,        \* review ids, numbered as they are handed out
    Operations,     \* operation ids, numbered likewise
    Keys,           \* idempotency keys
    Requests,       \* HTTP requests being served at the same time
    None,
    QueueLimit,     \* workspaces.queue_limit
    ReviewLimit,    \* open reviews of a workspace
    MaxPolicy,      \* bound: the workspace's policy version
    MaxVersion      \* bound: the connection's credential version

(* What the constants are.                                                  *)
ConstantsOK ==
    /\ ActionOf \in [Targets -> {"power", "snapshot"}]
    /\ AllowedFacts \subseteq Facts /\ HighFacts \subseteq Facts
    /\ Reviews \subseteq Nat /\ IsFiniteSet(Reviews)
    /\ Operations \subseteq Nat /\ IsFiniteSet(Operations)
    /\ None \notin Users \cup Targets \cup Facts \cup Reviews \cup Operations \cup Keys
    /\ QueueLimit \in Nat /\ ReviewLimit \in Nat /\ MaxPolicy \in Nat /\ MaxVersion \in Nat

VARIABLES
    role,           \* memberships.role
    grants,         \* connection_grants.actions
    policy,         \* workspaces.policy_version
    connection,     \* the connection's status, credential version and capabilities
    listed,         \* the targets of the published inventory
    facts,          \* what the provider says of each target
    recent,         \* users who have authenticated recently
    review,         \* action_reviews
    operation,      \* operations, with their jobs and resource_locks
    call            \* the requests being served

vars == <<role, grants, policy, connection, listed, facts, recent, review, operation, call>>

Connection == [status: {"active", "disabled"}, version: Nat, verified: BOOLEAN]

(* `touched' is history: a grant, a membership or the connection changed    *)
(* after the preparation's first transaction.                               *)
Review == [state: {"unborn", "open", "expired", "consumed", "gone"}, actor: Users \cup {None},
           target: Targets \cup {None}, facts: Facts \cup {None}, version: Nat, policy: Nat,
           touched: BOOLEAN]
NoReview == [state |-> "unborn", actor |-> None, target |-> None, facts |-> None, version |-> 0,
             policy |-> 0, touched |-> FALSE]

(* A live operation has a pending job and the lock of its target; one that  *)
(* is held or whose outcome is unknown has lost its job and keeps the lock. *)
Operation == [state: {"unborn", "live", "held", "unknown", "over"}, actor: Users \cup {None},
              key: Keys \cup {None}, review: Reviews \cup {None}, target: Targets \cup {None}]
NoOperation == [state |-> "unborn", actor |-> None, key |-> None, review |-> None, target |-> None]

Call == [pc: {"idle", "preparing", "inspected", "confirming", "fresh", "answered"},
         actor: Users \cup {None}, target: Targets \cup {None}, facts: Facts \cup {None},
         version: Nat, policy: Nat, touched: BOOLEAN, review: Reviews \cup {None},
         key: Keys \cup {None}, answer: Operations \cup {None}]
Idle == [pc |-> "idle", actor |-> None, target |-> None, facts |-> None, version |-> 0,
         policy |-> 0, touched |-> FALSE, review |-> None, key |-> None, answer |-> None]

Init ==
    /\ role \in [Users -> {"operator", "owner"}]
    /\ grants \in [Users -> SUBSET Classes]
    /\ \A u \in Users : grants[u] # {} => "read" \in grants[u]
    /\ policy = 1
    /\ connection = [status |-> "active", version |-> 1, verified |-> TRUE]
    /\ listed = Targets
    /\ facts \in [Targets -> Facts]
    /\ recent = Users
    /\ review = [v \in Reviews |-> NoReview]
    /\ operation = [o \in Operations |-> NoOperation]
    /\ call = [r \in Requests |-> Idle]

-----------------------------------------------------------------------------
(* Authority *)

(* authority: the member may read the connection, which is in use, and the  *)
(* published inventory shows the target.                                    *)
Authority(u, t) ==
    /\ role[u] # "none" /\ "read" \in grants[u]
    /\ connection.status = "active"
    /\ t \in listed

High(f) == f \in HighFacts

Authorized(u, t, high) ==
    LET class == IF high \/ ActionOf[t] = "snapshot" THEN "high_impact" ELSE "operate"
    IN  /\ WithinCeiling(role[u], class)
        /\ class \in grants[u]
        /\ connection.verified

(* inspect: the provider allows the action, and calls every snapshot action *)
(* one of high impact.                                                      *)
Inspectable(t) ==
    /\ facts[t] \in AllowedFacts
    /\ ActionOf[t] = "snapshot" => High(facts[t])

RequireRecent(u, f) == High(f) => u \in recent

-----------------------------------------------------------------------------
(* Prepare *)

Prepare(r) ==
    /\ call[r].pc = "idle"
    /\ \E u \in Users, t \in Targets :
         /\ Authority(u, t)
         /\ Authorized(u, t, FALSE) \/ Authorized(u, t, TRUE)
         /\ call' = [call EXCEPT ![r] =
                       [Idle EXCEPT !.pc = "preparing", !.actor = u, !.target = t,
                                    !.version = connection.version, !.policy = policy]]
    /\ UNCHANGED <<role, grants, policy, connection, listed, facts, recent, review, operation>>

Inspect(r) ==
    LET q == call[r]
    IN  /\ q.pc = "preparing"
        /\ Inspectable(q.target)
        /\ RequireRecent(q.actor, facts[q.target])
        /\ call' = [call EXCEPT ![r].pc = "inspected", ![r].facts = facts[q.target]]
        /\ UNCHANGED <<role, grants, policy, connection, listed, facts, recent, review, operation>>

(* The second transaction finds what the first one found.                   *)
StillPrepared(q) ==
    /\ connection.version = q.version
    /\ policy = q.policy
    /\ Authorized(q.actor, q.target, High(q.facts))

Reviewed(r) ==
    LET q == call[r]
    IN  /\ q.pc = "inspected"
        /\ Authority(q.actor, q.target)
        /\ StillPrepared(q)
        /\ Cardinality({v \in Reviews : review[v].state = "open"}) < ReviewLimit
        /\ \E v \in Reviews :
             /\ review[v].state = "unborn"
             /\ \A w \in Reviews : w < v => review[w].state # "unborn"
             /\ review' = [review EXCEPT ![v] =
                             [state |-> "open", actor |-> q.actor, target |-> q.target,
                              facts |-> q.facts, version |-> q.version, policy |-> q.policy,
                              touched |-> q.touched]]
        /\ call' = [call EXCEPT ![r] = Idle]
        /\ UNCHANGED <<role, grants, policy, connection, listed, facts, recent, operation>>

(* A review is good for five minutes, and is deleted a week after that.     *)
Expire(v) ==
    /\ review[v].state = "open"
    /\ review' = [review EXCEPT ![v].state = "expired"]
    /\ UNCHANGED <<role, grants, policy, connection, listed, facts, recent, operation, call>>

PruneReviews(v) ==
    /\ review[v].state = "expired"
    /\ \A o \in Operations : operation[o].review # v
    /\ review' = [review EXCEPT ![v].state = "gone"]
    /\ UNCHANGED <<role, grants, policy, connection, listed, facts, recent, operation, call>>

-----------------------------------------------------------------------------
(* Confirm *)

(* Resolve: the operation this key stands for, for who may still read it.   *)
Resolved(u, k) ==
    {o \in Operations : /\ operation[o].actor = u /\ operation[o].key = k
                        /\ role[u] # "none" /\ "read" \in grants[u]}

(* A key that stands for another intent is a conflict.                      *)
AnswersAny(o, v) == TRUE
Answers(o, v) == operation[o].review = v

Answer(r, u, k, v) ==
    \E o \in Resolved(u, k) :
      /\ Answers(o, v)
      /\ call' = [call EXCEPT ![r] = [Idle EXCEPT !.pc = "answered", !.actor = u, !.key = k,
                                                  !.review = v, !.answer = o]]
      /\ UNCHANGED <<role, grants, policy, connection, listed, facts, recent, review, operation>>

CheckWithoutPolicy(u, v) ==
    /\ review[v].state = "open"
    /\ review[v].version = connection.version
    /\ Authorized(u, review[v].target, High(review[v].facts))
    /\ RequireRecent(u, review[v].facts)

Check(u, v) ==
    /\ review[v].state = "open"
    /\ review[v].version = connection.version
    /\ review[v].policy = policy
    /\ Authorized(u, review[v].target, High(review[v].facts))
    /\ RequireRecent(u, review[v].facts)

Stored(u, v) == review[v].state \in {"open", "expired", "consumed"} /\ review[v].actor = u

Confirm(r) ==
    /\ call[r].pc = "idle"
    /\ \E u \in Users, v \in Reviews, k \in Keys :
         /\ Stored(u, v)
         /\ \/ Answer(r, u, k, v)
            \/ /\ Resolved(u, k) = {}
               /\ Authority(u, review[v].target)
               /\ Check(u, v)
               /\ call' = [call EXCEPT ![r] = [Idle EXCEPT !.pc = "confirming", !.actor = u,
                                                           !.review = v, !.key = k]]
               /\ UNCHANGED <<role, grants, policy, connection, listed, facts, recent, review,
                              operation>>

(* Fresh facts are the ones reviewed.                                       *)
InspectAgain(r) ==
    LET q == call[r]
        t == review[q.review].target
    IN  /\ q.pc = "confirming"
        /\ Inspectable(t)
        /\ facts[t] = review[q.review].facts
        /\ call' = [call EXCEPT ![r].pc = "fresh"]
        /\ UNCHANGED <<role, grants, policy, connection, listed, facts, recent, review, operation>>

Live == {o \in Operations : operation[o].state = "live"}

(* resource_locks holds one row per target, until the operation is terminal *)
ReserveAnyway(t) == TRUE
Reserve(t) ==
    \A o \in Operations : operation[o].target = t => operation[o].state = "over"

(* The unique constraints of the operations table.                          *)
Unique(u, k, v) ==
    \A o \in Operations : ~(operation[o].actor = u /\ operation[o].key = k) /\ operation[o].review # v

Accept(r) ==
    LET q == call[r]
        v == q.review
        t == review[v].target
    IN  /\ q.pc = "fresh"
        /\ \/ Answer(r, q.actor, q.key, v)
           \/ /\ Resolved(q.actor, q.key) = {}
              /\ Stored(q.actor, v)
              /\ Authority(q.actor, t)
              /\ Check(q.actor, v)
              /\ Cardinality(Live) < QueueLimit
              /\ Unique(q.actor, q.key, v)
              /\ Reserve(t)
              /\ \E o \in Operations :
                   /\ operation[o].state = "unborn"
                   /\ \A p \in Operations : p < o => operation[p].state # "unborn"
                   /\ operation' = [operation EXCEPT ![o] =
                                      [state |-> "live", actor |-> q.actor, key |-> q.key,
                                       review |-> v, target |-> t]]
                   /\ call' = [call EXCEPT ![r].pc = "answered", ![r].answer = o]
              /\ review' = [review EXCEPT ![v].state = "consumed"]
              /\ UNCHANGED <<role, grants, policy, connection, listed, facts, recent>>

(* The answer is sent, or the request is refused, conflicts or fails.       *)
End(r) ==
    /\ call[r].pc # "idle"
    /\ call' = [call EXCEPT ![r] = Idle]
    /\ UNCHANGED <<role, grants, policy, connection, listed, facts, recent, review, operation>>

-----------------------------------------------------------------------------
(* What admission rests on *)

Touch ==
    /\ review' = [v \in Reviews |-> [review[v] EXCEPT !.touched = @ \/ review[v].state = "open"]]
    /\ call' = [r \in Requests |-> [call[r] EXCEPT
                  !.touched = @ \/ call[r].pc \in {"preparing", "inspected"}]]

(* An admin hands on only what the admin holds.                             *)
SetGrant(a, u) ==
    /\ policy < MaxPolicy
    /\ Allows(role[a], "admin")
    /\ CanAssign(role[a], role[u])
    /\ \E set \in SUBSET Classes :
         /\ set # {} => "read" \in set
         /\ \A class \in set : WithinCeiling(role[u], class)
         /\ role[a] = "admin" => set \subseteq grants[a]
         /\ grants' = [grants EXCEPT ![u] = set]
    /\ policy' = policy + 1
    /\ Touch
    /\ UNCHANGED <<role, connection, listed, facts, recent, operation>>

(* ChangeMember, in full in Access.  Removal deletes the grants.            *)
ChangeMember(u) ==
    /\ policy < MaxPolicy
    /\ \E new \in (Roles \cup {"none"}) \ {role[u]} :
         /\ role' = [role EXCEPT ![u] = new]
         /\ grants' = [grants EXCEPT ![u] = IF new = "none" THEN {} ELSE @]
    /\ policy' = policy + 1
    /\ Touch
    /\ UNCHANGED <<connection, listed, facts, recent, operation>>

(* Rotate, in full in Credentials.  Validation qualifies reading and no     *)
(* action.                                                                  *)
Rotate ==
    /\ connection.version < MaxVersion
    /\ connection' = [connection EXCEPT !.version = @ + 1, !.verified = FALSE]
    /\ Touch
    /\ UNCHANGED <<role, grants, policy, listed, facts, recent, operation>>

(* Disable cancels the jobs that are queued and leaves their operations.    *)
Disable ==
    /\ connection.status = "active"
    /\ connection' = [connection EXCEPT !.status = "disabled"]
    /\ \E queued \in SUBSET Live :
         operation' = [o \in Operations |->
                         IF o \in queued THEN [operation[o] EXCEPT !.state = "held"] ELSE operation[o]]
    /\ Touch
    /\ UNCHANGED <<role, grants, policy, listed, facts, recent>>

(* Dispatch, a control or Expire ends the operation and releases the target *)
(* or leaves the outcome unknown; Recheck queues the job of such a one      *)
(* again, whatever the quota.                                               *)
Settle(o) ==
    /\ operation[o].state \in {"live", "held", "unknown"}
    /\ operation' = [operation EXCEPT ![o].state = "over"]
    /\ UNCHANGED <<role, grants, policy, connection, listed, facts, recent, review, call>>

Hold(o) ==
    /\ operation[o].state = "live"
    /\ operation' = [operation EXCEPT ![o].state = "unknown"]
    /\ UNCHANGED <<role, grants, policy, connection, listed, facts, recent, review, call>>

Recheck(o) ==
    /\ operation[o].state = "unknown"
    /\ operation' = [operation EXCEPT ![o].state = "live"]
    /\ UNCHANGED <<role, grants, policy, connection, listed, facts, recent, review, call>>

(* A refresh is published; the provider changes; a sign-in grows old.       *)
Publish(t) ==
    /\ listed' = IF t \in listed THEN listed \ {t} ELSE listed \cup {t}
    /\ UNCHANGED <<role, grants, policy, connection, facts, recent, review, operation, call>>

Meddle(t) ==
    /\ \E f \in Facts \ {facts[t]} : facts' = [facts EXCEPT ![t] = f]
    /\ UNCHANGED <<role, grants, policy, connection, listed, recent, review, operation, call>>

Lapse(u) ==
    /\ recent' = IF u \in recent THEN recent \ {u} ELSE recent \cup {u}
    /\ UNCHANGED <<role, grants, policy, connection, listed, facts, review, operation, call>>

Next ==
    \/ \E r \in Requests : \/ Prepare(r) \/ Inspect(r) \/ Reviewed(r)
                           \/ Confirm(r) \/ InspectAgain(r) \/ Accept(r) \/ End(r)
    \/ \E v \in Reviews : Expire(v) \/ PruneReviews(v)
    \/ \E o \in Operations : Settle(o) \/ Hold(o) \/ Recheck(o)
    \/ \E a, u \in Users : SetGrant(a, u)
    \/ \E u \in Users : ChangeMember(u) \/ Lapse(u)
    \/ \E t \in Targets : Publish(t) \/ Meddle(t)
    \/ Rotate
    \/ Disable

Spec == Init /\ [][Next]_vars

-----------------------------------------------------------------------------
(* Properties *)

TypeOK ==
    /\ role \in [Users -> Roles \cup {"none"}]
    /\ grants \in [Users -> SUBSET Classes]
    /\ policy \in Nat
    /\ connection \in Connection
    /\ listed \in SUBSET Targets
    /\ facts \in [Targets -> Facts]
    /\ recent \in SUBSET Users
    /\ review \in [Reviews -> Review]
    /\ operation \in [Operations -> Operation]
    /\ call \in [Requests -> Call]

(* However often and under whatever keys a confirmation is sent, its review *)
(* becomes one operation, and whoever is answered is answered with that     *)
(* one; no target has two operations under way (Confirm, Resolve, Reserve). *)
AcceptedOnce ==
    /\ \A o, p \in Operations :
         o # p /\ operation[o].state # "unborn" /\ operation[p].state # "unborn" =>
           /\ operation[o].review # operation[p].review
           /\ ~(operation[o].actor = operation[p].actor /\ operation[o].key = operation[p].key)
           /\ operation[o].target = operation[p].target =>
                operation[o].state = "over" \/ operation[p].state = "over"
    /\ \A r \in Requests : call[r].pc = "answered" => operation[call[r].answer].review = call[r].review

(* What is accepted is what was reviewed: no grant, no membership and not   *)
(* the connection changed since the first read of the preparation, though   *)
(* both sides read the provider outside their transactions (Prepare,        *)
(* Confirm and their policy and credential versions).                       *)
UntouchedWhenAccepted ==
    \A o \in Operations :
      operation[o].state = "unborn" /\ operation'[o].state = "live" =>
        ~review[operation'[o].review].touched

AcceptedAsReviewed == [][UntouchedWhenAccepted]_vars
=============================================================================
