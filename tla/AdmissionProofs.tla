--------------------------- MODULE AdmissionProofs ---------------------------
(* Theorems about Admission, for every number of people, targets, reviews,  *)
(* operations, keys and requests, every quota and every change of the       *)
(* authority they rest on.                                                  *)
EXTENDS Admission, TLAPS

(* A row carries the revisions it was made at.  Once something it rests on  *)
(* has changed, they are behind, or the connection is out of use for good.  *)
Behind(x) ==
    \/ x.policy < policy
    \/ x.version < connection.version
    \/ connection.status # "active"

Dated(x) ==
    /\ x.policy <= policy
    /\ x.version <= connection.version
    /\ x.touched => Behind(x)

ReviewGood(x) ==
    /\ x.state # "unborn" => x.actor \in Users /\ x.target \in Targets
    /\ x.state = "open" => Dated(x)

(* An operation that was never made has no fields to be found by.           *)
OperationGood(x) ==
    IF x.state = "unborn" THEN x = NoOperation
    ELSE x.actor \in Users /\ x.key \in Keys /\ x.review \in Reviews /\ x.target \in Targets

CallGood(x) ==
    /\ x.pc \in {"preparing", "inspected"} =>
         x.actor \in Users /\ x.target \in Targets /\ Dated(x)
    /\ x.pc \in {"confirming", "fresh", "answered"} =>
         x.actor \in Users /\ x.key \in Keys /\ x.review \in Reviews
    /\ x.pc = "answered" => x.answer \in Operations /\ operation[x.answer].review = x.review

RowsGood ==
    /\ \A v \in Reviews : ReviewGood(review[v])
    /\ \A o \in Operations : OperationGood(operation[o])
    /\ \A r \in Requests : CallGood(call[r])

(* What AcceptedOnce says of two operations.                                *)
OperationsApart ==
    \A o, p \in Operations :
      o # p /\ operation[o].state # "unborn" /\ operation[p].state # "unborn" =>
        /\ operation[o].review # operation[p].review
        /\ ~(operation[o].actor = operation[p].actor /\ operation[o].key = operation[p].key)
        /\ operation[o].target = operation[p].target =>
             operation[o].state = "over" \/ operation[p].state = "over"

IInv ==
    /\ TypeOK
    /\ RowsGood
    /\ OperationsApart

-----------------------------------------------------------------------------
(* The constants, as the provers need them. *)
LEMMA ConstantFacts ==
  ASSUME ConstantsOK
  PROVE  /\ None \notin Users /\ None \notin Targets /\ None \notin Reviews
         /\ None \notin Operations /\ None \notin Keys
  BY DEF ConstantsOK

(* The rows that stand for nothing are well formed. *)
LEMMA RowTypes ==
  /\ NoReview \in Review /\ NoReview.state = "unborn"
  /\ NoOperation \in Operation /\ NoOperation.state = "unborn"
  /\ NoOperation.review = None /\ NoOperation.target = None
  /\ Idle \in Call /\ Idle.pc = "idle"
  BY DEF NoReview, Review, NoOperation, Operation, Idle, Call

(* Nothing is under way. *)
LEMMA InitIInv ==
  ASSUME ConstantsOK, Init
  PROVE  IInv
  <1> USE DEF Init
  <1>1. TypeOK
    <2>1. connection \in Connection
      BY DEF Connection
    <2>2. role \in [Users -> Roles \cup {"none"}]
      BY DEF Roles
    <2>3. QED
      BY <2>1, <2>2, RowTypes DEF TypeOK
  <1>2. RowsGood
    BY RowTypes DEF RowsGood, ReviewGood, OperationGood, CallGood
  <1>3. OperationsApart
    BY RowTypes DEF OperationsApart
  <1>4. QED
    BY <1>1, <1>2, <1>3 DEF IInv

-----------------------------------------------------------------------------
(* Steps of one request *)

(* A request moves on and nothing else changes. *)
LEMMA CallStep ==
  ASSUME IInv, NEW r \in Requests, NEW q \in Call, CallGood(q),
         call' = [call EXCEPT ![r] = q],
         UNCHANGED <<role, grants, policy, connection, listed, facts, recent, review, operation>>
  PROVE  IInv'
  <1>1. /\ call \in [Requests -> Call] /\ call' \in [Requests -> Call]
        /\ call'[r] = q /\ \A p \in Requests : p # r => call'[p] = call[p]
    BY DEF IInv, TypeOK
  <1>2. TypeOK'
    BY <1>1 DEF IInv, TypeOK
  <1>3. RowsGood'
    <2>1. \A p \in Requests : CallGood(call'[p])
      BY <1>1 DEF IInv, RowsGood
    <2>2. (\A p \in Requests : CallGood(call[p]))'
      BY <2>1 DEF CallGood, Dated, Behind
    <2>3. (\A v \in Reviews : ReviewGood(review[v]))' /\ (\A o \in Operations : OperationGood(operation[o]))'
      BY DEF IInv, RowsGood, ReviewGood, Dated, Behind, OperationGood
    <2>4. QED
      BY <2>2, <2>3 DEF RowsGood
  <1>4. OperationsApart'
    BY DEF IInv, OperationsApart
  <1>5. QED
    BY <1>2, <1>3, <1>4 DEF IInv

(* The answer is sent, or the request fails. *)
LEMMA EndIInv ==
  ASSUME IInv, NEW r \in Requests, End(r)
  PROVE  IInv'
  <1>1. CallGood(Idle)
    BY RowTypes DEF CallGood
  <1>2. QED
    BY <1>1, RowTypes, CallStep DEF End

(* A preparation starts at the present revisions. *)
LEMMA PrepareIInv ==
  ASSUME IInv, NEW r \in Requests, Prepare(r)
  PROVE  IInv'
  <1>1. PICK u \in Users, t \in Targets :
          call' = [call EXCEPT ![r] =
                     [Idle EXCEPT !.pc = "preparing", !.actor = u, !.target = t,
                                  !.version = connection.version, !.policy = policy]]
    BY DEF Prepare
  <1> DEFINE q == [Idle EXCEPT !.pc = "preparing", !.actor = u, !.target = t,
                               !.version = connection.version, !.policy = policy]
  <1>2. policy \in Nat /\ connection.version \in Nat
    BY DEF IInv, TypeOK, Connection
  <1>3. q \in Call
    BY <1>2, RowTypes DEF Call
  <1>4. /\ q.pc = "preparing" /\ q.actor = u /\ q.target = t
        /\ q.version = connection.version /\ q.policy = policy /\ ~q.touched
    BY DEF Idle
  <1>5. call' = [call EXCEPT ![r] = q]
    BY <1>1
  <1> HIDE DEF q
  <1>6. CallGood(q)
    BY <1>2, <1>4 DEF CallGood, Dated
  <1>7. QED
    BY <1>3, <1>5, <1>6, CallStep DEF Prepare

(* The facts of a row, as the steps use them. *)
LEMMA CallFacts ==
  ASSUME IInv, NEW r \in Requests
  PROVE  /\ call[r] \in Call /\ CallGood(call[r])
         /\ call \in [Requests -> Call]
         /\ policy \in Nat /\ connection.version \in Nat
  BY DEF IInv, TypeOK, RowsGood, Connection

(* A preparation reads the provider. *)
LEMMA InspectIInv ==
  ASSUME ConstantsOK, IInv, NEW r \in Requests, Inspect(r)
  PROVE  IInv'
  <1> DEFINE o == call[r]
             f == facts[o.target]
             q == [o EXCEPT !.pc = "inspected", !.facts = f]
  <1>1. o \in Call /\ CallGood(o) /\ call \in [Requests -> Call] /\ o.pc = "preparing"
    BY CallFacts DEF Inspect
  <1>2. o.actor \in Users /\ o.target \in Targets /\ Dated(o)
    BY <1>1 DEF CallGood
  <1>3. f \in Facts
    BY <1>2 DEF IInv, TypeOK
  <1>4. call' = [call EXCEPT ![r] = q]
    BY <1>1 DEF Inspect
  <1> HIDE DEF f
  <1>5. q \in Call
    BY <1>1, <1>3 DEF Call
  <1>6. /\ q.pc = "inspected" /\ q.actor = o.actor /\ q.target = o.target
        /\ q.version = o.version /\ q.policy = o.policy /\ q.touched = o.touched
    BY <1>1 DEF Call
  <1> HIDE DEF q
  <1>7. CallGood(q)
    BY <1>2, <1>6 DEF CallGood, Dated, Behind
  <1>8. QED
    BY <1>4, <1>5, <1>7, CallStep DEF Inspect

(* A confirmation reads the provider again. *)
LEMMA InspectAgainIInv ==
  ASSUME IInv, NEW r \in Requests, InspectAgain(r)
  PROVE  IInv'
  <1> DEFINE o == call[r]
             q == [o EXCEPT !.pc = "fresh"]
  <1>1. o \in Call /\ CallGood(o) /\ call \in [Requests -> Call] /\ o.pc = "confirming"
    BY CallFacts DEF InspectAgain
  <1>2. call' = [call EXCEPT ![r] = q]
    BY <1>1 DEF InspectAgain
  <1>3. q \in Call
    BY <1>1 DEF Call
  <1>4. q.pc = "fresh" /\ q.actor = o.actor /\ q.key = o.key /\ q.review = o.review
    BY <1>1 DEF Call
  <1> HIDE DEF q
  <1>5. CallGood(q)
    BY <1>1, <1>4 DEF CallGood
  <1>6. QED
    BY <1>2, <1>3, <1>5, CallStep DEF InspectAgain

(* A key that stands for an operation is answered with it. *)
LEMMA AnswerIInv ==
  ASSUME IInv, NEW r \in Requests, NEW u \in Users, NEW k \in Keys, NEW v \in Reviews,
         Answer(r, u, k, v)
  PROVE  IInv'
  <1>1. PICK o \in Resolved(u, k) :
          /\ Answers(o, v)
          /\ call' = [call EXCEPT ![r] = [Idle EXCEPT !.pc = "answered", !.actor = u, !.key = k,
                                                      !.review = v, !.answer = o]]
    BY DEF Answer
  <1> DEFINE q == [Idle EXCEPT !.pc = "answered", !.actor = u, !.key = k, !.review = v, !.answer = o]
  <1>2. o \in Operations /\ operation[o].review = v
    BY <1>1 DEF Resolved, Answers
  <1>3. q \in Call
    BY <1>2, RowTypes DEF Call
  <1>4. q.pc = "answered" /\ q.actor = u /\ q.key = k /\ q.review = v /\ q.answer = o
    BY DEF Idle
  <1>5. call' = [call EXCEPT ![r] = q]
    BY <1>1
  <1> HIDE DEF q
  <1>6. CallGood(q)
    BY <1>2, <1>4 DEF CallGood
  <1>7. QED
    BY <1>3, <1>5, <1>6, CallStep DEF Answer

(* A confirmation begins, or is answered at once. *)
LEMMA ConfirmIInv ==
  ASSUME IInv, NEW r \in Requests, Confirm(r)
  PROVE  IInv'
  <1>1. PICK u \in Users, v \in Reviews, k \in Keys :
          \/ Answer(r, u, k, v)
          \/ call' = [call EXCEPT ![r] = [Idle EXCEPT !.pc = "confirming", !.actor = u,
                                                      !.review = v, !.key = k]]
             /\ UNCHANGED <<role, grants, policy, connection, listed, facts, recent, review, operation>>
    BY DEF Confirm
  <1>2. CASE Answer(r, u, k, v)
    BY <1>2, AnswerIInv
  <1>3. CASE ~Answer(r, u, k, v)
    <2> DEFINE q == [Idle EXCEPT !.pc = "confirming", !.actor = u, !.review = v, !.key = k]
    <2>1. q \in Call
      BY RowTypes DEF Call
    <2>2. q.pc = "confirming" /\ q.actor = u /\ q.key = k /\ q.review = v
      BY DEF Idle
    <2>3. call' = [call EXCEPT ![r] = q]
          /\ UNCHANGED <<role, grants, policy, connection, listed, facts, recent, review, operation>>
      BY <1>1, <1>3
    <2> HIDE DEF q
    <2>4. CallGood(q)
      BY <2>2 DEF CallGood
    <2>5. QED
      BY <2>1, <2>3, <2>4, CallStep
  <1>4. QED
    BY <1>2, <1>3

-----------------------------------------------------------------------------
(* Steps of reviews and operations *)

(* What a step may do to operations that exist: move them between states    *)
(* and never out of the last one.                                           *)
OperationsKept ==
    /\ operation' \in [Operations -> Operation]
    /\ \A o \in Operations :
         /\ operation[o].state = "unborn" => operation'[o] = operation[o]
         /\ operation[o].state # "unborn" => operation'[o].state # "unborn"
         /\ operation[o].state = "over" => operation'[o].state = "over"
         /\ operation'[o].actor = operation[o].actor /\ operation'[o].key = operation[o].key
         /\ operation'[o].review = operation[o].review /\ operation'[o].target = operation[o].target

(* Operations that move between states stay apart. *)
LEMMA KeptOperations ==
  ASSUME IInv, OperationsKept
  PROVE  /\ (\A o \in Operations : OperationGood(operation[o]))'
         /\ OperationsApart'
  <1>1. ASSUME NEW o \in Operations
        PROVE  OperationGood(operation[o])'
    <2>1. OperationGood(operation[o])
      BY DEF IInv, RowsGood
    <2>2. CASE operation[o].state = "unborn"
      BY <2>1, <2>2 DEF OperationsKept, OperationGood
    <2>3. CASE operation[o].state # "unborn"
      BY <2>1, <2>3 DEF OperationsKept, OperationGood
    <2>4. QED
      BY <2>2, <2>3
  <1>2. OperationsApart'
    <2> SUFFICES ASSUME NEW o \in Operations, NEW p \in Operations, o # p,
                        operation'[o].state # "unborn", operation'[p].state # "unborn"
                 PROVE  /\ operation'[o].review # operation'[p].review
                        /\ ~(operation'[o].actor = operation'[p].actor /\ operation'[o].key = operation'[p].key)
                        /\ operation'[o].target = operation'[p].target =>
                             operation'[o].state = "over" \/ operation'[p].state = "over"
      BY DEF OperationsApart
    <2>1. operation[o].state # "unborn" /\ operation[p].state # "unborn"
      BY DEF OperationsKept
    <2>2. /\ operation[o].review # operation[p].review
          /\ ~(operation[o].actor = operation[p].actor /\ operation[o].key = operation[p].key)
          /\ operation[o].target = operation[p].target =>
               operation[o].state = "over" \/ operation[p].state = "over"
      BY <2>1 DEF IInv, OperationsApart
    <2>3. QED
      BY <2>2 DEF OperationsKept
  <1>3. QED
    BY <1>1, <1>2

(* One operation changes its state. *)
LEMMA OneMoves ==
  ASSUME IInv, NEW o \in Operations, NEW x \in {"live", "held", "unknown", "over"},
         operation' = [operation EXCEPT ![o].state = x], operation[o].state \notin {"unborn", "over"}
  PROVE  OperationsKept
  <1> DEFINE w == [operation[o] EXCEPT !.state = x]
  <1>1. operation \in [Operations -> Operation] /\ operation[o] \in Operation
    BY DEF IInv, TypeOK
  <1>2. /\ w \in Operation /\ w.state = x /\ w.actor = operation[o].actor /\ w.key = operation[o].key
        /\ w.review = operation[o].review /\ w.target = operation[o].target
    BY <1>1 DEF Operation
  <1>3. operation' = [operation EXCEPT ![o] = w]
    BY <1>1
  <1> HIDE DEF w
  <1>4. QED
    BY <1>1, <1>2, <1>3 DEF OperationsKept

(* An operation ends, its outcome becomes unknown, or it is looked at again. *)
LEMMA OperationIInv ==
  ASSUME IInv, NEW o \in Operations, Settle(o) \/ Hold(o) \/ Recheck(o)
  PROVE  IInv'
  <1>1. OperationsKept
    BY OneMoves DEF Settle, Hold, Recheck
  <1>2. UNCHANGED <<role, grants, policy, connection, listed, facts, recent, review, call>>
    BY DEF Settle, Hold, Recheck
  <1>3. TypeOK'
    BY <1>1, <1>2 DEF IInv, TypeOK, OperationsKept
  <1>4. (\A v \in Reviews : ReviewGood(review[v]))'
    BY <1>2 DEF IInv, RowsGood, ReviewGood, Dated, Behind
  <1>5. (\A r \in Requests : CallGood(call[r]))'
    <2> SUFFICES ASSUME NEW r \in Requests
                 PROVE  CallGood(call[r])'
      OBVIOUS
    <2>1. CallGood(call[r])
      BY DEF IInv, RowsGood
    <2>2. QED
      BY <2>1, <1>1, <1>2 DEF CallGood, Dated, Behind, OperationsKept
  <1>6. QED
    BY <1>1, <1>3, <1>4, <1>5, KeptOperations DEF IInv, RowsGood

(* A review grows too old, and is deleted. *)
LEMMA ExpireIInv ==
  ASSUME IInv, NEW v \in Reviews, Expire(v) \/ PruneReviews(v)
  PROVE  IInv'
  <1>1. PICK x \in {"expired", "gone"} :
          review' = [review EXCEPT ![v].state = x] /\ review[v].state # "unborn"
    BY DEF Expire, PruneReviews
  <1>2. UNCHANGED <<role, grants, policy, connection, listed, facts, recent, operation, call>>
    BY DEF Expire, PruneReviews
  <1> DEFINE w == [review[v] EXCEPT !.state = x]
  <1>3. review \in [Reviews -> Review] /\ review[v] \in Review
    BY DEF IInv, TypeOK
  <1>4. w \in Review /\ w.state = x /\ w.actor = review[v].actor /\ w.target = review[v].target
    BY <1>3 DEF Review
  <1>5. review' = [review EXCEPT ![v] = w]
    BY <1>1, <1>3
  <1> HIDE DEF w
  <1>6. /\ review' \in [Reviews -> Review] /\ review'[v] = w
        /\ \A y \in Reviews : y # v => review'[y] = review[y]
    BY <1>3, <1>4, <1>5
  <1>7. TypeOK'
    BY <1>2, <1>6 DEF IInv, TypeOK
  <1>8. (\A y \in Reviews : ReviewGood(review[y]))'
    <2> SUFFICES ASSUME NEW y \in Reviews
                 PROVE  ReviewGood(review[y])'
      OBVIOUS
    <2>1. ReviewGood(review[y])
      BY DEF IInv, RowsGood
    <2>2. CASE y = v
      BY <2>1, <2>2, <1>1, <1>4, <1>6 DEF ReviewGood
    <2>3. CASE y # v
      BY <2>1, <2>3, <1>2, <1>6 DEF ReviewGood, Dated, Behind
    <2>4. QED
      BY <2>2, <2>3
  <1>9. (\A r \in Requests : CallGood(call[r]))' /\ (\A o \in Operations : OperationGood(operation[o]))'
    BY <1>2 DEF IInv, RowsGood, CallGood, Dated, Behind, OperationGood
  <1>10. OperationsApart'
    BY <1>2 DEF IInv, OperationsApart
  <1>11. QED
    BY <1>7, <1>8, <1>9, <1>10 DEF IInv, RowsGood

(* A review is stored at the revisions its preparation started from. *)
LEMMA ReviewedIInv ==
  ASSUME IInv, NEW r \in Requests, Reviewed(r)
  PROVE  IInv'
  <1> DEFINE q == call[r]
             w == [state |-> "open", actor |-> q.actor, target |-> q.target,
                   facts |-> q.facts, version |-> q.version, policy |-> q.policy,
                   touched |-> q.touched]
  <1>1. PICK v \in Reviews : review' = [review EXCEPT ![v] = w]
    BY DEF Reviewed
  <1>2. /\ q.pc = "inspected" /\ call' = [call EXCEPT ![r] = Idle]
        /\ UNCHANGED <<role, grants, policy, connection, listed, facts, recent, operation>>
    BY DEF Reviewed
  <1>3. q \in Call /\ q.actor \in Users /\ q.target \in Targets /\ Dated(q)
    BY <1>2, CallFacts DEF CallGood
  <1>4. w \in Review
    BY <1>3 DEF Review, Call
  <1>5. /\ w.state = "open" /\ w.actor = q.actor /\ w.target = q.target
        /\ w.version = q.version /\ w.policy = q.policy /\ w.touched = q.touched
    OBVIOUS
  <1> HIDE DEF w
  <1>6. ReviewGood(w)
    BY <1>3, <1>5 DEF ReviewGood, Dated, Behind
  <1>7. /\ review \in [Reviews -> Review] /\ review' \in [Reviews -> Review] /\ review'[v] = w
        /\ \A y \in Reviews : y # v => review'[y] = review[y]
    BY <1>1, <1>4 DEF IInv, TypeOK
  <1>8. /\ call' \in [Requests -> Call] /\ call'[r] = Idle
        /\ \A p \in Requests : p # r => call'[p] = call[p]
    BY <1>2, RowTypes DEF IInv, TypeOK
  <1>9. TypeOK'
    BY <1>2, <1>7, <1>8 DEF IInv, TypeOK
  <1>10. (\A y \in Reviews : ReviewGood(review[y]))'
    <2>1. \A y \in Reviews : ReviewGood(review'[y])
      BY <1>6, <1>7 DEF IInv, RowsGood
    <2>2. QED
      BY <2>1, <1>2 DEF ReviewGood, Dated, Behind
  <1>11. (\A p \in Requests : CallGood(call[p]))'
    <2>1. CallGood(Idle)
      BY RowTypes DEF CallGood
    <2>2. \A p \in Requests : CallGood(call'[p])
      BY <2>1, <1>8 DEF IInv, RowsGood
    <2>3. QED
      BY <2>2, <1>2 DEF CallGood, Dated, Behind
  <1>12. (\A o \in Operations : OperationGood(operation[o]))' /\ OperationsApart'
    BY <1>2 DEF IInv, RowsGood, OperationGood, OperationsApart
  <1>13. QED
    BY <1>9, <1>10, <1>11, <1>12 DEF IInv, RowsGood

(* What Accept finds and does when it makes an operation. *)
Accepts(r, o) ==
    LET q == call[r]
        v == q.review
        t == review[v].target
    IN  /\ q.pc = "fresh"
        /\ Stored(q.actor, v) /\ Authority(q.actor, t) /\ Check(q.actor, v)
        /\ Unique(q.actor, q.key, v) /\ Reserve(t)
        /\ operation[o].state = "unborn"
        /\ operation' = [operation EXCEPT ![o] =
                           [state |-> "live", actor |-> q.actor, key |-> q.key,
                            review |-> v, target |-> t]]
        /\ call' = [call EXCEPT ![r].pc = "answered", ![r].answer = o]
        /\ review' = [review EXCEPT ![v].state = "consumed"]
        /\ UNCHANGED <<role, grants, policy, connection, listed, facts, recent>>

(* Accept answers with an operation that exists, or makes one. *)
LEMMA AcceptCases ==
  ASSUME NEW r \in Requests, Accept(r)
  PROVE  \/ Answer(r, call[r].actor, call[r].key, call[r].review) /\ call[r].pc = "fresh"
         \/ \E o \in Operations : Accepts(r, o)
  BY DEF Accept, Accepts

(* A review becomes an operation, apart from all others. *)
LEMMA AcceptsIInv ==
  ASSUME ConstantsOK, IInv, NEW r \in Requests, NEW o \in Operations, Accepts(r, o)
  PROVE  IInv'
  <1> DEFINE q == call[r]
             v == q.review
             t == review[v].target
             w == [state |-> "live", actor |-> q.actor, key |-> q.key, review |-> v, target |-> t]
             a == [q EXCEPT !.pc = "answered", !.answer = o]
             c == [review[v] EXCEPT !.state = "consumed"]
  <1>1. /\ q.pc = "fresh"
        /\ Stored(q.actor, v) /\ Unique(q.actor, q.key, v) /\ Reserve(t)
        /\ operation[o].state = "unborn" /\ operation' = [operation EXCEPT ![o] = w]
        /\ UNCHANGED <<role, grants, policy, connection, listed, facts, recent>>
    BY DEF Accepts
  <1>2. /\ q \in Call /\ call \in [Requests -> Call]
        /\ q.actor \in Users /\ q.key \in Keys /\ v \in Reviews
    BY <1>1, CallFacts DEF CallGood
  <1>3. /\ review \in [Reviews -> Review] /\ review[v] \in Review
        /\ operation \in [Operations -> Operation]
    BY <1>2 DEF IInv, TypeOK
  <1>4. t \in Targets /\ review[v].actor \in Users /\ review[v].state # "unborn"
    BY <1>1, <1>2 DEF IInv, RowsGood, ReviewGood, Stored
  <1>5. call' = [call EXCEPT ![r] = a] /\ review' = [review EXCEPT ![v] = c]
    BY <1>2, <1>3 DEF Accepts
  <1> HIDE DEF t
  <1>6. w \in Operation /\ w.state = "live" /\ w.actor = q.actor /\ w.key = q.key
        /\ w.review = v /\ w.target = t
    BY <1>2, <1>4 DEF Operation
  <1>7. a \in Call /\ a.pc = "answered" /\ a.answer = o /\ a.actor = q.actor /\ a.key = q.key
        /\ a.review = v
    BY <1>2 DEF Call
  <1>8. c \in Review /\ c.state = "consumed" /\ c.actor = review[v].actor /\ c.target = t
    BY <1>3 DEF Review, t
  <1> HIDE DEF w, a, c
  <1>9. /\ operation' \in [Operations -> Operation] /\ operation'[o] = w
        /\ \A p \in Operations : p # o => operation'[p] = operation[p]
    BY <1>1, <1>3, <1>6
  <1>10. /\ call' \in [Requests -> Call] /\ call'[r] = a
         /\ \A p \in Requests : p # r => call'[p] = call[p]
    BY <1>2, <1>5, <1>7
  <1>11. /\ review' \in [Reviews -> Review] /\ review'[v] = c
         /\ \A y \in Reviews : y # v => review'[y] = review[y]
    BY <1>2, <1>3, <1>5, <1>8
  <1>12. TypeOK'
    BY <1>1, <1>9, <1>10, <1>11 DEF IInv, TypeOK
  <1>13. (\A y \in Reviews : ReviewGood(review[y]))'
    <2>1. ReviewGood(c)
      BY <1>4, <1>8 DEF ReviewGood
    <2>2. \A y \in Reviews : ReviewGood(review'[y])
      BY <2>1, <1>11 DEF IInv, RowsGood
    <2>3. QED
      BY <2>2, <1>1 DEF ReviewGood, Dated, Behind
  <1>14. (\A p \in Operations : OperationGood(operation[p]))'
    <2>1. OperationGood(w)
      BY <1>2, <1>4, <1>6 DEF OperationGood
    <2>2. \A p \in Operations : OperationGood(operation'[p])
      BY <2>1, <1>9 DEF IInv, RowsGood
    <2>3. QED
      BY <2>2 DEF OperationGood
  <1>15. operation[o].review = None
    BY <1>1, RowTypes DEF IInv, RowsGood, OperationGood
  <1>16. (\A p \in Requests : CallGood(call[p]))'
    <2> SUFFICES ASSUME NEW p \in Requests
                 PROVE  CallGood(call[p])'
      OBVIOUS
    <2>1. CASE p = r
      BY <2>1, <1>2, <1>6, <1>7, <1>9, <1>10 DEF CallGood
    <2>2. CASE p # r
      <3>1. call'[p] = call[p] /\ CallGood(call[p])
        BY <2>2, <1>10 DEF IInv, RowsGood
      <3>2. call[p].pc = "answered" => call[p].answer # o /\ call[p].answer \in Operations
        BY <3>1, <1>15, ConstantFacts DEF CallGood
      <3>3. QED
        BY <3>1, <3>2, <1>1, <1>9 DEF CallGood, Dated, Behind
    <2>3. QED
      BY <2>1, <2>2
  <1>17. \A p \in Operations \ {o} :
           /\ operation'[p] = operation[p]
           /\ operation[p].review # v
           /\ ~(operation[p].actor = q.actor /\ operation[p].key = q.key)
           /\ operation[p].target = t => operation[p].state = "over"
    BY <1>1, <1>9 DEF Unique, Reserve
  <1>18. OperationsApart'
    <2> SUFFICES ASSUME NEW x \in Operations, NEW p \in Operations, x # p,
                        operation'[x].state # "unborn", operation'[p].state # "unborn"
                 PROVE  /\ operation'[x].review # operation'[p].review
                        /\ ~(operation'[x].actor = operation'[p].actor /\ operation'[x].key = operation'[p].key)
                        /\ operation'[x].target = operation'[p].target =>
                             operation'[x].state = "over" \/ operation'[p].state = "over"
      BY DEF OperationsApart
    <2>1. CASE x = o
      BY <2>1, <1>6, <1>9, <1>17
    <2>2. CASE p = o
      BY <2>2, <1>6, <1>9, <1>17
    <2>3. CASE x # o /\ p # o
      BY <2>3, <1>9 DEF IInv, OperationsApart
    <2>4. QED
      BY <2>1, <2>2, <2>3
  <1>19. QED
    BY <1>12, <1>13, <1>14, <1>16, <1>18 DEF IInv, RowsGood

(* Accept keeps the invariant either way. *)
LEMMA AcceptIInv ==
  ASSUME ConstantsOK, IInv, NEW r \in Requests, Accept(r)
  PROVE  IInv'
  <1>1. CASE Answer(r, call[r].actor, call[r].key, call[r].review) /\ call[r].pc = "fresh"
    <2>1. call[r].actor \in Users /\ call[r].key \in Keys /\ call[r].review \in Reviews
      BY <1>1, CallFacts DEF CallGood
    <2>2. QED
      BY <2>1, <1>1, AnswerIInv
  <1>2. QED
    BY <1>1, AcceptCases, AcceptsIInv

-----------------------------------------------------------------------------
(* What admission rests on changes *)

(* Touch marks the rows that are open and changes nothing else in them. *)
LEMMA TouchFacts ==
  ASSUME IInv, Touch
  PROVE  /\ review' \in [Reviews -> Review]
         /\ \A v \in Reviews :
              /\ review'[v].state = review[v].state /\ review'[v].actor = review[v].actor
              /\ review'[v].target = review[v].target /\ review'[v].version = review[v].version
              /\ review'[v].policy = review[v].policy
         /\ call' \in [Requests -> Call]
         /\ \A r \in Requests :
              /\ call'[r].pc = call[r].pc /\ call'[r].actor = call[r].actor
              /\ call'[r].target = call[r].target /\ call'[r].version = call[r].version
              /\ call'[r].policy = call[r].policy /\ call'[r].review = call[r].review
              /\ call'[r].key = call[r].key /\ call'[r].answer = call[r].answer
  <1>1. review \in [Reviews -> Review] /\ call \in [Requests -> Call]
    BY DEF IInv, TypeOK
  <1>2. ASSUME NEW v \in Reviews
        PROVE  /\ review'[v] \in Review
               /\ review'[v].state = review[v].state /\ review'[v].actor = review[v].actor
               /\ review'[v].target = review[v].target /\ review'[v].version = review[v].version
               /\ review'[v].policy = review[v].policy
    <2> DEFINE b == review[v].touched \/ review[v].state = "open"
    <2>1. b \in BOOLEAN /\ review[v] \in Review
      BY <1>1
    <2>2. review'[v] = [review[v] EXCEPT !.touched = b]
      BY DEF Touch
    <2> HIDE DEF b
    <2>3. review'[v] \in Review
      BY <2>1, <2>2 DEF Review
    <2>4. review'[v].state = review[v].state /\ review'[v].actor = review[v].actor
      BY <2>1, <2>2 DEF Review
    <2>5. /\ review'[v].target = review[v].target /\ review'[v].version = review[v].version
          /\ review'[v].policy = review[v].policy
      BY <2>1, <2>2 DEF Review
    <2>6. QED
      BY <2>3, <2>4, <2>5
  <1>3. ASSUME NEW r \in Requests
        PROVE  /\ call'[r] \in Call
               /\ call'[r].pc = call[r].pc /\ call'[r].actor = call[r].actor
               /\ call'[r].target = call[r].target /\ call'[r].version = call[r].version
               /\ call'[r].policy = call[r].policy /\ call'[r].review = call[r].review
               /\ call'[r].key = call[r].key /\ call'[r].answer = call[r].answer
    <2> DEFINE b == call[r].touched \/ call[r].pc \in {"preparing", "inspected"}
    <2>1. b \in BOOLEAN /\ call[r] \in Call
      BY <1>1
    <2>2. call'[r] = [call[r] EXCEPT !.touched = b]
      BY DEF Touch
    <2> HIDE DEF b
    <2>3. call'[r] \in Call
      BY <2>1, <2>2 DEF Call
    <2>4. call'[r].pc = call[r].pc /\ call'[r].actor = call[r].actor
      BY <2>1, <2>2 DEF Call
    <2>5. /\ call'[r].target = call[r].target /\ call'[r].version = call[r].version
          /\ call'[r].policy = call[r].policy
      BY <2>1, <2>2 DEF Call
    <2>6. call'[r].review = call[r].review /\ call'[r].key = call[r].key /\ call'[r].answer = call[r].answer
      BY <2>1, <2>2 DEF Call
    <2>7. QED
      BY <2>3, <2>4, <2>5, <2>6
  <1>4. /\ DOMAIN review' = Reviews /\ review' = [v \in Reviews |-> review'[v]]
        /\ DOMAIN call' = Requests /\ call' = [r \in Requests |-> call'[r]]
    BY DEF Touch
  <1>5. review' \in [Reviews -> Review] /\ call' \in [Requests -> Call]
    BY <1>2, <1>3, <1>4
  <1>6. QED
    BY <1>2, <1>3, <1>5

(* A step that touches what is open leaves every row it touches behind. *)
LEMMA TouchStep ==
  ASSUME IInv, Touch, OperationsKept,
         role' \in [Users -> Roles \cup {"none"}], grants' \in [Users -> SUBSET Classes],
         policy' \in Nat, connection' \in Connection,
         UNCHANGED <<listed, facts, recent>>,
         policy <= policy', connection.version <= connection'.version,
         connection.status # "active" => connection'.status # "active",
         policy < policy' \/ connection.version < connection'.version \/ connection'.status # "active"
  PROVE  IInv'
  <1>1. TypeOK'
    BY TouchFacts DEF IInv, TypeOK, OperationsKept
  <1>2. policy \in Nat /\ connection.version \in Nat /\ connection'.version \in Nat
    BY DEF IInv, TypeOK, Connection
  <1>3. ASSUME NEW x, NEW y, x.policy \in Nat, x.version \in Nat, Dated(x),
               y.policy = x.policy, y.version = x.version
        PROVE  /\ y.policy <= policy' /\ y.version <= connection'.version
               /\ \/ y.policy < policy' \/ y.version < connection'.version
                  \/ connection'.status # "active"
    BY <1>2, <1>3 DEF Dated
  <1>4. (\A v \in Reviews : ReviewGood(review[v]))'
    <2> SUFFICES ASSUME NEW v \in Reviews
                 PROVE  ReviewGood(review[v])'
      OBVIOUS
    <2>1. ReviewGood(review[v]) /\ review[v] \in Review
      BY DEF IInv, RowsGood, TypeOK
    <2>2. review[v].policy \in Nat /\ review[v].version \in Nat
      BY <2>1 DEF Review
    <2>3. /\ review'[v].state = review[v].state /\ review'[v].actor = review[v].actor
          /\ review'[v].target = review[v].target /\ review'[v].version = review[v].version
          /\ review'[v].policy = review[v].policy
      BY TouchFacts
    <2>4. CASE review[v].state # "open"
      BY <2>1, <2>3, <2>4 DEF ReviewGood
    <2>5. CASE review[v].state = "open"
      <3>1. Dated(review[v])
        BY <2>1, <2>5 DEF ReviewGood
      <3>2. Dated(review[v])'
        BY <3>1, <2>2, <2>3, <1>3 DEF Dated, Behind
      <3>3. QED
        BY <3>2, <2>1, <2>3, <2>5 DEF ReviewGood
    <2>6. QED
      BY <2>4, <2>5
  <1>5. (\A r \in Requests : CallGood(call[r]))'
    <2> SUFFICES ASSUME NEW r \in Requests
                 PROVE  CallGood(call[r])'
      OBVIOUS
    <2>1. CallGood(call[r]) /\ call[r] \in Call
      BY CallFacts
    <2>2. call[r].policy \in Nat /\ call[r].version \in Nat
      BY <2>1 DEF Call
    <2>3. /\ call'[r].pc = call[r].pc /\ call'[r].actor = call[r].actor
          /\ call'[r].target = call[r].target /\ call'[r].version = call[r].version
          /\ call'[r].policy = call[r].policy /\ call'[r].review = call[r].review
          /\ call'[r].key = call[r].key /\ call'[r].answer = call[r].answer
      BY TouchFacts
    <2>4. CASE call[r].pc \notin {"preparing", "inspected"}
      BY <2>1, <2>3, <2>4 DEF CallGood, OperationsKept
    <2>5. CASE call[r].pc \in {"preparing", "inspected"}
      <3>1. Dated(call[r])
        BY <2>1, <2>5 DEF CallGood
      <3>2. Dated(call[r])'
        BY <3>1, <2>2, <2>3, <1>3 DEF Dated, Behind
      <3>3. QED
        BY <3>2, <2>1, <2>3, <2>5 DEF CallGood
    <2>6. QED
      BY <2>4, <2>5
  <1>6. QED
    BY <1>1, <1>4, <1>5, KeptOperations DEF IInv, RowsGood

(* Operations that stay as they are are kept. *)
LEMMA SameOperations ==
  ASSUME IInv, operation' = operation
  PROVE  OperationsKept
  BY DEF IInv, TypeOK, OperationsKept

(* A grant is set. *)
LEMMA SetGrantIInv ==
  ASSUME IInv, NEW a \in Users, NEW u \in Users, SetGrant(a, u)
  PROVE  IInv'
  <1>1. /\ policy' = policy + 1 /\ Touch
        /\ UNCHANGED <<role, connection, listed, facts, recent, operation>>
        /\ \E set \in SUBSET Classes : grants' = [grants EXCEPT ![u] = set]
    BY DEF SetGrant
  <1>2. /\ policy \in Nat /\ connection \in Connection /\ connection.version \in Nat
        /\ role \in [Users -> Roles \cup {"none"}] /\ grants \in [Users -> SUBSET Classes]
    BY DEF IInv, TypeOK, Connection
  <1>3. grants' \in [Users -> SUBSET Classes]
    BY <1>1, <1>2
  <1>4. QED
    BY <1>1, <1>2, <1>3, SameOperations, TouchStep

(* A membership changes. *)
LEMMA ChangeMemberIInv ==
  ASSUME IInv, NEW u \in Users, ChangeMember(u)
  PROVE  IInv'
  <1>1. /\ policy' = policy + 1 /\ Touch
        /\ UNCHANGED <<connection, listed, facts, recent, operation>>
    BY DEF ChangeMember
  <1>2. PICK new \in (Roles \cup {"none"}) \ {role[u]} :
          /\ role' = [role EXCEPT ![u] = new]
          /\ grants' = [grants EXCEPT ![u] = IF new = "none" THEN {} ELSE @]
    BY DEF ChangeMember
  <1>3. /\ policy \in Nat /\ connection \in Connection /\ connection.version \in Nat
        /\ role \in [Users -> Roles \cup {"none"}] /\ grants \in [Users -> SUBSET Classes]
    BY DEF IInv, TypeOK, Connection
  <1>4. role' \in [Users -> Roles \cup {"none"}] /\ grants' \in [Users -> SUBSET Classes]
    BY <1>2, <1>3
  <1>5. QED
    BY <1>1, <1>3, <1>4, SameOperations, TouchStep

(* The credential is replaced. *)
LEMMA RotateIInv ==
  ASSUME IInv, Rotate
  PROVE  IInv'
  <1>1. /\ Touch /\ UNCHANGED <<role, grants, policy, listed, facts, recent, operation>>
        /\ connection' = [connection EXCEPT !.version = connection.version + 1, !.verified = FALSE]
    BY DEF Rotate
  <1>2. /\ policy \in Nat /\ connection \in Connection /\ connection.version \in Nat
        /\ role \in [Users -> Roles \cup {"none"}] /\ grants \in [Users -> SUBSET Classes]
    BY DEF IInv, TypeOK, Connection
  <1>3. connection.version + 1 \in Nat
    BY <1>2
  <1>4. connection' \in Connection
    BY <1>1, <1>2, <1>3 DEF Connection
  <1>5. connection'.version = connection.version + 1 /\ connection'.status = connection.status
    BY <1>1, <1>2, <1>3 DEF Connection
  <1>6. QED
    BY <1>1, <1>2, <1>4, <1>5, SameOperations, TouchStep

(* The connection goes out of use; queued operations are held. *)
LEMMA DisableIInv ==
  ASSUME IInv, Disable
  PROVE  IInv'
  <1>1. /\ Touch /\ UNCHANGED <<role, grants, policy, listed, facts, recent>>
        /\ connection' = [connection EXCEPT !.status = "disabled"]
    BY DEF Disable
  <1>2. PICK queued \in SUBSET Live :
          operation' = [o \in Operations |->
                          IF o \in queued THEN [operation[o] EXCEPT !.state = "held"] ELSE operation[o]]
    BY DEF Disable
  <1>3. /\ policy \in Nat /\ connection \in Connection /\ connection.version \in Nat
        /\ role \in [Users -> Roles \cup {"none"}] /\ grants \in [Users -> SUBSET Classes]
        /\ operation \in [Operations -> Operation]
    BY DEF IInv, TypeOK, Connection
  <1>4. /\ connection' \in Connection /\ connection'.version = connection.version
        /\ connection'.status = "disabled"
    BY <1>1, <1>3 DEF Connection
  <1>5. ASSUME NEW o \in Operations
        PROVE  LET w == [operation[o] EXCEPT !.state = "held"]
               IN  /\ w \in Operation /\ w.state = "held" /\ w.actor = operation[o].actor
                   /\ w.key = operation[o].key /\ w.review = operation[o].review
                   /\ w.target = operation[o].target
    BY <1>3 DEF Operation
  <1>6. OperationsKept
    <2>1. operation' \in [Operations -> Operation]
      BY <1>2, <1>3, <1>5
    <2>2. \A o \in Operations : o \in queued => operation[o].state = "live"
      BY DEF Live
    <2>3. \A o \in Operations : operation'[o] = IF o \in queued THEN [operation[o] EXCEPT !.state = "held"]
                                                                ELSE operation[o]
      BY <1>2
    <2>4. QED
      BY <2>1, <2>2, <2>3, <1>5 DEF OperationsKept
  <1>7. QED
    BY <1>1, <1>3, <1>4, <1>6, TouchStep

(* The inventory, the provider and the age of sign-ins change nothing that  *)
(* is stored.                                                               *)
LEMMA OutsideIInv ==
  ASSUME IInv, UNCHANGED <<role, grants, policy, connection, review, operation, call>>,
         listed' \in SUBSET Targets, facts' \in [Targets -> Facts], recent' \in SUBSET Users
  PROVE  IInv'
  <1>1. TypeOK'
    BY DEF IInv, TypeOK
  <1>2. RowsGood'
    BY DEF IInv, RowsGood, ReviewGood, OperationGood, CallGood, Dated, Behind
  <1>3. OperationsApart'
    BY DEF IInv, OperationsApart
  <1>4. QED
    BY <1>1, <1>2, <1>3 DEF IInv

(* Every step keeps the invariant. *)
LEMMA NextIInv ==
  ASSUME ConstantsOK, IInv, [Next]_vars
  PROVE  IInv'
  <1>1. ASSUME NEW r \in Requests,
               \/ Prepare(r) \/ Inspect(r) \/ Reviewed(r)
               \/ Confirm(r) \/ InspectAgain(r) \/ Accept(r) \/ End(r)
        PROVE  IInv'
    BY <1>1, PrepareIInv, InspectIInv, ReviewedIInv, ConfirmIInv, InspectAgainIInv, AcceptIInv, EndIInv
  <1>2. ASSUME NEW u \in Users, Lapse(u)
        PROVE  IInv'
    BY <1>2, OutsideIInv DEF Lapse, IInv, TypeOK
  <1>3. ASSUME NEW t \in Targets, Publish(t)
        PROVE  IInv'
    BY <1>3, OutsideIInv DEF Publish, IInv, TypeOK
  <1>4. ASSUME NEW t \in Targets, Meddle(t)
        PROVE  IInv'
    BY <1>4, OutsideIInv DEF Meddle, IInv, TypeOK
  <1>5. CASE UNCHANGED vars
    BY <1>5, OutsideIInv DEF vars, IInv, TypeOK
  <1>6. ASSUME NEW u \in Users, ChangeMember(u)
        PROVE  IInv'
    BY <1>6, ChangeMemberIInv
  <1>7. QED
    BY <1>1, <1>2, <1>3, <1>4, <1>5, <1>6, ExpireIInv, OperationIInv, SetGrantIInv, RotateIInv,
       DisableIInv DEF Next

-----------------------------------------------------------------------------
(* Rows are well formed, dated and apart in every behaviour. *)
THEOREM AdmissionInvariant ==
  ASSUME ConstantsOK
  PROVE  Spec => []IInv
  <1>1. Init => IInv
    BY InitIInv
  <1>2. IInv /\ [Next]_vars => IInv'
    BY NextIInv
  <1>3. QED
    BY <1>1, <1>2, PTL DEF Spec

(* Memberships, grants, reviews, operations and requests keep their types.  *)
THEOREM AdmissionTypes ==
  ASSUME ConstantsOK
  PROVE  Spec => []TypeOK
  <1>1. IInv => TypeOK
    BY DEF IInv
  <1>2. QED
    BY <1>1, AdmissionInvariant, PTL

(* Operations apart, each of its own review, are one per review.            *)
LEMMA IInvAcceptsOnce ==
  ASSUME IInv
  PROVE  AcceptedOnce
  BY DEF IInv, OperationsApart, RowsGood, CallGood, AcceptedOnce

(* A review becomes at most one operation, whoever is answered is answered  *)
(* with it, and no target has two operations under way, however many        *)
(* confirmations run at once (Confirm, Resolve, Reserve).                   *)
THEOREM ReviewsBecomeOneOperation ==
  ASSUME ConstantsOK
  PROVE  Spec => []AcceptedOnce
  <1>1. IInv => AcceptedOnce
    BY IInvAcceptsOnce
  <1>2. QED
    BY <1>1, AdmissionInvariant, PTL

(* Only Accept makes an operation. *)
LEMMA OnlyAcceptMakes ==
  ASSUME IInv, [Next]_vars, NEW o \in Operations,
         operation[o].state = "unborn", operation'[o].state = "live"
  PROVE  \E r \in Requests : Accepts(r, o)
  <1>1. operation \in [Operations -> Operation]
    BY DEF IInv, TypeOK
  <1>2. ~(operation' = operation)
    OBVIOUS
  <1>3. ASSUME NEW p \in Operations, Settle(p) \/ Hold(p) \/ Recheck(p)
        PROVE  FALSE
    <2>1. OperationsKept
      BY <1>3, OneMoves DEF Settle, Hold, Recheck
    <2>2. QED
      BY <2>1 DEF OperationsKept
  <1>4. ~Disable
    BY SMTT(30) DEF Disable, Live
  <1>5. PICK r \in Requests : Accept(r)
    BY <1>2, <1>3, <1>4, ZenonT(40) DEF Next, vars, Prepare, Inspect, Reviewed, Confirm, Answer, InspectAgain, End,
       Expire, PruneReviews, SetGrant, ChangeMember, Lapse, Publish, Meddle, Rotate
  <1>6. PICK p \in Operations : Accepts(r, p)
    BY <1>2, <1>5, AcceptCases DEF Answer
  <1>7. p = o
    BY <1>1, <1>6 DEF Accepts
  <1>8. QED
    BY <1>6, <1>7

(* A review that is accepted is open, at the revisions it was dated with,   *)
(* and hence was not touched.                                               *)
LEMMA AcceptedUntouched ==
  ASSUME ConstantsOK, IInv, [Next]_vars
  PROVE  UntouchedWhenAccepted
  <1> SUFFICES ASSUME NEW o \in Operations,
                      operation[o].state = "unborn", operation'[o].state = "live"
               PROVE  ~review[operation'[o].review].touched
    BY DEF UntouchedWhenAccepted
  <1>1. PICK r \in Requests : Accepts(r, o)
    BY OnlyAcceptMakes
  <1> DEFINE v == call[r].review
  <1>2. v \in Reviews /\ operation \in [Operations -> Operation]
    BY <1>1, CallFacts DEF Accepts, CallGood, IInv, TypeOK
  <1>3. operation'[o].review = v
    BY <1>1, <1>2 DEF Accepts
  <1>4. /\ review[v].state = "open" /\ review[v].version = connection.version
        /\ review[v].policy = policy /\ connection.status = "active"
    BY <1>1 DEF Accepts, Check, Authority
  <1>5. Dated(review[v]) /\ policy \in Nat /\ connection.version \in Nat
    BY <1>2, <1>4, CallFacts DEF IInv, RowsGood, ReviewGood
  <1>6. ~Behind(review[v])
    BY <1>4, <1>5 DEF Behind
  <1>7. QED
    BY <1>3, <1>5, <1>6 DEF Dated

(* What is accepted is what was reviewed: nothing the review rests on has   *)
(* changed since the first read of its preparation, though both sides read  *)
(* the provider outside their transactions (Prepare, Confirm).              *)
THEOREM OnlyTheReviewedIsAccepted ==
  ASSUME ConstantsOK
  PROVE  Spec => AcceptedAsReviewed
  <1>1. IInv /\ [Next]_vars => UntouchedWhenAccepted
    BY AcceptedUntouched
  <1>2. QED
    BY <1>1, AdmissionInvariant, PTL DEF Spec, AcceptedAsReviewed
=============================================================================
