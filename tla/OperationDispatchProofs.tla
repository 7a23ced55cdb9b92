----------------------- MODULE OperationDispatchProofs -----------------------
(* Theorems about OperationDispatch, for every number of operations,        *)
(* targets and workers, every limit, with or without clock skew and stalls. *)
EXTENDS OperationDispatch, TLAPS

-----------------------------------------------------------------------------
(* What the row updates return *)

(* Ending or requeueing a job sets its state and keeps the row well formed. *)
LEMMA WithoutLeaseRow ==
  ASSUME NEW j \in JobRow, NEW s \in JobState
  PROVE  /\ WithoutLease(j, s) \in JobRow
         /\ WithoutLease(j, s).state = s
  BY DEF JobRow, WithoutLease

(* Changing the lease or the deadline of a row keeps its state. *)
LEMMA LeaseRow ==
  ASSUME NEW j \in JobRow, NEW b \in BOOLEAN
  PROVE  /\ WithLive(j, b) \in JobRow
         /\ WithLive(j, b).state = j.state
         /\ PastDeadline(j) \in JobRow
         /\ PastDeadline(j).state = j.state
  BY DEF JobRow, WithLive, PastDeadline

(* A rechecked row is queued. *)
LEMMA RestartedRow ==
  ASSUME NEW j \in JobRow
  PROVE  Restarted(j) \in JobRow /\ Restarted(j).state = "queued"
  <1>1. 0 \in 0..MaxAttempts /\ "queued" \in JobState
    BY ConstantsAssumption DEF JobState
  <1>2. QED
    BY <1>1 DEF JobRow, Restarted

(* A claim within the limit keeps the row well formed. *)
LEMMA LeasedRow ==
  ASSUME NEW j \in JobRow, j.attempts < MaxAttempts
  PROVE  Leased(j) \in JobRow /\ Leased(j).state = "running"
  <1>1. j.attempts + 1 \in 0..MaxAttempts /\ j.claims + 1 \in Nat /\ "running" \in JobState
    BY ConstantsAssumption DEF JobRow, JobState
  <1>2. (~j.overdue) \in BOOLEAN
    OBVIOUS
  <1>3. ASSUME NEW a \in 0..MaxAttempts, NEW c \in Nat, NEW s \in JobState, NEW b \in BOOLEAN
        PROVE  [j EXCEPT !.state = s, !.token = c, !.live = b, !.attempts = a, !.claims = c] \in JobRow
    BY DEF JobRow
  <1>4. Leased(j) \in JobRow
    BY <1>1, <1>2, <1>3 DEF Leased
  <1>5. Leased(j).state = "running"
    BY DEF Leased, JobRow
  <1>6. QED
    BY <1>4, <1>5

(* The empty row, and an idle worker, are well formed. *)
LEMMA Initials == NoJob \in JobRow /\ Idle \in WorkerState /\ Idle.pc = "idle"
  BY ConstantsAssumption DEF NoJob, JobRow, JobState, Idle, WorkerState, PC, OpState

(* Moving a worker's program counter and cancelling its context keep what   *)
(* it remembers.                                                            *)
LEMMA WorkerRow ==
  ASSUME NEW k \in WorkerState, NEW pc \in PC
  PROVE  /\ At(k, pc) \in WorkerState /\ At(k, pc).pc = pc /\ At(k, pc).op = k.op
         /\ Cancelled(k) \in WorkerState /\ Cancelled(k).pc = k.pc /\ Cancelled(k).op = k.op
         /\ Cancelled(k).seen = k.seen /\ Cancelled(k).ref = k.ref /\ Cancelled(k).got = k.got
  BY DEF WorkerState, At, Cancelled

(* A loaded plan is remembered until it is observed. *)
LEMMA PlanningRow ==
  ASSUME NEW k \in WorkerState, NEW s \in OpState, NEW b \in BOOLEAN
  PROVE  /\ Planning(k, s, b) \in WorkerState
         /\ Planning(k, s, b).pc = "observe"
         /\ Planning(k, s, b).op = k.op
         /\ Planning(k, s, b).seen = s
         /\ Planning(k, s, b).ref = b
  <1>1. "observe" \in PC
    BY DEF PC
  <1>2. QED
    BY <1>1 DEF WorkerState, Planning

(* An answer of the provider is remembered until it is recorded. *)
LEMMA AnsweredRow ==
  ASSUME NEW k \in WorkerState, NEW pc \in PC, NEW g \in ReceiptKind \cup OpState
  PROVE  /\ Answered(k, pc, g) \in WorkerState
         /\ Answered(k, pc, g).pc = pc
         /\ Answered(k, pc, g).op = k.op
         /\ Answered(k, pc, g).got = g
         /\ Answered(k, pc, g).seen = k.seen
         /\ Answered(k, pc, g).ref = k.ref
  BY DEF WorkerState, Answered

(* A worker that just claimed knows its operation. *)
LEMMA ClaimingRow ==
  ASSUME NEW o \in Ops, NEW n \in Nat
  PROVE  /\ Claiming(o, n) \in WorkerState
         /\ Claiming(o, n).pc = "claimed"
         /\ Claiming(o, n).op = o
  <1>1. "claimed" \in PC /\ o \in Ops \cup {NoOp} /\ "absent" \in OpState
    BY DEF PC, OpState
  <1>2. QED
    BY <1>1 DEF Claiming, Idle, WorkerState

(* The gate row stays well formed. *)
LEMMA GateUpdates ==
  ASSUME NEW g \in GateRow, NEW b \in BOOLEAN
  PROVE  GateSet(g, b) \in GateRow
  <1>1. g.version + 1 \in Nat /\ g.version \in Nat
    BY DEF GateRow
  <1>2. ASSUME NEW m \in Nat
        PROVE  [g EXCEPT !.open = b, !.version = m] \in GateRow
    BY DEF GateRow
  <1>3. QED
    BY <1>1, <1>2 DEF GateSet

(* Allowed leads to operation states, and the classifications return them.  *)
LEMMA StateRanges ==
  /\ \A from, to : Allowed(from, to) => to \in OpState /\ from \in OpState
  /\ \A r : ClassifyReceipt(r) \in {"failed", "waiting_provider", "reconciling"}
  /\ \A a, b : ClassifyObservation(a, b) \in OpState
  BY DEF Allowed, ClassifyReceipt, ClassifyObservation, OpState, InFlight, Terminal

-----------------------------------------------------------------------------
(* Type correctness is inductive as it stands: every transaction writes     *)
(* values of the columns' types, and no claim passes the attempt limit.     *)
LEMMA TypeStep == TypeOK /\ [Next]_vars => TypeOK'
<1> SUFFICES ASSUME TypeOK, [Next]_vars PROVE TypeOK'
  OBVIOUS
<1> USE ConstantsAssumption
<1>1. ASSUME NEW o \in Ops, Accept(o) PROVE TypeOK'
  BY <1>1, Initials, WithoutLeaseRow DEF Accept, Reserve, TypeOK, OpState, JobState
<1>2. ASSUME NEW o \in Ops, Cancel(o) PROVE TypeOK'
  BY <1>2, WithoutLeaseRow, StateRanges DEF Cancel, Advance, ReleaseTerminal, TypeOK, JobState
<1>3. ASSUME NEW o \in Ops, Recheck(o) PROVE TypeOK'
  BY <1>3, RestartedRow, StateRanges DEF Recheck, Advance, ReleaseTerminal, TypeOK
<1>4. ASSUME NEW o \in Ops, ReleaseUnknown(o) PROVE TypeOK'
  BY <1>4, WithoutLeaseRow DEF ReleaseUnknown, ReleaseTerminal, TypeOK, JobState
<1>5. ASSUME NEW o \in Ops, LeaseExpires(o) \/ DeadlinePasses(o) PROVE TypeOK'
  <2>1. ASSUME NEW w \in Workers
        PROVE  Cancelled(worker[w]) \in WorkerState /\ Cancelled(worker[w]).pc = worker[w].pc
               /\ Cancelled(worker[w]).op = worker[w].op
    BY WorkerRow DEF TypeOK, PC
  <2>2. WithLive(job[o], FALSE) \in JobRow /\ PastDeadline(job[o]) \in JobRow
    BY LeaseRow DEF TypeOK
  <2>3. /\ worker' \in [Workers -> WorkerState]
        /\ \A w \in Workers : worker'[w].pc # "idle" => worker'[w].op \in Ops
    <3>1. Watchdog(o)
      BY <1>5 DEF LeaseExpires, DeadlinePasses
    <3>2. QED
      BY <2>1, <3>1 DEF Watchdog, TypeOK
  <2>4. job' \in [Ops -> JobRow]
    BY <1>5, <2>2 DEF LeaseExpires, DeadlinePasses, TypeOK
  <2>5. QED
    BY <1>5, <2>3, <2>4 DEF LeaseExpires, DeadlinePasses, TypeOK
<1>6. ASSUME NEW o \in Ops, PruneTerminal(o) PROVE TypeOK'
  BY <1>6, WithoutLeaseRow DEF PruneTerminal, TypeOK, JobState
<1>7. ASSUME NEW o \in Ops, ProviderRuns(o) PROVE TypeOK'
  BY <1>7 DEF ProviderRuns, TypeOK, Effect
<1>8. ASSUME NEW w \in Workers, WorkerStep(w) PROVE TypeOK'
  <2> DEFINE o == worker[w].op
  <2>0. worker[w] \in WorkerState
    BY DEF TypeOK
  <2>1. CASE Load(w)
    <3>1. o \in Ops
      BY <2>1 DEF Load, TypeOK
    <3>2. op[o] \in OpState /\ ref[o] \in BOOLEAN /\ "check" \in PC
      BY <3>1 DEF TypeOK, PC
    <3>3. \E k \in WorkerState : worker' = [worker EXCEPT ![w] = k] /\ k.op = o
      <4>1. At(worker[w], "check") \in WorkerState /\ At(worker[w], "check").op = o
        BY <2>0, <3>2, WorkerRow
      <4>2. /\ Planning(worker[w], op[o], ref[o]) \in WorkerState
            /\ Planning(worker[w], op[o], ref[o]).op = o
        BY <2>0, <3>2, PlanningRow
      <4>3. \/ worker' = [worker EXCEPT ![w] = At(worker[w], "check")]
            \/ worker' = [worker EXCEPT ![w] = Planning(worker[w], op[o], ref[o])]
        BY <2>1 DEF Load, Goto
      <4>4. QED
        BY <4>1, <4>2, <4>3
    <3>4. QED
      BY <2>1, <3>1, <3>3 DEF Load, TypeOK
  <2>2. CASE Check(w)
    <3>1. o \in Ops /\ "inspect" \in PC /\ "reject" \in PC
      BY <2>2 DEF Check, TypeOK, PC
    <3>2. \E k \in WorkerState : worker' = [worker EXCEPT ![w] = k] /\ k.op = o
      BY <2>0, <2>2, <3>1, WorkerRow DEF Check, Goto
    <3>3. QED
      BY <2>2, <3>1, <3>2 DEF Check, TypeOK
  <2>2a. CASE CheckOutage(w)
    <3>1. o \in Ops /\ "reject" \in PC /\ "error" \in ReceiptKind \cup OpState
      BY <2>2a DEF CheckOutage, TypeOK, PC, ReceiptKind
    <3>2. \E k \in WorkerState : worker' = [worker EXCEPT ![w] = k] /\ k.op = o
      <4>1. /\ Answered(worker[w], "reject", "error") \in WorkerState
            /\ Answered(worker[w], "reject", "error").op = o
        BY <2>0, <3>1, AnsweredRow
      <4>2. worker' = [worker EXCEPT ![w] = Answered(worker[w], "reject", "error")]
        BY <2>2a DEF CheckOutage
      <4>3. QED
        BY <4>1, <4>2
    <3>3. QED
      BY <2>2a, <3>1, <3>2 DEF CheckOutage, TypeOK
  <2>3. CASE Inspect(w)
    <3>1. o \in Ops /\ "mark" \in PC /\ "reject" \in PC
      BY <2>3 DEF Inspect, TypeOK, PC
    <3>2. \E k \in WorkerState : worker' = [worker EXCEPT ![w] = k] /\ k.op = o
      BY <2>0, <2>3, <3>1, WorkerRow DEF Inspect, Goto
    <3>3. QED
      BY <2>3, <3>1, <3>2 DEF Inspect, TypeOK
  <2>4. CASE RejectUnsent(w)
    BY <2>4, Initials, WithoutLeaseRow, StateRanges
    DEF RejectUnsent, Advance, ReleaseTerminal, Return, TypeOK, JobState
  <2>5. CASE Mark(w)
    BY <2>0, <2>5, WorkerRow, StateRanges
    DEF Mark, Advance, ReleaseTerminal, Goto, TypeOK, PC
  <2>6. CASE Submit(w)
    <3>1. PICK a \in SubmitAnswers :
            /\ sent' = [sent EXCEPT ![o] = @ + (IF a.left THEN 1 ELSE 0)]
            /\ effect' = [effect EXCEPT ![o] = a.effect]
            /\ worker' = [worker EXCEPT ![w] = Answered(@, "receipt", a.receipt)]
      BY <2>6 DEF Submit
    <3>2. a.effect \in Effect /\ a.receipt \in ReceiptKind /\ "receipt" \in PC
      BY DEF SubmitAnswers, Effect, ReceiptKind, PC
    <3>3. o \in Ops
      BY <2>6 DEF Submit, MaySubmit, TypeOK
    <3>4. \E k \in WorkerState : worker' = [worker EXCEPT ![w] = k] /\ k.op = o
      <4>1. a.receipt \in ReceiptKind \cup OpState
        BY <3>2
      <4>2. /\ Answered(worker[w], "receipt", a.receipt) \in WorkerState
            /\ Answered(worker[w], "receipt", a.receipt).op = o
        BY <2>0, <3>2, <4>1, AnsweredRow
      <4>3. QED
        BY <3>1, <4>2
    <3>5. sent' \in [Ops -> Nat]
      <4> DEFINE n == sent[o] + (IF a.left THEN 1 ELSE 0)
      <4>1. n \in Nat
        BY <3>3 DEF TypeOK
      <4>2. sent' = [sent EXCEPT ![o] = n]
        BY <3>1
      <4> HIDE DEF n
      <4>3. QED
        BY <4>1, <4>2, <3>3 DEF TypeOK
    <3>6. QED
      BY <2>6, <3>1, <3>2, <3>3, <3>4, <3>5 DEF Submit, TypeOK
  <2>7. CASE Receipt(w)
    BY <2>7, Initials, WithoutLeaseRow, StateRanges
    DEF Receipt, Advance, ReleaseTerminal, Return, TypeOK, JobState
  <2>8. CASE Observe(w)
    <3>1. o \in Ops /\ "record" \in PC
      BY <2>8 DEF Observe, TypeOK, PC
    <3>2. \E k \in WorkerState : worker' = [worker EXCEPT ![w] = k] /\ k.op = o
      <4>1. PICK a : worker' = [worker EXCEPT ![w] =
                                 Answered(@, "record", ClassifyObservation(a, worker[w].ref))]
        BY <2>8 DEF Observe
      <4>2. ClassifyObservation(a, worker[w].ref) \in ReceiptKind \cup OpState
        BY StateRanges
      <4>3. /\ Answered(worker[w], "record", ClassifyObservation(a, worker[w].ref)) \in WorkerState
            /\ Answered(worker[w], "record", ClassifyObservation(a, worker[w].ref)).op = o
        BY <2>0, <3>1, <4>2, AnsweredRow
      <4>4. QED
        BY <4>1, <4>3
    <3>3. QED
      BY <2>8, <3>1, <3>2 DEF Observe, TypeOK
  <2>9. CASE Record(w)
    BY <2>9, Initials, WithoutLeaseRow, StateRanges
    DEF Record, AdvanceVia, Advance, ReleaseTerminal, Return, TypeOK, JobState
  <2>10. CASE Fail(w)
    BY <2>10, Initials DEF Fail, Return, TypeOK
  <2>11. QED
    BY <1>8, <2>1, <2>2, <2>2a, <2>3, <2>4, <2>5, <2>6, <2>7, <2>8, <2>9, <2>10 DEF WorkerStep
<1>9. ASSUME NEW w \in Workers, RenewLate(w) PROVE TypeOK'
  BY <1>9, LeaseRow DEF RenewLate, TypeOK
<1>10. ASSUME NEW w \in Workers, NEW o \in Ops, Claim(w, o) PROVE TypeOK'
  <2>1. Leased(job[o]) \in JobRow
    BY <1>10, LeasedRow DEF Claim, Claimable, TypeOK
  <2>2. job[o].claims + 1 \in Nat
    BY DEF TypeOK, JobRow
  <2>3. QED
    BY <1>10, <2>1, <2>2, ClaimingRow DEF Claim, TypeOK
<1>11. ASSUME NEW w \in Workers, NEW o \in Ops, Expire(w, o) PROVE TypeOK'
  BY <1>11, WithoutLeaseRow, StateRanges
  DEF Expire, AdvanceVia, Advance, ReleaseTerminal, TypeOK, JobState
<1>12. CASE Disable
  BY <1>12, WithoutLeaseRow DEF Disable, TypeOK, JobState
<1>13. CASE AuthorityChanges
  BY <1>13 DEF AuthorityChanges, TypeOK
<1>14. CASE CloseGate \/ OpenGate
  <2>1. gate' \in GateRow
    BY <1>14, GateUpdates DEF CloseGate, OpenGate, TypeOK
  <2>2. QED
    BY <1>14, <2>1 DEF CloseGate, OpenGate, TypeOK
<1>15. CASE UNCHANGED vars
  BY <1>15 DEF vars, TypeOK
<1>16. QED
  BY <1>1, <1>2, <1>3, <1>4, <1>5, <1>6, <1>7, <1>8, <1>9, <1>10, <1>11, <1>12,
     <1>13, <1>14, <1>15 DEF Next

(* Every reachable state is well typed (all transactions of the module).    *)
THEOREM TypeCorrect == Spec => []TypeOK
<1>1. Init => TypeOK
  BY ConstantsAssumption, Initials DEF Init, TypeOK, OpState, Effect, GateRow
<1>2. QED
  BY <1>1, TypeStep, PTL DEF Spec

-----------------------------------------------------------------------------
(* The inductive invariant behind at-most-once submission.  A marker is     *)
(* followed by at most one worker on its way through Submit (Unique), which *)
(* has not called yet (Uncalled); unsent and cancelled operations have no   *)
(* such worker (Untouched); a recorded reference means it is gone           *)
(* (Referenced); and what workers remember of receipts and observations is  *)
(* still true of the provider when they record it (Receipts, Plans,         *)
(* Failures).                                                               *)

Calling(w, o) == worker[w].op = o /\ worker[w].pc \in {"submit", "receipt"}

Untouched ==
  \A o \in Ops : op[o] \in {"absent", "queued", "cancelled"} =>
    sent[o] = 0 /\ effect[o] = "none" /\ \A w \in Workers : ~Calling(w, o)

Uncalled ==
  \A w \in Workers : worker[w].pc = "submit" =>
    sent[worker[w].op] = 0 /\ effect[worker[w].op] = "none"

Unique ==
  \A o \in Ops : \A v, w \in Workers : Calling(v, o) /\ Calling(w, o) => v = w

Referenced ==
  \A o \in Ops : ref[o] =>
    /\ op[o] \notin {"absent", "queued", "dispatching", "cancelled"}
    /\ \A w \in Workers : ~Calling(w, o)

Receipts ==
  \A w \in Workers : worker[w].pc = "receipt" /\ worker[w].got = "rejected" =>
    effect[worker[w].op] = "none"

Plans ==
  \A w \in Workers :
    /\ worker[w].pc \in {"observe", "record"} =>
         worker[w].seen \in InFlight /\ (worker[w].ref => ref[worker[w].op])
    /\ worker[w].pc = "record" =>
         /\ worker[w].got \in {"waiting_provider", "reconciling", "succeeded", "failed", "unknown"}
         /\ worker[w].got = "waiting_provider" => worker[w].ref
         /\ worker[w].got = "failed" => worker[w].ref /\ effect[worker[w].op] = "failed"

Failures ==
  \A o \in Ops : op[o] = "failed" =>
    /\ effect[o] \in {"none", "failed"}
    /\ \A w \in Workers : worker[w].op = o => worker[w].pc # "submit"

SubmitInv ==
  /\ AtMostOneSubmit /\ Untouched /\ Uncalled /\ Unique /\ Referenced
  /\ Receipts /\ Plans /\ Failures /\ WaitingHasReference

(* A step that touches none of the operations, references, requests and     *)
(* effects, and of a worker at most its context, keeps the invariant.       *)
LEMMA SubmitFrame ==
  ASSUME SubmitInv, UNCHANGED <<op, ref, sent, effect>>,
         \A w \in Workers : /\ worker'[w].pc = worker[w].pc
                             /\ worker'[w].op = worker[w].op
                             /\ worker'[w].seen = worker[w].seen
                             /\ worker'[w].ref = worker[w].ref
                             /\ worker'[w].got = worker[w].got
  PROVE  SubmitInv'
  <1>1. AtMostOneSubmit' /\ Untouched' /\ Uncalled' /\ WaitingHasReference'
    BY DEF SubmitInv, AtMostOneSubmit, Untouched, Uncalled, Calling, WaitingHasReference
  <1>2. Unique' /\ Referenced' /\ Receipts'
    BY DEF SubmitInv, Unique, Referenced, Receipts, Calling
  <1>3. Plans' /\ Failures'
    BY DEF SubmitInv, Plans, Failures
  <1>4. QED
    BY <1>1, <1>2, <1>3 DEF SubmitInv

(* A worker that moves without making or answering a call keeps it, when    *)
(* nothing else changes and it does not enter the calling path.             *)
LEMMA SubmitQuietMove ==
  ASSUME TypeOK, SubmitInv, UNCHANGED <<op, ref, sent, effect>>,
         NEW w \in Workers, NEW k, worker' = [worker EXCEPT ![w] = k],
         k.pc \notin {"submit", "receipt", "observe", "record"}
  PROVE  SubmitInv'
  <1>1. \A v \in Workers : worker'[v] = IF v = w THEN k ELSE worker[v]
    BY DEF TypeOK
  <1>2. AtMostOneSubmit' /\ Untouched' /\ Uncalled' /\ WaitingHasReference'
    BY <1>1 DEF SubmitInv, AtMostOneSubmit, Untouched, Uncalled, Calling, WaitingHasReference
  <1>3. Unique' /\ Referenced' /\ Receipts'
    BY <1>1 DEF SubmitInv, Unique, Referenced, Receipts, Calling
  <1>4. Plans' /\ Failures'
    BY <1>1 DEF SubmitInv, Plans, Failures
  <1>5. QED
    BY <1>2, <1>3, <1>4 DEF SubmitInv

(* A state change that is not the marker keeps it, if the new state agrees  *)
(* with what was sent: cancellation only of unsent work, failure only of    *)
(* unsent work or with the provider's evidence, waiting only with a         *)
(* reference.                                                               *)
LEMMA SubmitStateChange ==
  ASSUME TypeOK, SubmitInv, UNCHANGED <<ref, sent, effect>>,
         NEW o \in Ops, NEW to, op' = [op EXCEPT ![o] = to],
         \A v \in Workers : worker'[v] = worker[v] \/ worker'[v] = Idle,
         to \notin {"absent", "dispatching"},
         to \in {"queued", "cancelled"} => op[o] \in {"absent", "queued"},
         to = "failed" => op[o] = "queued" \/ (ref[o] /\ effect[o] = "failed"),
         to = "waiting_provider" => ref[o]
  PROVE  SubmitInv'
  <1>1. \A p \in Ops : op'[p] = IF p = o THEN to ELSE op[p]
    BY DEF TypeOK
  <1>2. Idle.pc = "idle"
    BY Initials
  <1>3. AtMostOneSubmit' /\ WaitingHasReference'
    BY <1>1 DEF SubmitInv, AtMostOneSubmit, WaitingHasReference
  <1>4. Untouched'
    BY <1>1, <1>2 DEF SubmitInv, Untouched, Calling
  <1>5. Uncalled' /\ Unique' /\ Receipts'
    BY <1>2 DEF SubmitInv, Uncalled, Unique, Receipts, Calling
  <1>6. Referenced'
    BY <1>1, <1>2 DEF SubmitInv, Referenced, Untouched, Calling
  <1>7. Plans'
    BY <1>2 DEF SubmitInv, Plans
  <1>8. Failures'
    BY <1>1, <1>2 DEF SubmitInv, Failures, Untouched, Referenced, Calling
  <1>9. QED
    BY <1>3, <1>4, <1>5, <1>6, <1>7, <1>8 DEF SubmitInv

(* The steps of a worker that write the marker, call, and record.           *)
LEMMA SubmitWorkerStep ==
  ASSUME TypeOK, SubmitInv, NEW w \in Workers, WorkerStep(w)
  PROVE  SubmitInv'
  <1> DEFINE o == worker[w].op
  <1>0. worker[w] \in WorkerState
    BY DEF TypeOK
  <1>1. CASE Load(w) \/ Check(w) \/ Inspect(w)
    <2>1. o \in Ops
      BY <1>1 DEF Load, Check, Inspect, TypeOK
    <2>2. /\ "check" \in PC /\ "inspect" \in PC /\ "reject" \in PC /\ "mark" \in PC
          /\ op[o] \in OpState /\ ref[o] \in BOOLEAN
      BY <2>1 DEF PC, TypeOK
    <2>3. UNCHANGED <<op, ref, sent, effect>>
      BY <1>1 DEF Load, Check, Inspect
    <2>4. CASE \E pc \in {"check", "inspect", "reject", "mark"} : Goto(w, pc)
      <3>1. PICK pc \in {"check", "inspect", "reject", "mark"} : worker' = [worker EXCEPT ![w] = At(@, pc)]
        BY <2>4 DEF Goto
      <3>2. At(worker[w], pc).pc = pc
        BY <1>0, <2>2, WorkerRow
      <3>3. QED
        BY <2>3, <3>1, <3>2, SubmitQuietMove
    <2>5. CASE op[o] \in InFlight /\ worker' = [worker EXCEPT ![w] = Planning(@, op[o], ref[o])]
      <3> DEFINE k == Planning(worker[w], op[o], ref[o])
      <3>1. k.pc = "observe" /\ k.op = o /\ k.seen = op[o] /\ k.ref = ref[o]
        BY <1>0, <2>2, PlanningRow
      <3>2. \A v \in Workers : worker'[v] = IF v = w THEN k ELSE worker[v]
        BY <2>5 DEF TypeOK
      <3> HIDE DEF k
      <3>3. AtMostOneSubmit' /\ Untouched' /\ Uncalled' /\ WaitingHasReference'
        BY <2>3, <3>1, <3>2 DEF SubmitInv, AtMostOneSubmit, Untouched, Uncalled, Calling, WaitingHasReference
      <3>4. Unique' /\ Referenced' /\ Receipts'
        BY <2>3, <3>1, <3>2 DEF SubmitInv, Unique, Referenced, Receipts, Calling
      <3>5. Plans' /\ Failures'
        BY <2>3, <2>5, <3>1, <3>2 DEF SubmitInv, Plans, Failures
      <3>6. QED
        BY <3>3, <3>4, <3>5 DEF SubmitInv
    <2>6. QED
      BY <1>1, <2>4, <2>5 DEF Load, Check, Inspect
  <1>2. CASE Fail(w)
    BY <1>2, Initials, SubmitQuietMove DEF Fail, Return
  <1>2a. CASE CheckOutage(w)
    <2>1. "reject" \in PC /\ "error" \in ReceiptKind \cup OpState
      BY DEF PC, ReceiptKind
    <2>2. Answered(worker[w], "reject", "error").pc = "reject"
      BY <1>0, <2>1, AnsweredRow
    <2>3. QED
      BY <1>2a, <2>2, SubmitQuietMove DEF CheckOutage
  <1>3. CASE RejectUnsent(w)
    <2>1. /\ o \in Ops /\ op[o] = "queued" /\ op' = [op EXCEPT ![o] = "failed"]
          /\ UNCHANGED <<ref, sent, effect>>
          /\ \A v \in Workers : worker'[v] = worker[v] \/ worker'[v] = Idle
      BY <1>3 DEF RejectUnsent, Advance, Return, TypeOK
    <2> HIDE DEF o
    <2>2. QED
      BY <2>1, SubmitStateChange
  <1>4. CASE Record(w)
    <2> DEFINE to == worker[w].got
    <2>1. /\ o \in Ops /\ op[o] = worker[w].seen /\ op' = [op EXCEPT ![o] = to]
          /\ UNCHANGED <<ref, sent, effect>>
          /\ \A v \in Workers : worker'[v] = worker[v] \/ worker'[v] = Idle
      BY <1>4 DEF Record, AdvanceVia, Advance, Return, TypeOK
    <2>2. /\ worker[w].ref => ref[o]
          /\ to \in {"waiting_provider", "reconciling", "succeeded", "failed", "unknown"}
          /\ to = "waiting_provider" => worker[w].ref
          /\ to = "failed" => worker[w].ref /\ effect[o] = "failed"
      BY <1>4 DEF Record, SubmitInv, Plans
    <2> HIDE DEF to
    <2>3. QED
      BY <2>1, <2>2, SubmitStateChange
  <1>5. CASE Mark(w)
    <2> DEFINE k == At(worker[w], "submit")
    <2>1. /\ o \in Ops /\ op[o] = "queued" /\ op' = [op EXCEPT ![o] = "dispatching"]
          /\ UNCHANGED <<ref, sent, effect>> /\ worker' = [worker EXCEPT ![w] = k]
      BY <1>5 DEF Mark, DispatchCheck, Advance, Goto, TypeOK
    <2>2. k.pc = "submit" /\ k.op = o
      <3>1. "submit" \in PC
        BY DEF PC
      <3>2. QED
        BY <1>0, <3>1, WorkerRow
    <2>3. /\ \A v \in Workers : worker'[v] = IF v = w THEN k ELSE worker[v]
          /\ \A p \in Ops : op'[p] = IF p = o THEN "dispatching" ELSE op[p]
      BY <2>1 DEF TypeOK
    <2> HIDE DEF k
    <2>4. AtMostOneSubmit' /\ Untouched' /\ Uncalled' /\ WaitingHasReference'
      BY <2>1, <2>2, <2>3 DEF SubmitInv, AtMostOneSubmit, Untouched, Uncalled, Calling, WaitingHasReference
    <2>5. Unique' /\ Receipts'
      BY <2>1, <2>2, <2>3 DEF SubmitInv, Unique, Receipts, Untouched, Calling
    <2>6. Referenced'
      BY <2>1, <2>2, <2>3 DEF SubmitInv, Referenced, Calling
    <2>7. Plans' /\ Failures'
      BY <2>1, <2>2, <2>3 DEF SubmitInv, Plans, Failures
    <2>8. QED
      BY <2>4, <2>5, <2>6, <2>7 DEF SubmitInv
  <1>6. CASE Submit(w)
    <2>1. PICK a \in SubmitAnswers :
            /\ sent' = [sent EXCEPT ![o] = @ + (IF a.left THEN 1 ELSE 0)]
            /\ effect' = [effect EXCEPT ![o] = a.effect]
            /\ worker' = [worker EXCEPT ![w] = Answered(@, "receipt", a.receipt)]
      BY <1>6 DEF Submit
    <2> DEFINE k == Answered(worker[w], "receipt", a.receipt)
    <2>2. /\ a.receipt \in ReceiptKind \cup OpState /\ "receipt" \in PC
          /\ a.receipt = "rejected" => a.effect = "none"
      BY DEF SubmitAnswers, ReceiptKind, PC
    <2>3. k.pc = "receipt" /\ k.op = o /\ k.got = a.receipt
      BY <1>0, <2>2, AnsweredRow
    <2>4. /\ o \in Ops /\ Calling(w, o) /\ worker[w].pc = "submit" /\ UNCHANGED <<op, ref>>
      BY <1>6 DEF Submit, MaySubmit, Calling, TypeOK
    <2>5. sent[o] = 0
      BY <2>4 DEF SubmitInv, Uncalled
    <2>6. sent'[o] \in {0, 1}
      BY <2>1, <2>4, <2>5 DEF TypeOK
    <2>7. /\ \A v \in Workers : worker'[v] = IF v = w THEN k ELSE worker[v]
          /\ \A p \in Ops : p # o => sent'[p] = sent[p] /\ effect'[p] = effect[p]
          /\ effect'[o] = a.effect
      BY <2>1, <2>4 DEF TypeOK
    <2> HIDE DEF k
    <2>8. AtMostOneSubmit' /\ WaitingHasReference'
      BY <2>4, <2>6, <2>7 DEF SubmitInv, AtMostOneSubmit, WaitingHasReference
    <2>9. Untouched'
      BY <2>3, <2>4, <2>7 DEF SubmitInv, Untouched, Calling
    <2>10. Uncalled'
      <3>1. ASSUME NEW v \in Workers, worker'[v].pc = "submit"
            PROVE  sent'[worker'[v].op] = 0 /\ effect'[worker'[v].op] = "none"
        <4>1. v # w /\ worker'[v] = worker[v] /\ worker[v].op \in Ops
          BY <2>3, <2>7, <3>1 DEF TypeOK
        <4>2. worker[v].op # o
          BY <2>4, <3>1, <4>1 DEF SubmitInv, Unique, Calling
        <4>3. QED
          BY <2>7, <3>1, <4>1, <4>2 DEF SubmitInv, Uncalled
      <3>2. QED
        BY <3>1 DEF Uncalled
    <2>11. Unique' /\ Referenced'
      BY <2>3, <2>4, <2>7 DEF SubmitInv, Unique, Referenced, Calling
    <2>12. Receipts'
      <3>1. ASSUME NEW v \in Workers, worker'[v].pc = "receipt", worker'[v].got = "rejected"
            PROVE  effect'[worker'[v].op] = "none"
        <4>1. CASE v = w
          BY <2>2, <2>3, <2>7, <3>1, <4>1
        <4>2. CASE v # w
          <5>1. worker'[v] = worker[v] /\ worker[v].op \in Ops
            BY <2>7, <3>1, <4>2 DEF TypeOK
          <5>2. worker[v].op # o
            BY <2>4, <3>1, <4>2, <5>1 DEF SubmitInv, Unique, Calling
          <5>3. QED
            BY <2>7, <3>1, <5>1, <5>2 DEF SubmitInv, Receipts
        <4>3. QED
          BY <4>1, <4>2
      <3>2. QED
        BY <3>1 DEF Receipts
    <2>13. Plans'
      <3>1. ~ref[o]
        BY <2>4 DEF SubmitInv, Referenced
      <3>2. \A v \in Workers : worker[v].pc # "idle" => worker[v].op \in Ops
        BY DEF TypeOK
      <3>3. QED
        BY <2>3, <2>4, <2>7, <3>1, <3>2 DEF SubmitInv, Plans
    <2>14. Failures'
      BY <2>3, <2>4, <2>7 DEF SubmitInv, Failures
    <2>15. QED
      BY <2>8, <2>9, <2>10, <2>11, <2>12, <2>13, <2>14 DEF SubmitInv
  <1>7. CASE Receipt(w)
    <2> DEFINE to == ClassifyReceipt(worker[w].got)
    <2>1. /\ o \in Ops /\ Calling(w, o) /\ worker[w].pc = "receipt" /\ op[o] = "dispatching"
          /\ op' = [op EXCEPT ![o] = to]
          /\ ref' = [ref EXCEPT ![o] = (to = "waiting_provider")]
          /\ worker' = [worker EXCEPT ![w] = Idle] /\ UNCHANGED <<sent, effect>>
      BY <1>7 DEF Receipt, Advance, Return, Calling, TypeOK
    <2>2. to \in {"failed", "waiting_provider", "reconciling"}
      BY StateRanges
    <2>3. to = "failed" => effect[o] = "none"
      BY <2>1 DEF ClassifyReceipt, SubmitInv, Receipts
    <2> HIDE DEF to
    <2>4. /\ \A v \in Workers : worker'[v] = IF v = w THEN Idle ELSE worker[v]
          /\ \A p \in Ops : op'[p] = IF p = o THEN to ELSE op[p]
          /\ \A p \in Ops : p # o => ref'[p] = ref[p]
          /\ ref'[o] <=> to = "waiting_provider"
      BY <2>1 DEF TypeOK
    <2>5. Idle.pc = "idle"
      BY Initials
    <2>6. \A v \in Workers : worker'[v].op = o => worker'[v].pc \notin {"submit", "receipt"}
      BY <2>1, <2>4, <2>5 DEF SubmitInv, Unique, Calling
    <2>7. AtMostOneSubmit' /\ WaitingHasReference'
      BY <2>1, <2>4 DEF SubmitInv, AtMostOneSubmit, WaitingHasReference
    <2>8. Untouched'
      BY <2>1, <2>2, <2>4, <2>5 DEF SubmitInv, Untouched, Calling
    <2>9. Uncalled' /\ Unique' /\ Receipts'
      BY <2>1, <2>4, <2>5 DEF SubmitInv, Uncalled, Unique, Receipts, Calling
    <2>10. Referenced'
      BY <2>1, <2>2, <2>4, <2>5, <2>6 DEF SubmitInv, Referenced, Calling
    <2>11. Plans'
      <3>1. ~ref[o]
        BY <2>1 DEF SubmitInv, Referenced
      <3>2. \A v \in Workers : worker[v].pc # "idle" => worker[v].op \in Ops
        BY DEF TypeOK
      <3>3. QED
        BY <2>1, <2>4, <2>5, <3>1, <3>2 DEF SubmitInv, Plans
    <2>12. Failures'
      BY <2>1, <2>3, <2>4, <2>5, <2>6 DEF SubmitInv, Failures, Calling
    <2>13. QED
      BY <2>7, <2>8, <2>9, <2>10, <2>11, <2>12 DEF SubmitInv
  <1>8. CASE Observe(w)
    <2>1. PICK a \in ObserveAnswers(o, worker[w].ref) :
            worker' = [worker EXCEPT ![w] = Answered(@, "record", ClassifyObservation(a, worker[w].ref))]
      BY <1>8 DEF Observe
    <2> DEFINE g == ClassifyObservation(a, worker[w].ref)
               k == Answered(worker[w], "record", g)
    <2>2. g \in ReceiptKind \cup OpState /\ "record" \in PC
      BY StateRanges DEF PC
    <2>3. /\ k.pc = "record" /\ k.op = o /\ k.got = g
          /\ k.seen = worker[w].seen /\ k.ref = worker[w].ref
      BY <1>0, <2>2, AnsweredRow
    <2>4. /\ g \in {"waiting_provider", "reconciling", "succeeded", "failed", "unknown"}
          /\ g = "waiting_provider" => worker[w].ref
          /\ g = "failed" => worker[w].ref /\ effect[o] = "failed"
      BY DEF ClassifyObservation, ObserveAnswers, AnswersAbout
    <2>5. /\ o \in Ops /\ worker[w].pc = "observe" /\ UNCHANGED <<op, ref, sent, effect>>
      BY <1>8 DEF Observe, TypeOK
    <2> HIDE DEF g, k
    <2>6. \A v \in Workers : worker'[v] = IF v = w THEN k ELSE worker[v]
      BY <2>1 DEF TypeOK, g, k
    <2>7. AtMostOneSubmit' /\ Untouched' /\ Uncalled' /\ WaitingHasReference'
      BY <2>3, <2>5, <2>6 DEF SubmitInv, AtMostOneSubmit, Untouched, Uncalled, Calling, WaitingHasReference
    <2>8. Unique' /\ Referenced' /\ Receipts'
      BY <2>3, <2>5, <2>6 DEF SubmitInv, Unique, Referenced, Receipts, Calling
    <2>9. Plans' /\ Failures'
      BY <2>3, <2>4, <2>5, <2>6 DEF SubmitInv, Plans, Failures
    <2>10. QED
      BY <2>7, <2>8, <2>9 DEF SubmitInv
  <1>9. QED
    BY <1>1, <1>2, <1>2a, <1>3, <1>4, <1>5, <1>6, <1>7, <1>8 DEF WorkerStep

(* Every step keeps the invariant. *)
LEMMA SubmitStep == TypeOK /\ SubmitInv /\ [Next]_vars => SubmitInv'
<1> SUFFICES ASSUME TypeOK, SubmitInv, [Next]_vars PROVE SubmitInv'
  OBVIOUS
<1>1. ASSUME NEW o \in Ops, Accept(o) PROVE SubmitInv'
  <2>1. /\ op[o] = "absent" /\ op' = [op EXCEPT ![o] = "queued"]
        /\ UNCHANGED <<ref, sent, effect, worker>>
    BY <1>1 DEF Accept
  <2>2. QED
    BY <2>1, SubmitStateChange
<1>2. ASSUME NEW o \in Ops, Cancel(o) PROVE SubmitInv'
  <2>1. /\ op[o] = "queued" /\ op' = [op EXCEPT ![o] = "cancelled"]
        /\ UNCHANGED <<ref, sent, effect, worker>>
    BY <1>2 DEF Cancel, Advance
  <2>2. QED
    BY <2>1, SubmitStateChange
<1>3. ASSUME NEW o \in Ops, Recheck(o) PROVE SubmitInv'
  <2>1. op' = [op EXCEPT ![o] = "reconciling"] /\ UNCHANGED <<ref, sent, effect, worker>>
    BY <1>3 DEF Recheck, Advance
  <2>2. QED
    BY <2>1, SubmitStateChange
<1>4. ASSUME NEW w \in Workers, NEW o \in Ops, Expire(w, o) PROVE SubmitInv'
  <2>1. UNCHANGED <<ref, sent, effect, worker>>
    BY <1>4 DEF Expire
  <2>2. CASE UNCHANGED op
    BY <2>1, <2>2, SubmitFrame
  <2>3. CASE op[o] = "queued" /\ op' = [op EXCEPT ![o] = "failed"]
    BY <2>1, <2>3, SubmitStateChange
  <2>4. CASE op' = [op EXCEPT ![o] = "unknown"]
    BY <2>1, <2>4, SubmitStateChange
  <2>5. QED
    BY <1>4, <2>2, <2>3, <2>4 DEF Expire, AdvanceVia, Advance
<1>5. ASSUME NEW w \in Workers, NEW o \in Ops, Claim(w, o) PROVE SubmitInv'
  <2>1. job[o].claims + 1 \in Nat
    BY DEF TypeOK, JobRow
  <2>2. Claiming(o, job[o].claims + 1).pc = "claimed"
    BY <2>1, ClaimingRow
  <2>3. QED
    BY <1>5, <2>2, SubmitQuietMove DEF Claim
<1>6. ASSUME NEW o \in Ops, LeaseExpires(o) \/ DeadlinePasses(o) PROVE SubmitInv'
  <2>1. Watchdog(o) /\ UNCHANGED <<op, ref, sent, effect>>
    BY <1>6 DEF LeaseExpires, DeadlinePasses
  <2>2. ASSUME NEW w \in Workers
        PROVE  LET k == Cancelled(worker[w]) IN
                 /\ k.pc = worker[w].pc /\ k.op = worker[w].op /\ k.seen = worker[w].seen
                 /\ k.ref = worker[w].ref /\ k.got = worker[w].got
    BY WorkerRow DEF TypeOK, PC
  <2>3. \A w \in Workers : worker'[w] \in {worker[w], Cancelled(worker[w])}
    BY <2>1 DEF Watchdog
  <2>4. QED
    BY <2>1, <2>2, <2>3, SubmitFrame
<1>7. ASSUME NEW o \in Ops, ProviderRuns(o) PROVE SubmitInv'
  <2>1. /\ effect[o] = "pending" /\ UNCHANGED <<op, ref, sent, worker>>
        /\ \A p \in Ops : p # o => effect'[p] = effect[p]
    BY <1>7 DEF ProviderRuns, TypeOK
  <2>2. \A w \in Workers : worker[w].pc # "idle" => worker[w].op \in Ops
    BY DEF TypeOK
  <2>3. AtMostOneSubmit' /\ Untouched' /\ Uncalled' /\ WaitingHasReference'
    BY <2>1, <2>2 DEF SubmitInv, AtMostOneSubmit, Untouched, Uncalled, Calling, WaitingHasReference
  <2>4. Unique' /\ Referenced' /\ Receipts'
    BY <2>1, <2>2 DEF SubmitInv, Unique, Referenced, Receipts, Calling
  <2>5. Plans' /\ Failures'
    BY <2>1, <2>2 DEF SubmitInv, Plans, Failures
  <2>6. QED
    BY <2>3, <2>4, <2>5 DEF SubmitInv
<1>8. ASSUME UNCHANGED <<op, ref, sent, effect, worker>> PROVE SubmitInv'
  BY <1>8, SubmitFrame
<1>9. QED
  BY <1>1, <1>2, <1>3, <1>4, <1>5, <1>6, <1>7, <1>8, SubmitWorkerStep
  DEF Next, ReleaseUnknown, PruneTerminal, RenewLate, Disable, AuthorityChanges,
      CloseGate, OpenGate, vars

(* The invariant holds of every behaviour. *)
THEOREM SubmitInvariant == Spec => []SubmitInv
<1>1. Init => SubmitInv
  BY Initials DEF Init, SubmitInv, AtMostOneSubmit, Untouched, Uncalled, Unique, Referenced,
    Receipts, Plans, Failures, WaitingHasReference, Calling
<1>2. QED
  BY <1>1, SubmitStep, TypeCorrect, PTL DEF Spec

(* At most one Submit request leaves for each operation, whatever claims,   *)
(* stalls, clock skew, crashes and rechecks happen (Work, receipt, observe).*)
THEOREM SubmittedAtMostOnce == Spec => []AtMostOneSubmit
<1>1. SubmitInv => AtMostOneSubmit
  BY DEF SubmitInv
<1>2. QED
  BY <1>1, SubmitInvariant, PTL

(* A cancelled operation was never submitted and never will be; a failed    *)
(* one had and will have no effect (Cancel, rejectUnsent, Expire, receipt). *)
THEOREM FailureIsHarmless == Spec => []FailureMeansNoEffect
<1>1. SubmitInv => FailureMeansNoEffect
  BY DEF SubmitInv, FailureMeansNoEffect, Untouched, Failures, Calling, MaySubmit
<1>2. QED
  BY <1>1, SubmitInvariant, PTL

(* Work that waits for the provider has the provider's reference (receipt,  *)
(* observe).                                                                *)
THEOREM WaitingIsReferenced == Spec => []WaitingHasReference
<1>1. SubmitInv => WaitingHasReference
  BY DEF SubmitInv
<1>2. QED
  BY <1>1, SubmitInvariant, PTL

-----------------------------------------------------------------------------
(* Operations, jobs and reservations agree: the reservation table is        *)
(* exactly the set of unsettled, unreleased operations, and a job is        *)
(* pending exactly when its operation still needs one.  Together with the   *)
(* plans workers remember (SubmitInv) these three are inductive.            *)
LedgerInv == ReservationExact /\ SettledStaysSettled /\ NoOrphanedOperation

(* A step that touches no operation, reservation, resolution or connection, *)
(* and keeps the states of the jobs up to a claim, keeps the ledger.        *)
LEMMA LedgerFrame ==
  ASSUME LedgerInv, UNCHANGED <<op, lock, released, conn>>,
         \A o \in Ops : job'[o].state = job[o].state \/ {job[o].state, job'[o].state} \subseteq Pending
  PROVE  LedgerInv'
  <1>1. \A o \in Ops : /\ job'[o].state \in Pending <=> job[o].state \in Pending
                       /\ job'[o].state = "absent" <=> job[o].state = "absent"
    BY DEF Pending
  <1>2. QED
    BY <1>1 DEF LedgerInv, ReservationExact, Holding, SettledStaysSettled, NoOrphanedOperation

(* A step from an unsettled operation to `to', with the row its transaction *)
(* leaves, keeps the ledger.                                                *)
LEMMA LedgerStateChange ==
  ASSUME TypeOK, LedgerInv, NEW o \in Ops, NEW to, NEW row,
         op' = [op EXCEPT ![o] = to], job' = [job EXCEPT ![o] = row],
         UNCHANGED <<released, conn>>,
         lock' = (IF to \in Terminal THEN ReleaseTerminal(o) ELSE lock),
         op[o] \notin Terminal \cup {"absent"}, ~released[o], to # "absent",
         to \in Terminal \cup {"unknown"} => row.state \notin Pending \cup {"absent"},
         to \notin Terminal \cup {"unknown"} => row.state \in Pending \/ (conn = "disabled" /\ row.state = job[o].state)
  PROVE  LedgerInv'
  <1>1. /\ \A p \in Ops : op'[p] = IF p = o THEN to ELSE op[p]
        /\ \A p \in Ops : job'[p] = IF p = o THEN row ELSE job[p]
    BY DEF TypeOK
  <1>2. ReservationExact'
    <2>1. CASE to \in Terminal
      BY <1>1, <2>1, ConstantsAssumption DEF LedgerInv, ReservationExact, Holding, ReleaseTerminal
    <2>2. CASE to \notin Terminal
      BY <1>1, <2>2 DEF LedgerInv, ReservationExact, Holding
    <2>3. QED
      BY <2>1, <2>2
  <1>3. SettledStaysSettled'
    BY <1>1 DEF LedgerInv, SettledStaysSettled
  <1>4. NoOrphanedOperation'
    BY <1>1 DEF LedgerInv, NoOrphanedOperation, InFlight, Terminal
  <1>5. QED
    BY <1>2, <1>3, <1>4 DEF LedgerInv

(* The pieces every worker transaction is made of keep the ledger. *)
LEMMA LedgerWorkerStep ==
  ASSUME TypeOK, SubmitInv, LedgerInv, NEW w \in Workers, WorkerStep(w)
  PROVE  LedgerInv'
  <1> DEFINE o == worker[w].op
  <1>1. CASE Load(w) \/ Check(w) \/ CheckOutage(w) \/ Inspect(w) \/ Submit(w) \/ Observe(w) \/ Fail(w)
    BY <1>1, LedgerFrame DEF Load, Check, CheckOutage, Inspect, Submit, Observe, Fail
  <1>2. CASE RejectUnsent(w)
    <2> DEFINE row == WithoutLease(job[o], "failed")
    <2>1. /\ o \in Ops /\ op[o] = "queued" /\ op' = [op EXCEPT ![o] = "failed"]
          /\ lock' = ReleaseTerminal(o) /\ job' = [job EXCEPT ![o] = row] /\ UNCHANGED <<released, conn>>
      BY <1>2 DEF RejectUnsent, Advance, Terminal, TypeOK
    <2>2. row.state = "failed"
      BY <2>1, WithoutLeaseRow DEF TypeOK, JobState
    <2>3. ~released[o]
      BY <2>1 DEF LedgerInv, SettledStaysSettled
    <2> HIDE DEF o, row
    <2>4. QED
      BY <2>1, <2>2, <2>3, LedgerStateChange DEF Terminal, Pending
  <1>3. CASE Mark(w)
    <2>1. /\ o \in Ops /\ op[o] = "queued" /\ conn = "active" /\ op' = [op EXCEPT ![o] = "dispatching"]
          /\ lock' = lock /\ UNCHANGED <<job, released, conn>>
      BY <1>3 DEF Mark, DispatchCheck, Advance, Terminal, TypeOK
    <2>2. job' = [job EXCEPT ![o] = job[o]]
      BY <2>1 DEF TypeOK
    <2>3. ~released[o] /\ job[o].state \in Pending
      BY <2>1 DEF LedgerInv, SettledStaysSettled, NoOrphanedOperation
    <2> HIDE DEF o
    <2>4. QED
      BY <2>1, <2>2, <2>3, LedgerStateChange DEF Terminal
  <1>4. CASE Receipt(w)
    <2> DEFINE to == ClassifyReceipt(worker[w].got)
               s == IF to = "failed" THEN "failed" ELSE "queued"
               row == WithoutLease(job[o], s)
    <2>1. /\ o \in Ops /\ op[o] = "dispatching" /\ op' = [op EXCEPT ![o] = to]
          /\ lock' = (IF to \in Terminal THEN ReleaseTerminal(o) ELSE lock)
          /\ job' = [job EXCEPT ![o] = row] /\ UNCHANGED <<released, conn>>
      BY <1>4 DEF Receipt, Advance, TypeOK
    <2>2. to \in {"failed", "waiting_provider", "reconciling"}
      BY StateRanges
    <2>3. row.state = s
      <3>1. s \in JobState
        BY DEF JobState
      <3>2. QED
        BY <2>1, <3>1, WithoutLeaseRow DEF TypeOK
    <2>4. ~released[o]
      BY <2>1 DEF LedgerInv, SettledStaysSettled
    <2>5. /\ to \in Terminal \cup {"unknown"} => row.state \notin Pending \cup {"absent"}
          /\ to \notin Terminal \cup {"unknown"} => row.state \in Pending
      BY <2>2, <2>3 DEF Terminal, Pending
    <2>6. to # "absent" /\ op[o] \notin Terminal \cup {"absent"}
      BY <2>1, <2>2 DEF Terminal
    <2> HIDE DEF o, to, row
    <2>7. QED
      BY <2>1, <2>4, <2>5, <2>6, LedgerStateChange
  <1>5. CASE Record(w)
    <2> DEFINE to == worker[w].got
               s == IF to \in Terminal \cup {"unknown"} THEN "succeeded" ELSE "queued"
               row == WithoutLease(job[o], s)
    <2>1. /\ o \in Ops /\ op[o] = worker[w].seen /\ op' = [op EXCEPT ![o] = to]
          /\ lock' = (IF to \in Terminal THEN ReleaseTerminal(o) ELSE lock)
          /\ job' = [job EXCEPT ![o] = row] /\ UNCHANGED <<released, conn>>
      BY <1>5 DEF Record, AdvanceVia, Advance, Terminal, TypeOK
    <2>2. op[o] \in InFlight /\ to \in {"waiting_provider", "reconciling", "succeeded", "failed", "unknown"}
      BY <1>5, <2>1 DEF Record, SubmitInv, Plans
    <2>3. row.state = s
      <3>1. s \in JobState
        BY DEF JobState
      <3>2. QED
        BY <2>1, <3>1, WithoutLeaseRow DEF TypeOK
    <2>4. ~released[o]
      BY <2>2, <2>1 DEF LedgerInv, SettledStaysSettled, InFlight
    <2>5. /\ to \in Terminal \cup {"unknown"} => row.state \notin Pending \cup {"absent"}
          /\ to \notin Terminal \cup {"unknown"} => row.state \in Pending
      BY <2>3 DEF Pending
    <2>6. to # "absent" /\ op[o] \notin Terminal \cup {"absent"}
      BY <2>2 DEF Terminal, InFlight
    <2> HIDE DEF o, to, row
    <2>7. QED
      BY <2>1, <2>4, <2>5, <2>6, LedgerStateChange
  <1>6. QED
    BY <1>1, <1>2, <1>3, <1>4, <1>5 DEF WorkerStep

(* Every step keeps the ledger. *)
LEMMA LedgerStep == TypeOK /\ SubmitInv /\ LedgerInv /\ [Next]_vars => LedgerInv'
<1> SUFFICES ASSUME TypeOK, SubmitInv, LedgerInv, [Next]_vars PROVE LedgerInv'
  OBVIOUS
<1>1. ASSUME NEW o \in Ops, Accept(o) PROVE LedgerInv'
  <2> DEFINE row == WithoutLease(NoJob, "queued")
  <2>1. row.state = "queued"
    BY Initials, WithoutLeaseRow DEF JobState
  <2> HIDE DEF row
  <2>2. /\ op[o] = "absent" /\ lock[TargetOf[o]] = NoOp
        /\ \A p \in Ops : op'[p] = IF p = o THEN "queued" ELSE op[p]
        /\ \A p \in Ops : job'[p] = IF p = o THEN row ELSE job[p]
        /\ \A t \in Targets : lock'[t] = IF t = TargetOf[o] THEN o ELSE lock[t]
        /\ UNCHANGED <<released, conn>>
    BY <1>1 DEF Accept, Reserve, TypeOK, row
  <2>3. ~released[o]
    BY <2>2 DEF LedgerInv, SettledStaysSettled
  <2>4. ReservationExact'
    BY <2>2, <2>3, ConstantsAssumption DEF LedgerInv, ReservationExact, Holding, Terminal
  <2>5. SettledStaysSettled' /\ NoOrphanedOperation'
    BY <2>1, <2>2, <2>3 DEF LedgerInv, SettledStaysSettled, NoOrphanedOperation, Terminal, Pending
  <2>6. QED
    BY <2>4, <2>5 DEF LedgerInv
<1>2. ASSUME NEW o \in Ops, Cancel(o) PROVE LedgerInv'
  <2> DEFINE row == IF job[o].state \in Pending THEN WithoutLease(job[o], "cancelled") ELSE job[o]
  <2>1. /\ op[o] = "queued" /\ op' = [op EXCEPT ![o] = "cancelled"] /\ lock' = ReleaseTerminal(o)
        /\ job' = [job EXCEPT ![o] = row] /\ UNCHANGED <<released, conn>>
    BY <1>2 DEF Cancel, Advance, Terminal, TypeOK
  <2>2. job[o].state # "absent" => row.state \notin Pending \cup {"absent"}
    BY WithoutLeaseRow DEF TypeOK, JobState, Pending
  <2>3. row.state \notin Pending
    BY WithoutLeaseRow DEF TypeOK, JobState, Pending
  <2>4. ~released[o]
    BY <2>1 DEF LedgerInv, SettledStaysSettled
  <2> HIDE DEF row
  <2>5. /\ \A p \in Ops : op'[p] = IF p = o THEN "cancelled" ELSE op[p]
        /\ \A p \in Ops : job'[p] = IF p = o THEN row ELSE job[p]
    BY <2>1 DEF TypeOK
  <2>6. ReservationExact'
    BY <2>1, <2>5, ConstantsAssumption DEF LedgerInv, ReservationExact, Holding, ReleaseTerminal, Terminal
  <2>7. SettledStaysSettled' /\ NoOrphanedOperation'
    BY <2>1, <2>3, <2>4, <2>5 DEF LedgerInv, SettledStaysSettled, NoOrphanedOperation, InFlight
  <2>8. QED
    BY <2>6, <2>7 DEF LedgerInv
<1>3. ASSUME NEW o \in Ops, Recheck(o) PROVE LedgerInv'
  <2> DEFINE row == Restarted(job[o])
  <2>1. /\ op[o] = "unknown" /\ op' = [op EXCEPT ![o] = "reconciling"] /\ lock' = lock
        /\ lock[TargetOf[o]] = o /\ job' = [job EXCEPT ![o] = row] /\ UNCHANGED <<released, conn>>
    BY <1>3 DEF Recheck, Advance, Terminal, TypeOK
  <2>2. row.state = "queued"
    BY RestartedRow DEF TypeOK
  <2>3. ~released[o]
    BY <2>1, ConstantsAssumption DEF LedgerInv, ReservationExact, Holding
  <2> HIDE DEF row
  <2>4. QED
    BY <2>1, <2>2, <2>3, LedgerStateChange DEF Terminal, Pending
<1>4. ASSUME NEW o \in Ops, ReleaseUnknown(o) PROVE LedgerInv'
  <2> DEFINE row == IF job[o].state = "absent" THEN job[o] ELSE WithoutLease(job[o], "cancelled")
  <2>1. /\ op[o] = "unknown" /\ lock' = ReleaseTerminal(o) /\ UNCHANGED <<op, conn>>
        /\ \A p \in Ops : released'[p] <=> p = o \/ released[p]
        /\ \A p \in Ops : job'[p] = IF p = o THEN row ELSE job[p]
    BY <1>4 DEF ReleaseUnknown, TypeOK
  <2>2. /\ row.state \notin Pending
        /\ job[o].state # "absent" => row.state # "absent"
    BY WithoutLeaseRow DEF TypeOK, JobState, Pending
  <2> HIDE DEF row
  <2>3. ReservationExact'
    BY <2>1, ConstantsAssumption DEF LedgerInv, ReservationExact, Holding, ReleaseTerminal
  <2>4. SettledStaysSettled' /\ NoOrphanedOperation'
    BY <2>1, <2>2 DEF LedgerInv, SettledStaysSettled, NoOrphanedOperation, InFlight
  <2>5. QED
    BY <2>3, <2>4 DEF LedgerInv
<1>5. ASSUME NEW w \in Workers, NEW o \in Ops, Expire(w, o) PROVE LedgerInv'
  <2> DEFINE to == IF op[o] = "queued" THEN "failed" ELSE "unknown"
             row == WithoutLease(job[o], "failed")
  <2>1. op[o] \notin Terminal \cup {"unknown"}
    BY <1>5 DEF Expire, Exhausted, LedgerInv, SettledStaysSettled
  <2>2. /\ op[o] # "absent" /\ op' = [op EXCEPT ![o] = to]
        /\ lock' = (IF to \in Terminal THEN ReleaseTerminal(o) ELSE lock)
        /\ job' = [job EXCEPT ![o] = row] /\ UNCHANGED <<released, conn>>
    BY <1>5, <2>1 DEF Expire, AdvanceVia, Advance, Allowed, Terminal
  <2>3. row.state = "failed"
    BY WithoutLeaseRow DEF TypeOK, JobState
  <2>4. ~released[o]
    BY <2>1 DEF LedgerInv, SettledStaysSettled
  <2>5. to \in Terminal \cup {"unknown"} /\ to # "absent"
    BY DEF Terminal
  <2> HIDE DEF to, row
  <2>6. QED
    BY <2>1, <2>2, <2>3, <2>4, <2>5, LedgerStateChange DEF Pending
<1>6. ASSUME NEW w \in Workers, NEW o \in Ops, Claim(w, o) PROVE LedgerInv'
  <2>1. job[o].state \in Pending /\ Leased(job[o]).state \in Pending
    BY <1>6, LeasedRow DEF Claim, Claimable, Pending, TypeOK
  <2>2. \A p \in Ops : job'[p] = IF p = o THEN Leased(job[o]) ELSE job[p]
    BY <1>6 DEF Claim, TypeOK
  <2>3. UNCHANGED <<op, lock, released, conn>>
    BY <1>6 DEF Claim
  <2>4. QED
    BY <2>1, <2>2, <2>3, LedgerFrame
<1>7. ASSUME NEW o \in Ops, LeaseExpires(o) \/ DeadlinePasses(o) PROVE LedgerInv'
  <2>1. /\ WithLive(job[o], FALSE).state = job[o].state
        /\ PastDeadline(job[o]).state = job[o].state
    BY LeaseRow DEF TypeOK
  <2>2. \A p \in Ops : job'[p] \in {job[p], WithLive(job[o], FALSE), PastDeadline(job[o])}
                       /\ (p # o => job'[p] = job[p])
    BY <1>7 DEF LeaseExpires, DeadlinePasses, TypeOK
  <2>3. UNCHANGED <<op, lock, released, conn>>
    BY <1>7 DEF LeaseExpires, DeadlinePasses
  <2>4. QED
    BY <2>1, <2>2, <2>3, LedgerFrame
<1>8. ASSUME NEW w \in Workers, RenewLate(w) PROVE LedgerInv'
  <2>1. worker[w].op \in Ops
    BY <1>8 DEF RenewLate, TypeOK
  <2>2. WithLive(job[worker[w].op], TRUE).state = job[worker[w].op].state
    BY <2>1, LeaseRow DEF TypeOK
  <2>3. \A p \in Ops : job'[p] = IF p = worker[w].op THEN WithLive(job[p], TRUE) ELSE job[p]
    BY <1>8, <2>1 DEF RenewLate, TypeOK
  <2>4. UNCHANGED <<op, lock, released, conn>>
    BY <1>8 DEF RenewLate
  <2>5. QED
    BY <2>2, <2>3, <2>4, LedgerFrame
<1>9. ASSUME NEW o \in Ops, PruneTerminal(o) PROVE LedgerInv'
  <2> DEFINE row == WithoutLease(job[o], "absent")
  <2>1. row.state = "absent"
    BY WithoutLeaseRow DEF TypeOK, JobState
  <2> HIDE DEF row
  <2>2. /\ op[o] \in Terminal /\ UNCHANGED <<op, lock, released, conn>>
        /\ \A p \in Ops : job'[p] = IF p = o THEN row ELSE job[p]
    BY <1>9 DEF PruneTerminal, Prunable, TypeOK, row
  <2>3. ReservationExact'
    BY <2>2 DEF LedgerInv, ReservationExact, Holding
  <2>4. SettledStaysSettled' /\ NoOrphanedOperation'
    BY <2>1, <2>2 DEF LedgerInv, SettledStaysSettled, NoOrphanedOperation, Terminal, InFlight, Pending
  <2>5. QED
    BY <2>3, <2>4 DEF LedgerInv
<1>10. ASSUME Disable PROVE LedgerInv'
  <2>1. \A o \in Ops : /\ job[o].state = "queued" => WithoutLease(job[o], "cancelled").state = "cancelled"
                       /\ job'[o] = IF job[o].state = "queued" THEN WithoutLease(job[o], "cancelled") ELSE job[o]
    BY <1>10, WithoutLeaseRow DEF Disable, TypeOK, JobState
  <2>2. conn' = "disabled" /\ UNCHANGED <<op, lock, released>>
    BY <1>10 DEF Disable
  <2>3. ReservationExact'
    BY <2>2 DEF LedgerInv, ReservationExact, Holding
  <2>4. SettledStaysSettled' /\ NoOrphanedOperation'
    BY <2>1, <2>2 DEF LedgerInv, SettledStaysSettled, NoOrphanedOperation, Pending
  <2>5. QED
    BY <2>3, <2>4 DEF LedgerInv
<1>11. ASSUME UNCHANGED <<op, lock, released, conn, job>> PROVE LedgerInv'
  BY <1>11, LedgerFrame
<1>12. QED
  BY <1>1, <1>2, <1>3, <1>4, <1>5, <1>6, <1>7, <1>8, <1>9, <1>10, <1>11, LedgerWorkerStep
  DEF Next, ProviderRuns, AuthorityChanges, CloseGate, OpenGate, vars

(* The ledger holds of every behaviour. *)
THEOREM LedgerInvariant == Spec => []LedgerInv
<1>1. Init => LedgerInv
  BY ConstantsAssumption DEF Init, LedgerInv, ReservationExact, Holding, SettledStaysSettled,
    NoOrphanedOperation, Terminal, InFlight, NoJob, Pending
<1>2. QED
  BY <1>1, LedgerStep, TypeCorrect, SubmitInvariant, PTL DEF Spec

(* The reservation table is exact: a target is held by the one unsettled    *)
(* operation on it, never twice, and never for longer (Reserve,             *)
(* ReleaseTerminal, ReleaseUnknown).                                        *)
THEOREM ReservationsAreExact == Spec => []ReservationExact
<1>1. LedgerInv => ReservationExact
  BY DEF LedgerInv
<1>2. QED
  BY <1>1, LedgerInvariant, PTL

(* A settled or released operation has no job left to claim and stays as it *)
(* is (Cancel, receipt, observe, Expire, ReleaseUnknown).                   *)
THEOREM SettledIsSettled == Spec => []SettledStaysSettled
<1>1. LedgerInv => SettledStaysSettled
  BY DEF LedgerInv
<1>2. QED
  BY <1>1, LedgerInvariant, PTL

(* Unless its connection is disabled, an unsettled operation has a pending  *)
(* job; an unknown one keeps the row a recheck needs (finishJob, Expire,    *)
(* PruneTerminal).                                                          *)
THEOREM NothingIsOrphaned == Spec => []NoOrphanedOperation
<1>1. LedgerInv => NoOrphanedOperation
  BY DEF LedgerInv
<1>2. QED
  BY <1>1, LedgerInvariant, PTL

-----------------------------------------------------------------------------
(* Leases and the workers that still have to call.  A token is issued once  *)
(* and belongs to one worker (TokensApart), rows that were never accepted   *)
(* issued none (Unborn).  Where clocks agree, a worker whose context is     *)
(* alive between its marker and its call still holds the lease, and nobody  *)
(* else moved its operation (SubmittersHoldLease): the three are inductive. *)

TokensApart ==
  /\ \A w \in Workers : worker[w].pc # "idle" =>
       worker[w].token > 0 /\ worker[w].token <= job[worker[w].op].claims
  /\ \A v, w \in Workers :
       /\ worker[v].pc # "idle" /\ worker[w].pc # "idle"
       /\ worker[v].op = worker[w].op /\ worker[v].token = worker[w].token
       => v = w

Unborn == \A o \in Ops : op[o] = "absent" => job[o].claims = 0 /\ job[o].state = "absent"

Submitting(w) == worker[w].pc = "submit" /\ worker[w].ctx

SubmittersHoldLease ==
  \A w \in Workers : Submitting(w) => HoldsLease(w) /\ op[worker[w].op] = "dispatching"

LeaseInv == TokensApart /\ Unborn

(* Only a claim issues a token; every other update of a row keeps the count *)
(* of those issued.                                                         *)
LEMMA ClaimsKept ==
  ASSUME NEW j \in JobRow, NEW s \in JobState, NEW b \in BOOLEAN
  PROVE  /\ WithoutLease(j, s).claims = j.claims
         /\ WithLive(j, b).claims = j.claims
         /\ PastDeadline(j).claims = j.claims
         /\ Restarted(j).claims = j.claims
         /\ Leased(j).claims = j.claims + 1
  BY DEF JobRow, WithoutLease, WithLive, PastDeadline, Restarted, Leased

(* A worker keeps its token and its context from its claim on; the watchdog *)
(* ends the context.                                                        *)
LEMMA TokenKept ==
  ASSUME NEW k \in WorkerState, NEW pc, NEW s, NEW b, NEW g
  PROVE  /\ At(k, pc).token = k.token /\ At(k, pc).ctx = k.ctx
         /\ Planning(k, s, b).token = k.token
         /\ Answered(k, pc, g).token = k.token
         /\ Cancelled(k).token = k.token /\ Cancelled(k).ctx = FALSE
  BY DEF WorkerState, At, Planning, Answered, Cancelled

(* The token of a claim is the number of the claim. *)
LEMMA ClaimToken ==
  ASSUME NEW o, NEW n
  PROVE  Claiming(o, n).token = n
  BY DEF Claiming, Idle

(* A step in which no row loses count and no worker gains a token keeps     *)
(* tokens apart.                                                            *)
LEMMA LeaseFrame ==
  ASSUME TypeOK, LeaseInv,
         \A o \in Ops : job[o].claims <= job'[o].claims /\ job'[o].claims \in Nat,
         \A o \in Ops : op'[o] = "absent" => op[o] = "absent" /\ job'[o] = job[o],
         \A w \in Workers :
           \/ worker'[w].pc = "idle"
           \/ /\ worker[w].pc # "idle" /\ worker'[w].op = worker[w].op
              /\ worker'[w].token = worker[w].token
  PROVE  LeaseInv'
  <1>1. \A w \in Workers : worker[w].pc # "idle" => worker[w].op \in Ops /\ worker[w].token \in Nat
    BY DEF TypeOK, WorkerState
  <1>2. \A o \in Ops : job[o].claims \in Nat
    BY DEF TypeOK, JobRow
  <1>3. TokensApart'
    <2>1. ASSUME NEW w \in Workers, worker'[w].pc # "idle"
          PROVE  worker'[w].token > 0 /\ worker'[w].token <= job'[worker'[w].op].claims
      <3>1. /\ worker[w].pc # "idle" /\ worker'[w].op = worker[w].op
            /\ worker'[w].token = worker[w].token
        BY <2>1
      <3>2. worker[w].token > 0 /\ worker[w].token <= job[worker[w].op].claims
        BY <3>1 DEF LeaseInv, TokensApart
      <3>3. worker[w].op \in Ops
        BY <3>1, <1>1
      <3>4. QED
        BY <3>1, <3>2, <3>3, <1>1, <1>2
    <2>2. ASSUME NEW v \in Workers, NEW w \in Workers, worker'[v].pc # "idle", worker'[w].pc # "idle",
                 worker'[v].op = worker'[w].op, worker'[v].token = worker'[w].token
          PROVE  v = w
      BY <2>2 DEF LeaseInv, TokensApart
    <2>3. QED
      BY <2>1, <2>2 DEF TokensApart
  <1>4. Unborn'
    BY DEF LeaseInv, Unborn
  <1>5. QED
    BY <1>3, <1>4 DEF LeaseInv

(* What a worker's step does to the rows and to its own token: it issues    *)
(* none, and writes to its operation's row only.                            *)
LEMMA WorkerKeepsToken ==
  ASSUME TypeOK, NEW w \in Workers, WorkerStep(w)
  PROVE  /\ \A v \in Workers \ {w} : worker'[v] = worker[v]
         /\ \/ worker'[w].pc = "idle"
            \/ worker[w].pc # "idle" /\ worker'[w].op = worker[w].op /\ worker'[w].token = worker[w].token
         /\ \A o \in Ops : job'[o].claims = job[o].claims
         /\ \A o \in Ops : o # worker[w].op => job'[o] = job[o] /\ op'[o] = op[o]
         /\ op'[worker[w].op] = "absent" => UNCHANGED <<job, op>>
  <1> DEFINE o == worker[w].op
  <1>0. worker[w] \in WorkerState /\ (worker[w].pc # "idle" => o \in Ops)
    BY DEF TypeOK
  <1>1. ASSUME NEW k, worker' = [worker EXCEPT ![w] = k],
               k.pc = "idle" \/ (worker[w].pc # "idle" /\ k.op = o /\ k.token = worker[w].token)
        PROVE  /\ \A v \in Workers \ {w} : worker'[v] = worker[v]
               /\ \/ worker'[w].pc = "idle"
                  \/ worker[w].pc # "idle" /\ worker'[w].op = o /\ worker'[w].token = worker[w].token
    BY <1>1 DEF TypeOK
  <1>2. \A p \in Ops : job[p] \in JobRow
    BY DEF TypeOK
  <1>3. CASE Load(w) \/ Check(w) \/ Inspect(w) \/ CheckOutage(w) \/ Submit(w) \/ Observe(w) \/ Fail(w)
    <2>1. UNCHANGED <<job, op>> /\ worker[w].pc # "idle"
      BY <1>3 DEF Load, Check, Inspect, CheckOutage, Submit, MaySubmit, Observe, Fail
    <2>2. op[o] \in OpState /\ ref[o] \in BOOLEAN
      BY <1>0, <2>1 DEF TypeOK
    <2>3. \E k : /\ worker' = [worker EXCEPT ![w] = k]
                 /\ k.pc = "idle" \/ (k.op = o /\ k.token = worker[w].token)
      <3>1. CASE Load(w) \/ Check(w) \/ Inspect(w)
        <4>1. /\ "check" \in PC /\ "inspect" \in PC /\ "reject" \in PC /\ "mark" \in PC
          BY DEF PC
        <4>2. CASE \E pc \in {"check", "inspect", "reject", "mark"} : Goto(w, pc)
          <5>1. PICK pc \in {"check", "inspect", "reject", "mark"} : worker' = [worker EXCEPT ![w] = At(worker[w], pc)]
            BY <4>2 DEF Goto
          <5>2. At(worker[w], pc).op = o /\ At(worker[w], pc).token = worker[w].token
            BY <1>0 DEF At, WorkerState
          <5>3. QED
            BY <5>1, <5>2
        <4>3. CASE worker' = [worker EXCEPT ![w] = Planning(worker[w], op[o], ref[o])]
          <5>1. Planning(worker[w], op[o], ref[o]).op = o /\ Planning(worker[w], op[o], ref[o]).token = worker[w].token
            BY <1>0 DEF Planning, WorkerState
          <5>2. QED
            BY <4>3, <5>1
        <4>4. QED
          BY <3>1, <4>2, <4>3 DEF Load, Check, Inspect
      <3>2. CASE CheckOutage(w) \/ Submit(w) \/ Observe(w)
        <4>1. \E pc, g : worker' = [worker EXCEPT ![w] = Answered(worker[w], pc, g)]
          BY <3>2 DEF CheckOutage, Submit, Observe
        <4>2. PICK pc, g : worker' = [worker EXCEPT ![w] = Answered(worker[w], pc, g)]
          BY <4>1
        <4>3. Answered(worker[w], pc, g).op = o /\ Answered(worker[w], pc, g).token = worker[w].token
          BY <1>0 DEF Answered, WorkerState
        <4>4. QED
          BY <4>2, <4>3
      <3>3. CASE Fail(w)
        BY <3>3, Initials DEF Fail, Return
      <3>4. QED
        BY <1>3, <3>1, <3>2, <3>3
    <2>4. QED
      BY <2>1, <2>3, <1>1
  <1>4. CASE RejectUnsent(w) \/ Receipt(w) \/ Record(w)
    <2>1. worker' = [worker EXCEPT ![w] = Idle] /\ worker[w].pc # "idle" /\ o \in Ops
      BY <1>4, <1>0 DEF RejectUnsent, Receipt, Record, Return
    <2>2. PICK s \in JobState : job' = [job EXCEPT ![o] = WithoutLease(job[o], s)]
      BY <1>4 DEF RejectUnsent, Receipt, Record, JobState
    <2>3. PICK to \in OpState \ {"absent"} : op' = [op EXCEPT ![o] = to]
      BY <1>4 DEF RejectUnsent, Receipt, Record, AdvanceVia, Advance, Allowed, OpState, InFlight, Terminal
    <2>4. WithoutLease(job[o], s).claims = job[o].claims
      BY <1>2, <2>1, ClaimsKept
    <2>5. \A p \in Ops : job'[p].claims = job[p].claims
      BY <2>1, <2>2, <2>4 DEF TypeOK
    <2>6. /\ \A p \in Ops : p # o => job'[p] = job[p] /\ op'[p] = op[p]
          /\ op'[o] # "absent"
      BY <2>1, <2>2, <2>3 DEF TypeOK
    <2>7. QED
      BY <2>1, <2>5, <2>6, <1>1, Initials
  <1>5. CASE Mark(w)
    <2>1. /\ worker[w].pc # "idle" /\ o \in Ops /\ UNCHANGED job /\ op' = [op EXCEPT ![o] = "dispatching"]
          /\ worker' = [worker EXCEPT ![w] = At(worker[w], "submit")]
      BY <1>5, <1>0 DEF Mark, Advance, Goto
    <2>2. "submit" \in PC
      BY DEF PC
    <2>3. At(worker[w], "submit").op = o /\ At(worker[w], "submit").token = worker[w].token
      BY <1>0, <2>2, WorkerRow, TokenKept
    <2>4. /\ \A p \in Ops : p # o => op'[p] = op[p]
          /\ op'[o] # "absent"
      BY <2>1 DEF TypeOK
    <2>5. QED
      BY <2>1, <2>3, <2>4, <1>1
  <1>6. QED
    BY <1>3, <1>4, <1>5 DEF WorkerStep

(* Every step keeps tokens apart: a claim issues a number above all earlier *)
(* ones, and an acceptance starts a row nobody has claimed.                 *)
LEMMA LeaseStep == TypeOK /\ LeaseInv /\ [Next]_vars => LeaseInv'
<1> SUFFICES ASSUME TypeOK, LeaseInv, [Next]_vars PROVE LeaseInv'
  OBVIOUS
<1>0. \A o \in Ops : job[o] \in JobRow /\ job[o].claims \in Nat
  BY DEF TypeOK, JobRow
<1>1. ASSUME UNCHANGED worker,
             \A o \in Ops : job'[o].claims = job[o].claims,
             \A o \in Ops : op'[o] = "absent" => op[o] = "absent" /\ job'[o] = job[o]
      PROVE  LeaseInv'
  BY <1>0, <1>1, LeaseFrame
<1>2. ASSUME NEW o \in Ops, NEW j, job' = [job EXCEPT ![o] = j], j.claims = job[o].claims,
             NEW to, op' = [op EXCEPT ![o] = to], to # "absent", UNCHANGED worker
      PROVE  LeaseInv'
  <2>1. /\ \A p \in Ops : job'[p].claims = job[p].claims
        /\ \A p \in Ops : op'[p] = "absent" => op[p] = "absent" /\ job'[p] = job[p]
    BY <1>2 DEF TypeOK
  <2>2. QED
    BY <1>1, <1>2, <2>1
<1>3. ASSUME NEW o \in Ops, NEW j, job' = [job EXCEPT ![o] = j], j.claims = job[o].claims,
             op[o] # "absent", UNCHANGED <<op, worker>>
      PROVE  LeaseInv'
  <2>1. /\ \A p \in Ops : job'[p].claims = job[p].claims
        /\ \A p \in Ops : op'[p] = "absent" => op[p] = "absent" /\ job'[p] = job[p]
    BY <1>3 DEF TypeOK
  <2>2. QED
    BY <1>1, <1>3, <2>1
<1>4. ASSUME NEW o \in Ops, job[o].state # "absent" PROVE op[o] # "absent"
  BY <1>4 DEF LeaseInv, Unborn
<1>5. ASSUME NEW o \in Ops, Accept(o) PROVE LeaseInv'
  <2>1. NoJob \in JobRow /\ "queued" \in JobState /\ NoJob.claims = 0
    BY Initials DEF JobState, NoJob
  <2>2. WithoutLease(NoJob, "queued").claims = 0
    BY <2>1, ClaimsKept
  <2>3. job[o].claims = 0
    BY <1>5 DEF Accept, LeaseInv, Unborn
  <2>4. QED
    BY <1>5, <1>2, <2>2, <2>3 DEF Accept
<1>6. ASSUME NEW o \in Ops, Cancel(o) PROVE LeaseInv'
  <2> DEFINE j == IF job[o].state \in Pending THEN WithoutLease(job[o], "cancelled") ELSE job[o]
  <2>1. j.claims = job[o].claims
    BY <1>0, ClaimsKept DEF JobState
  <2>2. job' = [job EXCEPT ![o] = j] /\ op' = [op EXCEPT ![o] = "cancelled"] /\ UNCHANGED worker
    BY <1>6 DEF Cancel, Advance
  <2>3. QED
    BY <1>2, <2>1, <2>2
<1>7. ASSUME NEW o \in Ops, Recheck(o) PROVE LeaseInv'
  <2>1. Restarted(job[o]).claims = job[o].claims
    BY <1>0, ClaimsKept DEF JobState
  <2>2. QED
    BY <1>7, <1>2, <2>1 DEF Recheck, Advance
<1>8. ASSUME NEW o \in Ops, ReleaseUnknown(o) PROVE LeaseInv'
  <2> DEFINE j == IF job[o].state = "absent" THEN job[o] ELSE WithoutLease(job[o], "cancelled")
  <2>1. j.claims = job[o].claims
    BY <1>0, ClaimsKept DEF JobState
  <2>2. job' = [job EXCEPT ![o] = j] /\ op[o] # "absent" /\ UNCHANGED <<op, worker>>
    BY <1>8 DEF ReleaseUnknown
  <2>3. QED
    BY <1>3, <2>1, <2>2
<1>9. ASSUME NEW o \in Ops, PruneTerminal(o) PROVE LeaseInv'
  <2>1. WithoutLease(job[o], "absent").claims = job[o].claims
    BY <1>0, ClaimsKept DEF JobState
  <2>2. job' = [job EXCEPT ![o] = WithoutLease(job[o], "absent")] /\ op[o] # "absent" /\ UNCHANGED <<op, worker>>
    BY <1>9 DEF PruneTerminal, Prunable, Terminal
  <2>3. QED
    BY <1>3, <2>1, <2>2
<1>10. ASSUME NEW o \in Ops, LeaseExpires(o) \/ DeadlinePasses(o) PROVE LeaseInv'
  <2>1. PICK j \in {WithLive(job[o], FALSE), PastDeadline(job[o])} : job' = [job EXCEPT ![o] = j]
    BY <1>10 DEF LeaseExpires, DeadlinePasses
  <2>2. j.claims = job[o].claims
    BY <1>0, <2>1, ClaimsKept DEF JobState
  <2>3. op[o] # "absent" /\ UNCHANGED op /\ Watchdog(o)
    BY <1>4, <1>10 DEF LeaseExpires, DeadlinePasses, Pending
  <2>4. ASSUME NEW w \in Workers
        PROVE  worker'[w].pc = worker[w].pc /\ worker'[w].op = worker[w].op /\ worker'[w].token = worker[w].token
    <3>1. worker'[w] = worker[w] \/ worker'[w] = Cancelled(worker[w])
      BY <2>3 DEF Watchdog
    <3>2. worker[w] \in WorkerState
      BY DEF TypeOK
    <3>3. QED
      BY <3>1, <3>2 DEF Cancelled, WorkerState
  <2>5. \A p \in Ops : /\ job[p].claims <= job'[p].claims /\ job'[p].claims \in Nat
                       /\ op'[p] = "absent" => op[p] = "absent" /\ job'[p] = job[p]
    BY <1>0, <2>1, <2>2, <2>3 DEF TypeOK
  <2>6. QED
    BY <2>4, <2>5, LeaseFrame
<1>11. ASSUME NEW w \in Workers, RenewLate(w) PROVE LeaseInv'
  <2>1. worker[w].op \in Ops
    BY <1>11 DEF RenewLate, TypeOK
  <2>2. job[worker[w].op].state # "absent"
    BY <1>11 DEF RenewLate
  <2>3. WithLive(job[worker[w].op], TRUE).claims = job[worker[w].op].claims
    BY <1>0, <2>1, ClaimsKept DEF JobState
  <2>4. QED
    BY <1>3, <1>4, <1>11, <2>1, <2>2, <2>3 DEF RenewLate
<1>12. ASSUME NEW w \in Workers, NEW o \in Ops, Expire(w, o) PROVE LeaseInv'
  <2>1. WithoutLease(job[o], "failed").claims = job[o].claims
    BY <1>0, ClaimsKept DEF JobState
  <2>2. /\ op[o] # "absent" /\ UNCHANGED worker
        /\ job' = [job EXCEPT ![o] = WithoutLease(job[o], "failed")]
    BY <1>4, <1>12 DEF Expire, Exhausted, Pending
  <2>3. UNCHANGED op \/ \E to \in {"failed", "unknown"} : op' = [op EXCEPT ![o] = to]
    BY <1>12 DEF Expire, AdvanceVia, Advance
  <2>4. QED
    BY <1>2, <1>3, <2>1, <2>2, <2>3
<1>13. ASSUME NEW w \in Workers, NEW o \in Ops, Claim(w, o) PROVE LeaseInv'
  <2> DEFINE n == job[o].claims + 1
             k == Claiming(o, n)
  <2>1. n \in Nat /\ n > job[o].claims
    BY <1>0
  <2>2. k.pc = "claimed" /\ k.op = o /\ k.token = n
    BY <2>1, ClaimingRow, ClaimToken
  <2>3. Leased(job[o]).claims = n
    BY <1>0, ClaimsKept DEF JobState
  <2>4. /\ \A v \in Workers : worker'[v] = IF v = w THEN k ELSE worker[v]
        /\ \A p \in Ops : job'[p] = IF p = o THEN Leased(job[o]) ELSE job[p]
        /\ UNCHANGED op
    BY <1>13 DEF Claim, TypeOK
  <2>5. op[o] # "absent"
    BY <1>4, <1>13 DEF Claim, Claimable
  <2>6. \A v \in Workers : worker[v].pc # "idle" => worker[v].op \in Ops /\ worker[v].token \in Nat
    BY DEF TypeOK, WorkerState
  <2> HIDE DEF n, k
  <2>7. \A p \in Ops : job[p].claims <= job'[p].claims /\ (p = o => job'[p].claims = n)
    BY <1>0, <2>1, <2>3, <2>4
  <2>8. Unborn'
    BY <2>4, <2>5 DEF LeaseInv, Unborn
  <2>9. ASSUME NEW v \in Workers, worker'[v].pc # "idle"
        PROVE  worker'[v].token > 0 /\ worker'[v].token <= job'[worker'[v].op].claims
    <3>1. CASE v = w
      <4>1. worker'[v].token = n /\ worker'[v].op = o /\ job'[o].claims = n
        BY <3>1, <2>2, <2>4, <2>7
      <4>2. n > 0
        BY <1>0, <2>1
      <4>3. QED
        BY <4>1, <4>2, <2>1
    <3>2. CASE v # w
      <4>1. worker'[v] = worker[v]
        BY <3>2, <2>4
      <4>2. worker[v].pc # "idle" /\ worker[v].op \in Ops /\ worker[v].token \in Nat
        BY <4>1, <2>9, <2>6
      <4>3. worker[v].token > 0 /\ worker[v].token <= job[worker[v].op].claims
        BY <4>2 DEF LeaseInv, TokensApart
      <4>4. job[worker[v].op].claims <= job'[worker[v].op].claims
        BY <4>2, <2>7
      <4>5. job'[worker[v].op].claims \in Nat
        BY <4>2, <2>1, <2>3, <2>4, <1>0
      <4>6. QED
        BY <4>1, <4>2, <4>3, <4>4, <4>5, <1>0
    <3>3. QED
      BY <3>1, <3>2
  <2>10. ASSUME NEW v \in Workers, worker[v].pc # "idle", worker[v].op = o PROVE worker[v].token # n
    <3>1. worker[v].token <= job[o].claims
      BY <2>10 DEF LeaseInv, TokensApart
    <3>2. QED
      BY <3>1, <2>1, <2>6, <2>10, <1>0
  <2>11. ASSUME NEW u \in Workers, NEW v \in Workers, worker'[u].pc # "idle", worker'[v].pc # "idle",
                worker'[u].op = worker'[v].op, worker'[u].token = worker'[v].token
         PROVE  u = v
    <3>1. CASE u # w /\ v # w
      BY <2>4, <2>11, <3>1 DEF LeaseInv, TokensApart
    <3>2. CASE u = w /\ v # w
      BY <2>2, <2>4, <2>10, <2>11, <3>2
    <3>3. CASE u # w /\ v = w
      BY <2>2, <2>4, <2>10, <2>11, <3>3
    <3>4. QED
      BY <3>1, <3>2, <3>3
  <2>12. QED
    BY <2>8, <2>9, <2>11 DEF LeaseInv, TokensApart
<1>14. ASSUME NEW w \in Workers, WorkerStep(w) PROVE LeaseInv'
  <2>1. /\ \A v \in Workers \ {w} : worker'[v] = worker[v]
        /\ \/ worker'[w].pc = "idle"
           \/ worker[w].pc # "idle" /\ worker'[w].op = worker[w].op /\ worker'[w].token = worker[w].token
        /\ \A o \in Ops : job'[o].claims = job[o].claims
        /\ \A o \in Ops : o # worker[w].op => job'[o] = job[o] /\ op'[o] = op[o]
        /\ op'[worker[w].op] = "absent" => UNCHANGED <<job, op>>
    BY <1>14, WorkerKeepsToken
  <2>2. \A o \in Ops : /\ job[o].claims <= job'[o].claims /\ job'[o].claims \in Nat
                       /\ op'[o] = "absent" => op[o] = "absent" /\ job'[o] = job[o]
    BY <1>0, <2>1
  <2>3. \A v \in Workers : \/ worker'[v].pc = "idle"
                           \/ /\ worker[v].pc # "idle" /\ worker'[v].op = worker[v].op
                              /\ worker'[v].token = worker[v].token
    BY <2>1
  <2>4. QED
    BY <2>2, <2>3, LeaseFrame
<1>15. ASSUME Disable PROVE LeaseInv'
  <2>1. /\ \A o \in Ops : job'[o] = IF job[o].state = "queued" THEN WithoutLease(job[o], "cancelled") ELSE job[o]
        /\ UNCHANGED <<op, worker>>
    BY <1>15 DEF Disable
  <2>2. \A o \in Ops : WithoutLease(job[o], "cancelled").claims = job[o].claims
    BY <1>0, ClaimsKept DEF JobState
  <2>3. \A o \in Ops : op[o] = "absent" => job'[o] = job[o]
    BY <2>1 DEF LeaseInv, Unborn
  <2>4. QED
    BY <1>1, <2>1, <2>2, <2>3
<1>16. ASSUME UNCHANGED <<op, job, worker>> PROVE LeaseInv'
  BY <1>1, <1>16
<1>17. QED
  BY <1>5, <1>6, <1>7, <1>8, <1>9, <1>10, <1>11, <1>12, <1>13, <1>14, <1>15, <1>16
  DEF Next, ProviderRuns, AuthorityChanges, CloseGate, OpenGate, vars

(* No lease token is ever issued twice for one row, so a worker that passes *)
(* the token check of dispatchLoad is the one that claimed last.            *)
THEOREM TokensAreFresh == Spec => []LeaseInv
<1>1. Init => LeaseInv
  BY Initials DEF Init, LeaseInv, TokensApart, Unborn, NoJob
<1>2. QED
  BY <1>1, LeaseStep, TypeCorrect, PTL DEF Spec

(* Only the marker puts a worker on its way to a call. *)
LEMMA OnlyMarkerSubmits ==
  ASSUME TypeOK, NEW w \in Workers, WorkerStep(w), ~Mark(w)
  PROVE  worker'[w].pc # "submit"
  <1> DEFINE o == worker[w].op
  <1>0. worker[w] \in WorkerState
    BY DEF TypeOK
  <1>1. CASE Load(w) \/ Check(w) \/ Inspect(w)
    <2>1. /\ "check" \in PC /\ "inspect" \in PC /\ "reject" \in PC /\ "mark" \in PC
      BY DEF PC
    <2>2. \/ \E pc \in {"check", "inspect", "reject", "mark"} : worker'[w] = At(worker[w], pc)
          \/ worker'[w] = Planning(worker[w], op[o], ref[o])
      BY <1>1 DEF Load, Check, Inspect, Goto, TypeOK
    <2>3. \A pc \in {"check", "inspect", "reject", "mark"} : At(worker[w], pc).pc = pc
      BY <1>0, <2>1, WorkerRow
    <2>4. Planning(worker[w], op[o], ref[o]).pc = "observe"
      BY <1>0 DEF Planning, WorkerState
    <2>5. QED
      BY <2>2, <2>3, <2>4
  <1>2. CASE CheckOutage(w) \/ Submit(w) \/ Observe(w)
    <2>1. \E pc \in {"reject", "receipt", "record"} : \E g : worker'[w] = Answered(worker[w], pc, g)
      BY <1>2 DEF CheckOutage, Submit, Observe, TypeOK
    <2>2. \A pc \in {"reject", "receipt", "record"} : \A g : Answered(worker[w], pc, g).pc = pc
      BY <1>0 DEF Answered, WorkerState
    <2>3. QED
      BY <2>1, <2>2
  <1>3. CASE RejectUnsent(w) \/ Receipt(w) \/ Record(w) \/ Fail(w)
    BY <1>3, Initials DEF RejectUnsent, Receipt, Record, Fail, Return, TypeOK
  <1>4. QED
    BY <1>1, <1>2, <1>3 DEF WorkerStep

(* A step that leaves every worker still to submit with the context,        *)
(* operation, token and job row it had keeps their leases.                  *)
LEMMA SubmitterFrame ==
  ASSUME SubmittersHoldLease,
         \A v \in Workers : Submitting(v)' =>
           /\ Submitting(v) /\ worker'[v].op = worker[v].op /\ worker'[v].token = worker[v].token
           /\ job'[worker[v].op] = job[worker[v].op] /\ op'[worker[v].op] = op[worker[v].op]
  PROVE  SubmittersHoldLease'
  <1>1. ASSUME NEW v \in Workers, Submitting(v)'
        PROVE  HoldsLease(v)' /\ op'[worker'[v].op] = "dispatching"
    <2>1. HoldsLease(v) /\ op[worker[v].op] = "dispatching"
      BY <1>1 DEF SubmittersHoldLease
    <2>2. QED
      BY <1>1, <2>1 DEF HoldsLease
  <1>2. QED
    BY <1>1 DEF SubmittersHoldLease

(* Where clocks agree, every step leaves the workers that still have to     *)
(* submit in possession of their lease: users can move only queued and      *)
(* unknown work, Claim and Expire only rows without a live lease, another   *)
(* worker fails the token check, and the end of the lease ends the context. *)
LEMMA SubmitterStep ==
  ~ClockSkew /\ TypeOK /\ LeaseInv /\ SubmittersHoldLease /\ [Next]_vars => SubmittersHoldLease'
<1> SUFFICES ASSUME ~ClockSkew, TypeOK, LeaseInv, SubmittersHoldLease, [Next]_vars
             PROVE  SubmittersHoldLease'
  OBVIOUS
<1>0. ASSUME NEW v \in Workers, Submitting(v)
      PROVE  /\ worker[v].op \in Ops /\ op[worker[v].op] = "dispatching" /\ HoldsLease(v)
             /\ job[worker[v].op].state = "running" /\ job[worker[v].op].token = worker[v].token
             /\ job[worker[v].op].live
  BY <1>0 DEF TypeOK, Submitting, SubmittersHoldLease, HoldsLease
<1>1. ASSUME NEW o \in Ops, UNCHANGED worker,
             \A v \in Workers : Submitting(v) => worker[v].op # o,
             \A p \in Ops : p # o => job'[p] = job[p] /\ op'[p] = op[p]
      PROVE  SubmittersHoldLease'
  <2>1. \A v \in Workers : Submitting(v)' =>
           /\ Submitting(v) /\ worker'[v].op = worker[v].op /\ worker'[v].token = worker[v].token
           /\ job'[worker[v].op] = job[worker[v].op] /\ op'[worker[v].op] = op[worker[v].op]
    BY <1>0, <1>1 DEF Submitting
  <2>2. QED
    BY <2>1, SubmitterFrame
<1>2. ASSUME NEW o \in Ops, Accept(o) \/ Cancel(o) \/ Recheck(o) \/ ReleaseUnknown(o) \/ PruneTerminal(o)
      PROVE  SubmittersHoldLease'
  <2>1. UNCHANGED worker
    BY <1>2 DEF Accept, Cancel, Recheck, ReleaseUnknown, PruneTerminal
  <2>2. op[o] # "dispatching"
    BY <1>2 DEF Accept, Cancel, Recheck, ReleaseUnknown, PruneTerminal, Prunable, Terminal
  <2>3. \A p \in Ops : p # o => job'[p] = job[p] /\ op'[p] = op[p]
    BY <1>2 DEF Accept, Cancel, Recheck, ReleaseUnknown, PruneTerminal, Advance, TypeOK
  <2>4. QED
    BY <1>0, <1>1, <2>1, <2>2, <2>3
<1>3. ASSUME NEW w \in Workers, NEW o \in Ops, Expire(w, o) PROVE SubmittersHoldLease'
  <2>1. UNCHANGED worker /\ ~job[o].live
    BY <1>3 DEF Expire, Exhausted
  <2>2. \A p \in Ops : p # o => job'[p] = job[p] /\ op'[p] = op[p]
    BY <1>3 DEF Expire, AdvanceVia, Advance, TypeOK
  <2>3. QED
    BY <1>0, <1>1, <2>1, <2>2
<1>4. ASSUME NEW o \in Ops, LeaseExpires(o) \/ DeadlinePasses(o) PROVE SubmittersHoldLease'
  <2>1. Watchdog(o) /\ UNCHANGED op
    BY <1>4 DEF LeaseExpires, DeadlinePasses
  <2>2. \A p \in Ops : p # o => job'[p] = job[p]
    BY <1>4 DEF LeaseExpires, DeadlinePasses, TypeOK
  <2>3. ASSUME NEW v \in Workers, Submitting(v)'
        PROVE  /\ Submitting(v) /\ worker'[v].op = worker[v].op /\ worker'[v].token = worker[v].token
               /\ job'[worker[v].op] = job[worker[v].op] /\ op'[worker[v].op] = op[worker[v].op]
    <3>1. worker[v] \in WorkerState
      BY DEF TypeOK
    <3>2. Cancelled(worker[v]).ctx = FALSE
      BY <3>1 DEF Cancelled, WorkerState
    <3>3. worker'[v] = worker[v] /\ ~(worker[v].op = o /\ worker[v].token = job[o].token)
      BY <2>1, <2>3, <3>2 DEF Watchdog, Submitting
    <3>4. Submitting(v)
      BY <2>3, <3>3 DEF Submitting
    <3>5. worker[v].op # o /\ worker[v].op \in Ops
      BY <1>0, <3>3, <3>4
    <3>6. QED
      BY <2>1, <2>2, <3>3, <3>4, <3>5
  <2>4. QED
    BY <2>3, SubmitterFrame
<1>5. ASSUME NEW w \in Workers, NEW o \in Ops, Claim(w, o) PROVE SubmittersHoldLease'
  <2>1. job[o].claims + 1 \in Nat
    BY DEF TypeOK, JobRow
  <2>2. Claiming(o, job[o].claims + 1).pc = "claimed"
    BY <2>1, ClaimingRow
  <2>3. /\ \A v \in Workers : worker'[v] = IF v = w THEN Claiming(o, job[o].claims + 1) ELSE worker[v]
        /\ \A p \in Ops : p # o => job'[p] = job[p]
        /\ UNCHANGED op
    BY <1>5 DEF Claim, TypeOK
  <2>4. job[o].state # "running" \/ ~job[o].live
    BY <1>5 DEF Claim, Claimable
  <2>5. ASSUME NEW v \in Workers, Submitting(v)'
        PROVE  /\ Submitting(v) /\ worker'[v].op = worker[v].op /\ worker'[v].token = worker[v].token
               /\ job'[worker[v].op] = job[worker[v].op] /\ op'[worker[v].op] = op[worker[v].op]
    <3>1. v # w /\ worker'[v] = worker[v]
      BY <2>2, <2>3, <2>5 DEF Submitting
    <3>2. Submitting(v)
      BY <2>5, <3>1 DEF Submitting
    <3>3. worker[v].op # o /\ worker[v].op \in Ops
      BY <1>0, <2>4, <3>2
    <3>4. QED
      BY <2>3, <3>1, <3>2, <3>3
  <2>6. QED
    BY <2>5, SubmitterFrame
<1>6. ASSUME NEW w \in Workers, WorkerStep(w), ~Mark(w) PROVE SubmittersHoldLease'
  <2> DEFINE o == worker[w].op
  <2>0. worker[w] \in WorkerState
    BY DEF TypeOK
  <2>1. /\ \A v \in Workers \ {w} : worker'[v] = worker[v]
        /\ \A p \in Ops : p # o => job'[p] = job[p] /\ op'[p] = op[p]
    BY <1>6, WorkerKeepsToken
  <2>2. worker'[w].pc # "submit"
    BY <1>6, OnlyMarkerSubmits
  <2>3. ASSUME NEW v \in Workers, v # w, Submitting(v), worker[v].op = o
        PROVE  job'[o] = job[o] /\ op'[o] = op[o]
    <3>1. CASE UNCHANGED <<job, op>>
      BY <3>1
    <3>2. CASE RejectUnsent(w)
      BY <1>0, <2>3, <3>2 DEF RejectUnsent
    <3>3. CASE Receipt(w) \/ Record(w)
      <4>1. HoldsLease(w) /\ worker[w].pc # "idle"
        BY <3>3 DEF Receipt, Record
      <4>2. worker[w].token = worker[v].token /\ worker[v].pc # "idle"
        BY <1>0, <2>3, <4>1 DEF HoldsLease, Submitting
      <4>3. QED
        BY <2>3, <4>1, <4>2 DEF LeaseInv, TokensApart
    <3>4. QED
      BY <1>6, <3>1, <3>2, <3>3
      DEF WorkerStep, Load, Check, Inspect, CheckOutage, Submit, Observe, Fail
  <2>4. ASSUME NEW v \in Workers, Submitting(v)'
        PROVE  /\ Submitting(v) /\ worker'[v].op = worker[v].op /\ worker'[v].token = worker[v].token
               /\ job'[worker[v].op] = job[worker[v].op] /\ op'[worker[v].op] = op[worker[v].op]
    <3>1. v # w /\ worker'[v] = worker[v]
      BY <2>1, <2>2, <2>4 DEF Submitting
    <3>2. Submitting(v) /\ worker[v].op \in Ops
      BY <1>0, <2>4, <3>1 DEF Submitting
    <3>3. QED
      BY <2>1, <2>3, <3>1, <3>2
  <2>5. QED
    BY <2>4, SubmitterFrame
<1>7. ASSUME NEW w \in Workers, Mark(w) PROVE SubmittersHoldLease'
  <2> DEFINE o == worker[w].op
  <2>1. /\ o \in Ops /\ HoldsLease(w) /\ op[o] = "queued" /\ UNCHANGED job
        /\ op' = [op EXCEPT ![o] = "dispatching"]
        /\ worker' = [worker EXCEPT ![w] = At(worker[w], "submit")]
    BY <1>7 DEF Mark, DispatchCheck, Advance, Goto, TypeOK
  <2>2. worker[w] \in WorkerState
    BY DEF TypeOK
  <2>3. /\ worker'[w].op = o /\ worker'[w].token = worker[w].token
        /\ \A v \in Workers : v # w => worker'[v] = worker[v]
    BY <2>1, <2>2 DEF At, WorkerState, TypeOK
  <2>4. \A p \in Ops : op'[p] = IF p = o THEN "dispatching" ELSE op[p]
    BY <2>1 DEF TypeOK
  <2>5. HoldsLease(w)' /\ op'[worker'[w].op] = "dispatching"
    BY <2>1, <2>3, <2>4 DEF HoldsLease
  <2>6. ASSUME NEW v \in Workers, v # w, Submitting(v)'
        PROVE  HoldsLease(v)' /\ op'[worker'[v].op] = "dispatching"
    <3>1. worker'[v] = worker[v] /\ Submitting(v)
      BY <2>3, <2>6 DEF Submitting
    <3>2. HoldsLease(v) /\ op[worker[v].op] = "dispatching" /\ worker[v].op \in Ops
      BY <1>0, <3>1
    <3>3. QED
      BY <2>1, <2>4, <3>1, <3>2 DEF HoldsLease
  <2>7. QED
    BY <2>5, <2>6 DEF SubmittersHoldLease
<1>8. ASSUME Disable PROVE SubmittersHoldLease'
  <2>1. /\ \A o \in Ops : job[o].state # "queued" => job'[o] = job[o]
        /\ UNCHANGED <<op, worker>>
    BY <1>8 DEF Disable
  <2>2. \A v \in Workers : Submitting(v)' =>
           /\ Submitting(v) /\ worker'[v].op = worker[v].op /\ worker'[v].token = worker[v].token
           /\ job'[worker[v].op] = job[worker[v].op] /\ op'[worker[v].op] = op[worker[v].op]
    BY <1>0, <2>1 DEF Submitting
  <2>3. QED
    BY <2>2, SubmitterFrame
<1>9. ASSUME UNCHANGED <<op, job, worker>> PROVE SubmittersHoldLease'
  BY <1>9, SubmitterFrame DEF Submitting
<1>10. QED
  BY <1>2, <1>3, <1>4, <1>5, <1>6, <1>7, <1>8, <1>9
  DEF Next, RenewLate, ProviderRuns, AuthorityChanges, CloseGate, OpenGate, vars

(* Where clocks agree, a worker whose context is alive between its marker   *)
(* and its call holds the lease of its operation, still marked dispatching. *)
THEOREM SubmittersAreFenced == ~ClockSkew => (Spec => []SubmittersHoldLease)
<1> SUFFICES ASSUME ~ClockSkew PROVE Spec => []SubmittersHoldLease
  OBVIOUS
<1>1. Init => SubmittersHoldLease
  BY Initials DEF Init, SubmittersHoldLease, Submitting
<1>2. TypeOK /\ LeaseInv /\ SubmittersHoldLease /\ [Next]_vars => SubmittersHoldLease'
  BY SubmitterStep
<1>3. QED
  BY <1>1, <1>2, TypeCorrect, TokensAreFresh, PTL DEF Spec

(* A request leaves only while its operation is dispatching and holds the   *)
(* reservation of its target: true wherever clocks agree and no worker is   *)
(* paused past its lease (Work, the marker and the call after it).          *)
THEOREM RequestsLeaveReserved == ~ClockSkew /\ ~Zombies => (Spec => SubmitUnderReservation)
<1> SUFFICES ASSUME ~ClockSkew, ~Zombies PROVE Spec => SubmitUnderReservation
  OBVIOUS
<1> DEFINE Reserved == \A o \in Ops : sent'[o] # sent[o] =>
                          op[o] = "dispatching" /\ lock[TargetOf[o]] = o
<1>1. TypeOK /\ LedgerInv /\ SubmittersHoldLease /\ [Next]_vars => [Reserved]_vars
  <2> SUFFICES ASSUME TypeOK, LedgerInv, SubmittersHoldLease, [Next]_vars,
                      NEW o \in Ops, sent'[o] # sent[o]
               PROVE  op[o] = "dispatching" /\ lock[TargetOf[o]] = o
    OBVIOUS
  <2>1. PICK w \in Workers : Submit(w)
    <3>1. sent' # sent
      OBVIOUS
    <3>2. QED
      BY <3>1 DEF Next, vars, Accept, Cancel, Recheck, ReleaseUnknown, LeaseExpires, DeadlinePasses,
        PruneTerminal, ProviderRuns, WorkerStep, Load, Check, CheckOutage, Inspect, RejectUnsent,
        Mark, Receipt, Observe, Record, Fail, RenewLate, Claim, Expire, Disable, AuthorityChanges,
        CloseGate, OpenGate
  <2>2. worker[w].op = o /\ Submitting(w)
    <3>1. worker[w].pc = "submit" /\ worker[w].ctx
      BY <2>1 DEF Submit, MaySubmit
    <3>2. \A p \in Ops : p # worker[w].op => sent'[p] = sent[p]
      BY <2>1 DEF Submit, TypeOK
    <3>3. QED
      BY <3>1, <3>2 DEF Submitting
  <2>3. op[o] = "dispatching"
    BY <2>2 DEF SubmittersHoldLease
  <2>4. Holding(o)
    BY <2>3 DEF LedgerInv, SettledStaysSettled, Holding, Terminal
  <2>5. QED
    BY <2>3, <2>4, ConstantsAssumption DEF LedgerInv, ReservationExact
<1>2. SubmitUnderReservation <=> [][Reserved]_vars
  BY PTL DEF SubmitUnderReservation
<1>3. QED
  BY <1>1, <1>2, TypeCorrect, LedgerInvariant, SubmittersAreFenced, PTL DEF Spec

(* When the recovery gate reopens, nobody is past a marker with a request   *)
(* still to send (SetRecovery counts unresolved operations).                *)
THEOREM ReopeningIsSafe == ~ClockSkew /\ ~Zombies => (Spec => ReopenFindsNoSubmitter)
<1> SUFFICES ASSUME ~ClockSkew, ~Zombies PROVE Spec => ReopenFindsNoSubmitter
  OBVIOUS
<1> DEFINE Safe == ~gate.open /\ gate'.open => \A w \in Workers : ~MaySubmit(w)
<1>1. TypeOK /\ SubmittersHoldLease /\ [Next]_vars => [Safe]_vars
  <2> SUFFICES ASSUME TypeOK, SubmittersHoldLease, [Next]_vars, ~gate.open, gate'.open,
                      NEW w \in Workers, MaySubmit(w)
               PROVE  FALSE
    BY Zenon
  <2>1. OpenGate
    <3>1. gate' # gate
      OBVIOUS
    <3>2. gate \in GateRow
      BY DEF TypeOK
    <3>3. GateSet(gate, FALSE).open = FALSE
      BY <3>2 DEF GateRow, GateSet
    <3>4. ~CloseGate
      BY <3>3 DEF CloseGate
    <3>5. QED
      BY <3>1, <3>4 DEF Next, vars, Accept, Cancel, Recheck, ReleaseUnknown, LeaseExpires, DeadlinePasses,
        PruneTerminal, ProviderRuns, WorkerStep, Load, Check, CheckOutage, Inspect, RejectUnsent,
        Mark, Submit, Receipt, Observe, Record, Fail, RenewLate, Claim, Expire, Disable, AuthorityChanges
  <2>2. worker[w].op \in Ops /\ op[worker[w].op] = "dispatching"
    BY DEF MaySubmit, SubmittersHoldLease, Submitting, TypeOK
  <2>3. QED
    BY <2>1, <2>2 DEF OpenGate, Unresolved, InFlight
<1>2. ReopenFindsNoSubmitter <=> [][Safe]_vars
  BY PTL DEF ReopenFindsNoSubmitter
<1>3. QED
  BY <1>1, <1>2, TypeCorrect, SubmittersAreFenced, PTL DEF Spec

-----------------------------------------------------------------------------
(* What a closed gate and a lost authority keep true, with clocks that      *)
(* disagree and paused workers included.                                    *)

(* The ways an operation changes state other than by a marker: acceptance,  *)
(* an end before it was sent, or work that was unresolved before; no        *)
(* request leaves in the same step.                                         *)
LEMMA OpMoves ==
  ASSUME TypeOK, SubmitInv, Next, NEW o \in Ops, op'[o] # op[o],
         \A w \in Workers : worker[w].op = o => ~Mark(w)
  PROVE  /\ \/ op[o] = "absent" /\ op'[o] = "queued"
            \/ op[o] = "queued" /\ op'[o] \in {"failed", "cancelled"}
            \/ op[o] \in InFlight
            \/ op[o] = "unknown" /\ lock[TargetOf[o]] = o
         /\ UNCHANGED <<sent, stale, conn>>
  <1> DEFINE Moves == /\ \/ op[o] = "absent" /\ op'[o] = "queued"
                         \/ op[o] = "queued" /\ op'[o] \in {"failed", "cancelled"}
                         \/ op[o] \in InFlight
                         \/ op[o] = "unknown" /\ lock[TargetOf[o]] = o
                      /\ UNCHANGED <<sent, stale, conn>>
  <1>1. ASSUME NEW p \in Ops, Accept(p) \/ Cancel(p) \/ Recheck(p) PROVE Moves
    <2>1. PICK to : op' = [op EXCEPT ![p] = to]
      BY <1>1 DEF Accept, Cancel, Recheck, Advance
    <2>2. p = o
      BY <2>1 DEF TypeOK
    <2>3. QED
      BY <1>1, <2>2 DEF Accept, Cancel, Recheck, Advance, TypeOK
  <1>2. ASSUME NEW w \in Workers, NEW p \in Ops, Expire(w, p) PROVE Moves
    <2>1. op' # op
      OBVIOUS
    <2>2. PICK to \in {"failed", "unknown"} :
            op' = [op EXCEPT ![p] = to] /\ (to = "failed" <=> op[p] = "queued") /\ op[p] \notin Terminal \cup {"unknown"}
      BY <1>2, <2>1 DEF Expire, AdvanceVia, Advance
    <2>3. p = o
      BY <2>2 DEF TypeOK
    <2>4. op[o] # "absent"
      BY <1>2, <2>2, <2>3 DEF Expire, AdvanceVia, Advance, Allowed, Terminal
    <2>5. op[o] \in OpState
      BY DEF TypeOK
    <2>6. op[o] = "queued" \/ op[o] \in InFlight
      BY <2>2, <2>3, <2>4, <2>5 DEF OpState
    <2>7. op'[o] = to
      BY <2>2, <2>3 DEF TypeOK
    <2>8. UNCHANGED <<sent, stale, conn>>
      BY <1>2 DEF Expire
    <2>9. QED
      BY <2>2, <2>3, <2>6, <2>7, <2>8
  <1>3. ASSUME NEW w \in Workers, RejectUnsent(w) \/ Receipt(w) \/ Record(w) PROVE Moves
    <2>1. PICK to : op' = [op EXCEPT ![worker[w].op] = to]
      BY <1>3 DEF RejectUnsent, Receipt, Record, AdvanceVia, Advance
    <2>2. worker[w].op = o
      BY <2>1 DEF TypeOK
    <2>3. UNCHANGED <<sent, stale, conn>>
      BY <1>3 DEF RejectUnsent, Receipt, Record
    <2>4. CASE RejectUnsent(w)
      BY <2>2, <2>3, <2>4 DEF RejectUnsent, Advance, TypeOK
    <2>5. CASE Receipt(w)
      BY <2>2, <2>3, <2>5 DEF Receipt, InFlight
    <2>6. CASE Record(w)
      BY <2>2, <2>3, <2>6 DEF Record, SubmitInv, Plans
    <2>7. QED
      BY <1>3, <2>4, <2>5, <2>6
  <1>4. ASSUME NEW w \in Workers, Mark(w) PROVE Moves
    <2>1. op' = [op EXCEPT ![worker[w].op] = "dispatching"]
      BY <1>4 DEF Mark, Advance
    <2>2. worker[w].op = o
      BY <2>1 DEF TypeOK
    <2>3. QED
      BY <1>4, <2>2
  <1>5. op' # op
    OBVIOUS
  <1> HIDE DEF Moves
  <1>6. Moves
    BY <1>1, <1>2, <1>3, <1>4, <1>5 DEF Next, ReleaseUnknown, LeaseExpires, DeadlinePasses,
        PruneTerminal, ProviderRuns, WorkerStep, Load, Check, CheckOutage, Inspect, Submit,
        Observe, Fail, RenewLate, Claim, Disable, AuthorityChanges, CloseGate, OpenGate
  <1>7. QED
    BY <1>6 DEF Moves

(* A reservation is gained only by an operation that is being accepted. *)
LEMMA LocksGained ==
  ASSUME TypeOK, Next, NEW o \in Ops, NEW t \in Targets, lock'[t] = o, lock[t] # o
  PROVE  op'[o] = "queued"
  <1>1. o # NoOp /\ lock' # lock
    BY ConstantsAssumption
  <1>2. ASSUME NEW p \in Ops, Accept(p) PROVE op'[o] = "queued"
    BY <1>2 DEF Accept, Reserve, TypeOK
  <1>3. ASSUME NEW p, lock' = ReleaseTerminal(p) PROVE FALSE
    BY <1>1, <1>3 DEF ReleaseTerminal
  <1>4. QED
    BY <1>1, <1>2, <1>3 DEF Next, Cancel, Recheck, ReleaseUnknown, LeaseExpires, DeadlinePasses,
        PruneTerminal, ProviderRuns, WorkerStep, Load, Check, CheckOutage, Inspect, RejectUnsent,
        Mark, Submit, Receipt, Observe, Record, Fail, RenewLate, Claim, Expire, Disable,
        AuthorityChanges, CloseGate, OpenGate, Advance, AdvanceVia

(* Without a marker no worker comes closer to a call. *)
LEMMA SubmittersGained ==
  ASSUME TypeOK, Next, \A w \in Workers : ~Mark(w), NEW v \in Workers, MaySubmit(v)'
  PROVE  MaySubmit(v)
  <1>1. worker[v] \in WorkerState
    BY DEF TypeOK
  <1>2. CASE worker'[v] = worker[v]
    BY <1>2 DEF MaySubmit
  <1>3. CASE worker'[v] = Cancelled(worker[v])
    BY <1>1, <1>3 DEF MaySubmit, Cancelled, WorkerState
  <1>4. ASSUME NEW w \in Workers, WorkerStep(w) PROVE worker'[v] = worker[v]
    BY <1>4, WorkerKeepsToken, OnlyMarkerSubmits DEF MaySubmit
  <1>5. ASSUME NEW w \in Workers, NEW o \in Ops, Claim(w, o) PROVE worker'[v] = worker[v]
    <2>1. job[o].claims + 1 \in Nat
      BY DEF TypeOK, JobRow
    <2>2. Claiming(o, job[o].claims + 1).pc = "claimed"
      BY <2>1, ClaimingRow
    <2>3. QED
      BY <1>5, <2>2 DEF Claim, TypeOK, MaySubmit
  <1>6. ASSUME NEW o \in Ops, Watchdog(o) PROVE worker'[v] \in {worker[v], Cancelled(worker[v])}
    BY <1>6 DEF Watchdog
  <1>7. QED
    BY <1>2, <1>3, <1>4, <1>5, <1>6 DEF Next, Accept, Cancel, Recheck, ReleaseUnknown, LeaseExpires,
        DeadlinePasses, PruneTerminal, ProviderRuns, RenewLate, Expire, Disable,
        AuthorityChanges, CloseGate, OpenGate

(* Once nothing is unresolved and nobody is about to submit, that stays so  *)
(* until the gate is reopened (checkRecoveryGate, Recovery, Recheck).       *)
THEOREM QuietIsKept == Spec => QuietUntilReopened
<1> DEFINE Keeps == ~gate.open /\ ~gate'.open /\ Quiet => Quiet'
<1>1. TypeOK /\ SubmitInv /\ [Next]_vars => [Keeps]_vars
  <2> SUFFICES ASSUME TypeOK, SubmitInv, Next, ~gate.open, ~gate'.open, Quiet PROVE Quiet'
    BY Zenon
  <2>1. \A w \in Workers : ~Mark(w)
    BY DEF Mark
  <2>2. \A w \in Workers : ~MaySubmit(w)'
    BY <2>1, SubmittersGained DEF Quiet
  <2>3. ASSUME NEW o \in Ops PROVE ~Unresolved(o)'
    <3>1. op[o] \notin InFlight /\ (op[o] = "unknown" => \A t \in Targets : lock[t] # o)
      BY DEF Quiet, Unresolved
    <3>2. CASE op'[o] # op[o]
      <4>1. op'[o] \in {"queued", "failed", "cancelled"}
        BY <2>1, <3>1, <3>2, OpMoves, ConstantsAssumption
      <4>2. QED
        BY <4>1 DEF Unresolved, InFlight
    <3>3. CASE op'[o] = op[o]
      <4>1. op[o] = "unknown" => \A t \in Targets : lock'[t] # o
        BY <3>1, <3>3, LocksGained
      <4>2. QED
        BY <3>1, <3>3, <4>1 DEF Unresolved
    <3>4. QED
      BY <3>2, <3>3
  <2>4. QED
    BY <2>2, <2>3 DEF Quiet
<1>2. QuietUntilReopened <=> [][Keeps]_vars
  BY PTL DEF QuietUntilReopened
<1>3. QED
  BY <1>1, <1>2, TypeCorrect, SubmitInvariant, PTL DEF Spec

(* An operation that lost its authority before its marker: it is still      *)
(* unsent and stays without authority, or it ended unsent.                  *)
Revoked(o) == op[o] = "queued" /\ (o \in stale \/ conn = "disabled")
Barred(o) == Revoked(o) \/ (op[o] \in {"failed", "cancelled"} /\ sent[o] = 0)

(* Lost authority does not come back to the same review, and the marker     *)
(* transaction looks at it again.                                           *)
LEMMA BarredStep ==
  ASSUME TypeOK, SubmitInv, [Next]_vars, NEW o \in Ops, Barred(o)
  PROVE  Barred(o)'
  <1>1. CASE UNCHANGED vars
    BY <1>1 DEF vars, Barred, Revoked
  <1>2. CASE Next
    <2>1. sent[o] = 0 /\ op[o] \in {"queued", "failed", "cancelled"}
      BY DEF Barred, Revoked, SubmitInv, Untouched
    <2>2. ASSUME NEW w \in Workers, worker[w].op = o PROVE ~Mark(w) /\ worker[w].pc # "submit"
      <3>1. worker[w].pc # "submit"
        BY <2>1, <2>2 DEF SubmitInv, Untouched, Failures, Calling
      <3>2. ~Mark(w)
        BY <2>2 DEF Barred, Revoked, Mark, DispatchCheck
      <3>3. QED
        BY <3>1, <3>2
    <2>3. CASE op'[o] # op[o]
      <3>1. op'[o] \in {"failed", "cancelled"} /\ UNCHANGED sent
        BY <1>2, <2>1, <2>2, <2>3, OpMoves DEF InFlight
      <3>2. QED
        BY <2>1, <3>1 DEF Barred
    <2>4. CASE op'[o] = op[o]
      <3>1. sent'[o] = 0
        <4>1. ASSUME NEW w \in Workers, Submit(w) PROVE sent'[o] = sent[o]
          <5>1. worker[w].op # o
            BY <2>2, <4>1, SMTT(30) DEF Submit, MaySubmit
          <5>2. QED
            BY <4>1, <5>1, SMTT(30) DEF Submit, TypeOK
        <4>2. sent'[o] = sent[o]
          BY <1>2, <4>1, ZenonT(40) DEF Next, Accept, Cancel, Recheck, ReleaseUnknown, LeaseExpires,
            DeadlinePasses, PruneTerminal, ProviderRuns, WorkerStep, Load, Check, CheckOutage, Inspect,
            RejectUnsent, Mark, Receipt, Observe, Record, Fail, RenewLate, Claim, Expire, Disable,
            AuthorityChanges, CloseGate, OpenGate
        <4>3. QED
          BY <2>1, <4>2
      <3>2. (o \in stale => o \in stale') /\ (conn = "disabled" => conn' = "disabled")
        <4>1. op[o] # "absent"
          BY <2>1
        <4>2. QED
          BY <1>2, <4>1 DEF Next, Accept, Cancel, Recheck, ReleaseUnknown, LeaseExpires, DeadlinePasses,
            PruneTerminal, ProviderRuns, WorkerStep, Load, Check, CheckOutage, Inspect, RejectUnsent,
            Mark, Submit, Receipt, Observe, Record, Fail, RenewLate, Claim, Expire, Disable,
            AuthorityChanges, CloseGate, OpenGate
      <3>3. QED
        BY <2>4, <3>1, <3>2 DEF Barred, Revoked
    <2>5. QED
      BY <2>3, <2>4
  <1>3. QED
    BY <1>1, <1>2

(* An operation whose review went stale or whose connection was disabled    *)
(* before its marker is never submitted (dispatchCheck in the marker        *)
(* transaction), whatever its worker had checked before.                    *)
THEOREM RevokedIsNeverSent == Spec => RevokedNeverSent
<1> SUFFICES ASSUME NEW o \in Ops
             PROVE  Spec => [](Revoked(o) => [](sent[o] = 0))
  BY DEF RevokedNeverSent, Revoked
<1>1. Revoked(o) => Barred(o)
  BY DEF Barred
<1>2. SubmitInv /\ Barred(o) => sent[o] = 0
  BY DEF Barred, Revoked, SubmitInv, Untouched
<1>3. TypeOK /\ SubmitInv /\ [Next]_vars /\ Barred(o) => Barred(o)'
  BY BarredStep
<1>4. QED
  BY <1>1, <1>2, <1>3, TypeCorrect, SubmitInvariant, PTL DEF Spec

-----------------------------------------------------------------------------
(* The promise.  OperationDispatch implements MutationPromise, for every    *)
(* value of the constants: the phase of an operation is read off its state  *)
(* and its resolution, the holder of a target off the reservation table.    *)

(* The phase of an operation in each of its states. *)
LEMMA PhaseTable ==
  ASSUME NEW o \in Ops
  PROVE  /\ op[o] = "absent" => PhaseOf(o) = "none"
         /\ op[o] = "queued" => PhaseOf(o) = "unsent"
         /\ op[o] = "succeeded" => PhaseOf(o) = "succeeded"
         /\ op[o] \in {"failed", "cancelled"} => PhaseOf(o) = "closed"
         /\ op[o] = "unknown" /\ released[o] => PhaseOf(o) = "released"
         /\ op[o] \in InFlight \/ (op[o] = "unknown" /\ ~released[o]) => PhaseOf(o) = "committed"
  BY DEF PhaseOf, InFlight

(* The same table after a step. *)
LEMMA PhaseTablePrimed ==
  ASSUME NEW o \in Ops
  PROVE  /\ op'[o] = "absent" => PhaseOf(o)' = "none"
         /\ op'[o] = "queued" => PhaseOf(o)' = "unsent"
         /\ op'[o] = "succeeded" => PhaseOf(o)' = "succeeded"
         /\ op'[o] \in {"failed", "cancelled"} => PhaseOf(o)' = "closed"
         /\ op'[o] = "unknown" /\ released'[o] => PhaseOf(o)' = "released"
         /\ op'[o] \in InFlight \/ (op'[o] = "unknown" /\ ~released'[o]) => PhaseOf(o)' = "committed"
  BY DEF PhaseOf, InFlight

(* A step that touches neither operations and resolutions nor the           *)
(* reservations and requests is invisible to the promise.                   *)
LEMMA PromiseStutter ==
  ASSUME UNCHANGED <<op, released, lock, sent>>
  PROVE  UNCHANGED Promise!vars
  BY DEF Promise!vars, PhaseOf

(* A step on one operation changes the phase of that operation only. *)
LEMMA OnePhaseChanges ==
  ASSUME NEW o \in Ops,
         \A p \in Ops : p # o => op'[p] = op[p] /\ released'[p] = released[p]
  PROVE  [p \in Ops |-> PhaseOf(p)]' = [[p \in Ops |-> PhaseOf(p)] EXCEPT ![o] = PhaseOf(o)']
  <1>1. \A p \in Ops : p # o => PhaseOf(p)' = PhaseOf(p)
    BY DEF PhaseOf
  <1>2. QED
    BY <1>1

(* Giving back an exact reservation frees one target. *)
LEMMA GivesBackOne ==
  ASSUME TypeOK, ReservationExact, NEW o \in Ops, Holding(o), lock' = ReleaseTerminal(o)
  PROVE  /\ lock[TargetOf[o]] = o
         /\ lock' = [lock EXCEPT ![TargetOf[o]] = NoOp]
  <1>1. lock[TargetOf[o]] = o /\ \A t \in Targets : lock[t] = o => t = TargetOf[o]
    BY ConstantsAssumption DEF ReservationExact
  <1>2. QED
    BY <1>1, ConstantsAssumption DEF ReleaseTerminal, TypeOK

(* A legal state change of an unsettled operation is a promised one. *)
LEMMA PromiseStateChange ==
  ASSUME TypeOK, ReservationExact, NEW o \in Ops, NEW to \in OpState \ {"absent", "queued"},
         op[o] \notin Terminal \cup {"absent"}, ~released[o],
         op' = [op EXCEPT ![o] = to], UNCHANGED <<released, sent>>,
         lock' = (IF to \in Terminal THEN ReleaseTerminal(o) ELSE lock),
         op[o] = "queued" => to # "succeeded"
  PROVE  [Promise!Next]_Promise!vars
  <1> DEFINE ph == [p \in Ops |-> PhaseOf(p)]
  <1>1. /\ op'[o] = to /\ released'[o] = released[o]
        /\ \A p \in Ops : p # o => op'[p] = op[p] /\ released'[p] = released[p]
    BY DEF TypeOK
  <1>2. ph' = [ph EXCEPT ![o] = PhaseOf(o)']
    BY <1>1, OnePhaseChanges
  <1>3. ph[o] = PhaseOf(o)
    OBVIOUS
  <1>4. Holding(o)
    BY DEF Holding
  <1>5. op[o] = "queued" \/ op[o] \in InFlight \cup {"unknown"}
    BY DEF TypeOK, OpState
  <1> HIDE DEF ph
  <1>6. CASE to = "succeeded"
    <2>1. PhaseOf(o)' = "succeeded" /\ ph[o] = "committed"
      BY <1>1, <1>3, <1>5, <1>6, PhaseTable, PhaseTablePrimed
    <2>2. Promise!Succeed(o)
      BY <1>2, <1>4, <1>6, <2>1, GivesBackOne
      DEF Promise!Succeed, Promise!Move, Promise!GiveBack, ph, Terminal
    <2>3. QED
      BY <2>2 DEF Promise!Next
  <1>7. CASE to \in {"failed", "cancelled"}
    <2>1. PhaseOf(o)' = "closed" /\ ph[o] \in {"unsent", "committed"}
      BY <1>1, <1>3, <1>5, <1>7, PhaseTable, PhaseTablePrimed
    <2>2. Promise!Close(o)
      BY <1>2, <1>4, <1>7, <2>1, GivesBackOne
      DEF Promise!Close, Promise!Move, Promise!GiveBack, ph, Terminal
    <2>3. QED
      BY <2>2 DEF Promise!Next
  <1>8. CASE to \in InFlight \cup {"unknown"}
    <2>1. PhaseOf(o)' = "committed" /\ lock' = lock
      BY <1>1, <1>8, PhaseTablePrimed DEF Terminal, InFlight
    <2>2. CASE op[o] = "queued"
      <3>1. ph[o] = "unsent"
        BY <1>3, <2>2, PhaseTable
      <3>2. Promise!Commit(o)
        BY <1>2, <2>1, <3>1 DEF Promise!Commit, Promise!Move, ph
      <3>3. QED
        BY <3>2 DEF Promise!Next
    <2>3. CASE op[o] \in InFlight \cup {"unknown"}
      <3>1. ph[o] = "committed"
        BY <1>3, <2>3, PhaseTable
      <3>2. ph' = ph
        BY <1>2, <2>1, <3>1 DEF ph
      <3>3. QED
        BY <2>1, <3>2 DEF Promise!vars, ph
    <2>4. QED
      BY <1>5, <2>2, <2>3
  <1>9. QED
    BY <1>6, <1>7, <1>8 DEF OpState, Terminal

(* A request that leaves does so for the first time, and for an operation   *)
(* that is committed to.                                                    *)
LEMMA PromiseCall ==
  ASSUME TypeOK, SubmitInv, LedgerInv, NEW w \in Workers, Submit(w)
  PROVE  [Promise!Next]_Promise!vars
  <1> DEFINE o == worker[w].op
  <1>1. /\ worker[w].pc = "submit" /\ o \in Ops /\ UNCHANGED <<op, released, lock>>
        /\ \E n \in {0, 1} : sent' = [sent EXCEPT ![o] = @ + n]
    BY DEF Submit, MaySubmit, TypeOK
  <1>2. sent[o] = 0 /\ op[o] \notin {"absent", "queued", "cancelled", "failed"}
    BY <1>1 DEF SubmitInv, Uncalled, Untouched, Failures, Calling
  <1>3. PhaseOf(o) \in {"committed", "succeeded", "released"}
    BY <1>1, <1>2, PhaseTable DEF TypeOK, OpState, Terminal
  <1> HIDE DEF o
  <1>4. CASE sent' = [sent EXCEPT ![o] = @ + 0]
    <2>1. sent' = sent
      BY <1>1, <1>2, <1>4 DEF TypeOK
    <2>2. QED
      BY <1>1, <2>1, PromiseStutter
  <1>5. CASE sent' = [sent EXCEPT ![o] = @ + 1]
    <2>1. sent' = [sent EXCEPT ![o] = 1]
      BY <1>1, <1>2, <1>5 DEF TypeOK
    <2>2. [p \in Ops |-> PhaseOf(p)]' = [p \in Ops |-> PhaseOf(p)]
      BY <1>1 DEF PhaseOf
    <2>3. Promise!Call(o)
      BY <1>1, <1>2, <1>3, <2>1, <2>2 DEF Promise!Call
    <2>4. QED
      BY <1>1, <2>3 DEF Promise!Next
  <1>6. QED
    BY <1>1, <1>4, <1>5

(* Every other worker step is a stutter or a promised state change. *)
LEMMA PromiseWorkerStep ==
  ASSUME TypeOK, SubmitInv, LedgerInv, NEW w \in Workers, WorkerStep(w)
  PROVE  [Promise!Next]_Promise!vars
  <1> DEFINE o == worker[w].op
  <1>1. CASE Load(w) \/ Check(w) \/ CheckOutage(w) \/ Inspect(w) \/ Observe(w) \/ Fail(w)
    BY <1>1, PromiseStutter DEF Load, Check, CheckOutage, Inspect, Observe, Fail
  <1>2. CASE Submit(w)
    BY <1>2, PromiseCall
  <1>3. CASE RejectUnsent(w) \/ Mark(w)
    <2>1. PICK to \in {"failed", "dispatching"} :
            /\ o \in Ops /\ op[o] = "queued" /\ op' = [op EXCEPT ![o] = to]
            /\ lock' = (IF to \in Terminal THEN ReleaseTerminal(o) ELSE lock)
            /\ UNCHANGED <<released, sent>>
      BY <1>3 DEF RejectUnsent, Mark, DispatchCheck, Advance, TypeOK
    <2>2. ~released[o] /\ ReservationExact
      BY <2>1 DEF LedgerInv, SettledStaysSettled
    <2>3. to \in OpState \ {"absent", "queued"} /\ op[o] \notin Terminal \cup {"absent"}
      BY <2>1 DEF OpState, Terminal, InFlight
    <2> HIDE DEF o
    <2>4. QED
      BY <2>1, <2>2, <2>3, PromiseStateChange
  <1>4. CASE Receipt(w)
    <2> DEFINE to == ClassifyReceipt(worker[w].got)
    <2>1. /\ o \in Ops /\ op[o] = "dispatching" /\ op' = [op EXCEPT ![o] = to]
          /\ lock' = (IF to \in Terminal THEN ReleaseTerminal(o) ELSE lock)
          /\ UNCHANGED <<released, sent>>
      BY <1>4 DEF Receipt, Advance, TypeOK
    <2>2. ~released[o] /\ ReservationExact
      BY <2>1 DEF LedgerInv, SettledStaysSettled
    <2>3. to \in OpState \ {"absent", "queued"} /\ op[o] \notin Terminal \cup {"absent"}
      BY <2>1, StateRanges DEF OpState, Terminal, InFlight
    <2> HIDE DEF o, to
    <2>4. QED
      BY <2>1, <2>2, <2>3, PromiseStateChange
  <1>5. CASE Record(w)
    <2> DEFINE to == worker[w].got
    <2>1. /\ o \in Ops /\ op[o] = worker[w].seen /\ op' = [op EXCEPT ![o] = to]
          /\ lock' = (IF to \in Terminal THEN ReleaseTerminal(o) ELSE lock)
          /\ UNCHANGED <<released, sent>>
      BY <1>5 DEF Record, AdvanceVia, Advance, Terminal, TypeOK
    <2>2. op[o] \in InFlight /\ to \in {"waiting_provider", "reconciling", "succeeded", "failed", "unknown"}
      BY <1>5, <2>1 DEF Record, SubmitInv, Plans
    <2>3. ~released[o] /\ ReservationExact
      BY <2>1, <2>2 DEF LedgerInv, SettledStaysSettled, InFlight
    <2>4. /\ to \in OpState \ {"absent", "queued"} /\ op[o] \notin Terminal \cup {"absent"}
          /\ op[o] # "queued"
      BY <2>2 DEF OpState, Terminal, InFlight
    <2> HIDE DEF o, to
    <2>5. QED
      BY <2>1, <2>3, <2>4, PromiseStateChange
  <1>6. QED
    BY <1>1, <1>2, <1>3, <1>4, <1>5 DEF WorkerStep

(* Every step is a step of the promise or invisible to it. *)
LEMMA PromiseStep ==
  TypeOK /\ SubmitInv /\ LedgerInv /\ [Next]_vars => [Promise!Next]_Promise!vars
<1> SUFFICES ASSUME TypeOK, SubmitInv, LedgerInv, [Next]_vars
             PROVE  [Promise!Next]_Promise!vars
  OBVIOUS
<1> DEFINE ph == [p \in Ops |-> PhaseOf(p)]
<1>0. ReservationExact
  BY DEF LedgerInv
<1>1. ASSUME NEW o \in Ops, Accept(o) PROVE Promise!Accept(o)
  <2>1. /\ op[o] = "absent" /\ op'[o] = "queued" /\ UNCHANGED <<released, sent>>
        /\ lock[TargetOf[o]] = NoOp /\ lock' = [lock EXCEPT ![TargetOf[o]] = o]
        /\ \A p \in Ops : p # o => op'[p] = op[p] /\ released'[p] = released[p]
    BY <1>1 DEF Accept, Reserve, TypeOK
  <2>2. ph' = [ph EXCEPT ![o] = PhaseOf(o)']
    BY <2>1, OnePhaseChanges
  <2>3. ph[o] = "none" /\ PhaseOf(o)' = "unsent"
    BY <2>1, PhaseTable, PhaseTablePrimed
  <2>4. QED
    BY <2>1, <2>2, <2>3 DEF Promise!Accept, Promise!Move
<1>2. ASSUME NEW o \in Ops, Cancel(o) PROVE [Promise!Next]_Promise!vars
  <2>1. /\ op[o] = "queued" /\ op' = [op EXCEPT ![o] = "cancelled"] /\ UNCHANGED <<released, sent>>
        /\ lock' = (IF "cancelled" \in Terminal THEN ReleaseTerminal(o) ELSE lock)
    BY <1>2 DEF Cancel, Advance
  <2>2. ~released[o] /\ op[o] \notin Terminal \cup {"absent"} /\ "cancelled" \in OpState \ {"absent", "queued"}
    BY <2>1 DEF LedgerInv, SettledStaysSettled, Terminal, OpState
  <2>3. QED
    BY <1>0, <2>1, <2>2, PromiseStateChange
<1>3. ASSUME NEW o \in Ops, Recheck(o) PROVE [Promise!Next]_Promise!vars
  <2>1. /\ op[o] = "unknown" /\ op' = [op EXCEPT ![o] = "reconciling"] /\ UNCHANGED <<released, sent>>
        /\ lock' = (IF "reconciling" \in Terminal THEN ReleaseTerminal(o) ELSE lock)
        /\ lock[TargetOf[o]] = o
    BY <1>3 DEF Recheck, Advance
  <2>2. ~released[o]
    BY <1>0, <2>1, ConstantsAssumption DEF ReservationExact, Holding
  <2>3. op[o] \notin Terminal \cup {"absent"} /\ "reconciling" \in OpState \ {"absent", "queued"}
    BY <2>1 DEF Terminal, OpState, InFlight
  <2>4. QED
    BY <1>0, <2>1, <2>2, <2>3, PromiseStateChange
<1>4. ASSUME NEW o \in Ops, ReleaseUnknown(o) PROVE Promise!GiveUp(o)
  <2>1. /\ op[o] = "unknown" /\ ~released[o] /\ released'[o] /\ UNCHANGED <<op, sent>>
        /\ lock' = ReleaseTerminal(o)
        /\ \A p \in Ops : p # o => op'[p] = op[p] /\ released'[p] = released[p]
    BY <1>4 DEF ReleaseUnknown, TypeOK
  <2>2. ph' = [ph EXCEPT ![o] = PhaseOf(o)']
    BY <2>1, OnePhaseChanges
  <2>3. ph[o] = "committed" /\ PhaseOf(o)' = "released"
    BY <2>1, PhaseTable, PhaseTablePrimed
  <2>4. lock[TargetOf[o]] = o /\ lock' = [lock EXCEPT ![TargetOf[o]] = NoOp]
    <3>1. Holding(o)
      BY <2>1 DEF Holding, Terminal
    <3>2. QED
      BY <1>0, <2>1, <3>1, GivesBackOne
  <2>5. QED
    BY <2>1, <2>2, <2>3, <2>4 DEF Promise!GiveUp, Promise!Move, Promise!GiveBack
<1>5. ASSUME NEW w \in Workers, NEW o \in Ops, Expire(w, o) PROVE [Promise!Next]_Promise!vars
  <2> DEFINE to == IF op[o] = "queued" THEN "failed" ELSE "unknown"
  <2>1. op[o] \notin Terminal \cup {"unknown"}
    BY <1>5 DEF Expire, Exhausted, LedgerInv, SettledStaysSettled
  <2>2. /\ op[o] # "absent" /\ op' = [op EXCEPT ![o] = to] /\ UNCHANGED <<released, sent>>
        /\ lock' = (IF to \in Terminal THEN ReleaseTerminal(o) ELSE lock)
    BY <1>5, <2>1 DEF Expire, AdvanceVia, Advance, Allowed, Terminal
  <2>3. ~released[o] /\ to \in OpState \ {"absent", "queued"} /\ to # "succeeded"
    BY <2>1 DEF LedgerInv, SettledStaysSettled, OpState, Terminal
  <2> HIDE DEF to
  <2>4. QED
    BY <1>0, <2>1, <2>2, <2>3, PromiseStateChange
<1>6. ASSUME UNCHANGED <<op, released, lock, sent>> PROVE [Promise!Next]_Promise!vars
  BY <1>6, PromiseStutter
<1>7. QED
  BY <1>1, <1>2, <1>3, <1>4, <1>5, <1>6, PromiseWorkerStep
  DEF Next, Promise!Next, Claim, RenewLate, LeaseExpires, DeadlinePasses, PruneTerminal, ProviderRuns,
      Disable, AuthorityChanges, CloseGate, OpenGate, vars

(* The dispatcher keeps the promise of MutationPromise: one holder per      *)
(* target from acceptance to settlement, at most one call, only after the   *)
(* marker and never for closed work (Confirm, Work, Expire, controls).      *)
THEOREM PromiseIsKept == Spec => ImplementsPromise
<1>1. Init => Promise!Init
  BY DEF Init, Promise!Init, PhaseOf
<1>2. QED
  BY <1>1, PromiseStep, TypeCorrect, SubmitInvariant, LedgerInvariant, PTL
  DEF Spec, ImplementsPromise, Promise!Spec
=============================================================================
