-------------------------- MODULE OperationDispatch --------------------------
(***************************************************************************)
(* Durable execution of provider mutations (backend/internal/operation and *)
(* backend/internal/job), for the operations of one provider connection.   *)
(*                                                                         *)
(* An accepted operation owns one job row and one reservation of its       *)
(* target.  Workers claim the job under a lease, commit a `dispatching'    *)
(* marker, call the provider outside any transaction, and record what they *)
(* learnt.  A worker may crash, stall or lose its lease between any two    *)
(* transactions; users cancel, recheck and release operations; an          *)
(* administrator disables the connection; an operator closes and reopens   *)
(* the installation's recovery gate.                                       *)
(*                                                                         *)
(* One action is one database transaction or one external call.  Time is   *)
(* abstracted to two booleans per job, both seen through the database      *)
(* clock: whether the lease is live and whether the deadline has passed.   *)
(***************************************************************************)
EXTENDS Integers, FiniteSets, ProviderContract

CONSTANTS
    Ops,              \* operation identities
    Targets,          \* resource identities (connection/type/scope/native id)
    TargetOf,         \* the target each operation was reviewed for
    Workers,          \* worker goroutines of the scheduler process
    NoOp,             \* "no operation"
    QueueLimit,       \* workspaces.queue_limit
    MaxAttempts,      \* claims a job may use up (100 in the code)
    ClockSkew,        \* the scheduler's clock may disagree with the database's
    Zombies,          \* a worker may be paused past its lease and then go on
    MaxClaims,        \* bound: no recheck after this many claims of one job
    MaxGateVersion    \* bound: changes of the recovery gate

ASSUME ConstantsAssumption ==
    /\ TargetOf \in [Ops -> Targets]
    /\ NoOp \notin Ops
    /\ QueueLimit \in Nat
    /\ MaxAttempts \in Nat
    /\ ClockSkew \in BOOLEAN
    /\ Zombies \in BOOLEAN
    /\ MaxClaims \in Nat
    /\ MaxGateVersion \in Nat

VARIABLES
    op,        \* operations.state
    ref,       \* operations.provider_reference is not null
    job,       \* the operation_dispatch job row of each operation
    lock,      \* resource_locks: the operation holding each target
    released,  \* an operation_resolutions row exists
    stale,     \* operations whose review no longer matches current authority
    conn,      \* connections.status
    gate,      \* dispatch_recovery_gate
    worker,    \* what each worker goroutine remembers between transactions
    sent,      \* history: Submit requests that left for the provider
    effect     \* the provider's own record of the operation

vars == <<op, ref, job, lock, released, stale, conn, gate, worker, sent, effect>>

-----------------------------------------------------------------------------
(* Operation states *)

Terminal == {"succeeded", "failed", "cancelled"}
InFlight == {"dispatching", "waiting_provider", "reconciling"}
OpState == {"absent", "queued", "unknown"} \cup InFlight \cup Terminal

Allowed(from, to) ==
    \/ from = "queued"           /\ to \in {"dispatching", "cancelled", "failed"}
    \/ from = "dispatching"      /\ to \in {"waiting_provider", "reconciling", "succeeded", "failed"}
    \/ from = "waiting_provider" /\ to \in {"waiting_provider", "reconciling", "succeeded", "failed"}
    \/ from = "reconciling"      /\ to \in {"waiting_provider", "reconciling", "succeeded", "failed", "unknown"}
    \/ from = "unknown"          /\ to = "reconciling"

(* Job rows.  `claims' numbers the random lease tokens ever issued for the  *)
(* row, so that a new token differs from all earlier ones; token 0 is NULL. *)

JobState == {"absent", "queued", "running", "succeeded", "failed", "cancelled"}
Pending == {"queued", "running"}

JobRow == [state: JobState, token: Nat, live: BOOLEAN, overdue: BOOLEAN,
           attempts: 0..MaxAttempts, claims: Nat]

NoJob == [state |-> "absent", token |-> 0, live |-> FALSE, overdue |-> FALSE,
          attempts |-> 0, claims |-> 0]

(* Every statement that ends or requeues a job clears its lease columns.   *)
WithoutLease(j, state) == [j EXCEPT !.state = state, !.token = 0, !.live = FALSE]

(* A claim issues a token and a lease that ends with the deadline at latest. *)
Leased(j) == [j EXCEPT !.state = "running", !.token = j.claims + 1, !.live = ~j.overdue,
                       !.attempts = j.attempts + 1, !.claims = j.claims + 1]

(* A recheck starts the row again with a new deadline and no attempts.      *)
Restarted(j) == [j EXCEPT !.state = "queued", !.token = 0, !.live = FALSE,
                          !.overdue = FALSE, !.attempts = 0]

WithLive(j, live) == [j EXCEPT !.live = live]
PastDeadline(j) == [j EXCEPT !.overdue = TRUE, !.live = FALSE]

(* Workers *)

PC == {"idle", "claimed", "check", "inspect", "reject", "mark", "submit",
       "receipt", "observe", "record"}

ReceiptKind == {"accepted", "noref", "rejected", "error"}

(* `ctx' is the worker's context, cancelled by the watchdog when the lease  *)
(* it was granted ends; `seen' and `ref' are the plan it loaded, `got' what *)
(* the provider answered.                                                   *)
WorkerState == [pc: PC, op: Ops \cup {NoOp}, token: Nat, ctx: BOOLEAN,
                seen: OpState, ref: BOOLEAN, got: ReceiptKind \cup OpState]

Idle == [pc |-> "idle", op |-> NoOp, token |-> 0, ctx |-> FALSE,
         seen |-> "absent", ref |-> FALSE, got |-> "absent"]

Claiming(o, token) == [Idle EXCEPT !.pc = "claimed", !.op = o, !.token = token, !.ctx = TRUE]
At(k, pc) == [k EXCEPT !.pc = pc]
Planning(k, state, hasRef) == [k EXCEPT !.pc = "observe", !.seen = state, !.ref = hasRef]
Answered(k, pc, answer) == [k EXCEPT !.pc = pc, !.got = answer]
Cancelled(k) == [k EXCEPT !.ctx = FALSE]

Goto(w, pc) == worker' = [worker EXCEPT ![w] = At(@, pc)]
Return(w) == worker' = [worker EXCEPT ![w] = Idle]

(* The provider's record of an operation *)
Effect == {"none", "pending", "done", "failed"}

Init ==
    /\ op = [o \in Ops |-> "absent"]
    /\ ref = [o \in Ops |-> FALSE]
    /\ job = [o \in Ops |-> NoJob]
    /\ lock = [t \in Targets |-> NoOp]
    /\ released = [o \in Ops |-> FALSE]
    /\ stale = {}
    /\ conn = "active"
    /\ gate = [open |-> FALSE, version |-> 1]
    /\ worker = [w \in Workers |-> Idle]
    /\ sent = [o \in Ops |-> 0]
    /\ effect = [o \in Ops |-> "none"]

-----------------------------------------------------------------------------
(* Pieces of transactions *)

(* The final statement group of every state change: the transition must be *)
(* allowed, and a terminal state gives the reservation back.               *)
ReleaseTerminal(o) == [t \in Targets |-> IF lock[t] = o THEN NoOp ELSE lock[t]]

Advance(o, to) ==
    /\ Allowed(op[o], to)
    /\ op' = [op EXCEPT ![o] = to]
    /\ lock' = IF to \in Terminal THEN ReleaseTerminal(o) ELSE lock

(* Submitted work reaches `unknown' through `reconciling', in one           *)
(* transaction that appends both events.                                    *)
AdvanceVia(o, to) ==
    IF to = "unknown" /\ op[o] \in {"dispatching", "waiting_provider"}
      THEN /\ Allowed(op[o], "reconciling") /\ Allowed("reconciling", to)
           /\ op' = [op EXCEPT ![o] = to]
           /\ UNCHANGED lock
      ELSE Advance(o, to)

(* dispatchLoad: the worker's token is the row's, and the lease is live.    *)
HoldsLease(w) ==
    LET j == job[worker[w].op]
    IN  j.state = "running" /\ j.token = worker[w].token /\ j.live /\ ~j.overdue

(* dispatchCheck: unsent, on an active connection, under the credential and *)
(* policy versions of its review.                                           *)
DispatchCheck(o) == op[o] = "queued" /\ conn = "active" /\ o \notin stale

(* classifyActionReceipt *)
ClassifyErrorAsFailure(r) ==
    CASE r \in {"rejected", "error"} -> "failed"
      [] r = "accepted" -> "waiting_provider"
      [] OTHER          -> "reconciling"

ClassifyReceipt(r) ==
    CASE r = "rejected" -> "failed"
      [] r = "accepted" -> "waiting_provider"
      [] OTHER          -> "reconciling"

(* Submit answers as in SubmitAnswers of the contract, Observe like this.   *)
ObserveAnswers(o, hasRef) == AnswersAbout(effect[o], hasRef)

ClassifyPendingAsWaiting(a, hasRef) ==
    CASE a = "pending" -> "waiting_provider"
      [] a \in {"succeeded", "failed", "unknown"} -> a
      [] OTHER -> "reconciling"

ClassifyObservation(a, hasRef) ==
    CASE a = "pending" /\ hasRef -> "waiting_provider"
      [] a \in {"succeeded", "failed", "unknown"} -> a
      [] OTHER -> "reconciling"

-----------------------------------------------------------------------------
(* Acceptance: the last transaction of Confirm, whose checks passed under   *)
(* the current credential and policy versions.                              *)

QueueFull == Cardinality({o \in Ops : job[o].state \in Pending}) >= QueueLimit

ReserveAnyway(o) == lock' = [lock EXCEPT ![TargetOf[o]] = o]

Reserve(o) ==
    /\ lock[TargetOf[o]] = NoOp
    /\ lock' = [lock EXCEPT ![TargetOf[o]] = o]

Accept(o) ==
    /\ op[o] = "absent"
    /\ conn = "active"
    /\ ~QueueFull
    /\ op' = [op EXCEPT ![o] = "queued"]
    /\ Reserve(o)
    /\ job' = [job EXCEPT ![o] = WithoutLease(NoJob, "queued")]
    /\ UNCHANGED <<ref, released, stale, conn, gate, worker, sent, effect>>

-----------------------------------------------------------------------------
(* Leases *)

ClaimableOneTooMany(o) ==
    /\ \/ job[o].state = "queued"
       \/ job[o].state = "running" /\ (~job[o].live \/ ClockSkew)
    /\ ~job[o].overdue \/ ClockSkew
    /\ job[o].attempts <= MaxAttempts

(* Claim compares times with the scheduler's clock, all others with the     *)
(* database's: under skew a live lease may be stolen and an overdue job     *)
(* claimed.  The delay until next_run_at is left to scheduling.             *)
Claimable(o) ==
    /\ \/ job[o].state = "queued"
       \/ job[o].state = "running" /\ (~job[o].live \/ ClockSkew)
    /\ ~job[o].overdue \/ ClockSkew
    /\ job[o].attempts < MaxAttempts

Claim(w, o) ==
    /\ worker[w].pc = "idle"
    /\ Claimable(o)
    /\ job' = [job EXCEPT ![o] = Leased(@)]
    /\ worker' = [worker EXCEPT ![w] = Claiming(o, job[o].claims + 1)]
    /\ UNCHANGED <<op, ref, lock, released, stale, conn, gate, sent, effect>>

(* A renewal in time keeps a live lease live and changes nothing here.      *)
(* Renewal also compares with the scheduler's clock, so under skew it can   *)
(* revive a lease that had expired for the database.                        *)
RenewLate(w) ==
    /\ ClockSkew
    /\ worker[w].pc # "idle"
    /\ LET j == job[worker[w].op]
       IN  j.state = "running" /\ j.token = worker[w].token /\ ~j.live /\ ~j.overdue
    /\ job' = [job EXCEPT ![worker[w].op] = WithLive(@, TRUE)]
    /\ UNCHANGED <<op, ref, lock, released, stale, conn, gate, worker, sent, effect>>

(* The watchdog of the lease's worker fires when the lease ends. *)
Watchdog(o) ==
    worker' = [w \in Workers |->
                 IF worker[w].op = o /\ worker[w].token = job[o].token
                   THEN Cancelled(worker[w]) ELSE worker[w]]

LeaseExpires(o) ==
    /\ job[o].state = "running" /\ job[o].live
    /\ job' = [job EXCEPT ![o] = WithLive(@, FALSE)]
    /\ Watchdog(o)
    /\ UNCHANGED <<op, ref, lock, released, stale, conn, gate, sent, effect>>

(* A lease never outlives the deadline of its job (LEAST in Claim, renew).  *)
DeadlinePasses(o) ==
    /\ job[o].state \in Pending /\ ~job[o].overdue
    /\ job' = [job EXCEPT ![o] = PastDeadline(@)]
    /\ Watchdog(o)
    /\ UNCHANGED <<op, ref, lock, released, stale, conn, gate, sent, effect>>

ExhaustedOrLeased(o) ==
    /\ job[o].state \in Pending
    /\ job[o].overdue \/ job[o].attempts >= MaxAttempts

ExhaustedInQueue(o) ==
    /\ job[o].state = "queued"
    /\ job[o].overdue \/ job[o].attempts >= MaxAttempts
    /\ ~job[o].live

(* Expire, one transaction per exhausted job, run by a worker before Claim. *)
Exhausted(o) ==
    /\ job[o].state \in Pending
    /\ job[o].overdue \/ job[o].attempts >= MaxAttempts
    /\ ~job[o].live

Expire(w, o) ==
    /\ worker[w].pc = "idle"
    /\ Exhausted(o)
    /\ IF op[o] \in Terminal \cup {"unknown"}
         THEN UNCHANGED <<op, lock>>
         ELSE AdvanceVia(o, IF op[o] = "queued" THEN "failed" ELSE "unknown")
    /\ job' = [job EXCEPT ![o] = WithoutLease(@, "failed")]
    /\ UNCHANGED <<ref, released, stale, conn, gate, worker, sent, effect>>

-----------------------------------------------------------------------------
(* Work, one action per transaction and per external call.  Every early     *)
(* return that changes nothing is Fail.                                     *)

(* A worker gives up: an error, a failed guard, a cancelled context or a    *)
(* crash.  Dispatcher.Finish writes nothing, so the job row stays running   *)
(* until its lease expires.                                                 *)
Fail(w) ==
    /\ worker[w].pc # "idle"
    /\ Return(w)
    /\ UNCHANGED <<op, ref, job, lock, released, stale, conn, gate, sent, effect>>

Load(w) ==
    /\ worker[w].pc = "claimed"
    /\ HoldsLease(w)
    /\ LET o == worker[w].op
       IN  \/ /\ op[o] = "queued"
              /\ Goto(w, "check")
           \/ /\ op[o] \in InFlight
              /\ worker' = [worker EXCEPT ![w] = Planning(@, op[o], ref[o])]
    /\ UNCHANGED <<op, ref, job, lock, released, stale, conn, gate, sent, effect>>

(* inspectDispatch, the transaction.  The target may also have left the     *)
(* published inventory, which denies the operation under any versions.      *)
Check(w) ==
    /\ worker[w].pc = "check"
    /\ HoldsLease(w)
    /\ \/ DispatchCheck(worker[w].op) /\ Goto(w, "inspect")
       \/ Goto(w, "reject")
    /\ UNCHANGED <<op, ref, job, lock, released, stale, conn, gate, sent, effect>>

(* dispatchLoad answers ErrDenied to any failure to lock the workspace row  *)
(* and dispatchCheck to any failure of authority, a statement timeout or a  *)
(* lost connection included; rejectUnsent takes that for a revocation.      *)
CheckOutage(w) ==
    /\ worker[w].pc = "check"
    /\ worker' = [worker EXCEPT ![w] = Answered(@, "reject", "error")]
    /\ UNCHANGED <<op, ref, job, lock, released, stale, conn, gate, sent, effect>>

(* inspectDispatch, the provider read: unchanged preconditions, or a review *)
(* that is no longer true (ErrStale, ErrUnsupported).                       *)
Inspect(w) ==
    /\ worker[w].pc = "inspect"
    /\ \/ Goto(w, "mark")
       \/ Goto(w, "reject")
    /\ UNCHANGED <<op, ref, job, lock, released, stale, conn, gate, sent, effect>>

RejectUnsent(w) ==
    /\ worker[w].pc = "reject"
    /\ HoldsLease(w)
    /\ op[worker[w].op] = "queued"
    /\ Advance(worker[w].op, "failed")
    /\ job' = [job EXCEPT ![worker[w].op] = WithoutLease(@, "failed")]
    /\ Return(w)
    /\ UNCHANGED <<ref, released, stale, conn, gate, sent, effect>>

MarkAfterSubmit(w) ==
    /\ worker[w].pc = "mark"
    /\ HoldsLease(w)
    /\ DispatchCheck(worker[w].op)
    /\ gate.open
    /\ Goto(w, "submit")
    /\ UNCHANGED <<op, ref, job, lock, released, stale, conn, gate, sent, effect>>

MarkTrustingInspection(w) ==
    /\ worker[w].pc = "mark"
    /\ HoldsLease(w)
    /\ op[worker[w].op] = "queued"
    /\ gate.open
    /\ Advance(worker[w].op, "dispatching")
    /\ Goto(w, "submit")
    /\ UNCHANGED <<ref, job, released, stale, conn, gate, sent, effect>>

MarkWithoutGate(w) ==
    /\ worker[w].pc = "mark"
    /\ HoldsLease(w)
    /\ DispatchCheck(worker[w].op)
    /\ Advance(worker[w].op, "dispatching")
    /\ Goto(w, "submit")
    /\ UNCHANGED <<ref, job, released, stale, conn, gate, sent, effect>>

(* The marker transaction repeats every local check and consults the gate.  *)
Mark(w) ==
    /\ worker[w].pc = "mark"
    /\ HoldsLease(w)
    /\ DispatchCheck(worker[w].op)
    /\ gate.open
    /\ Advance(worker[w].op, "dispatching")
    /\ Goto(w, "submit")
    /\ UNCHANGED <<ref, job, released, stale, conn, gate, sent, effect>>

(* The external call.  Only cancellation of the worker's context fences it, *)
(* which a paused worker does not notice.                                   *)
MaySubmit(w) == worker[w].pc = "submit" /\ (Zombies \/ worker[w].ctx)

Submit(w) ==
    /\ MaySubmit(w)
    /\ \E a \in SubmitAnswers :
         /\ sent' = [sent EXCEPT ![worker[w].op] = @ + (IF a.left THEN 1 ELSE 0)]
         /\ effect' = [effect EXCEPT ![worker[w].op] = a.effect]
         /\ worker' = [worker EXCEPT ![w] = Answered(@, "receipt", a.receipt)]
    /\ UNCHANGED <<op, ref, job, lock, released, stale, conn, gate>>

Receipt(w) ==
    LET o == worker[w].op
        to == ClassifyReceipt(worker[w].got)
    IN  /\ worker[w].pc = "receipt"
        /\ HoldsLease(w)
        /\ op[o] = "dispatching"
        /\ ref' = [ref EXCEPT ![o] = to = "waiting_provider"]
        /\ Advance(o, to)
        /\ job' = [job EXCEPT ![o] = WithoutLease(@, IF to = "failed" THEN "failed" ELSE "queued")]
        /\ Return(w)
        /\ UNCHANGED <<released, stale, conn, gate, sent, effect>>

(* observe, the provider read, made under the plan loaded earlier *)
Observe(w) ==
    /\ worker[w].pc = "observe"
    /\ \E a \in ObserveAnswers(worker[w].op, worker[w].ref) :
         worker' = [worker EXCEPT ![w] =
                      Answered(@, "record", ClassifyObservation(a, worker[w].ref))]
    /\ UNCHANGED <<op, ref, job, lock, released, stale, conn, gate, sent, effect>>

RecordWithoutLease(w) ==
    LET o == worker[w].op
        to == worker[w].got
    IN  /\ worker[w].pc = "record"
        /\ op' = [op EXCEPT ![o] = to]
        /\ lock' = IF to \in Terminal THEN ReleaseTerminal(o) ELSE lock
        /\ job' = [job EXCEPT ![o] =
                     WithoutLease(@, IF to \in Terminal \cup {"unknown"} THEN "succeeded" ELSE "queued")]
        /\ Return(w)
        /\ UNCHANGED <<ref, released, stale, conn, gate, sent, effect>>

(* observe, the recording transaction.  The inventory refresh it enqueues   *)
(* after a success belongs to the inventory component.                      *)
Record(w) ==
    LET o == worker[w].op
        to == worker[w].got
    IN  /\ worker[w].pc = "record"
        /\ HoldsLease(w)
        /\ op[o] = worker[w].seen
        /\ AdvanceVia(o, to)
        /\ job' = [job EXCEPT ![o] =
                     WithoutLease(@, IF to \in Terminal \cup {"unknown"} THEN "succeeded" ELSE "queued")]
        /\ Return(w)
        /\ UNCHANGED <<ref, released, stale, conn, gate, sent, effect>>

WorkerStep(w) ==
    \/ Load(w) \/ Check(w) \/ CheckOutage(w) \/ Inspect(w) \/ RejectUnsent(w) \/ Mark(w)
    \/ Submit(w) \/ Receipt(w) \/ Observe(w) \/ Record(w) \/ Fail(w)

(* The provider carries out what it took on. *)
ProviderRuns(o) ==
    /\ effect[o] = "pending"
    /\ \E e \in {"done", "failed"} : effect' = [effect EXCEPT ![o] = e]
    /\ UNCHANGED <<op, ref, job, lock, released, stale, conn, gate, worker, sent>>

-----------------------------------------------------------------------------
(* Users, administrators, the installation operator and retention           *)

CancelEvenSubmitted(o) ==
    /\ op[o] \in {"queued", "dispatching"}
    /\ op' = [op EXCEPT ![o] = "cancelled"]
    /\ lock' = ReleaseTerminal(o)
    /\ job' = [job EXCEPT ![o] = IF @.state \in Pending THEN WithoutLease(@, "cancelled") ELSE @]
    /\ UNCHANGED <<ref, released, stale, conn, gate, worker, sent, effect>>

Cancel(o) ==
    /\ op[o] = "queued"
    /\ Advance(o, "cancelled")
    /\ job' = [job EXCEPT ![o] = IF @.state \in Pending THEN WithoutLease(@, "cancelled") ELSE @]
    /\ UNCHANGED <<ref, released, stale, conn, gate, worker, sent, effect>>

(* A recheck of reconciling work that still has its job changes nothing;    *)
(* of unknown work, it gives the same job row a new deadline and attempts.  *)
Recheck(o) ==
    /\ op[o] = "unknown"
    /\ lock[TargetOf[o]] = o
    /\ job[o].state # "absent"
    /\ job[o].claims < MaxClaims
    /\ Advance(o, "reconciling")
    /\ job' = [job EXCEPT ![o] = Restarted(@)]
    /\ UNCHANGED <<ref, released, stale, conn, gate, worker, sent, effect>>

(* An owner accepts the residual risk: the reservation goes, the operation  *)
(* stays unknown for good.                                                  *)
ReleaseUnknown(o) ==
    /\ op[o] = "unknown"
    /\ ~released[o]
    /\ lock[TargetOf[o]] = o
    /\ released' = [released EXCEPT ![o] = TRUE]
    /\ lock' = ReleaseTerminal(o)
    /\ job' = [job EXCEPT ![o] = IF @.state = "absent" THEN @ ELSE WithoutLease(@, "cancelled")]
    /\ UNCHANGED <<op, ref, stale, conn, gate, worker, sent, effect>>

(* connection.Disable cancels every queued job of the connection, whatever  *)
(* its type and whatever its operation has done.                            *)
Disable ==
    /\ conn = "active"
    /\ conn' = "disabled"
    /\ job' = [o \in Ops |-> IF job[o].state = "queued" THEN WithoutLease(job[o], "cancelled") ELSE job[o]]
    /\ UNCHANGED <<op, ref, lock, released, stale, gate, worker, sent, effect>>

(* Any change of membership or grant raises the policy version, and a       *)
(* rotation the credential version: reviews bound to the old one are stale. *)
AuthorityChanges ==
    /\ stale' = {o \in Ops : op[o] # "absent"}
    /\ UNCHANGED <<op, ref, job, lock, released, conn, gate, worker, sent, effect>>

GateRow == [open: BOOLEAN, version: Nat]
GateSet(g, open) == [g EXCEPT !.open = open, !.version = g.version + 1]

Unresolved(o) == op[o] \in InFlight \/ (op[o] = "unknown" /\ \E t \in Targets : lock[t] = o)

CloseGate ==
    /\ gate.version < MaxGateVersion
    /\ gate' = GateSet(gate, FALSE)
    /\ UNCHANGED <<op, ref, job, lock, released, stale, conn, worker, sent, effect>>

OpenGateIgnoringUnresolved ==
    /\ gate.version < MaxGateVersion
    /\ gate' = GateSet(gate, TRUE)
    /\ UNCHANGED <<op, ref, job, lock, released, stale, conn, worker, sent, effect>>

(* The operator names the current version; another is refused without a     *)
(* change.                                                                  *)
OpenGate ==
    /\ gate.version < MaxGateVersion
    /\ \A o \in Ops : ~Unresolved(o)
    /\ gate' = GateSet(gate, TRUE)
    /\ UNCHANGED <<op, ref, job, lock, released, stale, conn, worker, sent, effect>>

PrunableAnyJob(o) == job[o].state \in {"succeeded", "failed", "cancelled"}

(* Seven days after it ended, the job row of a settled operation goes.      *)
Prunable(o) ==
    /\ job[o].state \in {"succeeded", "failed", "cancelled"}
    /\ op[o] \in Terminal

PruneTerminal(o) ==
    /\ Prunable(o)
    /\ job' = [job EXCEPT ![o] = WithoutLease(@, "absent")]
    /\ UNCHANGED <<op, ref, lock, released, stale, conn, gate, worker, sent, effect>>

-----------------------------------------------------------------------------
Next ==
    \/ \E o \in Ops :
         \/ Accept(o) \/ Cancel(o) \/ Recheck(o) \/ ReleaseUnknown(o)
         \/ LeaseExpires(o) \/ DeadlinePasses(o) \/ PruneTerminal(o)
         \/ ProviderRuns(o)
    \/ \E w \in Workers : \/ WorkerStep(w) \/ RenewLate(w)
                          \/ \E o \in Ops : Claim(w, o) \/ Expire(w, o)
    \/ Disable \/ AuthorityChanges
    \/ CloseGate \/ OpenGate

Spec == Init /\ [][Next]_vars

(* Every external call and every statement of a worker has a timeout, so a  *)
(* worker at work takes its next step or gives up; deadlines pass; an idle  *)
(* worker runs Expire before each attempt to claim.  Nothing is assumed of  *)
(* the provider, the users or of claiming itself.                           *)
Fairness ==
    /\ \A w \in Workers : WF_vars(WorkerStep(w))
    /\ \A o \in Ops : WF_vars(DeadlinePasses(o))
    /\ \A o \in Ops : WF_vars(\E w \in Workers : Expire(w, o))

FairSpec == Spec /\ Fairness

-----------------------------------------------------------------------------
(* Types.  Attempts never pass the limit at which Claim stops, and a worker *)
(* past its claim knows its operation.                                      *)
TypeOK ==
    /\ op \in [Ops -> OpState]
    /\ ref \in [Ops -> BOOLEAN]
    /\ job \in [Ops -> JobRow]
    /\ lock \in [Targets -> Ops \cup {NoOp}]
    /\ released \in [Ops -> BOOLEAN]
    /\ stale \in SUBSET Ops
    /\ conn \in {"active", "disabled"}
    /\ gate \in GateRow
    /\ worker \in [Workers -> WorkerState]
    /\ \A w \in Workers : worker[w].pc # "idle" => worker[w].op \in Ops
    /\ sent \in [Ops -> Nat]
    /\ effect \in [Ops -> Effect]

(* However often an operation's job is claimed, stolen, retried or          *)
(* rechecked, and whichever workers crash or stall on the way, at most one  *)
(* Submit request leaves for the provider (Work, receipt, observe).         *)
AtMostOneSubmit == \A o \in Ops : sent[o] <= 1

(* A cancelled operation was never submitted and never will be, and a       *)
(* failed one has not changed and will not change its target: Cancel,       *)
(* rejectUnsent and Expire lose every race against the marker, an ambiguous *)
(* receipt never counts as a rejection, and failure needs native evidence.  *)
FailureMeansNoEffect ==
    \A o \in Ops :
      /\ op[o] = "cancelled" => sent[o] = 0
      /\ op[o] \in {"failed", "cancelled"} =>
           /\ effect[o] \in {"none", "failed"}
           /\ \A w \in Workers : worker[w].op = o => ~MaySubmit(w)

(* A target is reserved exactly while an operation on it is unsettled and   *)
(* not released by an owner, by that operation: two operations never race   *)
(* on one target and no reservation outlives its operation (Reserve,        *)
(* ReleaseTerminal, ReleaseUnknown).                                        *)
Holding(o) == op[o] \notin Terminal \cup {"absent"} /\ ~released[o]

ReservationExact ==
    \A t \in Targets, o \in Ops : lock[t] = o <=> TargetOf[o] = t /\ Holding(o)

(* As long as the connection is active, every unsettled operation has a     *)
(* queued or running job that will settle it, and an unknown one keeps the  *)
(* job row that a recheck requeues (finishJob, Expire, PruneTerminal).      *)
NoOrphanedOperation ==
    \A o \in Ops :
      /\ conn = "active" /\ (op[o] = "queued" \/ op[o] \in InFlight) => job[o].state \in Pending
      /\ op[o] = "unknown" => job[o].state # "absent"

(* No job outlives the settlement of its operation: a settled or released   *)
(* operation has no queued or running job that a worker could claim and no  *)
(* late worker brings it back (Cancel, receipt, observe, ReleaseUnknown).   *)
SettledStaysSettled ==
    \A o \in Ops :
      /\ op[o] \in Terminal \cup {"unknown"} => job[o].state \notin Pending
      /\ released[o] => op[o] = "unknown"

(* waiting_provider promises a durable provider reference.                  *)
WaitingHasReference == \A o \in Ops : op[o] = "waiting_provider" => ref[o]

(* A request leaves only while its operation is marked dispatching and      *)
(* holds the reservation of its target.  True of workers that stop when     *)
(* their lease ends; a paused worker can break it (Work, line 75).          *)
SubmitUnderReservation ==
    [][\A o \in Ops : sent'[o] # sent[o] =>
          op[o] = "dispatching" /\ lock[TargetOf[o]] = o]_vars

(* When the recovery gate reopens no worker is past its marker with a       *)
(* request still to send (SetRecovery counts unresolved operations under    *)
(* the lock that markers share).                                            *)
ReopenFindsNoSubmitter ==
    [][~gate.open /\ gate'.open => \A w \in Workers : ~MaySubmit(w)]_vars

(* What the operator inspects under a closed gate stays true: once nothing  *)
(* is unresolved and nobody is about to submit, no marker, late worker or   *)
(* recheck changes that until the gate is reopened (checkRecoveryGate,      *)
(* Recovery, Recheck).                                                      *)
Quiet == /\ \A o \in Ops : ~Unresolved(o)
         /\ \A w \in Workers : ~MaySubmit(w)

QuietUntilReopened == [][~gate.open /\ ~gate'.open /\ Quiet => Quiet']_vars

(* Every accepted operation is settled or declared unknown, unless its      *)
(* connection is disabled.                                                  *)
EventuallySettled ==
    \A o \in Ops : (op[o] = "queued" \/ op[o] \in InFlight)
                     ~> (op[o] \in Terminal \cup {"unknown"} \/ conn = "disabled")

(* An operation whose review went stale or whose connection was disabled    *)
(* before its marker is never submitted, however far its worker had come    *)
(* with checks that passed earlier (dispatchCheck in the marker             *)
(* transaction).                                                            *)
RevokedNeverSent ==
    \A o \in Ops : [](op[o] = "queued" /\ (o \in stale \/ conn = "disabled")
                        => [](sent[o] = 0))

(* What the comment in Disable and docs/architecture/security.md promise:   *)
(* submitted work keeps its reconciliation job when the connection is       *)
(* disabled.                                                                *)
SubmittedKeepsJob ==
    \A o \in Ops : sent[o] = 1 /\ op[o] \in InFlight => job[o].state \in Pending

(* What the comment in rejectUnsent promises: temporary read and store      *)
(* failures leave queued work recoverable.                                  *)
OutageKeepsQueued ==
    [][\A w \in Workers :
         worker[w].pc = "reject" /\ worker[w].got = "error" /\ worker'[w] # worker[w] => op' = op]_vars

(* The detailed specification implements the promise to users: unresolved   *)
(* work is committed to, proved failure and cancellation close it.          *)
PhaseOf(o) ==
    CASE op[o] = "absent" -> "none"
      [] op[o] = "queued" -> "unsent"
      [] op[o] = "succeeded" -> "succeeded"
      [] op[o] \in {"failed", "cancelled"} -> "closed"
      [] op[o] = "unknown" /\ released[o] -> "released"
      [] OTHER -> "committed"

Promise == INSTANCE MutationPromise
             WITH phase <- [o \in Ops |-> PhaseOf(o)], holder <- lock, calls <- sent

ImplementsPromise == Promise!Spec
=============================================================================
