# Sama: specifications of operations, inventory and the control plane

Sama lets members of a workspace look at cloud resources of several providers
and run a small set of mutations on them (power actions and snapshots). The
hard promise is about mutations: each one is sent to the provider **at most
once**, whatever workers, leases, clocks, networks and users do, and nobody is
told that nothing happened unless nothing happened. The promise about looking is
that the inventory shown is what one complete scan found, and that nothing is
reported deleted for any other reason. Around both stands the control plane: who
may do what, agreed to when, with which credential, and what a provider's answer
is taken to mean. This directory holds TLA+ specifications
of the code that keeps those promises, TLC runs that check them on small
instances, and TLAPS proofs for instances of any size.

Everything is translated from the Go source under `backend/`; `PROJECT.json`
maps each definition to the lines it models.

## The system

| Component | State | Operations | Interacts with |
|---|---|---|---|
| Admission (`operation/review.go`, `accept.go`, `idempotency.go`) | `action_reviews`, `operations`, idempotency keys | Prepare, Confirm, Resolve | reservations, jobs, provider reads |
| Operation dispatch (`operation/dispatch*.go`, `receipt.go`, `observe.go`, `expire.go`) | `operations.state`, `provider_reference`, events | Work, rejectUnsent, receipt, observe, Expire | leases, provider, gate, reservations |
| Reservations (`operation/reservation.go`) | `resource_locks` | Reserve, ReleaseTerminal | admission, every settlement |
| Operation controls (`control.go`, `recheck.go`, `resolution.go`) | `operation_resolutions` | Cancel, Recheck, ReleaseUnknown | operations, jobs, reservations |
| Recovery gate (`recovery_gate.go`, `cmd/sama-dispatch-recovery`) | `dispatch_recovery_gate` | status, close, open | the marker transaction |
| Job leases (`job/lease.go`, `prune.go`) | `jobs` | Claim, Renew, Run, PruneTerminal | everything asynchronous |
| Job runner (`job/runner.go`) | advisory lock, worker goroutines | Run, worker, drain | leases, handlers |
| Inventory refresh (`inventory/`) | `sync_runs`, staging, `resources` | Enqueue, scan, Complete | jobs, provider reads |
| Outbound budget (`platform/outbound/budget.go`) | slots and cooldowns per connection | Call | every provider call |
| Connections (`connection/`) | `connections`, `credential_versions` | Save, Rotate, Disable, validation, rewrap | jobs, reviews |
| Membership and grants (`workspace/`) | `memberships`, `connection_grants`, `policy_version` | ChangeMember, Transfer, SetGrant, invitations | reviews |
| Identity (`identity/`) | `sessions`, challenges | login, reauthentication, logout | HTTP |
| Provider adapters (`provider/`) | none | Inspect, Submit, Observe, inventory pages | dispatch, inventory |
| Audit, platform, HTTP API, frontend | append-only rows, configuration | | |

What is hard about it:

* **Concurrency.** Several workers, HTTP handlers and the installation
  operator's command run at once. Transactions lock the workspace row first, so
  a transaction is atomic; everything *between* two transactions of one handler
  is not, and Work makes up to three transactions with two provider calls
  between them.
* **Failure.** A worker can die or be paused anywhere. A database fencing token
  cannot fence an external call (`dispatch.go:75`), so a paused worker may send
  its request after its lease was lost. The provider's answer may be lost while
  its effect happens.
* **Two clocks.** Claim and renew compare with the scheduler's clock, all other
  statements with PostgreSQL's.
* **Staleness.** Reviews, credentials, grants and observations are read, then
  used in a later transaction.
* **Retention and administration.** Pruning, disabling and the recovery gate
  touch rows that in-flight work still needs.

`PROJECT.json` lists each of these as a hazard at the line where it bites, with
the properties that cover it or the reason why none does.

## Modules

`OperationDispatch.tla`: operation dispatch, its jobs and leases,
reservations, controls, Disable and the recovery gate, for the operations of one
connection. One action is one database transaction or one external call.

| Variable | Code |
|---|---|
| `op`, `ref` | `operations.state`; `provider_reference IS NOT NULL` |
| `job` | the `jobs` row of each operation: state, lease token, attempts, and whether the lease is live and the deadline past on the database's clock |
| `lock`, `released` | `resource_locks`; `operation_resolutions` |
| `stale` | operations whose review carries an old credential or policy version |
| `conn`, `gate` | `connections.status`; `dispatch_recovery_gate` |
| `worker` | what a goroutine in `Work` remembers between transactions: program counter, operation, lease token, context, loaded plan, the provider's answer |
| `sent`, `effect` | history of requests that left; the provider's own record |

| Action | Code |
|---|---|
| `Accept` | the last transaction of `Confirm`: quota, operation, reservation, job |
| `Claim`, `RenewLate`, `LeaseExpires`, `DeadlinePasses` | `job/lease.go`; lease end fires the watchdog of its worker |
| `Load`, `Check`, `CheckOutage`, `Inspect`, `RejectUnsent`, `Mark`, `Submit`, `Receipt` | `Work` on a queued operation, in this order |
| `Load`, `Observe`, `Record` | `Work` on a submitted one |
| `Fail` | every early return that writes nothing, and a crash: `Dispatcher.Finish` is empty, so the job row stays running until its lease ends |
| `Expire` | `operation.Expire`, run by a worker before it claims |
| `Cancel`, `Recheck`, `ReleaseUnknown` | the user controls |
| `Disable`, `AuthorityChanges` | `connection.Disable`; any change of policy or credential version |
| `CloseGate`, `OpenGate` | `SetRecovery`; an open request for another version than the current one is refused |
| `PruneTerminal` | retention of job rows |
| `ProviderRuns` | external: the provider carries out what it took on |

Two constants choose how bad the world is: `ClockSkew` lets Claim steal a live
lease or claim an overdue job and lets a renewal revive an expired lease;
`Zombies` lets a worker paused past its lease go on to send its request. What is
abstracted: identities, intents and fingerprints (an inspection finds the review
still true or not), times (two booleans per job), the delay until `next_run_at`,
audit and event rows, and who may call a control. Without a provider reference
an adapter may take the target's state for success whoever caused it
(`ObserveAnswers`), so `succeeded` does not imply that this request had the
effect; only `failed` and `cancelled` are promises about effects.

`MutationPromise.tla`: the abstract specification: per operation a phase
(none, unsent, committed, succeeded, closed, released), per target a holder, and
at most one call, never before commitment and never once closed.
`OperationDispatch` implements it (`ImplementsPromise`).

`InventorySync.tla`: inventory refresh for one connection: acceptance,
leases, the scan, publication, and everything that happens meanwhile. One action
is one transaction or one page request.

| Variable | Code |
|---|---|
| `run` | `sync_runs` by `generation_number`: kind, status, `scan_complete`, `credential_version` |
| `job` | the `connection_refresh` job of each run, as above |
| `staged` | `inventory_staging`: the native ids of each run's current generation |
| `resource` | `resources` by kind and native id: the number of the run that wrote the row, and whether it is shown (`tombstoned_at IS NULL`) |
| `conn`, `version`, `allowed` | `connections.status`, `active_credential_version`; whether role and grants of the requesting member permit a refresh |
| `scheduler`, `worker` | the process; what each goroutine remembers between transactions: program counter, run, lease token, credential version, page number, page |
| `world` | external: the provider's list, by kind |
| `walk` | history: what the latest scan of each run met |

| Action | Code |
|---|---|
| `Enqueue` | `enqueueType`; an open run of the kind is returned unchanged, otherwise quota, run and job |
| `Claim`, `LeaseExpires`, `DeadlinePasses` | `job/lease.go` |
| `StartScan`, `Guard`, `ReadPage`, `Stage` | `Scan`: the first guard, which starts over, then per page a guard, a request and the staging transaction |
| `Abandon`, `ScanFails` | how `Run` ends otherwise: lease lost, or an error that `Complete` will record |
| `Publish`, `RecordFailure`, `FinishFails` | `Complete`: publication, recording of a failure, or an error, which stops all workers |
| `Crash`, `Restart` | the end of the process for any other reason; its supervisor |
| `PruneStaging`, `AuthorityChanges`, `Rotate`, `Disable` | retention, membership and grants, credential rotation, disabling |
| `Appear`, `Vanish` | external: the provider's list changes, also during a walk |

Pages are numbered, as Hetzner, DigitalOcean and Contabo number theirs: a page
shows the rows at its positions in the list as it is when it is read. Only native
ids are kept of the rows. The queue quota counts refresh jobs only, and the
scheduler's clock agrees with the database's; skewed clocks are explored in
`OperationDispatch`. Readers are those an installation registers: at this commit
`cmd/sama/main.go` registers none, and each of its scans is a `StartScan` followed
by `ScanFails`. Jobs of payload version 1, which have no run, are rejected by the
runner and not modelled.

`InventoryPromise.tla`: what a reader of the inventory is promised: what is shown
for a kind is replaced as a whole, one kind at a time, and only by a refresh
accepted after the one shown. `InventorySync` implements it
(`KeepsInventoryPromise`).

`OutboundBudget.tla`: `platform/outbound/budget.go`. Every provider call of the
process goes through it: two at a time per connection, none while the quota it
counts against cools down. A caller sleeps outside the mutex and wakes by its
timer, by a signal or by its context. A caller is one use of `acquire`. A client's
request under a `Call` of the same scope reuses its slot, as the comment of `Call`
says; but operations derive their scope by `quotaKey` (`operation/budget.go:9`) and
adapters another (`provider/hetzner/client.go:32`), and then `RoundTrip` acquires a
second slot of the same connection (`budget.go:174-176`). `Within` names the Call a
request is nested in: it is made while the Call holds a slot, and the Call is not
released before it is over.

| Variable | Code |
|---|---|
| `connections`, `slots`; `cooldowns`, `quota` | the two registries of `Budget`, and the structs they point to, which callers keep pointing to after an entry is deleted |
| `caller` | what `acquire` remembers: its structs, its timer, whether its channel was closed |
| `clock`, `pause`, `calls` | the clock; the pause a provider asked for last, as history; the calls made so far, which bounds the run |

`Enter`, `Resume` are the turns of `acquire`'s loop with the mutex held, `Cancel`
and `GiveUp` the end of a context, `Release` the returned function, `Limited` a 429
with its `Retry-After`, `Refuse` a full registry, `Tick` the clock.

`ProviderContract.tla` states which answers of Submit and Observe
`OperationDispatch` reckons with. `ProviderAdapters.tla` has the twelve mutation
ports themselves (power, snapshot creation, snapshot deletion of Hetzner,
DigitalOcean, Vultr and Contabo): `Review` (Inspect), `SubmitStops`, `SubmitSends`
and `Answer`, `Observe`, with one operator per adapter and step, against an
external provider that takes a request on, declines it, carries it out, breaks it,
loses or garbles the answer, and against other users of the account (`Meddle`).
It shows that the adapters keep the contract the dispatcher's proofs start from.

`SnapshotWalk.tla`: Contabo has no list of all snapshots; `SnapshotPage` walks pages of
instances and, for each, pages of snapshots, and carries its place in a cursor while
instances and snapshots come and go and the provider lists them in another order
(`order`, `Reorder`). `AccessTokens.tla`: the token that concurrent Contabo requests
share, fetch behind a gate of one and replace when it is refused.

`Roles.tla`: roles, ranks, who may assign what, and the ceiling of each grant class.

`Access.tla`: memberships, invitations, sign-in and sessions of one workspace.

| Variable | Code |
|---|---|
| `member`, `policy`, `invitation` | `memberships` (role, version), `workspaces.policy_version`, `invitations` |
| `session`, `challenge` | `sessions`, `login_challenges` |
| `request` | the HTTP requests being served: what their author saw, and what their transaction holds and will write |
| `other` | where the ids of a person's other open workspaces lie from this one's: earlier, later, both or none; `ChangeElsewhere` changes it at any time |

A member request is sent (`Send`), takes the workspace row and checks (`Check`),
runs its statements (`Write`) and commits (`Commit`) or is refused or fails (`Abort`).
A sign-in starts a challenge (`StartChallenge`), deletes it and exchanges its code
(`Consume`), runs its transaction, with the redemption of an invitation in it
(`SignIn`), and commits. `Logout` is one step. A transaction is more than one step
here, other than in the other modules, because sign-in and the deletion of sessions
lock different rows and meet between their statements. Which row a sign-in locks
depends on `other`: the first by id of the workspaces the person is in at that moment
(`LocksOf`), which is this one only for a member with no earlier one. Somebody may be
added here who is a member of any other workspace, earlier or later (`Admitted`).

`Admission.tla`: how an action is admitted. `Prepare`, `Inspect`, `Reviewed` are the
first transaction, the provider read and the second transaction of Prepare;
`Confirm`, `InspectAgain`, `Accept` those of Confirm, which answer at either end with
the operation a key already stands for. Meanwhile grants (`SetGrant`), roles
(`ChangeMember`), credential (`Rotate`), status (`Disable`), inventory (`Publish`),
target (`Meddle`) and the age of the sign-in (`Lapse`) change, reviews expire and are
deleted, and operations end, are left unknown, and are rechecked.

`Credentials.tla`: the versions of a credential and the master keys that wrap them.
A rotation reads the version, validates and seals, and stores in a later transaction
(`StartRotation`, `Encrypt`, `Rotate`); the operator mounts a second key, restarts the
servers, runs the rewrap command batch by batch, through interruptions, and retires
the old key when nothing refers to it (`Mount`, `Restart`, `StartRewrap`,
`RewrapBatch`, `KeyReferences`, `Retire`). The command looks at its own keyring only
and may run while servers still write with the old key; that the operator retires the
key only after a command run with the new one loaded everywhere (`orderly`) is the
procedure of `docs/architecture/security.md:56`, which no code enforces.

`MCOperationDispatch.tla`, `MCInventorySync.tla`, `MCProviderCalls.tla` and
`MCControlPlane.tla` instantiate for TLC. The last two hold several parts that share
no state in the code, or share only what one of them repeats of another; a behaviour
of theirs runs the part that `part` names.
`OperationDispatchProofs.tla`, `InventorySyncProofs.tla`, `AccessProofs.tla`,
`AdmissionProofs.tla`, `CredentialsProofs.tla`, `OutboundBudgetProofs.tla`,
`ProviderCallsProofs.tla` and `ControlPlaneProofs.tla` hold the proofs.
`MCControlPlane` instantiates `AdmissionProofs` and `CredentialsProofs`, which only
add theorems to `Admission` and `Credentials`, so that `ControlPlaneProofs` can cite
them. The operators named after a mistake (`MarkAfterSubmit`, `ReserveAnyway`, ...) are
deliberately wrong variants of the definition that follows them, kept to show that
each property notices the mistake; no specification uses them.

## Runs

| Run | Instance | Shows |
|---|---|---|
| `dispatch_stall` | 1 operation, 2 workers, skew and zombies, 3 attempts, 3 claims, gate versions to 3 | `AtMostOneSubmit`, `FailureMeansNoEffect`, `WaitingHasReference`, `SettledStaysSettled`, `NoOrphanedOperation`, `TypeOK` in the worst world |
| `dispatch_conflict` | 2 operations on one target, 2 workers, zombies, 1 claim each | `ReservationExact`, `ImplementsPromise` |
| `dispatch_prompt` | 1 operation, 2 workers that stop with their lease, 2 claims, gate versions to 4, fairness | `SubmitUnderReservation`, `ReopenFindsNoSubmitter`, `QuietUntilReopened`, `RevokedNeverSent`, `EventuallySettled` |
| `disable_orphans` | 1 operation, 1 worker | **violated**: `SubmittedKeepsJob` |
| `outage_rejects` | 1 operation, 1 worker | **violated**: `OutageKeepsQueued` |
| `sync_fencing` | 1 refresh, 2 workers, 2 resources on 2 pages, 2 claims, 2 credential versions, fairness | `ShownIsOneWalk`, `OneCredential`, `RefreshEnds`, `TypeOK` |
| `sync_history` | 2 kinds, 2 refreshes of servers, 1 worker, 2 resources on 2 pages | `OpenIsNewest`, `TombstoneHasCause`, `KeepsInventoryPromise` |
| `provider_calls` | budget: 4 callers and 2 requests nested in two of them, 2 connections, 2 quotas, fairness; adapters: 4 providers, 2 changes by others; walk: 3 instances, 2 snapshots, 3 orders; token: 3 readers | `TwoCallsAtMost`, `SleepersHaveCause`, `PauseIsKept`, `WaitersAreServed`, `TypeOK`; `ReceiptIsTruthful`, `ObservationIsTruthful`, `SuccessIsOwn`; `WalkIsExact`; `FetchHasCause` |
| `control_plane` | members, versions and sessions: 3 people, 2 requests, 3 sessions, 2 challenges, 1 invitation; admission: 2 people, 1 target, 2 reviews, 2 keys; credentials: 2 servers, 3 versions | `AlwaysAnOwner`, `StaleNeverApplied`, `OwnersMakeAdmins`, `EndedStaysEnded`, `ChallengeOnce`, `HomeElevationEndsSessions`; `AcceptedOnce`, `AcceptedAsReviewed`; `CredentialsOpen`, `PartsTypeOK` |
| `sync_overdue` | 1 refresh, 1 worker, fairness | **violated**: `OverdueIsRetired` |
| `sync_isolation` | 2 kinds, 2 workers | **violated**: `FailureIsIsolated` |
| `sync_shifted` | 2 refreshes, 1 worker, 2 resources on 2 pages | **violated**: `ListedIsNotDeleted` |

Bounds. `MaxAttempts` stands for the code's 100: two or three claims suffice for a
theft, a retry and exhaustion. `MaxClaims` bounds rechecks: no recheck after that many
claims of a row, which leaves room for a recheck after exhaustion and for a stalled
worker of an earlier lease. `MaxGateVersion` bounds gate changes: the gate starts
closed at version 1, so 4 allows open, close, open. Two workers are one holder and one
successor; two operations on one target are one holder and one contender.
`dispatch_conflict` has one claim per job only: what retries and rechecks do to one
operation is explored by `dispatch_stall`, and the two properties of
`dispatch_conflict` are proved without bounds. Deadlock is not checked in the runs of
`OperationDispatch`: when all operations are settled and the bounds are used up the
model rightly stops.

In `InventorySync` `PageSize` stands for 50 and `MaxPages` for 100: with one row per
page two resources already fill two pages, shift, and exceed the limit. `MaxRuns`
bounds the refreshes ever accepted, `MaxVersion` the credential versions; two of each
are one before and one after. With two claims a job has a stale and a current holder.
`sync_fencing` accepts one refresh: that an older scan never replaces a newer one is
explored by `sync_history` and, with stale holders, left to the theorems
`InventoryIsOneWalk` and `InventoryPromiseIsKept`. In `sync_history` only servers are
refreshed (`OnlyServers`): the rows of the other kind are there to be left alone.

In `provider_calls` the budget has two operations' calls with their nested requests,
which together can take both slots and wait for a third, a read of the same
connection, and a call of another connection that shares the quota of the operations
(`Bound`: the two operations start in one order, since they behave alike, and the
other connection is used together with one of them); `MaxEntries` stands for the 1000
entries of a registry, `MaxTime` and `MaxCalls` bound the clock and the calls, so that
a cooldown can be extended and outlast its callers. `MaxChanges` bounds what others do
to the account, `MaxSteps` stands for the 100 steps of a walk, and pages of two
instances and one snapshot make every boundary of the cursor occur. The three orders
of a list exchange its last two instances and its snapshots, or move the first
instance to the end; each may be the first and may follow any other. `MaxEpoch` bounds
tokens: one refused, its successor, and one more.

In `control_plane` an action constraint (`Bound`) leaves out what could only multiply
states: requests refused on arrival, roles that differ in no check, and combinations
of more than one change of the connection, target and sign-in during an admission.
"members" starts with two people in authority and a third who may be invited or, a
member of another workspace, be added. "versions" starts with an owner and an admin
who has another workspace, and its requests change that admin: `MaxPolicy` leaves
room for three changes after the start, so that a request may be sent, the member be
removed and added again with the same role, and the request arrive then.
"sessions" starts with an owner and somebody who is an operator to be promoted or no
member yet and to be added, with an earlier workspace, a later one or none, which may
come and go meanwhile. Two requests, one against the other, are enough for every race
the properties are about. In admission one raise of the policy revision fits into
`MaxRevision`: an authority that is taken and given back between review and
confirmation is left to the theorem `AcceptanceIsOfTheReviewed`. In
`Credentials` `MaxVersion` stands for the largest int64. Requests and idempotency keys
are symmetric: the properties quantify over both.

Some properties are narrower than one might wish, because the code is.

`HomeElevationEndsSessions` is about sessions whose sign-in locked this workspace. A
sign-in locks only the person's first workspace at that moment
(`httpapi/callback.go:55-58`). A rise in another one, or an admission to one that
becomes the first by it, may overlap the sign-in: the sessions it deletes
(`workspace/change_member.go:137`) do not include the one not yet committed, and that
one lives on with the new role. `backend/README.md:154-155` says without such a limit
that grants and elevations revoke the user's existing sessions.

`EndedStaysEnded` is about the session that a challenge was bound to. The comment of
`RotateRecent` says that logout wins races; a logout that comes after the rotation
finds its row gone and ends nothing, and the session that replaced it stays.

`WalkIsExact` leaves out three things that the cursor does not notice, each recorded
by a history variable: an instance that vanishes just when the walk passes to the
next page of instances, where the cursor names none (`blind`,
`provider/contabo/snapshot.go:165-167`); a snapshot that goes from the instance being
read, of whose pages no row is expected (`shrunk`); and a reordering that lists behind
the cursor what was ahead of it (`overtaken`). The comment at `snapshot.go:73` says
that reordered sources fail closed. They do when the expected instance moves to
another row; A, B, C listed as C, B, A after A was read leaves B where it is expected,
and C is never read.

`SuccessIsOwn` exempts the
providers whose API leaves no other evidence than the state of the target.

Two properties hold only of workers that stop when their lease ends
(`Zombies = FALSE`): a request leaves only under marker and reservation, and
reopening the gate finds no submitter. A paused process can break both, which is
why a worker's context, watchdog and the 30 second call timeout exist and why
`AtMostOneSubmit` and `FailureMeansNoEffect` are checked and proved without that
assumption.

Fairness (`FairSpec`). A worker at work takes a step or gives up, because every
statement has a timeout of 5 seconds and every provider call one of 30; deadlines
pass; and an idle worker runs Expire before every attempt to claim, twice a
second. Nothing is assumed of the provider, of users, of claiming, or of the
gate being open. The runner itself is assumed to be restarted when it stops (the
process exits on such errors and is supervised).

In `InventorySync` a worker at work takes a step (weak fairness), the process is
restarted when it has ended, and the lease of a job that no worker is at ends by
itself. Claims are strongly fair per job, because the process may go down between
two of them: Claim takes due jobs in order of `next_run_at`, which a claim does not
change, and a job leaves that order after at most `MaxAttempts` claims, so that
only finitely many claims go to other jobs first. Nothing is assumed of members,
the provider, or leases held by a worker.

In `OutboundBudget` the clock goes on, a caller that is awake takes its turn at the
mutex, and a call that waits for nothing else ends. A Call whose request waits for a
second slot does not end by itself: two of them can hold both slots of a connection
and wait for each other. What ends this is the context: Inspect, Submit and Observe
run under timeouts of 30 seconds (`operation/review.go:116`, `dispatch.go:80`,
`observe.go:45`), so a nested request that waits is cancelled in the end (fairness of
`Cancel`, without which TLC shows everybody on the connection waiting for ever). No
provider, no signal and no order among waiters is assumed: `WaitersAreServed` says
that a waiting call gets a slot or its context ends. The property thus admits that
calls which hold and wait time out together.

### What the violated runs show

1. `Disable` cancels every queued job of the connection. An operation that was
   submitted and waits in the queue for its next observation loses that job: it
   stays `waiting_provider` or `reconciling`, `Expire` and `Recheck` do not apply
   to it, its target stays reserved and the recovery gate cannot be reopened.
   The comment above the statement and the security document promise the
   opposite (`disable_orphans`). An unsent operation likewise loses its job and
   stays `queued` and reserved until somebody cancels it by hand.
2. A failure to lock the workspace row during the dispatch check is reported as
   `ErrDenied`, as is a store error of the authority query; `rejectUnsent` takes
   this for a revocation and fails the operation. Its comment says that temporary
   store failures leave queued work recoverable (`outage_rejects`).
3. A refresh whose deadline passes before it is finished is never claimed again
   and never ended: the scheduler's only maintenance expires operation jobs. Its
   run stays open, every later refresh of the kind is answered with it, and its
   job counts against the queue quota for good (`sync_overdue`).
4. When authority, credential or lease go between the last page of a scan and its
   publication, `Complete` returns an error, which ends the worker, all other
   workers and the process. The architecture document says that failed work is
   isolated per scope (`sync_isolation`). `RefreshEnds` holds because the process
   is restarted.
5. Page numbers are the only cursor. A resource dropped from a page already read
   moves the rest of the list up, the next page skips one, and the publication
   tombstones a resource the provider listed all the time (`sync_shifted`).
   `TombstoneHasCause` shows that this is the only way a listed resource is lost.

## Proofs

`OperationDispatchProofs` proves, from `ConstantsAssumption` alone (any sets of
operations, targets and workers, any limits, skew and zombies or not):

* `TypeCorrect`: `Spec => []TypeOK`; inductive as it stands.
* `SubmitInvariant`: `Spec => []SubmitInv`, and from it `SubmittedAtMostOnce`,
  `FailureIsHarmless` and `WaitingIsReferenced`. `AtMostOneSubmit` is not
  inductive: one has to know that a worker about to call belongs to an operation
  past its marker, that there is at most one such worker (`Unique`) and that it
  has not called yet (`Uncalled`); that unsent and cancelled operations have no
  caller and no effect (`Untouched`); that a stored reference excludes callers
  (`Referenced`); that a remembered rejection means no effect (`Receipts`); that
  remembered plans and observations are still justified (`Plans`); and that
  failed operations have no caller and no effect (`Failures`).
* `LedgerInvariant`: `Spec => []LedgerInv`, the conjunction of
  `ReservationExact`, `SettledStaysSettled` and `NoOrphanedOperation`, which are
  inductive only together and with `Plans`; from it `ReservationsAreExact`,
  `SettledIsSettled` and `NothingIsOrphaned`.
* `PromiseIsKept`: `Spec => ImplementsPromise`. Every step maps to a step of
  `MutationPromise` or to a stutter, using all three invariants.
* `TokensAreFresh`: `Spec => []LeaseInv`. A token belongs to one worker and is never
  ahead of the claims issued (`TokensApart`), and a row that was never accepted
  issued none (`Unborn`). From it `SubmittersAreFenced`, where clocks agree
  (`~ClockSkew`): a worker whose context is alive between its marker and its call
  holds the lease, and its operation is still dispatching (`SubmittersHoldLease`).
* `RequestsLeaveReserved` and `ReopeningIsSafe`: `SubmitUnderReservation` and
  `ReopenFindsNoSubmitter`, for `~ClockSkew` and `~Zombies`, the hypotheses under
  which `dispatch_prompt` checks them. A worker that is paused past its lease can
  send after its operation was released.
* `QuietIsKept` and `RevokedIsNeverSent`: `QuietUntilReopened` and
  `RevokedNeverSent`, with no such hypothesis. The second needs that a revoked
  operation stays revoked and is settled or queued, never marked (`Barred`).

`InventorySyncProofs` proves, from `SyncAssumption` alone:

* `SyncTypeCorrect`: `Spec => []TypeOK`, inductive together with the fact that a
  worker that is not idle works on an accepted run (`Assigned`).
* `RefreshesNeverOvertake`: `Spec => []OpenIsNewest`. It needs that runs are
  numbered in order of acceptance and that a job is pending only while its run is
  open (`Numbered`). The proof splits the steps into those that accept a refresh
  and those that only age the accepted ones (`RunsAge`).
* `SyncInvariant`: `Spec => []SyncInv`. What is published depends on who staged
  it, so `ShownIsOneWalk` needs the whole chain behind it. `TokenInv`: the newest
  token of a job is its number of claims, a scan carries the token of the claim
  that started it, and no two workers have the same claim. `ScanInv`: a complete
  scan staged exactly what its walk read; the worker that holds the current claim
  knows page, credential and rows of that walk; a page read with a credential
  already rotated away leaves the scan with an old version, which bars its
  publication. `PubInv`: a shown row belongs to the newest successful run of its
  kind, with the two properties below.
* `InventoryIsOneWalk` and `InventoryHasOneCredential`: `ShownIsOneWalk` and
  `OneCredential` follow from it.
* `InventoryPromiseIsKept`: `Spec => KeepsInventoryPromise`. A publication is a
  step of `InventoryPromise` because the published run is newer than every
  successful one of its kind, which is `OpenIsNewest`; all other steps freeze
  what is shown. `HasLatest` adds that the newest successful run of a kind exists.
* `TombstonesHaveCauses`: `Spec => TombstoneHasCause`, from `CoverInv`: a resource
  that the provider listed all the time and in an unmoved list (`Steady`) has been
  read, or is still ahead of the page that the current claim comes to (`Ahead`), and
  has been read when the last page is met. TLC checked `CoverInv`
  on the instance of `sync_history` before it was proved.

`AccessProofs` proves, from `AccessAssumption` alone, of the memberships of a
workspace and the sessions of its people:

* `AccessInvariant`: `Spec => []IInv`. `AlwaysAnOwner` depends on a count made in
  one step and used in another. It needs that nobody else holds the workspace's row
  while one transaction has it for update (`OneUpdater`); that what a transaction
  checked is therefore still so when it commits (`StillGood`); and that a version
  names one membership: no version is ahead of the revision, zero is no membership,
  and a request whose version matches has seen the very row (`SeenIsNamed`). Steps
  are split into those that leave memberships and invitations alone
  (`QuietKeepsIInv`) and commits under the lock (`UpdateIInv`).
* `WorkspaceKeepsAnOwner`, `StaleChangesFail` and `AuthorityComesFromOwners`:
  `AlwaysAnOwner`, `StaleNeverApplied` and `OwnersMakeAdmins` follow from it.
* `SessionInvariant`: `Spec => []SInv`. A request carries what its kind says
  (`RequestsFormed`); rows of sessions name who they replaced, and no replaced row
  had ended (`SessionRows`); a challenge is spent by one request and then by one
  session (`ChallengesSpent`); requests make different sessions and delete different
  ones, which live until the request commits (`SessionsClaimed`). That an elevation
  finds every session there is rests on the locks: a sign-in at home shares the
  workspace's row, a rise holds it for update, so that the sessions made at home and
  the ones an elevation is about to delete are never apart (`HomeOf`). What the person
  does in other workspaces meanwhile touches none of this. From it `NoSessionComesBack`,
  `ChallengesMakeOneSession` and `ElevationEndsSessions`, that is `EndedStaysEnded`,
  `ChallengeOnce` and `HomeElevationEndsSessions`.

The theorems of `AccessProofs` start from a new workspace (`Init`); the run starts
from workspaces that people share, to reach their conflicts within its bounds.

`AdmissionProofs` proves, from `ConstantsOK`, `AdmissionInvariant`. Reviews and
operations are dated by the revisions of policy and credential they were read at, no
date is ahead of its revision, and whatever touches what a review rests on raises a
revision, so that a touched review is behind (`touched` is the model's record of
that, which no code reads). With the keys and targets of operations apart this gives
`ReviewsBecomeOneOperation` and `OnlyTheReviewedIsAccepted` for `AcceptedOnce` and
`AcceptedAsReviewed`.

`CredentialsProofs` proves, from `ConstantsOK`, `CredentialsTypes` and
`CredentialsStayOpen`, `Spec => []CredentialsOpen`. The invariant adds what makes
retiring a key safe: a rotation under way is sealed for the version after the one it
read, with the key of its server (`SealedForNext`); servers write with the new key
whenever an orderly rewrap command is running or has reported (`WritersFollow`); so
what it reported stays true (`ReportStaysTrue`). Of a command run too early nothing is
claimed, and `Retire` does not follow it.

`ControlPlaneProofs` carries these results over to the behaviours that
`control_plane` explores: `OneOperationPerReview`, `AcceptanceIsOfTheReviewed`,
`StoredCredentialsOpen`, `PartsTypeCorrect`, and `SharedWorkspacesAreSafe` for the
invariants of `Access`, for which the workspaces that people share are shown to
satisfy `IInv` and `SInv`.

`OutboundBudgetProofs` proves, from `BudgetAssumption` (finitely many callers,
connections and scopes; cells for entries do not run out before `MaxEntries` is
reached), `BudgetInvariant`: the pointers a caller keeps are the registered ones
(`PointersCurrent`), no two entries share a cell (`OwnCells`), the counters count
(`SlotsExact`, `QuotaExact`), also of a Call that holds one slot while its request
waits for another, a pause that is not over is registered
(`PauseRegistered`), and whoever sleeps unsignalled found the slots taken or set the
timer to a pause that was not shortened since (`SleepersTimed`).
`BudgetTypeCorrect`, `SlotsRespected`, `NoWakeUpLost` and `PausesKept` follow (`TypeOK`, `TwoCallsAtMost`,
`SleepersHaveCause`, `PauseIsKept`).

`ProviderCallsProofs` proves the properties of `provider_calls` for any constants with
`ConstantsOK` (the families are among the four adapters; lists are finite, pages hold at
least one row):

* `TokensReplacedForCause`: `FetchHasCause`. A reader that asks again was
  refused with a token the API had really voided (`RefusedIsVoid`).
* `AdaptersInvariant`: the receipt agrees with where the request is (`RequestInv`), the
  snapshot found later with the provider's record (`ImageInv`), and what was observed
  with how the request ended (`SeenInv`). `ReceiptsAreTruthful`,
  `ObservationsAreTruthful` and `SuccessesAreOwn` follow.
* `WalkInvariant`: a snapshot that stayed and has not been returned lies ahead of the
  cursor of the nested walk: with an instance still to come (`Guided`), or on a later
  page of the instance being read (`Reading`, `LastRow`). Ahead and later are meant in
  the provider's order of the moment, which is any injective ranking of ids. The proof
  rests on lemmas about positions in an ordered list, what adding and removing does to
  them, and that as many positions as rows are all taken; `WalkReorders` shows that
  another order which lists nothing behind the cursor keeps the invariant, the check of
  the expected instance taking care of the rest. `WalksAreExact` is `WalkIsExact`.

Every invariant and every action property of the passing runs is stated by one of
these theorems. Only model-checked are the liveness properties `EventuallySettled`,
`RefreshEnds` and `WaitersAreServed`: fairness and ENABLED are out of the prover's
reach. The violations of the findings are counterexamples and need no proof.

## Not modelled, and the plan

Next: properties, and with them theorems, for the two hazards that have none.

Not modelled, and why:

* The timing of the renewal loop, the scheduler's advisory lock, heartbeat and drain
  (`job/lease.go`, `job/runner.go`): they bound how long things take, and the models
  let leases end and processes die at any moment.
* Expiry, idle renewal and cleanup of sessions and the rate limit of challenges: an
  expired row is one nobody uses, which the models allow at any time.
* Validation limits of a connection preview, creation and settings of workspaces,
  limits on invitations: counters checked and raised in one transaction or under one
  mutex.
* Building requests, parsing bodies and the DNS readers: data mapping. The lists of the
  other adapters are numbered or linked pages, as in `InventorySync`.
* HTTP decoding, configuration, migrations, cryptography, audit vocabulary and
  rendering: I/O and data without an interleaving of their own. Audit rows are written
  in the transactions modelled here.

At this commit the validation of a credential qualifies reading only, so that after a
save or a rotation no action is verified until the installation does it otherwise;
`Admission` starts from a connection whose actions are verified.
