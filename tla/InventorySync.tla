---------------------------- MODULE InventorySync ----------------------------
(***************************************************************************)
(* Inventory refresh (backend/internal/inventory), for one provider        *)
(* connection and the kinds of resources read through it.                  *)
(*                                                                         *)
(* A refresh is a sync_runs row with one connection_refresh job.  A worker *)
(* claims the job under a lease, walks the provider's numbered pages,      *)
(* stages what each page shows, and publishes the staged generation in one *)
(* transaction: rows seen are upserted, rows not seen are tombstoned.  The *)
(* provider's list changes during the walk, members lose and regain their  *)
(* grants, the credential is rotated, the connection disabled, and the     *)
(* scheduler stops and is started again at any moment.                     *)
(*                                                                         *)
(* One action is one transaction or one page request.  Time is abstracted  *)
(* to two booleans per job (lease live, deadline passed); the scheduler's  *)
(* clock is taken to agree with the database's, unlike OperationDispatch.  *)
(***************************************************************************)
EXTENDS Integers, FiniteSets

CONSTANTS
    Kinds,         \* resource types
    Server,        \* the type that saving a connection refreshes
    Natives,       \* native ids, numbers in the provider's listing order
    Workers,       \* worker goroutines of the scheduler process
    PageSize,      \* rows on a page (50)
    MaxPages,      \* pages a walk may take (100)
    QueueLimit,    \* workspaces.queue_limit, here of refresh jobs only
    MaxAttempts,   \* claims a job may use up (100)
    MaxRuns,       \* bound: refreshes ever accepted
    MaxVersion     \* bound: credential versions

ASSUME SyncAssumption ==
    /\ Server \in Kinds
    /\ Natives \subseteq Nat /\ IsFiniteSet(Natives)
    /\ PageSize \in Nat \ {0} /\ MaxPages \in Nat \ {0}
    /\ QueueLimit \in Nat /\ MaxAttempts \in Nat
    /\ MaxRuns \in Nat \ {0} /\ MaxVersion \in Nat \ {0}

Runs == 1..MaxRuns   \* sync_runs by generation_number, in order of insertion

VARIABLES
    run,        \* sync_runs
    job,        \* the connection_refresh job of each run
    staged,     \* inventory_staging: native ids of each run's current generation
    resource,   \* resources, by kind and native id
    conn,       \* connections.status
    version,    \* connections.active_credential_version
    allowed,    \* the requesting member's role and grants permit a refresh
    scheduler,  \* the scheduler process: up, down, or stopped by a worker's error
    worker,     \* what each worker remembers between transactions
    world,      \* the provider's own list, by kind
    walk        \* history: what the latest scan of each run met

vars == <<run, job, staged, resource, conn, version, allowed, scheduler, worker,
          world, walk>>

-----------------------------------------------------------------------------
(* Rows *)

Ended == {"succeeded", "failed", "cancelled"}
Open == {"pending", "running"}
Pending == {"queued", "running"}

RunStatus == {"absent"} \cup Open \cup Ended
JobState == {"absent"} \cup Pending \cup Ended
PC == {"idle", "start", "guard", "read", "stage", "done", "failed"}

RunRow == [kind: Kinds, status: RunStatus,
           complete: BOOLEAN, version: 0..MaxVersion]

(* The n-th claim of a job issues token n; token 0 is NULL. *)
JobRow == [state: JobState, token: 0..MaxAttempts,
           live: BOOLEAN, overdue: BOOLEAN, attempts: 0..MaxAttempts]

(* `gen' is the generation number of the run that last wrote the row, 0     *)
(* when there is no row; `shown' is tombstoned_at IS NULL.                  *)
ResourceRow == [gen: 0..MaxRuns, shown: BOOLEAN]

WorkerState == [pc: PC, run: 0..MaxRuns, token: 0..MaxAttempts,
                version: 0..MaxVersion, page: 1..MaxPages, data: SUBSET Natives, last: BOOLEAN]

(* `token' names the scan, `read' the ids on the pages it has read, `ended' *)
(* whether one of them was the last; `absent' the ids the provider did not  *)
(* list at some moment of the scan, `shrunk' whether it dropped any; `late' *)
(* whether a page was read with a credential rotated away by then.          *)
Walk == [token: 0..MaxAttempts, read: SUBSET Natives, ended: BOOLEAN,
         absent: SUBSET Natives, shrunk: BOOLEAN, late: BOOLEAN]

NoRun == [kind |-> Server, status |-> "absent", complete |-> FALSE, version |-> 0]
NewRun(k) == [NoRun EXCEPT !.kind = k, !.status = "pending"]
NoJob == [state |-> "absent", token |-> 0, live |-> FALSE, overdue |-> FALSE, attempts |-> 0]
NewJob == [NoJob EXCEPT !.state = "queued"]
Idle == [pc |-> "idle", run |-> 0, token |-> 0, version |-> 0, page |-> 1,
         data |-> {}, last |-> FALSE]
NewWalk(token, absent) == [token |-> token, read |-> {}, ended |-> FALSE,
                           absent |-> absent, shrunk |-> FALSE, late |-> FALSE]

(* What the statements of a transaction make of a row, and each step of what *)
(* a worker remembers.                                                       *)
StartedRun(x, v) == [x EXCEPT !.status = "running", !.complete = FALSE, !.version = v]
PagedRun(x, last) == [x EXCEPT !.complete = last]
EndedRun(x, status) == [x EXCEPT !.status = status]

LeasedJob(j) == [j EXCEPT !.state = "running", !.token = j.attempts + 1, !.live = TRUE,
                          !.attempts = j.attempts + 1]
LapsedJob(j) == [j EXCEPT !.live = FALSE]
OverdueJob(j) == [j EXCEPT !.overdue = TRUE, !.live = FALSE]
EndedJob(j, state) == [j EXCEPT !.state = state, !.token = 0, !.live = FALSE]

Claiming(r, token) == [Idle EXCEPT !.pc = "start", !.run = r, !.token = token]
Bound(k, v) == [k EXCEPT !.pc = "guard", !.version = v]
At(k, pc) == [k EXCEPT !.pc = pc, !.data = {}]
Holding(k, data, last) == [k EXCEPT !.pc = "stage", !.data = data, !.last = last]
Turning(k) == [k EXCEPT !.pc = "guard", !.page = k.page + 1, !.data = {}]

Walked(h, data, last, late) ==
    [h EXCEPT !.read = h.read \cup data, !.ended = last, !.late = h.late \/ late]
Missing(h, n) == [h EXCEPT !.absent = h.absent \cup {n}, !.shrunk = TRUE]

(* Save commits the connection together with its first refresh and grants   *)
(* nothing: even the first scan needs grants that are given later.          *)
Init ==
    /\ run = [r \in Runs |-> IF r = 1 THEN NewRun(Server) ELSE NoRun]
    /\ job = [r \in Runs |-> IF r = 1 THEN NewJob ELSE NoJob]
    /\ staged = [r \in Runs |-> {}]
    /\ resource = [k \in Kinds |-> [n \in Natives |-> [gen |-> 0, shown |-> FALSE]]]
    /\ conn = "active"
    /\ version = 1
    /\ allowed = FALSE
    /\ scheduler = "up"
    /\ worker = [w \in Workers |-> Idle]
    /\ world \in [Kinds -> SUBSET Natives]
    /\ walk = [r \in Runs |-> NewWalk(0, {})]

-----------------------------------------------------------------------------
(* Acceptance *)

EnqueueUncoalesced(k, r) ==
    /\ Cardinality({s \in Runs : job[s].state \in Pending}) < QueueLimit
    /\ run[r].status = "absent" /\ \A s \in Runs : s < r => run[s].status # "absent"
    /\ run' = [run EXCEPT ![r] = NewRun(k)]
    /\ job' = [job EXCEPT ![r] = NewJob]

(* enqueueLockedType.  An open run of the kind is returned instead of a new *)
(* one, which changes nothing.                                              *)
EnqueueLocked(k, r) ==
    /\ \A s \in Runs : run[s].kind = k => run[s].status \notin Open
    /\ Cardinality({s \in Runs : job[s].state \in Pending}) < QueueLimit
    /\ run[r].status = "absent" /\ \A s \in Runs : s < r => run[s].status # "absent"
    /\ run' = [run EXCEPT ![r] = NewRun(k)]
    /\ job' = [job EXCEPT ![r] = NewJob]

(* Asked for by a member, or by an operation that succeeded. *)
Enqueue(k, r) ==
    /\ allowed /\ conn = "active"
    /\ EnqueueLocked(k, r)
    /\ UNCHANGED <<staged, resource, conn, version, allowed, scheduler, worker, world, walk>>

-----------------------------------------------------------------------------
(* Leases *)

ClaimableOneTooMany(r) ==
    /\ job[r].state = "queued" \/ (job[r].state = "running" /\ ~job[r].live)
    /\ ~job[r].overdue
    /\ job[r].attempts <= MaxAttempts

ClaimableOnce(r) ==
    /\ job[r].state = "queued"
    /\ ~job[r].overdue
    /\ job[r].attempts < MaxAttempts

Claimable(r) ==
    /\ job[r].state = "queued" \/ (job[r].state = "running" /\ ~job[r].live)
    /\ ~job[r].overdue
    /\ job[r].attempts < MaxAttempts

Claim(w, r) ==
    /\ scheduler = "up" /\ worker[w].pc = "idle"
    /\ Claimable(r)
    /\ job' = [job EXCEPT ![r] = LeasedJob(@)]
    /\ worker' = [worker EXCEPT ![w] = Claiming(r, job[r].attempts + 1)]
    /\ UNCHANGED <<run, staged, resource, conn, version, allowed, scheduler, world, walk>>

LeaseExpires(r) ==
    /\ job[r].state = "running" /\ job[r].live
    /\ job' = [job EXCEPT ![r] = LapsedJob(@)]
    /\ UNCHANGED <<run, staged, resource, conn, version, allowed, scheduler, worker, world, walk>>

(* A lease never outlives the deadline of its job (LEAST in Claim, renew). *)
DeadlinePasses(r) ==
    /\ job[r].state \in Pending /\ ~job[r].overdue
    /\ job' = [job EXCEPT ![r] = OverdueJob(@)]
    /\ UNCHANGED <<run, staged, resource, conn, version, allowed, scheduler, worker, world, walk>>

-----------------------------------------------------------------------------
(* The scan *)

Scanning == {"start", "guard", "read", "stage"}

HoldsLeaseByState(w) ==
    LET j == job[worker[w].run]
    IN  j.state = "running" /\ j.live /\ ~j.overdue

HoldsLease(w) ==
    LET j == job[worker[w].run]
    IN  j.state = "running" /\ j.token = worker[w].token /\ j.live /\ ~j.overdue

AuthorityAnyVersion(v) == conn = "active" /\ allowed

Authority(v) == conn = "active" /\ allowed /\ v \in {0, version}

(* scanAuthority: the start and end of every transaction of a scan. *)
ScanAuthority(w, v) ==
    /\ Authority(v)
    /\ HoldsLease(w)
    /\ run[worker[w].run].status \in Open

(* guard(start): a scan starts over under a new generation; the staging of *)
(* the previous one is deleted.                                            *)
StartScan(w) ==
    /\ worker[w].pc = "start"
    /\ ScanAuthority(w, 0)
    /\ LET r == worker[w].run
       IN  /\ staged' = [staged EXCEPT ![r] = {}]
           /\ run' = [run EXCEPT ![r] = StartedRun(@, version)]
           /\ walk' = [walk EXCEPT ![r] = NewWalk(worker[w].token, Natives \ world[run[r].kind])]
    /\ worker' = [worker EXCEPT ![w] = Bound(@, version)]
    /\ UNCHANGED <<job, resource, conn, version, allowed, scheduler, world>>

Guard(w) ==
    /\ worker[w].pc = "guard"
    /\ ScanAuthority(w, worker[w].version)
    /\ worker' = [worker EXCEPT ![w] = At(@, "read")]
    /\ UNCHANGED <<run, job, staged, resource, conn, version, allowed, scheduler, world, walk>>

(* What a numbered page shows: the rows at its positions in the list as it  *)
(* is now.                                                                  *)
Position(k, n) == Cardinality({m \in world[k] : m < n})
PageData(k, p) == {n \in world[k] : Position(k, n) \div PageSize = p - 1}
IsLastPageEarly(k, p) == Cardinality(world[k]) <= p * PageSize + 1

IsLastPage(k, p) == Cardinality(world[k]) <= p * PageSize

ReadPage(w) ==
    /\ worker[w].pc = "read"
    /\ LET r == worker[w].run
           k == run[r].kind
           p == worker[w].page
       IN  /\ worker' = [worker EXCEPT ![w] = Holding(@, PageData(k, p), IsLastPage(k, p))]
           /\ walk' = IF walk[r].token # worker[w].token THEN walk
                      ELSE [walk EXCEPT ![r] = Walked(@, PageData(k, p), IsLastPage(k, p),
                                                      worker[w].version # version)]
    /\ UNCHANGED <<run, job, staged, resource, conn, version, allowed, scheduler, world>>

(* Staging refuses an id that an earlier page of the generation showed.     *)
Stage(w) ==
    /\ worker[w].pc = "stage"
    /\ ScanAuthority(w, worker[w].version)
    /\ LET r == worker[w].run
           k == worker[w]
       IN  /\ staged[r] \cap k.data = {}
           /\ staged' = [staged EXCEPT ![r] = @ \cup k.data]
           /\ run' = [run EXCEPT ![r] = PagedRun(@, k.last)]
           /\ worker' = [worker EXCEPT ![w] =
                IF k.last THEN At(k, "done")
                ELSE IF k.page = MaxPages THEN At(k, "failed") ELSE Turning(k)]
    /\ UNCHANGED <<job, resource, conn, version, allowed, scheduler, world, walk>>

(* Run reports a lost lease as ErrLease, whatever the scan returned, and    *)
(* the worker turns to the next job.                                        *)
Abandon(w) ==
    /\ worker[w].pc \in Scanning
    /\ ~HoldsLease(w)
    /\ worker' = [worker EXCEPT ![w] = Idle]
    /\ UNCHANGED <<run, job, staged, resource, conn, version, allowed, scheduler, world, walk>>

(* Every other error of a scan: authority or version refused, a page that   *)
(* fails, repeats an id or exceeds a limit, a failing store, the scan's     *)
(* timeout.  The deadline of the job ends the lease and Run's context at    *)
(* once; when the latter is noticed first the error is not ErrLease.        *)
ScanFails(w) ==
    /\ worker[w].pc \in Scanning
    /\ HoldsLease(w) \/ (job[worker[w].run].overdue /\ job[worker[w].run].token = worker[w].token)
    /\ worker' = [worker EXCEPT ![w] = At(@, "failed")]
    /\ UNCHANGED <<run, job, staged, resource, conn, version, allowed, scheduler, world, walk>>

-----------------------------------------------------------------------------
(* Complete *)

(* The terminal writes to the run and its job. *)
End(r, state) ==
    /\ run' = [run EXCEPT ![r] = EndedRun(@, state)]
    /\ job' = [job EXCEPT ![r] = EndedJob(@, state)]

Superseded(r) ==
    \E s \in Runs : s > r /\ run[s].kind = run[r].kind /\ run[s].status = "succeeded"

(* Upsert what was staged, then tombstone what was not; rows of a newer     *)
(* generation stay as they are.                                             *)
Published(rows, seen, r) ==
    [n \in Natives |->
       IF rows[n].gen > r THEN rows[n]
       ELSE IF n \in seen THEN [gen |-> r, shown |-> TRUE]
       ELSE [gen |-> rows[n].gen, shown |-> FALSE]]

PublishEveryKind(w) ==
    /\ worker[w].pc = "done"
    /\ LET r == worker[w].run
       IN  /\ ScanAuthority(w, run[r].version)
           /\ run[r].complete
           /\ resource' = [k \in Kinds |-> Published(resource[k], staged[r], r)]
           /\ End(r, "succeeded")
    /\ worker' = [worker EXCEPT ![w] = Idle]
    /\ UNCHANGED <<staged, conn, version, allowed, scheduler, world, walk>>

Publish(w) ==
    /\ worker[w].pc = "done"
    /\ LET r == worker[w].run
           k == run[r].kind
       IN  /\ ScanAuthority(w, run[r].version)
           /\ run[r].complete
           /\ resource' = IF Superseded(r) THEN resource
                          ELSE [resource EXCEPT ![k] = Published(@, staged[r], r)]
           /\ End(r, IF Superseded(r) THEN "cancelled" ELSE "succeeded")
    /\ worker' = [worker EXCEPT ![w] = Idle]
    /\ UNCHANGED <<staged, conn, version, allowed, scheduler, world, walk>>

RecordFailure(w) ==
    /\ worker[w].pc = "failed"
    /\ HoldsLease(w) /\ run[worker[w].run].status \in Open
    /\ End(worker[w].run, "failed")
    /\ worker' = [worker EXCEPT ![w] = Idle]
    /\ UNCHANGED <<staged, resource, conn, version, allowed, scheduler, world, walk>>

(* Complete returns an error: the lease is gone, or what was scanned may no *)
(* longer be published.  A worker hands any error of Finish to the runner,  *)
(* which cancels the other workers and stops; the process exits.            *)
FinishFails(w) ==
    /\ \/ worker[w].pc \in {"done", "failed"} /\ ~HoldsLease(w)
       \/ worker[w].pc = "done" /\ ~Authority(run[worker[w].run].version)
    /\ scheduler' = "stopped"
    /\ worker' = [x \in Workers |-> Idle]
    /\ UNCHANGED <<run, job, staged, resource, conn, version, allowed, world, walk>>

-----------------------------------------------------------------------------
(* Everything else that happens meanwhile *)

(* A crash, a shutdown, a lost advisory-lock session or a failing store.    *)
Crash ==
    /\ scheduler = "up"
    /\ scheduler' = "down"
    /\ worker' = [w \in Workers |-> Idle]
    /\ UNCHANGED <<run, job, staged, resource, conn, version, allowed, world, walk>>

Restart ==
    /\ scheduler # "up"
    /\ scheduler' = "up"
    /\ UNCHANGED <<run, job, staged, resource, conn, version, allowed, worker, world, walk>>

PruneStaging(r) ==
    /\ run[r].status \in Ended
    /\ \E n \in staged[r] : staged' = [staged EXCEPT ![r] = @ \ {n}]
    /\ UNCHANGED <<run, job, resource, conn, version, allowed, scheduler, worker, world, walk>>

AuthorityChanges ==
    /\ allowed' = ~allowed
    /\ UNCHANGED <<run, job, staged, resource, conn, version, scheduler, worker, world, walk>>

Rotate ==
    /\ version < MaxVersion
    /\ version' = version + 1
    /\ UNCHANGED <<run, job, staged, resource, conn, allowed, scheduler, worker, world, walk>>

(* Disable cancels the queued jobs of the connection, but not their runs.   *)
Disable ==
    /\ conn = "active"
    /\ conn' = "disabled"
    /\ job' = [r \in Runs |-> IF job[r].state = "queued"
                                THEN EndedJob(job[r], "cancelled") ELSE job[r]]
    /\ UNCHANGED <<run, staged, resource, version, allowed, scheduler, worker, world, walk>>

Appear(k, n) ==
    /\ n \notin world[k]
    /\ world' = [world EXCEPT ![k] = @ \cup {n}]
    /\ UNCHANGED <<run, job, staged, resource, conn, version, allowed, scheduler, worker, walk>>

Vanish(k, n) ==
    /\ n \in world[k]
    /\ world' = [world EXCEPT ![k] = @ \ {n}]
    /\ walk' = [r \in Runs |-> IF run[r].kind = k /\ run[r].status = "running"
                                 THEN Missing(walk[r], n)
                                 ELSE walk[r]]
    /\ UNCHANGED <<run, job, staged, resource, conn, version, allowed, scheduler, worker>>

-----------------------------------------------------------------------------
Work(w) ==
    \/ StartScan(w) \/ Guard(w) \/ ReadPage(w) \/ Stage(w) \/ Abandon(w)
    \/ ScanFails(w) \/ Publish(w) \/ RecordFailure(w) \/ FinishFails(w)

Provider == \E k \in Kinds, n \in Natives : Appear(k, n) \/ Vanish(k, n)

Next ==
    \/ \E k \in Kinds, r \in Runs : Enqueue(k, r)
    \/ \E w \in Workers, r \in Runs : Claim(w, r)
    \/ \E r \in Runs : LeaseExpires(r) \/ DeadlinePasses(r) \/ PruneStaging(r)
    \/ \E w \in Workers : Work(w)
    \/ Crash \/ Restart \/ AuthorityChanges \/ Rotate \/ Disable
    \/ Provider

Spec == Init /\ [][Next]_vars

(* Workers run until they block on nothing but bounded calls; leases end by *)
(* themselves; the process is restarted when it exits.  Claim takes due     *)
(* jobs in order of next_run_at, and a job leaves that order after at most  *)
(* MaxAttempts claims, so that no due job is passed over for ever although  *)
(* the scheduler may go down between claims.                                *)
Fairness ==
    /\ \A w \in Workers : WF_vars(Work(w))
    /\ \A r \in Runs : SF_vars(\E w \in Workers : Claim(w, r))
    /\ \A r \in Runs : WF_vars(LeaseExpires(r) /\ \A w \in Workers : worker[w].run # r)
    /\ WF_vars(Restart)

FairSpec == Spec /\ Fairness

-----------------------------------------------------------------------------
(* Properties *)

TypeOK ==
    /\ run \in [Runs -> RunRow]
    /\ job \in [Runs -> JobRow]
    /\ staged \in [Runs -> SUBSET Natives]
    /\ resource \in [Kinds -> [Natives -> ResourceRow]]
    /\ conn \in {"active", "disabled"}
    /\ version \in 1..MaxVersion
    /\ allowed \in BOOLEAN
    /\ scheduler \in {"up", "down", "stopped"}
    /\ worker \in [Workers -> WorkerState]
    /\ world \in [Kinds -> SUBSET Natives]
    /\ walk \in [Runs -> Walk]

Shown(k) == {n \in Natives : resource[k][n].shown}

Newest(r) ==
    /\ run[r].status = "succeeded"
    /\ \A s \in Runs : s > r /\ run[s].kind = run[r].kind => run[s].status # "succeeded"

(* The inventory shown for a kind is exactly what the pages of one scan,    *)
(* read to the last page by one lease of the newest successful run, showed; *)
(* before the first success nothing is shown.  No page of a stale worker,   *)
(* an interrupted or an older scan is in it or missing from it (guard,      *)
(* stage, Complete).                                                        *)
ShownIsOneWalk ==
    \A k \in Kinds :
      /\ (\A r \in Runs : run[r].kind = k => run[r].status # "succeeded") => Shown(k) = {}
      /\ \A r \in Runs : Newest(r) /\ run[r].kind = k =>
           walk[r].ended /\ Shown(k) = walk[r].read

(* No page of a successful run was read with a credential that had been     *)
(* rotated away by then, although the version is checked only before and    *)
(* after each page request (scanAuthority).                                 *)
OneCredential == \A r \in Runs : run[r].status = "succeeded" => ~walk[r].late

(* An open run is the newest of its kind, so that a scan is never outdone   *)
(* by a later one: the branch of Complete that cancels a superseded scan    *)
(* is never taken (enqueueLockedType, sync_runs_pending_scope).             *)
OpenIsNewest ==
    \A r, s \in Runs : r < s /\ run[r].kind = run[s].kind /\ run[r].status \in Open
                         => run[s].status = "absent"

(* A resource is tombstoned only by a scan during which the provider really *)
(* did not list it at some moment, or dropped some other resource, which    *)
(* shifts the pages (Complete, Page).                                       *)
Tombstoned(k, n) == resource[k][n].shown /\ ~resource'[k][n].shown

TombstoneHasCause ==
    [][\A k \in Kinds, n \in Natives : Tombstoned(k, n) =>
         \E r \in Runs : /\ run[r].kind = k /\ run[r].status # run'[r].status
                         /\ n \in walk[r].absent \/ walk[r].shrunk]_vars

(* Every accepted refresh ends, unless its job runs out of attempts or time *)
(* or its connection is disabled.                                           *)
RefreshEnds ==
    \A r \in Runs : run[r].status \in Open ~>
      \/ run[r].status \in Ended
      \/ job[r].overdue \/ job[r].attempts = MaxAttempts \/ conn = "disabled"

(* docs/product.md has a connected account reach a reported sync outcome,   *)
(* docs/architecture/deployment.md jobs retained until their deadline: a    *)
(* refresh whose deadline has passed is ended.                              *)
OverdueIsRetired ==
    \A r \in Runs : run[r].status \in Open /\ job[r].overdue ~> run[r].status \in Ended

(* docs/architecture/README.md has failed work isolated per scope: no scan  *)
(* that fails, is refused or loses its lease stops the whole scheduler.     *)
FailureIsIsolated == scheduler # "stopped"

(* docs/architecture/data.md: an incomplete page walk cannot mean deleted.  *)
(* A resource that the provider listed throughout a scan is not tombstoned. *)
ListedIsNotDeleted ==
    [][\A k \in Kinds, n \in Natives : Tombstoned(k, n) =>
         \E r \in Runs : /\ run[r].kind = k /\ run[r].status # run'[r].status
                         /\ n \in walk[r].absent]_vars

(* The latest successful refresh of a kind. *)
AsOf(k) ==
    LET done == {r \in Runs : run[r].kind = k /\ run[r].status = "succeeded"}
    IN  IF done = {} THEN 0 ELSE CHOOSE r \in done : \A s \in done : s <= r

Promise == INSTANCE InventoryPromise
             WITH shown <- [k \in Kinds |-> Shown(k)], asof <- [k \in Kinds |-> AsOf(k)]

(* Publication is atomic per kind and only moves to newer scans.            *)
KeepsInventoryPromise == Promise!Spec
=============================================================================
