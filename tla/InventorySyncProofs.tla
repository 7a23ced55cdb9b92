------------------------- MODULE InventorySyncProofs -------------------------
(***************************************************************************)
(* Proofs about InventorySync, for any kinds, native ids and workers, any  *)
(* page size and any bounds: types, the queue of refreshes, what is        *)
(* published (one complete walk, read with one credential) and why a       *)
(* resource is tombstoned.                                                 *)
(***************************************************************************)
EXTENDS InventorySync, FiniteSetTheorems, TLAPS

-----------------------------------------------------------------------------
(* What the row updates return *)

(* The states, statuses and steps that actions name. *)
LEMMA Names ==
    /\ {"absent", "pending", "running", "succeeded", "failed", "cancelled"} \subseteq RunStatus
    /\ {"absent", "queued", "running", "succeeded", "failed", "cancelled"} \subseteq JobState
    /\ {"idle", "start", "guard", "read", "stage", "done", "failed"} \subseteq PC
    /\ Open = {"pending", "running"} /\ Ended = {"succeeded", "failed", "cancelled"}
    /\ Pending = {"queued", "running"}
BY DEF RunStatus, JobState, PC, Open, Ended, Pending

(* Rows as they are inserted. *)
LEMMA NewRows ==
    /\ NoRun \in RunRow /\ NoRun.status = "absent" /\ ~NoRun.complete /\ NoRun.version = 0
    /\ NoJob \in JobRow /\ NoJob.state = "absent" /\ NoJob.token = 0 /\ NoJob.attempts = 0
    /\ NewJob \in JobRow /\ NewJob.state = "queued" /\ NewJob.attempts = 0
    /\ Idle \in WorkerState /\ Idle.pc = "idle"
<1>1. 0 \in 0..MaxAttempts /\ 0 \in 0..MaxRuns /\ 0 \in 0..MaxVersion /\ 1 \in 1..MaxPages
      BY SyncAssumption
<1>2. NoRun \in RunRow /\ NoRun.status = "absent" /\ ~NoRun.complete /\ NoRun.version = 0
      BY <1>1, SyncAssumption, Names DEF NoRun, RunRow
<1>3. NoJob \in JobRow /\ NoJob.state = "absent" /\ NoJob.token = 0 /\ NoJob.attempts = 0
      BY <1>1, Names DEF NoJob, JobRow
<1>4. NewJob \in JobRow /\ NewJob.state = "queued" /\ NewJob.attempts = 0
      BY <1>1, Names DEF NewJob, NoJob, JobRow
<1>5. Idle \in WorkerState /\ Idle.pc = "idle"
      BY <1>1, Names DEF Idle, WorkerState
<1> QED BY <1>2, <1>3, <1>4, <1>5

(* A run accepted for a kind. *)
LEMMA NewRunRow ==
    ASSUME NEW k \in Kinds
    PROVE  /\ NewRun(k) \in RunRow /\ NewRun(k).kind = k /\ NewRun(k).status = "pending"
           /\ ~NewRun(k).complete /\ NewRun(k).version = 0
<1>1. 0 \in 0..MaxVersion
      BY SyncAssumption
<1> QED BY <1>1, Names DEF NewRun, NoRun, RunRow

(* Updates of a run keep its kind. *)
LEMMA StartedRunRow ==
    ASSUME NEW x \in RunRow, NEW v \in 0..MaxVersion
    PROVE  /\ StartedRun(x, v) \in RunRow /\ StartedRun(x, v).kind = x.kind
           /\ StartedRun(x, v).status = "running" /\ ~StartedRun(x, v).complete
           /\ StartedRun(x, v).version = v
<1>1. "running" \in RunStatus
      BY Names
<1> QED BY <1>1 DEF RunRow, StartedRun

(* A page marks a run complete or not. *)
LEMMA PagedRunRow ==
    ASSUME NEW x \in RunRow, NEW b \in BOOLEAN
    PROVE  /\ PagedRun(x, b) \in RunRow /\ PagedRun(x, b).kind = x.kind
           /\ PagedRun(x, b).status = x.status /\ PagedRun(x, b).complete = b
           /\ PagedRun(x, b).version = x.version
BY DEF RunRow, PagedRun

(* Ending a run leaves what its scan recorded. *)
LEMMA EndedRunRow ==
    ASSUME NEW x \in RunRow, NEW s \in RunStatus
    PROVE  /\ EndedRun(x, s) \in RunRow /\ EndedRun(x, s).kind = x.kind
           /\ EndedRun(x, s).status = s /\ EndedRun(x, s).complete = x.complete
           /\ EndedRun(x, s).version = x.version
BY DEF RunRow, EndedRun

(* Only a claim changes the attempts of a job. *)
LEMMA LapsedJobRow ==
    ASSUME NEW j \in JobRow
    PROVE  /\ LapsedJob(j) \in JobRow /\ LapsedJob(j).state = j.state
           /\ LapsedJob(j).token = j.token /\ LapsedJob(j).attempts = j.attempts
           /\ OverdueJob(j) \in JobRow /\ OverdueJob(j).state = j.state
           /\ OverdueJob(j).token = j.token /\ OverdueJob(j).attempts = j.attempts
BY DEF JobRow, LapsedJob, OverdueJob

(* A job that ends gives up its lease. *)
LEMMA EndedJobRow ==
    ASSUME NEW j \in JobRow, NEW s \in JobState
    PROVE  /\ EndedJob(j, s) \in JobRow /\ EndedJob(j, s).state = s
           /\ EndedJob(j, s).attempts = j.attempts
<1>1. 0 \in 0..MaxAttempts
      BY SyncAssumption
<1> QED BY <1>1 DEF JobRow, EndedJob

(* A claim issues the next token. *)
LEMMA LeasedJobRow ==
    ASSUME NEW j \in JobRow, j.attempts < MaxAttempts
    PROVE  /\ LeasedJob(j) \in JobRow /\ LeasedJob(j).state = "running"
           /\ LeasedJob(j).token = j.attempts + 1 /\ LeasedJob(j).attempts = j.attempts + 1
           /\ j.attempts + 1 \in 0..MaxAttempts
<1>1. j.attempts + 1 \in 0..MaxAttempts /\ "running" \in JobState
      BY Names, SyncAssumption DEF JobRow
<1>2. ASSUME NEW t \in 0..MaxAttempts
      PROVE  LET n == [j EXCEPT !.state = "running", !.token = t, !.live = TRUE, !.attempts = t]
             IN  n \in JobRow /\ n.state = "running" /\ n.token = t /\ n.attempts = t
      BY <1>1 DEF JobRow
<1> QED BY <1>1, <1>2 DEF LeasedJob

(* What a worker remembers of its run, its token and its credential. *)
LEMMA AtRow ==
    ASSUME NEW k \in WorkerState, NEW pc \in PC
    PROVE  /\ At(k, pc) \in WorkerState /\ At(k, pc).pc = pc
           /\ At(k, pc).run = k.run /\ At(k, pc).token = k.token
           /\ At(k, pc).version = k.version
BY DEF WorkerState, At

(* Starting a scan binds the worker to a credential version. *)
LEMMA BoundRow ==
    ASSUME NEW k \in WorkerState, NEW v \in 0..MaxVersion
    PROVE  /\ Bound(k, v) \in WorkerState /\ Bound(k, v).pc = "guard"
           /\ Bound(k, v).run = k.run /\ Bound(k, v).token = k.token
           /\ Bound(k, v).version = v
<1>1. "guard" \in PC
      BY Names
<1> QED BY <1>1 DEF WorkerState, Bound

(* A page read is held until it is staged. *)
LEMMA HoldingRow ==
    ASSUME NEW k \in WorkerState, NEW D \in SUBSET Natives, NEW b \in BOOLEAN
    PROVE  /\ Holding(k, D, b) \in WorkerState /\ Holding(k, D, b).pc = "stage"
           /\ Holding(k, D, b).run = k.run /\ Holding(k, D, b).token = k.token
           /\ Holding(k, D, b).version = k.version
           /\ Holding(k, D, b).data = D /\ Holding(k, D, b).last = b
<1>1. "stage" \in PC
      BY Names
<1> QED BY <1>1 DEF WorkerState, Holding

(* The next page, within the limit. *)
LEMMA TurningRow ==
    ASSUME NEW k \in WorkerState, k.page # MaxPages
    PROVE  /\ Turning(k) \in WorkerState /\ Turning(k).pc = "guard"
           /\ Turning(k).run = k.run /\ Turning(k).token = k.token
           /\ Turning(k).version = k.version
<1>1. k.page + 1 \in 1..MaxPages /\ "guard" \in PC
      BY Names, SyncAssumption DEF WorkerState
<1>2. ASSUME NEW p \in 1..MaxPages
      PROVE  LET n == [k EXCEPT !.pc = "guard", !.page = p, !.data = {}]
             IN  /\ n \in WorkerState /\ n.pc = "guard" /\ n.run = k.run
                 /\ n.token = k.token /\ n.version = k.version
      BY <1>1 DEF WorkerState
<1> QED BY <1>1, <1>2 DEF Turning

(* A worker that has just claimed a job. *)
LEMMA ClaimingRow ==
    ASSUME NEW r \in Runs, NEW t \in 0..MaxAttempts
    PROVE  /\ Claiming(r, t) \in WorkerState /\ Claiming(r, t).pc = "start"
           /\ Claiming(r, t).run = r /\ Claiming(r, t).token = t
<1>1. r \in 0..MaxRuns /\ "start" \in PC
      BY Names, SyncAssumption DEF Runs
<1> QED BY <1>1, NewRows DEF Claiming, Idle, WorkerState

(* The history of a walk. *)
LEMMA NewWalkRow ==
    ASSUME NEW t \in 0..MaxAttempts, NEW A \in SUBSET Natives
    PROVE  /\ NewWalk(t, A) \in Walk /\ NewWalk(t, A).token = t /\ NewWalk(t, A).read = {}
           /\ NewWalk(t, A).late = FALSE
BY DEF NewWalk, Walk

(* Reading a page adds to what the walk met. *)
LEMMA WalkedRow ==
    ASSUME NEW h \in Walk, NEW D \in SUBSET Natives, NEW b \in BOOLEAN, NEW c \in BOOLEAN
    PROVE  /\ Walked(h, D, b, c) \in Walk /\ Walked(h, D, b, c).token = h.token
           /\ Walked(h, D, b, c).read = h.read \cup D /\ Walked(h, D, b, c).ended = b
           /\ (Walked(h, D, b, c).late <=> h.late \/ c)
<1>1. h.read \cup D \in SUBSET Natives /\ (h.late \/ c) \in BOOLEAN
      BY DEF Walk
<1>2. ASSUME NEW R \in SUBSET Natives, NEW l \in BOOLEAN
      PROVE  LET m == [h EXCEPT !.read = R, !.ended = b, !.late = l]
             IN  m \in Walk /\ m.token = h.token /\ m.read = R /\ m.ended = b /\ m.late = l
      BY DEF Walk
<1> QED BY <1>1, <1>2, ZenonT(40) DEF Walked

(* A resource dropped during the walk changes nothing that was read. *)
LEMMA MissingRow ==
    ASSUME NEW h \in Walk, NEW n \in Natives
    PROVE  /\ Missing(h, n) \in Walk /\ Missing(h, n).token = h.token
           /\ Missing(h, n).read = h.read /\ Missing(h, n).ended = h.ended
           /\ Missing(h, n).late = h.late
<1>1. h.absent \cup {n} \in SUBSET Natives
      BY DEF Walk
<1>2. ASSUME NEW A \in SUBSET Natives
      PROVE  LET m == [h EXCEPT !.absent = A, !.shrunk = TRUE]
             IN  /\ m \in Walk /\ m.token = h.token /\ m.read = h.read /\ m.ended = h.ended
                 /\ m.late = h.late
      BY DEF Walk
<1> QED BY <1>1, <1>2 DEF Missing

-----------------------------------------------------------------------------
(* Types *)

(* A worker that is not idle works on an accepted run. *)
Busy(w) == worker[w].pc # "idle"
Assigned == \A w \in Workers : Busy(w) => worker[w].run \in Runs

Types == TypeOK /\ Assigned

(* A page shows ids of the provider's list. *)
LEMMA PageIsListed ==
    ASSUME TypeOK, NEW k \in Kinds, NEW p
    PROVE  PageData(k, p) \in SUBSET Natives /\ IsLastPage(k, p) \in BOOLEAN
BY DEF TypeOK, PageData, IsLastPage

(* The initial state is well typed. *)
LEMMA TypesInit == Init => Types
<1> SUFFICES ASSUME Init PROVE Types
    OBVIOUS
<1>1. run \in [Runs -> RunRow] /\ job \in [Runs -> JobRow]
      BY NewRows, NewRunRow, SyncAssumption DEF Init
<1>2. resource \in [Kinds -> [Natives -> ResourceRow]]
      BY SyncAssumption DEF Init, ResourceRow
<1>3. worker \in [Workers -> WorkerState] /\ Assigned
      BY NewRows DEF Init, Assigned, Busy
<1>4. walk \in [Runs -> Walk]
      BY SyncAssumption DEF Init, NewWalk, Walk
<1>5. allowed \in BOOLEAN
      BY DEF Init
<1>6. version \in 1..MaxVersion
      BY SyncAssumption DEF Init
<1> QED BY <1>1, <1>2, <1>3, <1>4, <1>5, <1>6 DEF Init, Types, TypeOK

(* Every action keeps the types. *)
LEMMA TypesStep == Types /\ [Next]_vars => Types'
<1> SUFFICES ASSUME Types, [Next]_vars PROVE Types'
    OBVIOUS
<1> USE DEF Types, Assigned, Busy
<1>1. ASSUME NEW k \in Kinds, NEW r \in Runs, Enqueue(k, r) PROVE Types'
      BY <1>1, NewRows, NewRunRow DEF Enqueue, EnqueueLocked, TypeOK
<1>2. ASSUME NEW w \in Workers, NEW r \in Runs, Claim(w, r) PROVE Types'
  <2>1. LeasedJob(job[r]) \in JobRow /\ job[r].attempts + 1 \in 0..MaxAttempts
        BY <1>2, LeasedJobRow DEF Claim, Claimable, TypeOK
  <2>2. Claiming(r, job[r].attempts + 1) \in WorkerState
        /\ Claiming(r, job[r].attempts + 1).run = r
        BY <2>1, ClaimingRow
  <2> QED BY <1>2, <2>1, <2>2 DEF Claim, TypeOK
<1>3. ASSUME NEW r \in Runs, LeaseExpires(r) \/ DeadlinePasses(r) PROVE Types'
  <2>1. LapsedJob(job[r]) \in JobRow /\ OverdueJob(job[r]) \in JobRow
        BY LapsedJobRow DEF TypeOK
  <2> QED BY <1>3, <2>1 DEF LeaseExpires, DeadlinePasses, TypeOK
<1>4. ASSUME NEW r \in Runs, PruneStaging(r) PROVE Types'
      BY <1>4 DEF PruneStaging, TypeOK
<1>5. ASSUME NEW w \in Workers, Work(w) PROVE Types'
  <2> DEFINE r == worker[w].run
             k == run[r].kind
  <2>a. worker[w] \in WorkerState
        BY DEF TypeOK
  <2>b. worker[w].token \in 0..MaxAttempts /\ worker[w].version \in 0..MaxVersion
        /\ worker[w].data \in SUBSET Natives /\ worker[w].last \in BOOLEAN
        BY <2>a DEF WorkerState
  <2>c. ASSUME r \in Runs PROVE k \in Kinds
        BY <2>c DEF TypeOK, RunRow
  <2>1. CASE StartScan(w)
    <3>1. r \in Runs /\ k \in Kinds
          BY <2>1, <2>c DEF StartScan
    <3>2. version \in 0..MaxVersion
          BY SyncAssumption DEF TypeOK
    <3>3. StartedRun(run[r], version) \in RunRow
          BY <3>1, <3>2, StartedRunRow DEF TypeOK
    <3>4. Bound(worker[w], version) \in WorkerState /\ Bound(worker[w], version).run = r
          BY <2>a, <3>2, BoundRow
    <3>5. NewWalk(worker[w].token, Natives \ world[k]) \in Walk
          BY <2>b, NewWalkRow
    <3> QED BY <2>1, <3>1, <3>3, <3>4, <3>5 DEF StartScan, TypeOK
  <2>2. CASE Guard(w)
    <3>1. At(worker[w], "read") \in WorkerState /\ At(worker[w], "read").run = r
          BY <2>a, AtRow, Names
    <3> QED BY <2>2, <3>1 DEF Guard, TypeOK
  <2>3. CASE ReadPage(w)
    <3> DEFINE D == PageData(k, worker[w].page)
               b == IsLastPage(k, worker[w].page)
               c == worker[w].version # version
    <3>1. r \in Runs /\ k \in Kinds
          BY <2>3, <2>c DEF ReadPage
    <3>2. D \in SUBSET Natives /\ b \in BOOLEAN /\ c \in BOOLEAN
          BY <3>1, PageIsListed
    <3>3. Holding(worker[w], D, b) \in WorkerState /\ Holding(worker[w], D, b).run = r
          BY <2>a, <3>2, HoldingRow
    <3>4. Walked(walk[r], D, b, c) \in Walk
          BY <3>1, <3>2, WalkedRow DEF TypeOK
    <3>5. worker' \in [Workers -> WorkerState] /\ Assigned'
          BY <2>3, <3>1, <3>3 DEF ReadPage, TypeOK
    <3>6. walk' \in [Runs -> Walk]
          BY <2>3, <3>1, <3>4 DEF ReadPage, TypeOK
    <3> QED BY <2>3, <3>5, <3>6 DEF ReadPage, TypeOK
  <2>4. CASE Stage(w)
    <3>1. r \in Runs
          BY <2>4 DEF Stage
    <3>2. PagedRun(run[r], worker[w].last) \in RunRow
          BY <3>1, <2>b, PagedRunRow DEF TypeOK
    <3>3. /\ At(worker[w], "done") \in WorkerState /\ At(worker[w], "done").run = r
          /\ At(worker[w], "failed") \in WorkerState /\ At(worker[w], "failed").run = r
          BY <2>a, AtRow, Names
    <3>4. worker[w].page # MaxPages =>
            Turning(worker[w]) \in WorkerState /\ Turning(worker[w]).run = r
          BY <2>a, TurningRow
    <3>5. worker' \in [Workers -> WorkerState] /\ Assigned'
          BY <2>4, <3>1, <3>3, <3>4 DEF Stage, TypeOK
    <3> QED BY <2>4, <2>b, <3>1, <3>2, <3>5 DEF Stage, TypeOK
  <2>5. CASE Abandon(w)
        BY <2>5, NewRows DEF Abandon, TypeOK
  <2>6. CASE ScanFails(w)
    <3>1. At(worker[w], "failed") \in WorkerState /\ At(worker[w], "failed").run = r
          BY <2>a, AtRow, Names
    <3> QED BY <2>6, <3>1 DEF ScanFails, Scanning, TypeOK
  <2>7. ASSUME NEW s \in Runs, NEW state \in Ended, End(s, state)
        PROVE  run' \in [Runs -> RunRow] /\ job' \in [Runs -> JobRow]
    <3>1. EndedRun(run[s], state) \in RunRow /\ EndedJob(job[s], state) \in JobRow
          BY EndedRunRow, EndedJobRow, Names DEF TypeOK
    <3> QED BY <2>7, <3>1 DEF End, TypeOK
  <2>8. CASE Publish(w)
    <3>1. r \in Runs /\ k \in Kinds
          BY <2>8, <2>c DEF Publish
    <3>2. run' \in [Runs -> RunRow] /\ job' \in [Runs -> JobRow]
          BY <2>7, <2>8, <3>1, Names DEF Publish
    <3>3. Published(resource[k], staged[r], r) \in [Natives -> ResourceRow]
      <4>1. r \in 0..MaxRuns
            BY <3>1, SyncAssumption DEF Runs
      <4> QED BY <3>1, <4>1 DEF Published, TypeOK, ResourceRow
    <3>4. resource' \in [Kinds -> [Natives -> ResourceRow]]
          BY <2>8, <3>1, <3>3 DEF Publish, TypeOK
    <3>5. worker' \in [Workers -> WorkerState] /\ Assigned'
          BY <2>8, NewRows DEF Publish, TypeOK
    <3> QED BY <2>8, <3>2, <3>4, <3>5 DEF Publish, TypeOK
  <2>9. CASE RecordFailure(w)
    <3>1. r \in Runs
          BY <2>9 DEF RecordFailure
    <3>2. run' \in [Runs -> RunRow] /\ job' \in [Runs -> JobRow]
          BY <2>7, <2>9, <3>1, Names DEF RecordFailure
    <3> QED BY <2>9, <3>2, NewRows DEF RecordFailure, TypeOK
  <2>10. CASE FinishFails(w)
         BY <2>10, NewRows DEF FinishFails, TypeOK
  <2> QED BY <1>5, <2>1, <2>2, <2>3, <2>4, <2>5, <2>6, <2>8, <2>9, <2>10 DEF Work
<1>6. CASE Crash
      BY <1>6, NewRows DEF Crash, TypeOK
<1>7. CASE Restart \/ AuthorityChanges \/ Rotate
  <2>1. CASE Restart \/ AuthorityChanges
        BY <2>1 DEF Restart, AuthorityChanges, TypeOK
  <2>2. CASE Rotate
        BY <2>2, SyncAssumption DEF Rotate, TypeOK
  <2> QED BY <1>7, <2>1, <2>2
<1>8. CASE Disable
  <2>1. \A r \in Runs : EndedJob(job[r], "cancelled") \in JobRow
        BY EndedJobRow, Names DEF TypeOK
  <2> QED BY <1>8, <2>1 DEF Disable, TypeOK
<1>9. CASE Provider
  <2>1. ASSUME NEW k \in Kinds, NEW n \in Natives, Appear(k, n) PROVE Types'
        BY <2>1 DEF Appear, TypeOK
  <2>2. ASSUME NEW k \in Kinds, NEW n \in Natives, Vanish(k, n) PROVE Types'
    <3>1. \A r \in Runs : Missing(walk[r], n) \in Walk
          BY MissingRow DEF TypeOK
    <3>2. walk' \in [Runs -> Walk]
          BY <2>2, <3>1 DEF Vanish, TypeOK
    <3> QED BY <2>2, <3>2 DEF Vanish, TypeOK
  <2> QED BY <1>9, <2>1, <2>2 DEF Provider
<1>10. CASE UNCHANGED vars
       BY <1>10 DEF vars, TypeOK
<1> QED BY <1>1, <1>2, <1>3, <1>4, <1>5, <1>6, <1>7, <1>8, <1>9, <1>10 DEF Next

(* Every reachable state is well typed: no claim exceeds the attempts the   *)
(* table admits, no walk the pages allowed (Claim, Scan).                   *)
THEOREM SyncTypeCorrect == Spec => []TypeOK
<1>1. Types => TypeOK
      BY DEF Types
<1> QED BY TypesInit, TypesStep, <1>1, PTL DEF Spec

-----------------------------------------------------------------------------
(* Acceptance: runs are numbered in order, and a job is pending only while  *)
(* its run is open.                                                         *)

Numbered ==
    /\ \A r, s \in Runs : r < s /\ run[r].status = "absent" => run[s].status = "absent"
    /\ \A r \in Runs : job[r].state \in Pending => run[r].status \in Open

QueueInv == Numbered /\ OpenIsNewest

(* How a step that accepts nothing changes the runs: an open one stays open *)
(* or ends together with its job, the others stay as they are.              *)
RunsAge ==
    \A r \in Runs :
      /\ run'[r].kind = run[r].kind
      /\ \/ run'[r].status = run[r].status
         \/ run[r].status \in Open /\ run'[r].status \in Open
         \/ run[r].status \in Open /\ run'[r].status \in Ended /\ job'[r].state \notin Pending
      /\ job'[r].state \in Pending => job[r].state \in Pending

(* Every step either accepts a refresh or ages the accepted ones. *)
LEMMA RunsAgeOrGrow ==
    ASSUME Types, [Next]_vars
    PROVE  RunsAge \/ \E k \in Kinds, r \in Runs : Enqueue(k, r)
<1> USE DEF Types, Assigned, Busy
<1>a. run \in [Runs -> RunRow] /\ job \in [Runs -> JobRow]
      BY DEF TypeOK
<1>1. ASSUME NEW w \in Workers, NEW r \in Runs, Claim(w, r) PROVE RunsAge
  <2>1. LeasedJob(job[r]).state = "running" /\ job[r].state \in Pending
        BY <1>1, <1>a, LeasedJobRow, Names DEF Claim, Claimable
  <2> QED BY <1>1, <1>a, <2>1 DEF Claim, RunsAge
<1>2. ASSUME NEW r \in Runs, LeaseExpires(r) \/ DeadlinePasses(r) \/ PruneStaging(r)
      PROVE  RunsAge
  <2>1. LapsedJob(job[r]).state = job[r].state /\ OverdueJob(job[r]).state = job[r].state
        BY <1>a, LapsedJobRow
  <2> QED BY <1>2, <1>a, <2>1 DEF LeaseExpires, DeadlinePasses, PruneStaging, RunsAge
<1>3. ASSUME NEW w \in Workers, Work(w) PROVE RunsAge
  <2> DEFINE r == worker[w].run
  <2>1. CASE StartScan(w)
    <3>1. r \in Runs /\ run[r].status \in Open /\ version \in 0..MaxVersion
          BY <2>1 DEF StartScan, ScanAuthority, TypeOK
    <3>2. StartedRun(run[r], version).kind = run[r].kind
          /\ StartedRun(run[r], version).status = "running"
          BY <1>a, <3>1, StartedRunRow
    <3> QED BY <2>1, <1>a, <3>1, <3>2, Names DEF StartScan, RunsAge
  <2>2. CASE Guard(w) \/ ReadPage(w) \/ Abandon(w) \/ ScanFails(w) \/ FinishFails(w)
        BY <2>2 DEF Guard, ReadPage, Abandon, ScanFails, FinishFails, RunsAge
  <2>3. CASE Stage(w)
    <3>1. r \in Runs /\ worker[w].last \in BOOLEAN
          BY <2>3 DEF Stage, TypeOK, WorkerState
    <3>2. PagedRun(run[r], worker[w].last).kind = run[r].kind
          /\ PagedRun(run[r], worker[w].last).status = run[r].status
          BY <1>a, <3>1, PagedRunRow
    <3> QED BY <2>3, <1>a, <3>1, <3>2 DEF Stage, RunsAge
  <2>4. ASSUME NEW state \in Ended, r \in Runs, run[r].status \in Open, End(r, state)
        PROVE  RunsAge
    <3>1. state \in RunStatus /\ state \in JobState /\ run[r] \in RunRow /\ job[r] \in JobRow
          BY <1>a, <2>4, Names
    <3>2. EndedRun(run[r], state).kind = run[r].kind /\ EndedRun(run[r], state).status = state
          BY <3>1, EndedRunRow
    <3>3. EndedJob(job[r], state).state = state
          BY <3>1, EndedJobRow
    <3> QED BY <1>a, <2>4, <3>2, <3>3, Names DEF End, RunsAge
  <2>5. CASE Publish(w)
    <3>1. r \in Runs /\ run[r].status \in Open
          BY <2>5 DEF Publish, ScanAuthority
    <3> QED BY <2>4, <2>5, <3>1, Names DEF Publish
  <2>6. CASE RecordFailure(w)
    <3>1. r \in Runs /\ run[r].status \in Open
          BY <2>6 DEF RecordFailure
    <3> QED BY <2>4, <2>6, <3>1, Names DEF RecordFailure
  <2> QED BY <1>3, <2>1, <2>2, <2>3, <2>5, <2>6 DEF Work
<1>4. CASE Disable
  <2>1. \A r \in Runs : EndedJob(job[r], "cancelled").state = "cancelled"
        BY <1>a, EndedJobRow, Names
  <2> QED BY <1>4, <1>a, <2>1, Names DEF Disable, RunsAge
<1>5. CASE Crash \/ Restart \/ AuthorityChanges \/ Rotate \/ Provider
      BY <1>5 DEF Crash, Restart, AuthorityChanges, Rotate, Provider, Appear, Vanish, RunsAge
<1>6. CASE UNCHANGED vars
      BY <1>6 DEF vars, RunsAge
<1> QED BY <1>1, <1>2, <1>3, <1>4, <1>5, <1>6 DEF Next

(* The refresh of a connection just saved is the only one. *)
LEMMA QueueInit == Init => QueueInv
<1> SUFFICES ASSUME Init PROVE QueueInv
    OBVIOUS
<1>1. \A r \in Runs : run[r] = IF r = 1 THEN NewRun(Server) ELSE NoRun
      BY DEF Init
<1>2. \A r \in Runs : job[r] = IF r = 1 THEN NewJob ELSE NoJob
      BY DEF Init
<1>3. NewRun(Server).status = "pending"
      BY NewRunRow, SyncAssumption
<1> QED BY <1>1, <1>2, <1>3, NewRows, Names, SyncAssumption
        DEF QueueInv, Numbered, OpenIsNewest, Runs

(* A refresh is accepted only when none of its kind is open. *)
LEMMA QueueStep == Types /\ QueueInv /\ [Next]_vars => QueueInv'
<1> SUFFICES ASSUME Types, QueueInv, [Next]_vars PROVE QueueInv'
    OBVIOUS
<1>a. run \in [Runs -> RunRow] /\ job \in [Runs -> JobRow]
      BY DEF Types, TypeOK
<1>1. CASE RunsAge
  <2>1. Numbered'
    <3>1. \A r \in Runs : run'[r].status = "absent" <=> run[r].status = "absent"
          BY <1>1, Names DEF RunsAge
    <3>2. \A r \in Runs : job'[r].state \in Pending => run'[r].status \in Open
          BY <1>1, Names DEF RunsAge, QueueInv, Numbered
    <3> QED BY <3>1, <3>2 DEF QueueInv, Numbered
  <2>2. OpenIsNewest'
        BY <1>1, Names DEF RunsAge, QueueInv, OpenIsNewest
  <2> QED BY <2>1, <2>2 DEF QueueInv
<1>2. ASSUME NEW k \in Kinds, NEW r \in Runs, Enqueue(k, r) PROVE QueueInv'
  <2>1. /\ \A s \in Runs : run[s].kind = k => run[s].status \notin Open
        /\ run[r].status = "absent"
        /\ \A s \in Runs : s < r => run[s].status # "absent"
        /\ \A s \in Runs : run'[s] = IF s = r THEN NewRun(k) ELSE run[s]
        /\ \A s \in Runs : job'[s] = IF s = r THEN NewJob ELSE job[s]
        BY <1>2, <1>a DEF Enqueue, EnqueueLocked
  <2>2. NewRun(k).kind = k /\ NewRun(k).status = "pending" /\ NewJob.state = "queued"
        BY NewRunRow, NewRows
  <2>3. \A s \in Runs : s > r => run[s].status = "absent"
        BY <2>1 DEF QueueInv, Numbered
  <2>4. \A s, t \in Runs : s < t <=> t > s
        BY DEF Runs
  <2>5. Numbered'
    <3>1. ASSUME NEW s \in Runs, NEW t \in Runs, s < t, run'[s].status = "absent"
          PROVE  run'[t].status = "absent"
      <4>1. s # r /\ run[s].status = "absent" /\ ~(s < r)
            BY <2>1, <2>2, <3>1
      <4>2. t # r
            BY <3>1, <4>1
      <4> QED BY <2>1, <3>1, <4>1, <4>2 DEF QueueInv, Numbered
    <3>2. ASSUME NEW s \in Runs, job'[s].state \in Pending PROVE run'[s].status \in Open
          BY <2>1, <2>2, <3>2, Names DEF QueueInv, Numbered
    <3> QED BY <3>1, <3>2 DEF Numbered
  <2>6. OpenIsNewest'
    <3> SUFFICES ASSUME NEW s \in Runs, NEW t \in Runs, s < t, run'[s].kind = run'[t].kind,
                        run'[s].status \in Open
                 PROVE  run'[t].status = "absent"
        BY DEF OpenIsNewest
    <3>1. CASE s = r
      <4>1. t # r /\ t > r
            BY <3>1, <2>4 DEF Runs
      <4> QED BY <4>1, <2>1, <2>3
    <3>2. CASE s # r
      <4>1. t # r
            BY <2>1, <2>2, <3>2
      <4> QED BY <2>1, <3>2, <4>1 DEF QueueInv, OpenIsNewest
    <3> QED BY <3>1, <3>2
  <2> QED BY <2>5, <2>6 DEF QueueInv
<1> QED BY <1>1, <1>2, RunsAgeOrGrow

(* An open refresh is the newest of its kind, in any number of refreshes:   *)
(* coalescing makes the superseded branch of Complete unreachable.          *)
THEOREM RefreshesNeverOvertake == Spec => []OpenIsNewest
<1>1. Init => Types /\ QueueInv
      BY TypesInit, QueueInit
<1>2. Types /\ QueueInv /\ [Next]_vars => (Types /\ QueueInv)'
      BY TypesStep, QueueStep
<1>3. Types /\ QueueInv => OpenIsNewest
      BY DEF QueueInv
<1> QED BY <1>1, <1>2, <1>3, PTL DEF Spec

-----------------------------------------------------------------------------
(* Lease tokens *)

(* Where a worker is once its scan has started. *)
Started == {"guard", "read", "stage", "done"}

(* A job's newest token is its number of claims, a scan carries the token   *)
(* of the claim that started it, and no two workers have the same claim.    *)
TokenInv ==
    /\ \A r \in Runs : walk[r].token <= job[r].attempts
    /\ \A r \in Runs : job[r].state = "running" => job[r].token = job[r].attempts
    /\ \A r \in Runs : run[r].status = "absent" => job[r].attempts = 0
    /\ \A w \in Workers : Busy(w) => /\ worker[w].token <= job[worker[w].run].attempts
                                     /\ run[worker[w].run].status # "absent"
    /\ \A w \in Workers : worker[w].pc \in Started => worker[w].token <= walk[worker[w].run].token
    /\ \A w, x \in Workers : /\ Busy(w) /\ Busy(x)
                             /\ worker[w].run = worker[x].run /\ worker[w].token = worker[x].token
                             => w = x

(* How a step that neither claims a job nor starts a scan changes them. *)
TokensAge ==
    /\ \A r \in Runs :
         /\ walk'[r].token = walk[r].token
         /\ job'[r].attempts = job[r].attempts
         /\ job'[r].state = "running" => job[r].state = "running" /\ job'[r].token = job[r].token
         /\ run'[r].status = "absent" => run[r].status = "absent"
    /\ \A w \in Workers : Busy(w)' =>
         /\ Busy(w)
         /\ worker'[w].run = worker[w].run /\ worker'[w].token = worker[w].token
         /\ worker'[w].pc \in Started => worker[w].pc \in Started

(* The variables as functions to rows. *)
LEMMA Functions ==
    ASSUME Types
    PROVE  /\ run \in [Runs -> RunRow] /\ job \in [Runs -> JobRow] /\ walk \in [Runs -> Walk]
           /\ worker \in [Workers -> WorkerState] /\ staged \in [Runs -> SUBSET Natives]
           /\ \A w \in Workers : worker[w] \in WorkerState /\ (Busy(w) => worker[w].run \in Runs)
           /\ \A r \in Runs : /\ run[r] \in RunRow /\ run[r].kind \in Kinds
                              /\ job[r] \in JobRow /\ job[r].attempts \in Nat
                              /\ walk[r] \in Walk /\ walk[r].token \in Nat
           /\ \A w \in Workers : worker[w].token \in Nat
<1>1. \A r \in Runs : run[r] \in RunRow /\ job[r] \in JobRow /\ walk[r] \in Walk
      BY DEF Types, TypeOK
<1>2. \A r \in Runs : run[r].kind \in Kinds /\ job[r].attempts \in Nat /\ walk[r].token \in Nat
      BY <1>1, SyncAssumption DEF RunRow, JobRow, Walk
<1>3. \A w \in Workers : worker[w] \in WorkerState
      BY DEF Types, TypeOK
<1>4. \A w \in Workers : worker[w].token \in Nat
      BY <1>3, SyncAssumption DEF WorkerState
<1> QED BY <1>1, <1>2, <1>3, <1>4 DEF Types, TypeOK, Assigned

(* No scan has started, no job is claimed. *)
LEMMA TokensInit == Init => TokenInv
<1> SUFFICES ASSUME Init PROVE TokenInv
    OBVIOUS
<1>1. \A r \in Runs : walk[r].token = 0
      BY DEF Init, NewWalk
<1>2. \A r \in Runs : job[r].attempts = 0 /\ job[r].state # "running"
      BY NewRows DEF Init
<1>3. \A w \in Workers : worker[w].pc = "idle"
      BY NewRows DEF Init
<1> QED BY <1>1, <1>2, <1>3 DEF TokenInv, Busy, Started

(* Workers that all fall idle keep no token. *)
LEMMA TokensAgeIfIdle ==
    ASSUME worker' = [w \in Workers |-> Idle], UNCHANGED <<run, job, walk>>
    PROVE  TokensAge
BY NewRows DEF TokensAge, Busy

(* A step of one worker that leaves the rows alone and stays with its claim. *)
LEMMA TokensAgeIfWorks ==
    ASSUME Types, NEW w \in Workers, Busy(w), NEW k,
           worker' = [worker EXCEPT ![w] = k],
           k.pc = "idle" \/ (k.run = worker[w].run /\ k.token = worker[w].token
                             /\ (k.pc \in Started => worker[w].pc \in Started))
    PROVE  \A x \in Workers : Busy(x)' =>
             /\ Busy(x)
             /\ worker'[x].run = worker[x].run /\ worker'[x].token = worker[x].token
             /\ worker'[x].pc \in Started => worker[x].pc \in Started
BY Functions DEF Busy

(* A run and its job that end keep their attempts and are not claimed. *)
LEMMA EndedRows ==
    ASSUME Types, NEW r \in Runs, NEW state \in Ended, End(r, state)
    PROVE  /\ \A s \in Runs : /\ run'[s] = IF s = r THEN EndedRun(run[r], state) ELSE run[s]
                              /\ job'[s] = IF s = r THEN EndedJob(job[r], state) ELSE job[s]
           /\ EndedRun(run[r], state).kind = run[r].kind
           /\ EndedRun(run[r], state).status = state
           /\ EndedRun(run[r], state).complete = run[r].complete
           /\ EndedRun(run[r], state).version = run[r].version
           /\ EndedJob(job[r], state).state = state
           /\ EndedJob(job[r], state).attempts = job[r].attempts
<1>1. state \in RunStatus /\ state \in JobState /\ run[r] \in RunRow /\ job[r] \in JobRow
      BY Functions, Names
<1>2. \A s \in Runs : /\ run'[s] = IF s = r THEN EndedRun(run[r], state) ELSE run[s]
                      /\ job'[s] = IF s = r THEN EndedJob(job[r], state) ELSE job[s]
      BY Functions DEF End
<1>3. /\ EndedRun(run[r], state).kind = run[r].kind
      /\ EndedRun(run[r], state).status = state
      /\ EndedRun(run[r], state).complete = run[r].complete
      /\ EndedRun(run[r], state).version = run[r].version
      BY <1>1, EndedRunRow
<1>4. EndedJob(job[r], state).state = state /\ EndedJob(job[r], state).attempts = job[r].attempts
      BY <1>1, EndedJobRow
<1> QED BY <1>2, <1>3, <1>4

(* Reading a page leaves the token of the walk. *)
LEMMA WalkedToken ==
    ASSUME NEW h \in Walk, NEW D, NEW b, NEW c
    PROVE  Walked(h, D, b, c).token = h.token
BY DEF Walk, Walked

(* Every other step ages the tokens. *)
LEMMA TokensAgeElse ==
    ASSUME Types, TokenInv, [Next]_vars,
           ~\E w \in Workers, r \in Runs : Claim(w, r),
           ~\E w \in Workers : StartScan(w)
    PROVE  TokensAge
<1>1. ASSUME NEW k \in Kinds, NEW r \in Runs, Enqueue(k, r) PROVE TokensAge
  <2>1. \A s \in Runs : /\ run'[s] = IF s = r THEN NewRun(k) ELSE run[s]
                        /\ job'[s] = IF s = r THEN NewJob ELSE job[s]
        BY <1>1, Functions DEF Enqueue, EnqueueLocked
  <2>2. job[r].attempts = 0 /\ NewJob.attempts = 0 /\ NewJob.state = "queued"
        BY <1>1, NewRows DEF Enqueue, EnqueueLocked, TokenInv
  <2>3. NewRun(k).status = "pending"
        BY NewRunRow
  <2>4. UNCHANGED <<worker, walk>>
        BY <1>1 DEF Enqueue
  <2> QED BY <2>1, <2>2, <2>3, <2>4 DEF TokensAge, Busy
<1>2. ASSUME NEW r \in Runs, LeaseExpires(r) \/ DeadlinePasses(r) PROVE TokensAge
  <2>1. UNCHANGED <<run, worker, walk>>
        BY <1>2 DEF LeaseExpires, DeadlinePasses
  <2>2. \A s \in Runs : /\ job'[s].attempts = job[s].attempts /\ job'[s].state = job[s].state
                        /\ job'[s].token = job[s].token
        BY <1>2, Functions, LapsedJobRow DEF LeaseExpires, DeadlinePasses
  <2> QED BY <2>1, <2>2 DEF TokensAge, Busy
<1>3. ASSUME NEW w \in Workers, Work(w) PROVE TokensAge
  <2> DEFINE r == worker[w].run
  <2>a. worker[w] \in WorkerState
        BY Functions
  <2>1. CASE Guard(w) \/ ScanFails(w)
    <3>1. PICK pc \in {"read", "failed"} :
            worker' = [worker EXCEPT ![w] = At(worker[w], pc)]
            /\ (pc = "read" => worker[w].pc = "guard")
          BY <2>1 DEF Guard, ScanFails
    <3>2. Busy(w)
          BY <2>1 DEF Guard, ScanFails, Scanning, Busy
    <3>a. pc \in PC
          BY Names
    <3>3. At(worker[w], pc).pc = pc /\ At(worker[w], pc).run = r
          /\ At(worker[w], pc).token = worker[w].token
          BY <2>a, <3>a, AtRow
    <3>4. UNCHANGED <<run, job, walk>>
          BY <2>1 DEF Guard, ScanFails
    <3> HIDE DEF r
    <3>5. pc \in Started => worker[w].pc \in Started
          BY <3>1 DEF Started
    <3> QED BY <3>1, <3>2, <3>3, <3>4, <3>5, TokensAgeIfWorks DEF TokensAge, r
  <2>2. CASE ReadPage(w)
    <3> DEFINE k == run[r].kind
               D == PageData(k, worker[w].page)
               b == IsLastPage(k, worker[w].page)
               c == worker[w].version # version
    <3>1. Busy(w) /\ r \in Runs /\ k \in Kinds
          BY <2>2, Functions DEF ReadPage, Busy
    <3>2. D \in SUBSET Natives /\ b \in BOOLEAN /\ c \in BOOLEAN
          BY <3>1, PageIsListed DEF Types
    <3>3. Holding(worker[w], D, b).pc = "stage" /\ Holding(worker[w], D, b).run = r
          /\ Holding(worker[w], D, b).token = worker[w].token
          BY <2>a, <3>2, HoldingRow
    <3>4. Walked(walk[r], D, b, c).token = walk[r].token
      <4>1. walk[r] \in Walk
            BY <3>1, Functions
      <4> QED BY <4>1, WalkedToken
    <3>5. worker' = [worker EXCEPT ![w] = Holding(worker[w], D, b)] /\ worker[w].pc = "read"
          /\ UNCHANGED <<run, job>>
          BY <2>2 DEF ReadPage
    <3>6. \A s \in Runs : walk'[s].token = walk[s].token
          BY <2>2, <3>1, <3>4, Functions DEF ReadPage
    <3> HIDE DEF D, b
    <3>7. worker[w].pc \in Started
          BY <3>5 DEF Started
    <3>8. \A x \in Workers : Busy(x)' =>
             /\ Busy(x)
             /\ worker'[x].run = worker[x].run /\ worker'[x].token = worker[x].token
             /\ worker'[x].pc \in Started => worker[x].pc \in Started
          BY <3>1, <3>3, <3>5, <3>7, TokensAgeIfWorks
    <3> QED BY <3>5, <3>6, <3>8 DEF TokensAge
  <2>3. CASE Stage(w)
    <3>1. Busy(w) /\ r \in Runs /\ worker[w].last \in BOOLEAN
          BY <2>3, <2>a, Functions DEF Stage, Busy, WorkerState
    <3>2. PICK k : /\ worker' = [worker EXCEPT ![w] = k]
                   /\ k.run = r /\ k.token = worker[w].token
      <4>1. /\ At(worker[w], "done").run = r /\ At(worker[w], "done").token = worker[w].token
            /\ At(worker[w], "failed").run = r /\ At(worker[w], "failed").token = worker[w].token
            BY <2>a, AtRow, Names
      <4>2. worker[w].page # MaxPages =>
              Turning(worker[w]).run = r /\ Turning(worker[w]).token = worker[w].token
            BY <2>a, TurningRow
      <4> QED BY <2>3, <4>1, <4>2 DEF Stage
    <3>3. PagedRun(run[r], worker[w].last).status = run[r].status
          BY <3>1, PagedRunRow, Functions
    <3>4. \A s \in Runs : run'[s].status = run[s].status
          BY <2>3, <3>1, <3>3, Functions DEF Stage
    <3>5. UNCHANGED <<job, walk>> /\ worker[w].pc \in Started
          BY <2>3 DEF Stage, Started
    <3>6. \A x \in Workers : Busy(x)' =>
             /\ Busy(x)
             /\ worker'[x].run = worker[x].run /\ worker'[x].token = worker[x].token
             /\ worker'[x].pc \in Started => worker[x].pc \in Started
          BY <3>1, <3>2, <3>5, TokensAgeIfWorks
    <3> QED BY <3>4, <3>5, <3>6 DEF TokensAge
  <2>4. ASSUME Busy(w), worker' = [worker EXCEPT ![w] = Idle]
        PROVE  \A x \in Workers : Busy(x)' =>
             /\ Busy(x)
             /\ worker'[x].run = worker[x].run /\ worker'[x].token = worker[x].token
             /\ worker'[x].pc \in Started => worker[x].pc \in Started
        BY <2>4, NewRows, TokensAgeIfWorks
  <2>5. CASE Abandon(w)
    <3>1. Busy(w) /\ worker' = [worker EXCEPT ![w] = Idle] /\ UNCHANGED <<run, job, walk>>
          BY <2>5 DEF Abandon, Scanning, Busy
    <3> QED BY <3>1, <2>4 DEF TokensAge
  <2>6. CASE Publish(w) \/ RecordFailure(w)
    <3>1. /\ Busy(w) /\ r \in Runs /\ worker' = [worker EXCEPT ![w] = Idle]
          /\ UNCHANGED walk /\ \E state \in Ended : End(r, state)
          BY <2>6, Names, Functions DEF Publish, RecordFailure, Busy
    <3>2. PICK state \in Ended : End(r, state)
          BY <3>1
    <3>3. \A s \in Runs :
            /\ job'[s].attempts = job[s].attempts
            /\ job'[s].state = "running" => job'[s] = job[s]
            /\ run'[s].status = "absent" => run'[s] = run[s]
          BY <3>1, <3>2, EndedRows, Names
    <3> QED BY <3>1, <3>3, <2>4 DEF TokensAge
  <2>7. CASE FinishFails(w)
        BY <2>7, TokensAgeIfIdle DEF FinishFails
  <2> QED BY <1>3, <2>1, <2>2, <2>3, <2>5, <2>6, <2>7 DEF Work
<1>4. CASE Crash
      BY <1>4, TokensAgeIfIdle DEF Crash
<1>5. CASE Restart \/ AuthorityChanges \/ Rotate \/ UNCHANGED vars
           \/ (\E r \in Runs : PruneStaging(r))
           \/ \E k \in Kinds, n \in Natives : Appear(k, n)
  <2>1. UNCHANGED <<run, job, worker, walk>>
        BY <1>5 DEF Restart, AuthorityChanges, Rotate, vars, PruneStaging, Appear
  <2> QED BY <2>1 DEF TokensAge, Busy
<1>6. CASE Disable
  <2>1. \A r \in Runs : EndedJob(job[r], "cancelled").state = "cancelled"
          /\ EndedJob(job[r], "cancelled").attempts = job[r].attempts
        BY EndedJobRow, Names, Functions
  <2>2. \A r \in Runs : /\ job'[r].attempts = job[r].attempts
                        /\ job'[r].state = "running" => job'[r] = job[r]
        BY <1>6, <2>1 DEF Disable
  <2> QED BY <1>6, <2>2 DEF Disable, TokensAge, Busy
<1>7. ASSUME NEW k \in Kinds, NEW n \in Natives, Vanish(k, n) PROVE TokensAge
  <2>1. \A r \in Runs : walk'[r].token = walk[r].token
        BY <1>7, MissingRow, Functions DEF Vanish
  <2> QED BY <1>7, <2>1 DEF Vanish, TokensAge, Busy
<1> QED BY <1>1, <1>2, <1>3, <1>4, <1>5, <1>6, <1>7 DEF Next, Provider

(* A claim issues a token no worker has; starting a scan needs the newest.  *)
LEMMA TokensStep == Types /\ QueueInv /\ TokenInv /\ [Next]_vars => TokenInv'
<1> SUFFICES ASSUME Types, QueueInv, TokenInv, [Next]_vars PROVE TokenInv'
    OBVIOUS
<1>1. CASE TokensAge
  <2>1. /\ \A r \in Runs : walk'[r].token <= job'[r].attempts
        /\ \A r \in Runs : job'[r].state = "running" => job'[r].token = job'[r].attempts
        /\ \A r \in Runs : run'[r].status = "absent" => job'[r].attempts = 0
        BY <1>1 DEF TokensAge, TokenInv
  <2>2. \A w \in Workers : Busy(w)' => /\ worker'[w].token <= job'[worker'[w].run].attempts
                                       /\ run'[worker'[w].run].status # "absent"
        BY <1>1, Functions DEF TokensAge, TokenInv
  <2>3. \A w \in Workers : worker'[w].pc \in Started => Busy(w)'
        BY DEF Busy, Started
  <2>4. \A w \in Workers : worker'[w].pc \in Started => worker'[w].token <= walk'[worker'[w].run].token
        BY <1>1, <2>3, Functions DEF TokensAge, TokenInv
  <2>5. \A w, x \in Workers : /\ Busy(w)' /\ Busy(x)'
                              /\ worker'[w].run = worker'[x].run /\ worker'[w].token = worker'[x].token
                              => w = x
        BY <1>1 DEF TokensAge, TokenInv
  <2> QED BY <2>1, <2>2, <2>4, <2>5 DEF TokenInv, Busy
<1>2. ASSUME NEW w \in Workers, NEW r \in Runs, Claim(w, r) PROVE TokenInv'
  <2> DEFINE t == job[r].attempts + 1
  <2>1. /\ \A s \in Runs : job'[s] = IF s = r THEN LeasedJob(job[r]) ELSE job[s]
        /\ \A x \in Workers : worker'[x] = IF x = w THEN Claiming(r, t) ELSE worker[x]
        /\ UNCHANGED <<run, walk>>
        BY <1>2, Functions DEF Claim
  <2>2. /\ LeasedJob(job[r]).token = t /\ LeasedJob(job[r]).attempts = t
        /\ t \in 0..MaxAttempts
        BY <1>2, Functions, LeasedJobRow DEF Claim, Claimable
  <2>3. Claiming(r, t).pc = "start" /\ Claiming(r, t).run = r /\ Claiming(r, t).token = t
        BY <2>2, ClaimingRow
  <2>4. run[r].status # "absent"
        BY <1>2, Names DEF Claim, Claimable, QueueInv, Numbered
  <2>5. job[r].attempts \in Nat /\ walk[r].token \in Nat
        BY Functions
  <2>6. \A s \in Runs : job'[s].attempts >= job[s].attempts /\ job[s].attempts \in Nat
                        /\ job'[s].attempts \in Nat
        BY <2>1, <2>2, <2>5, Functions
  <2>7. /\ \A s \in Runs : walk'[s].token <= job'[s].attempts
        /\ \A s \in Runs : job'[s].state = "running" => job'[s].token = job'[s].attempts
        /\ \A s \in Runs : run'[s].status = "absent" => job'[s].attempts = 0
        BY <2>1, <2>2, <2>4, <2>6, Functions DEF TokenInv
  <2>8. ASSUME NEW x \in Workers, Busy(x)'
        PROVE  /\ worker'[x].token <= job'[worker'[x].run].attempts
               /\ run'[worker'[x].run].status # "absent"
    <3>1. CASE x = w
          BY <3>1, <2>1, <2>2, <2>3, <2>4
    <3>2. CASE x # w
          BY <3>2, <2>1, <2>6, <2>8, Functions DEF TokenInv, Busy
    <3> QED BY <3>1, <3>2
  <2>9. \A x \in Workers : worker'[x].pc \in Started => worker'[x].token <= walk'[worker'[x].run].token
        BY <2>1, <2>3 DEF TokenInv, Started
  <2>10. ASSUME NEW x \in Workers, x # w, Busy(x), worker[x].run = r
         PROVE  worker[x].token # t
         BY <2>10, <2>5, Functions DEF TokenInv
  <2>11. \A y, x \in Workers : /\ Busy(y)' /\ Busy(x)'
                               /\ worker'[y].run = worker'[x].run /\ worker'[y].token = worker'[x].token
                               => y = x
    <3> SUFFICES ASSUME NEW y \in Workers, NEW x \in Workers, Busy(y)', Busy(x)',
                        worker'[y].run = worker'[x].run, worker'[y].token = worker'[x].token
                 PROVE  y = x
        OBVIOUS
    <3>1. CASE x # w /\ y # w
          BY <3>1, <2>1 DEF TokenInv, Busy
    <3>2. CASE x = w /\ y # w
          BY <3>2, <2>1, <2>3, <2>10 DEF Busy
    <3>3. CASE x # w /\ y = w
          BY <3>3, <2>1, <2>3, <2>10 DEF Busy
    <3> QED BY <3>1, <3>2, <3>3
  <2> QED BY <2>7, <2>8, <2>9, <2>11 DEF TokenInv, Busy
<1>3. ASSUME NEW w \in Workers, StartScan(w) PROVE TokenInv'
  <2> DEFINE r == worker[w].run
             h == NewWalk(worker[w].token, Natives \ world[run[r].kind])
  <2>1. Busy(w) /\ r \in Runs /\ version \in 0..MaxVersion
        BY <1>3, Functions, SyncAssumption DEF StartScan, Busy, Types, TypeOK
  <2>2. Bound(worker[w], version).pc = "guard" /\ Bound(worker[w], version).run = r
        /\ Bound(worker[w], version).token = worker[w].token
        BY <2>1, Functions, BoundRow
  <2>3. h.token = worker[w].token
        BY DEF NewWalk
  <2>4. StartedRun(run[r], version).status = "running"
        BY <2>1, Functions, StartedRunRow
  <2>5. worker[w].token = job[r].attempts
        BY <1>3, <2>1 DEF StartScan, ScanAuthority, HoldsLease, TokenInv
  <2>6. /\ \A s \in Runs : walk'[s] = IF s = r THEN h ELSE walk[s]
        /\ \A s \in Runs : run'[s] = IF s = r THEN StartedRun(run[r], version) ELSE run[s]
        /\ \A x \in Workers : worker'[x] = IF x = w THEN Bound(worker[w], version) ELSE worker[x]
        /\ UNCHANGED job
        BY <1>3, <2>1, Functions DEF StartScan
  <2> HIDE DEF h
  <2>7. /\ \A s \in Runs : walk'[s].token <= job'[s].attempts
        /\ \A s \in Runs : job'[s].state = "running" => job'[s].token = job'[s].attempts
        /\ \A s \in Runs : run'[s].status = "absent" => job'[s].attempts = 0
        BY <2>3, <2>4, <2>5, <2>6, Functions DEF TokenInv
  <2>8. \A x \in Workers :
          /\ Busy(x)' => Busy(x)
          /\ worker'[x].run = worker[x].run /\ worker'[x].token = worker[x].token
        BY <2>1, <2>2, <2>6 DEF Busy
  <2>9. \A x \in Workers : Busy(x)' => /\ worker'[x].token <= job'[worker'[x].run].attempts
                                       /\ run'[worker'[x].run].status # "absent"
        BY <2>4, <2>6, <2>8, Functions DEF TokenInv
  <2>10. ASSUME NEW x \in Workers, worker'[x].pc \in Started
         PROVE  worker'[x].token <= walk'[worker'[x].run].token
    <3>1. CASE x = w
          BY <3>1, <2>1, <2>2, <2>3, <2>6, Functions
    <3>2. CASE x # w /\ worker[x].run # r
          BY <3>2, <2>6, <2>10, Functions DEF TokenInv, Started, Busy
    <3>3. CASE x # w /\ worker[x].run = r
      <4>1. Busy(x)
            BY <3>3, <2>6, <2>10 DEF Started, Busy
      <4>2. worker[x].token <= job[r].attempts
            BY <3>3, <4>1 DEF TokenInv
      <4> QED BY <3>3, <4>2, <2>1, <2>3, <2>5, <2>6
    <3> QED BY <3>1, <3>2, <3>3
  <2>11. \A x, y \in Workers : /\ Busy(x)' /\ Busy(y)'
                               /\ worker'[x].run = worker'[y].run /\ worker'[x].token = worker'[y].token
                               => x = y
         BY <2>8 DEF TokenInv
  <2> QED BY <2>7, <2>9, <2>10, <2>11 DEF TokenInv, Busy
<1> QED BY <1>1, <1>2, <1>3, TokensAgeElse

(* A worker whose scan is the one that the run's history describes. *)
Current(w) == worker[w].pc \in Started /\ worker[w].token = walk[worker[w].run].token

(* Whoever holds the lease after starting a scan is at the current one, and *)
(* is alone there.                                                          *)
LEMMA HolderIsCurrent ==
    ASSUME Types, TokenInv, NEW w \in Workers, worker[w].pc \in Started, HoldsLease(w)
    PROVE  /\ worker[w].run \in Runs /\ Current(w)
           /\ \A x \in Workers : Current(x) /\ worker[x].run = worker[w].run => x = w
<1>1. Busy(w) /\ worker[w].run \in Runs
      BY Functions DEF Busy, Started
<1>2. worker[w].token = job[worker[w].run].attempts
      BY <1>1 DEF HoldsLease, TokenInv
<1>3. Current(w)
  <2>1. /\ walk[worker[w].run].token <= job[worker[w].run].attempts
        /\ worker[w].token <= walk[worker[w].run].token
        BY <1>1 DEF TokenInv
  <2>2. worker[w].token \in Nat /\ walk[worker[w].run].token \in Nat
        BY <1>1, Functions
  <2> QED BY <1>2, <2>1, <2>2 DEF Current
<1>4. ASSUME NEW x \in Workers, Current(x), worker[x].run = worker[w].run PROVE x = w
  <2>1. Busy(x) /\ worker[x].token = worker[w].token
        BY <1>3, <1>4 DEF Current, Busy, Started
  <2> QED BY <1>1, <1>4, <2>1 DEF TokenInv
<1> QED BY <1>1, <1>3, <1>4

(* Workers at the same current scan are the same. *)
LEMMA CurrentIsAlone ==
    ASSUME TokenInv, NEW w \in Workers, NEW x \in Workers, Current(w), Current(x),
           worker[x].run = worker[w].run
    PROVE  x = w
BY DEF TokenInv, Current, Busy, Started

-----------------------------------------------------------------------------
(* The scan *)

(* A complete scan has staged what its walk read, up to the last page.      *)
CompleteIsWalked ==
    \A r \in Runs : run[r].status \in Open /\ run[r].complete =>
      walk[r].ended /\ staged[r] = walk[r].read /\ run[r].version # 0

(* What the worker of the current scan knows of an open run. *)
WorkerKnows(w) ==
    LET k == worker[w]
        r == worker[w].run
    IN  /\ k.version = run[r].version /\ run[r].version # 0
        /\ k.pc # "done" => ~run[r].complete
        /\ k.pc \in {"guard", "read"} => staged[r] = walk[r].read
        /\ k.pc = "stage" => staged[r] \cup k.data = walk[r].read /\ (k.last <=> walk[r].ended)

(* A page read with a credential rotated away bars its run from publishing. *)
LateIsOld ==
    \A r \in Runs : /\ run[r].version <= version
                    /\ run[r].status \in Open /\ walk[r].late => run[r].version < version

ScanInv ==
    /\ CompleteIsWalked
    /\ \A w \in Workers : Current(w) /\ run[worker[w].run].status \in Open => WorkerKnows(w)
    /\ \A w \in Workers : Current(w) => run[worker[w].run].status # "succeeded"
    /\ LateIsOld

(* How most steps change what a scan depends on. *)
ScansAge ==
    /\ \A r \in Runs :
         /\ run'[r].status \in Open => run[r].status \in Open /\ staged'[r] = staged[r]
         /\ run'[r].status = "succeeded" => run[r].status = "succeeded"
         /\ run'[r].complete = run[r].complete /\ run'[r].version = run[r].version
         /\ walk'[r].token = walk[r].token /\ walk'[r].read = walk[r].read
         /\ walk'[r].ended = walk[r].ended /\ walk'[r].late = walk[r].late
    /\ version' >= version
    /\ \A w \in Workers : worker'[w].pc \in Started =>
         /\ worker[w].pc \in Started
         /\ worker'[w].run = worker[w].run /\ worker'[w].token = worker[w].token
         /\ worker'[w].version = worker[w].version
         /\ \/ worker'[w] = worker[w]
            \/ worker'[w].pc = "read" /\ worker[w].pc = "guard"

(* The initial state has no scan. *)
LEMMA ScansInit == Init => ScanInv
<1> SUFFICES ASSUME Init PROVE ScanInv
    OBVIOUS
<1>1. \A r \in Runs : run[r] = IF r = 1 THEN NewRun(Server) ELSE NoRun
      BY DEF Init
<1>2. \A r \in Runs : ~run[r].complete /\ run[r].version = 0
      BY <1>1, NewRows, NewRunRow, SyncAssumption
<1>3. \A w \in Workers : worker[w].pc = "idle"
      BY NewRows DEF Init
<1>4. \A w \in Workers : ~Current(w)
      BY <1>3 DEF Current, Started
<1>5. version = 1
      BY DEF Init
<1> QED BY <1>2, <1>4, <1>5 DEF ScanInv, CompleteIsWalked, LateIsOld

(* Steps that age the scans keep the invariant. *)
LEMMA ScansAgeKeeps == Types /\ ScanInv /\ ScansAge /\ Types' => ScanInv'
<1> SUFFICES ASSUME Types, ScanInv, ScansAge, Types' PROVE ScanInv'
    OBVIOUS
<1>a. \A w \in Workers : Current(w)' => Current(w) /\ worker[w].run \in Runs
      BY Functions DEF Current, ScansAge, Busy, Started
<1>b. version \in Int /\ version' \in Int /\ \A r \in Runs : run[r].version \in Int
      BY SyncAssumption DEF Types, TypeOK, RunRow
<1>1. CompleteIsWalked'
      BY DEF ScanInv, CompleteIsWalked, ScansAge
<1>2. ASSUME NEW w \in Workers, Current(w)', run'[worker'[w].run].status \in Open
      PROVE  WorkerKnows(w)'
  <2>1. /\ Current(w) /\ worker[w].run \in Runs /\ worker'[w].run = worker[w].run
        /\ worker'[w].version = worker[w].version
        BY <1>a, <1>2 DEF ScansAge, Current
  <2>2. /\ run[worker[w].run].status \in Open /\ staged'[worker[w].run] = staged[worker[w].run]
        /\ run'[worker[w].run].complete = run[worker[w].run].complete
        /\ run'[worker[w].run].version = run[worker[w].run].version
        /\ walk'[worker[w].run].read = walk[worker[w].run].read
        /\ walk'[worker[w].run].ended = walk[worker[w].run].ended
        BY <1>2, <2>1 DEF ScansAge
  <2>3. WorkerKnows(w)
        BY <2>1, <2>2 DEF ScanInv
  <2>4. \/ worker'[w] = worker[w]
        \/ worker'[w].pc = "read" /\ worker[w].pc = "guard"
        BY <1>2 DEF ScansAge, Current
  <2>5. CASE worker'[w] = worker[w]
        BY <2>1, <2>2, <2>3, <2>5 DEF WorkerKnows
  <2>6. CASE worker'[w].pc = "read" /\ worker[w].pc = "guard"
        BY <2>1, <2>2, <2>3, <2>6 DEF WorkerKnows
  <2> QED BY <2>4, <2>5, <2>6
<1>3. \A w \in Workers : Current(w)' => run'[worker'[w].run].status # "succeeded"
      BY <1>a DEF ScanInv, ScansAge, Current
<1>4. LateIsOld'
      BY <1>b DEF ScanInv, LateIsOld, ScansAge
<1> QED BY <1>1, <1>2, <1>3, <1>4 DEF ScanInv

(* The steps that accept, start, read, stage or publish. *)
Special ==
    \/ \E k \in Kinds, r \in Runs : Enqueue(k, r)
    \/ \E w \in Workers : StartScan(w) \/ ReadPage(w) \/ Stage(w) \/ Publish(w)

(* All other steps only age the scans, and publish nothing. *)
LEMMA ScansAgeElse ==
    ASSUME Types, [Next]_vars, ~Special
    PROVE  ScansAge /\ resource' = resource
<1>a. version \in Int
      BY SyncAssumption DEF Types, TypeOK
<1>1. CASE UNCHANGED <<run, staged, resource, version, worker, walk>>
      BY <1>1, <1>a DEF ScansAge
<1>2. ASSUME NEW w \in Workers, NEW r \in Runs, Claim(w, r)
      PROVE  ScansAge /\ resource' = resource
  <2>1. job[r].attempts + 1 \in 0..MaxAttempts
        BY <1>2, Functions, LeasedJobRow DEF Claim, Claimable
  <2>2. Claiming(r, job[r].attempts + 1).pc = "start"
        BY <2>1, ClaimingRow
  <2>3. /\ UNCHANGED <<run, staged, resource, version, walk>>
        /\ \A x \in Workers : x # w => worker'[x] = worker[x]
        /\ worker'[w].pc = "start"
        BY <1>2, <2>2, Functions DEF Claim
  <2> QED BY <2>3, <1>a DEF ScansAge, Started
<1>3. ASSUME NEW r \in Runs, LeaseExpires(r) \/ DeadlinePasses(r)
      PROVE  ScansAge /\ resource' = resource
      BY <1>1, <1>3 DEF LeaseExpires, DeadlinePasses
<1>4. ASSUME NEW r \in Runs, PruneStaging(r) PROVE ScansAge /\ resource' = resource
  <2>1. /\ UNCHANGED <<run, resource, version, worker, walk>>
        /\ \A s \in Runs : s # r => staged'[s] = staged[s]
        /\ run[r].status \in Ended
        BY <1>4, Functions DEF PruneStaging
  <2> QED BY <2>1, <1>a, Names DEF ScansAge
<1>5. CASE Disable
      BY <1>1, <1>5 DEF Disable
<1>6. CASE Restart \/ AuthorityChanges
      BY <1>1, <1>6 DEF Restart, AuthorityChanges
<1>7. CASE Rotate
      BY <1>7, <1>a DEF Rotate, ScansAge
<1>8. CASE Crash \/ \E w \in Workers : FinishFails(w)
  <2>1. /\ UNCHANGED <<run, staged, resource, version, walk>>
        /\ \A x \in Workers : worker'[x].pc = "idle"
        BY <1>8, NewRows DEF Crash, FinishFails
  <2> QED BY <2>1, <1>a DEF ScansAge, Started
<1>9. ASSUME NEW w \in Workers, Guard(w) PROVE ScansAge /\ resource' = resource
  <2>1. /\ At(worker[w], "read").pc = "read" /\ At(worker[w], "read").run = worker[w].run
        /\ At(worker[w], "read").token = worker[w].token
        /\ At(worker[w], "read").version = worker[w].version
        BY Functions, AtRow, Names
  <2>2. /\ UNCHANGED <<run, staged, resource, version, walk>>
        /\ \A x \in Workers : x # w => worker'[x] = worker[x]
        /\ worker'[w] = At(worker[w], "read") /\ worker[w].pc = "guard"
        BY <1>9, Functions DEF Guard
  <2> QED BY <2>1, <2>2, <1>a DEF ScansAge, Started
<1>10. ASSUME NEW w \in Workers, Abandon(w) \/ ScanFails(w) PROVE ScansAge /\ resource' = resource
  <2>1. At(worker[w], "failed").pc = "failed" /\ Idle.pc = "idle"
        BY Functions, AtRow, NewRows, Names
  <2>2. /\ UNCHANGED <<run, staged, resource, version, walk>>
        /\ \A x \in Workers : x # w => worker'[x] = worker[x]
        /\ worker'[w] \in {Idle, At(worker[w], "failed")}
        BY <1>10, Functions DEF Abandon, ScanFails
  <2> QED BY <2>1, <2>2, <1>a DEF ScansAge, Started
<1>11. ASSUME NEW w \in Workers, RecordFailure(w) PROVE ScansAge /\ resource' = resource
  <2>1. worker[w].run \in Runs /\ End(worker[w].run, "failed") /\ "failed" \in Ended
        BY <1>11, Functions, Names DEF RecordFailure, Busy
  <2>2. \A s \in Runs :
          /\ run'[s].complete = run[s].complete /\ run'[s].version = run[s].version
          /\ run'[s].status \in {run[s].status, "failed"}
          BY <2>1, EndedRows
  <2>3. /\ UNCHANGED <<staged, resource, version, walk>>
        /\ \A x \in Workers : x # w => worker'[x] = worker[x]
        /\ worker'[w].pc = "idle"
        BY <1>11, Functions, NewRows DEF RecordFailure
  <2> QED BY <2>2, <2>3, <1>a, Names DEF ScansAge, Started
<1>12. ASSUME NEW k \in Kinds, NEW n \in Natives, Appear(k, n) PROVE ScansAge /\ resource' = resource
       BY <1>1, <1>12 DEF Appear
<1>13. ASSUME NEW k \in Kinds, NEW n \in Natives, Vanish(k, n) PROVE ScansAge /\ resource' = resource
  <2>1. \A r \in Runs : /\ Missing(walk[r], n).token = walk[r].token
                        /\ Missing(walk[r], n).read = walk[r].read
                        /\ Missing(walk[r], n).ended = walk[r].ended
                        /\ Missing(walk[r], n).late = walk[r].late
        BY MissingRow, Functions
  <2>2. /\ UNCHANGED <<run, staged, resource, version, worker>>
        /\ \A r \in Runs : walk'[r] \in {walk[r], Missing(walk[r], n)}
        BY <1>13 DEF Vanish
  <2> QED BY <2>1, <2>2, <1>a DEF ScansAge
<1>14. CASE UNCHANGED vars
       BY <1>1, <1>14 DEF vars
<1> QED BY <1>2, <1>3, <1>4, <1>5, <1>6, <1>7, <1>8, <1>9, <1>10, <1>11, <1>12, <1>13, <1>14
        DEF Next, Work, Provider, Special

(* A refresh just accepted has no scan. *)
LEMMA ScansEnqueue ==
    ASSUME Types, TokenInv, ScanInv, NEW k \in Kinds, NEW r \in Runs, Enqueue(k, r)
    PROVE  ScanInv'
<1>1. /\ \A s \in Runs : run'[s] = IF s = r THEN NewRun(k) ELSE run[s]
      /\ UNCHANGED <<staged, version, worker, walk>> /\ run[r].status = "absent"
      BY Functions DEF Enqueue, EnqueueLocked
<1>2. ~NewRun(k).complete /\ NewRun(k).version = 0
      BY NewRunRow
<1>3. \A w \in Workers : Current(w)' => Current(w) /\ worker[w].run \in Runs /\ worker[w].run # r
      BY <1>1, Functions DEF Current, TokenInv, Busy, Started
<1>4. version \in Int /\ version > 0
      BY SyncAssumption DEF Types, TypeOK
<1>5. CompleteIsWalked'
      BY <1>1, <1>2 DEF ScanInv, CompleteIsWalked
<1>6. \A w \in Workers : Current(w)' => run'[worker[w].run] = run[worker[w].run]
      BY <1>1, <1>3
<1>7. ASSUME NEW w \in Workers, Current(w)', run'[worker'[w].run].status \in Open
      PROVE  WorkerKnows(w)'
  <2>1. WorkerKnows(w)
        BY <1>1, <1>3, <1>6, <1>7 DEF ScanInv
  <2> QED BY <1>1, <1>6, <1>7, <2>1 DEF WorkerKnows
<1>8. \A w \in Workers : Current(w)' => run'[worker'[w].run].status # "succeeded"
      BY <1>1, <1>3, <1>6 DEF ScanInv
<1>9. LateIsOld'
      BY <1>1, <1>2, <1>4 DEF ScanInv, LateIsOld
<1> QED BY <1>5, <1>7, <1>8, <1>9 DEF ScanInv

(* A scan starts with nothing staged, nothing read and the active version.  *)
LEMMA ScansStart ==
    ASSUME Types, TokenInv, ScanInv, NEW w \in Workers, StartScan(w)
    PROVE  ScanInv'
<1> DEFINE r == worker[w].run
           h == NewWalk(worker[w].token, Natives \ world[run[r].kind])
<1>1. Busy(w) /\ r \in Runs /\ version \in 0..MaxVersion /\ version # 0 /\ version \in Int
      BY Functions, SyncAssumption DEF StartScan, Busy, Types, TypeOK
<1>2. Bound(worker[w], version).pc = "guard" /\ Bound(worker[w], version).run = r
      /\ Bound(worker[w], version).token = worker[w].token
      /\ Bound(worker[w], version).version = version
      BY <1>1, Functions, BoundRow
<1>3. h.token = worker[w].token /\ h.read = {} /\ ~h.late
      BY DEF NewWalk
<1>4. StartedRun(run[r], version).status = "running" /\ ~StartedRun(run[r], version).complete
      /\ StartedRun(run[r], version).version = version
      BY <1>1, Functions, StartedRunRow
<1>5. /\ \A s \in Runs : walk'[s] = IF s = r THEN h ELSE walk[s]
      /\ \A s \in Runs : run'[s] = IF s = r THEN StartedRun(run[r], version) ELSE run[s]
      /\ \A s \in Runs : staged'[s] = IF s = r THEN {} ELSE staged[s]
      /\ \A x \in Workers : worker'[x] = IF x = w THEN Bound(worker[w], version) ELSE worker[x]
      /\ UNCHANGED version
      BY <1>1, Functions DEF StartScan
<1> HIDE DEF h
<1>6. ASSUME NEW x \in Workers, x # w, Current(x)'
      PROVE  Current(x) /\ worker[x].run \in Runs /\ worker[x].run # r
  <2>1. worker'[x] = worker[x] /\ worker[x].pc \in Started /\ Busy(x) /\ worker[x].run \in Runs
        BY <1>5, <1>6, Functions DEF Current, Started, Busy
  <2>2. worker[x].run # r
        BY <1>1, <1>3, <1>5, <1>6, <2>1 DEF Current, TokenInv
  <2> QED BY <1>5, <1>6, <2>1, <2>2 DEF Current
<1>7. CompleteIsWalked'
      BY <1>4, <1>5 DEF ScanInv, CompleteIsWalked
<1>8. ASSUME NEW x \in Workers, Current(x)', run'[worker'[x].run].status \in Open
      PROVE  WorkerKnows(x)'
  <2>1. CASE x = w
        BY <2>1, <1>1, <1>2, <1>3, <1>4, <1>5, SMTT(30) DEF WorkerKnows
  <2>2. CASE x # w
    <3>1. Current(x) /\ worker[x].run \in Runs /\ worker[x].run # r /\ worker'[x] = worker[x]
          BY <1>5, <1>6, <1>8, <2>2
    <3>2. /\ run'[worker[x].run] = run[worker[x].run] /\ walk'[worker[x].run] = walk[worker[x].run]
          /\ staged'[worker[x].run] = staged[worker[x].run]
          BY <1>5, <3>1
    <3>3. WorkerKnows(x)
          BY <1>8, <3>1, <3>2 DEF ScanInv
    <3> QED BY <3>1, <3>2, <3>3 DEF WorkerKnows
  <2> QED BY <2>1, <2>2
<1>9. ASSUME NEW x \in Workers, Current(x)' PROVE run'[worker'[x].run].status # "succeeded"
  <2>1. CASE x = w
        BY <2>1, <1>1, <1>2, <1>4, <1>5
  <2>2. CASE x # w
        BY <2>2, <1>5, <1>6, <1>9 DEF ScanInv
  <2> QED BY <2>1, <2>2
<1>10. LateIsOld'
       BY <1>1, <1>3, <1>4, <1>5 DEF ScanInv, LateIsOld
<1> QED BY <1>7, <1>8, <1>9, <1>10 DEF ScanInv

(* A page read belongs to the current scan or to none. *)
LEMMA ScansRead ==
    ASSUME Types, TokenInv, ScanInv, NEW w \in Workers, ReadPage(w)
    PROVE  ScanInv'
<1> DEFINE r == worker[w].run
           D == PageData(run[r].kind, worker[w].page)
           b == IsLastPage(run[r].kind, worker[w].page)
           c == worker[w].version # version
<1>1. worker[w].pc = "read" /\ r \in Runs /\ run[r].kind \in Kinds
      BY Functions DEF ReadPage, Busy
<1>2. D \in SUBSET Natives /\ b \in BOOLEAN /\ c \in BOOLEAN
      BY <1>1, PageIsListed DEF Types
<1>3. Holding(worker[w], D, b).pc = "stage" /\ Holding(worker[w], D, b).run = r
      /\ Holding(worker[w], D, b).token = worker[w].token
      /\ Holding(worker[w], D, b).version = worker[w].version
      /\ Holding(worker[w], D, b).data = D /\ Holding(worker[w], D, b).last = b
      BY <1>2, Functions, HoldingRow
<1>4. /\ UNCHANGED <<run, staged, version>>
      /\ \A x \in Workers : worker'[x] = IF x = w THEN Holding(worker[w], D, b) ELSE worker[x]
      /\ \A s \in Runs : walk'[s] = IF s = r /\ walk[r].token = worker[w].token
                                      THEN Walked(walk[r], D, b, c) ELSE walk[s]
      BY <1>1, Functions DEF ReadPage
<1>b. version \in Int /\ \A s \in Runs : run[s].version \in Int
      BY SyncAssumption DEF Types, TypeOK, RunRow
<1>5. CASE Current(w)
  <2>1. /\ Walked(walk[r], D, b, c).token = walk[r].token
        /\ Walked(walk[r], D, b, c).read = walk[r].read \cup D
        /\ Walked(walk[r], D, b, c).ended = b
    <3>1. walk[r] \in Walk
          BY <1>1, Functions
    <3> HIDE DEF D, b, c
    <3> QED BY <1>2, <3>1 DEF Walk, Walked
  <2>2. Walked(walk[r], D, b, c).late => walk[r].late \/ worker[w].version # version
    <3>1. walk[r] \in Walk
          BY <1>1, Functions
    <3> HIDE DEF D, b
    <3> QED BY <3>1 DEF Walk, Walked
  <2> HIDE DEF D, b, c
  <2>3. walk'[r] = Walked(walk[r], D, b, c) /\ \A s \in Runs : s # r => walk'[s] = walk[s]
        BY <1>1, <1>4, <1>5 DEF Current
  <2>4. run[r].status \in Open => WorkerKnows(w)
        BY <1>5 DEF ScanInv
  <2>5. ASSUME NEW x \in Workers, x # w, Current(x)'
        PROVE  Current(x) /\ worker[x].run \in Runs /\ worker[x].run # r /\ worker'[x] = worker[x]
    <3>1. worker'[x] = worker[x] /\ worker[x].pc \in Started /\ worker[x].run \in Runs
          BY <1>4, <2>5, Functions DEF Current, Started, Busy
    <3>2. Current(x)
          BY <2>1, <2>3, <2>5, <3>1 DEF Current
    <3> QED BY <1>5, <2>5, <3>1, <3>2, CurrentIsAlone
  <2>6. CompleteIsWalked'
    <3>1. run[r].status \in Open => ~run[r].complete
          BY <1>1, <2>4 DEF WorkerKnows
    <3> QED BY <1>4, <2>3, <3>1 DEF ScanInv, CompleteIsWalked
  <2>7. ASSUME NEW x \in Workers, Current(x)', run'[worker'[x].run].status \in Open
        PROVE  WorkerKnows(x)'
    <3>1. CASE x = w
      <4>1. /\ worker'[w] = Holding(worker[w], D, b) /\ run'[r] = run[r] /\ staged'[r] = staged[r]
            BY <1>4
      <4>2. WorkerKnows(w)
            BY <1>3, <2>4, <2>7, <3>1, <4>1
      <4> QED BY <1>1, <1>2, <1>3, <2>1, <2>3, <3>1, <4>1, <4>2 DEF WorkerKnows
    <3>2. CASE x # w
      <4>1. Current(x) /\ worker[x].run \in Runs /\ worker[x].run # r /\ worker'[x] = worker[x]
            BY <2>5, <2>7, <3>2
      <4>2. walk'[worker[x].run] = walk[worker[x].run]
            BY <2>3, <4>1
      <4>3. WorkerKnows(x)
            BY <1>4, <2>7, <4>1 DEF ScanInv
      <4> QED BY <1>4, <4>1, <4>2, <4>3 DEF WorkerKnows
    <3> QED BY <3>1, <3>2
  <2>8. ASSUME NEW x \in Workers, Current(x)' PROVE run'[worker'[x].run].status # "succeeded"
    <3>1. CASE x = w
          BY <3>1, <1>3, <1>4, <1>5 DEF ScanInv
    <3>2. CASE x # w
          BY <3>2, <1>4, <2>5, <2>8 DEF ScanInv
    <3> QED BY <3>1, <3>2
  <2>9. LateIsOld'
    <3>1. run[r].status \in Open => worker[w].version = run[r].version
          BY <2>4 DEF WorkerKnows
    <3>2. run[r].status \in Open /\ walk'[r].late => run[r].version < version
          BY <1>1, <1>b, <2>2, <2>3, <3>1 DEF ScanInv, LateIsOld
    <3> QED BY <1>4, <2>3, <3>2 DEF ScanInv, LateIsOld
  <2> QED BY <2>6, <2>7, <2>8, <2>9 DEF ScanInv
<1>6. CASE ~Current(w)
  <2> HIDE DEF D, b, c
  <2>1. UNCHANGED <<run, staged, version>> /\ \A s \in Runs : walk'[s] = walk[s]
        BY <1>1, <1>4, <1>6 DEF Current, Started
  <2>2. ASSUME NEW x \in Workers, Current(x)'
        PROVE  x # w /\ Current(x) /\ worker'[x] = worker[x] /\ worker[x].run \in Runs
    <3>1. x # w
          BY <1>1, <1>3, <1>4, <1>6, <2>1, <2>2 DEF Current, Started
    <3> QED BY <1>4, <2>1, <2>2, <3>1, Functions DEF Current, Started, Busy
  <2>3. CompleteIsWalked' /\ LateIsOld'
        BY <2>1 DEF ScanInv, CompleteIsWalked, LateIsOld
  <2>4. ASSUME NEW x \in Workers, Current(x)', run'[worker'[x].run].status \in Open
        PROVE  WorkerKnows(x)'
    <3>1. Current(x) /\ worker'[x] = worker[x] /\ worker[x].run \in Runs
          BY <2>2, <2>4
    <3>2. WorkerKnows(x)
          BY <2>1, <2>4, <3>1 DEF ScanInv
    <3> QED BY <2>1, <3>1, <3>2 DEF WorkerKnows
  <2>5. \A x \in Workers : Current(x)' => run'[worker'[x].run].status # "succeeded"
        BY <2>1, <2>2 DEF ScanInv
  <2> QED BY <2>3, <2>4, <2>5 DEF ScanInv
<1> QED BY <1>5, <1>6

(* A page is staged by the one worker of the current scan. *)
LEMMA ScansStage ==
    ASSUME Types, TokenInv, ScanInv, NEW w \in Workers, Stage(w)
    PROVE  ScanInv'
<1> DEFINE r == worker[w].run
           last == worker[w].last
<1>1. worker[w].pc = "stage" /\ worker[w].pc \in Started /\ HoldsLease(w)
      /\ run[r].status \in Open
      BY DEF Stage, ScanAuthority, Started
<1>2. r \in Runs /\ Current(w)
      /\ \A x \in Workers : Current(x) /\ worker[x].run = r => x = w
      BY <1>1, HolderIsCurrent
<1>3. last \in BOOLEAN
      BY Functions DEF WorkerState
<1>4. /\ PagedRun(run[r], last).status = run[r].status
      /\ PagedRun(run[r], last).complete = last
      /\ PagedRun(run[r], last).version = run[r].version
      BY <1>2, <1>3, Functions, PagedRunRow
<1>5. /\ \A s \in Runs : run'[s] = IF s = r THEN PagedRun(run[r], last) ELSE run[s]
      /\ \A s \in Runs : staged'[s] = IF s = r THEN staged[r] \cup worker[w].data ELSE staged[s]
      /\ \A x \in Workers : x # w => worker'[x] = worker[x]
      /\ UNCHANGED <<version, walk>>
      BY <1>2, Functions DEF Stage
<1>6. WorkerKnows(w)
      BY <1>1, <1>2 DEF ScanInv
<1>7. staged'[r] = walk[r].read /\ (last <=> walk[r].ended) /\ run[r].version # 0
      /\ worker[w].version = run[r].version
      BY <1>1, <1>2, <1>5, <1>6 DEF WorkerKnows
<1>8. /\ worker'[w].pc \in Started => /\ worker'[w].pc \in {"guard", "done"}
                                      /\ worker'[w].pc = "guard" => ~last
      /\ worker'[w].run = r /\ worker'[w].version = worker[w].version
  <2>1. /\ At(worker[w], "done").pc = "done" /\ At(worker[w], "done").run = r
        /\ At(worker[w], "done").version = worker[w].version
        /\ At(worker[w], "failed").pc = "failed" /\ At(worker[w], "failed").run = r
        /\ At(worker[w], "failed").version = worker[w].version
        BY Functions, AtRow, Names
  <2>2. worker[w].page # MaxPages =>
          /\ Turning(worker[w]).pc = "guard" /\ Turning(worker[w]).run = r
          /\ Turning(worker[w]).version = worker[w].version
        BY Functions, TurningRow
  <2>3. worker'[w] = IF last THEN At(worker[w], "done")
                     ELSE IF worker[w].page = MaxPages THEN At(worker[w], "failed")
                     ELSE Turning(worker[w])
        BY Functions DEF Stage
  <2> QED BY <2>1, <2>2, <2>3 DEF Started
<1> HIDE DEF last
<1>9. ASSUME NEW x \in Workers, x # w, Current(x)'
      PROVE  Current(x) /\ worker[x].run \in Runs /\ worker[x].run # r /\ worker'[x] = worker[x]
      BY <1>2, <1>5, <1>9, Functions DEF Current, Started, Busy
<1>10. CompleteIsWalked'
       BY <1>4, <1>5, <1>7 DEF ScanInv, CompleteIsWalked
<1>11. ASSUME NEW x \in Workers, Current(x)', run'[worker'[x].run].status \in Open
       PROVE  WorkerKnows(x)'
  <2>1. CASE x = w
    <3>1. worker'[w].pc \in {"guard", "done"} /\ (worker'[w].pc = "guard" => ~last)
          BY <1>8, <1>11, <2>1 DEF Current
    <3>2. run'[r].complete = last /\ run'[r].version = run[r].version
          BY <1>2, <1>4, <1>5
    <3> QED BY <2>1, <1>5, <1>7, <1>8, <3>1, <3>2 DEF WorkerKnows
  <2>2. CASE x # w
    <3>1. Current(x) /\ worker[x].run \in Runs /\ worker[x].run # r /\ worker'[x] = worker[x]
          BY <1>9, <1>11, <2>2
    <3>2. /\ run'[worker[x].run] = run[worker[x].run] /\ walk' = walk
          /\ staged'[worker[x].run] = staged[worker[x].run]
          BY <1>5, <3>1
    <3>3. WorkerKnows(x)
          BY <1>11, <3>1, <3>2 DEF ScanInv
    <3> QED BY <3>1, <3>2, <3>3 DEF WorkerKnows
  <2> QED BY <2>1, <2>2
<1>12. ASSUME NEW x \in Workers, Current(x)' PROVE run'[worker'[x].run].status # "succeeded"
  <2>1. CASE x = w
        BY <2>1, <1>1, <1>2, <1>4, <1>5, <1>8, Names
  <2>2. CASE x # w
        BY <2>2, <1>5, <1>9, <1>12 DEF ScanInv
  <2> QED BY <2>1, <2>2
<1>13. LateIsOld'
       BY <1>4, <1>5 DEF ScanInv, LateIsOld
<1> QED BY <1>10, <1>11, <1>12, <1>13 DEF ScanInv

(* What a publication starts from and leaves. *)
LEMMA PublishRows ==
    ASSUME Types, TokenInv, NEW w \in Workers, Publish(w)
    PROVE  LET r == worker[w].run
               state == IF Superseded(r) THEN "cancelled" ELSE "succeeded"
           IN  /\ r \in Runs /\ run[r].status \in Open /\ run[r].complete
               /\ run[r].version \in {0, version} /\ run[r].kind \in Kinds
               /\ \A x \in Workers : Current(x) /\ worker[x].run = r => x = w
               /\ \A s \in Runs :
                    /\ run'[s].kind = run[s].kind /\ run'[s].complete = run[s].complete
                    /\ run'[s].version = run[s].version
                    /\ run'[s].status = IF s = r THEN state ELSE run[s].status
               /\ \A x \in Workers : x # w => worker'[x] = worker[x]
               /\ worker'[w].pc = "idle"
               /\ UNCHANGED <<staged, version, walk>>
<1> DEFINE r == worker[w].run
           state == IF Superseded(r) THEN "cancelled" ELSE "succeeded"
<1>1. worker[w].pc \in Started /\ HoldsLease(w) /\ run[r].status \in Open /\ run[r].complete
      /\ run[r].version \in {0, version} /\ End(r, state)
      BY DEF Publish, ScanAuthority, Authority, Started
<1>2. r \in Runs /\ \A x \in Workers : Current(x) /\ worker[x].run = r => x = w
      BY <1>1, HolderIsCurrent
<1>3. state \in Ended
      BY Names
<1>4. run[r].kind \in Kinds
      BY <1>2, Functions
<1>5. /\ \A x \in Workers : x # w => worker'[x] = worker[x]
      /\ worker'[w].pc = "idle"
      /\ UNCHANGED <<staged, version, walk>>
      BY Functions, NewRows DEF Publish
<1> HIDE DEF state
<1>6. \A s \in Runs :
        /\ run'[s].kind = run[s].kind /\ run'[s].complete = run[s].complete
        /\ run'[s].version = run[s].version
        /\ run'[s].status = IF s = r THEN state ELSE run[s].status
      BY <1>1, <1>2, <1>3, EndedRows
<1> QED BY <1>1, <1>2, <1>4, <1>5, <1>6 DEF state

(* A publication ends its run, at which no other worker is current. *)
LEMMA ScansPublish ==
    ASSUME Types, TokenInv, ScanInv, NEW w \in Workers, Publish(w)
    PROVE  ScanInv'
<1> DEFINE r == worker[w].run
<1>1. /\ r \in Runs
      /\ \A x \in Workers : Current(x) /\ worker[x].run = r => x = w
      /\ \A s \in Runs :
           /\ run'[s].complete = run[s].complete /\ run'[s].version = run[s].version
           /\ s # r => run'[s].status = run[s].status
      /\ run'[r].status \notin Open
      /\ \A x \in Workers : x # w => worker'[x] = worker[x]
      /\ worker'[w].pc = "idle"
      /\ UNCHANGED <<staged, version, walk>>
      BY PublishRows, Names
<1>2. ASSUME NEW x \in Workers, Current(x)'
      PROVE  Current(x) /\ worker[x].run \in Runs /\ worker[x].run # r /\ worker'[x] = worker[x]
  <2>1. x # w
        BY <1>1, <1>2 DEF Current, Started
  <2> QED BY <1>1, <1>2, <2>1, Functions DEF Current, Started, Busy
<1>3. CompleteIsWalked' /\ LateIsOld'
      BY <1>1 DEF ScanInv, CompleteIsWalked, LateIsOld
<1>4. ASSUME NEW x \in Workers, Current(x)', run'[worker'[x].run].status \in Open
      PROVE  WorkerKnows(x)'
  <2>1. Current(x) /\ worker[x].run \in Runs /\ worker[x].run # r /\ worker'[x] = worker[x]
        BY <1>2, <1>4
  <2>2. WorkerKnows(x)
        BY <1>1, <1>4, <2>1 DEF ScanInv
  <2> QED BY <1>1, <2>1, <2>2 DEF WorkerKnows
<1>5. \A x \in Workers : Current(x)' => run'[worker'[x].run].status # "succeeded"
      BY <1>1, <1>2 DEF ScanInv
<1> QED BY <1>3, <1>4, <1>5 DEF ScanInv

(* Every step keeps what is known of the scans. *)
LEMMA ScansStep == Types /\ TokenInv /\ ScanInv /\ [Next]_vars => ScanInv'
<1> SUFFICES ASSUME Types, TokenInv, ScanInv, [Next]_vars PROVE ScanInv'
    OBVIOUS
<1>1. CASE Special
      BY <1>1, ScansEnqueue, ScansStart, ScansRead, ScansStage, ScansPublish DEF Special
<1>2. CASE ~Special
  <2>1. ScansAge
        BY <1>2, ScansAgeElse
  <2>2. Types'
        BY TypesStep
  <2> QED BY <2>1, <2>2, ScansAgeKeeps
<1> QED BY <1>1, <1>2

-----------------------------------------------------------------------------
(* Publication *)

(* Rows carry the number of a successful run of their kind. *)
RowsBelong ==
    \A k \in Kinds, n \in Natives, r \in Runs :
      resource[k][n].gen = r => run[r].kind = k /\ run[r].status = "succeeded"

PubInv == RowsBelong /\ ShownIsOneWalk /\ OneCredential

(* A step that publishes nothing leaves the rows, the successful runs and   *)
(* the history of their walks.                                              *)
Frozen ==
    /\ resource' = resource
    /\ \A r \in Runs :
         /\ run'[r].status = "succeeded" <=> run[r].status = "succeeded"
         /\ run[r].status = "succeeded" =>
              /\ run'[r].kind = run[r].kind /\ walk'[r].read = walk[r].read
              /\ walk'[r].ended = walk[r].ended /\ walk'[r].late = walk[r].late

(* Only Publish is not frozen. *)
LEMMA FrozenElse ==
    ASSUME Types, TokenInv, ScanInv, [Next]_vars, ~\E w \in Workers : Publish(w)
    PROVE  Frozen
<1>1. CASE ~Special
  <2>1. ScansAge /\ resource' = resource
        BY <1>1, ScansAgeElse
  <2>2. RunsAge
        BY <1>1, RunsAgeOrGrow DEF Special
  <2> QED BY <2>1, <2>2, Names DEF Frozen, ScansAge, RunsAge
<1>2. ASSUME NEW k \in Kinds, NEW r \in Runs, Enqueue(k, r) PROVE Frozen
  <2>1. /\ \A s \in Runs : run'[s] = IF s = r THEN NewRun(k) ELSE run[s]
        /\ UNCHANGED <<resource, walk>> /\ run[r].status = "absent"
        BY <1>2, Functions DEF Enqueue, EnqueueLocked
  <2>2. NewRun(k).status = "pending"
        BY NewRunRow
  <2> QED BY <2>1, <2>2 DEF Frozen
<1>3. ASSUME NEW w \in Workers, StartScan(w) \/ ReadPage(w) \/ Stage(w) PROVE Frozen
  <2> DEFINE r == worker[w].run
  <2>1. r \in Runs /\ resource' = resource
        BY <1>3, Functions DEF StartScan, ReadPage, Stage, Busy
  <2>2. \A s \in Runs : s # r => run'[s] = run[s] /\ walk'[s] = walk[s]
        BY <1>3, <2>1, Functions DEF StartScan, ReadPage, Stage
  <2>3. CASE StartScan(w)
    <3>1. run[r].status \in Open /\ version \in 0..MaxVersion
          BY <2>3, SyncAssumption DEF StartScan, ScanAuthority, Types, TypeOK
    <3>2. run'[r].status = "running"
          BY <2>1, <2>3, <3>1, Functions, StartedRunRow DEF StartScan
    <3> QED BY <2>1, <2>2, <3>1, <3>2, Names DEF Frozen
  <2>4. CASE ReadPage(w)
    <3>1. UNCHANGED run /\ (walk[r].token # worker[w].token => walk' = walk)
          BY <2>4 DEF ReadPage
    <3>2. walk[r].token = worker[w].token => run[r].status # "succeeded"
          BY <2>4 DEF ScanInv, Current, Started, ReadPage
    <3> QED BY <2>1, <2>2, <3>1, <3>2 DEF Frozen
  <2>5. CASE Stage(w)
    <3>1. run[r].status \in Open /\ worker[w].last \in BOOLEAN
          BY <2>5, Functions DEF Stage, ScanAuthority, WorkerState
    <3>2. run'[r].status = run[r].status
          BY <2>1, <2>5, <3>1, Functions, PagedRunRow DEF Stage
    <3> QED BY <2>1, <2>2, <3>1, <3>2, Names DEF Frozen
  <2> QED BY <1>3, <2>3, <2>4, <2>5
<1> QED BY <1>1, <1>2, <1>3 DEF Special

(* Nothing is shown at first. *)
LEMMA PubInit == Init => PubInv
<1> SUFFICES ASSUME Init PROVE PubInv
    OBVIOUS
<1>1. \A r \in Runs : run[r] = IF r = 1 THEN NewRun(Server) ELSE NoRun
      BY DEF Init
<1>2. \A r \in Runs : run[r].status # "succeeded"
      BY <1>1, NewRows, NewRunRow, SyncAssumption
<1>3. \A k \in Kinds, n \in Natives : resource[k][n].gen = 0 /\ ~resource[k][n].shown
      BY DEF Init
<1>4. RowsBelong
      BY <1>3 DEF RowsBelong, Runs
<1>5. \A k \in Kinds : Shown(k) = {}
      BY <1>3, SMTT(30) DEF Shown
<1> QED BY <1>2, <1>4, <1>5 DEF PubInv, ShownIsOneWalk, Newest, OneCredential

(* What a publication does to the rows of its kind: it is never superseded, *)
(* and shows what it staged.                                                *)
LEMMA PublishShows ==
    ASSUME Types, QueueInv, TokenInv, ScanInv, PubInv, NEW w \in Workers, Publish(w)
    PROVE  LET r == worker[w].run
               k == run[r].kind
           IN  /\ r \in Runs /\ k \in Kinds /\ run[r].status \in Open
               /\ \A s \in Runs : s > r /\ run[s].kind = k => run[s].status = "absent"
               /\ \A s \in Runs : /\ run'[s].kind = run[s].kind
                                  /\ run'[s].status = IF s = r THEN "succeeded" ELSE run[s].status
               /\ walk' = walk
               /\ walk[r].ended /\ ~walk[r].late
               /\ \A j \in Kinds : j # k => resource'[j] = resource[j]
               /\ \A n \in Natives : /\ resource'[k][n].shown <=> n \in walk[r].read
                                     /\ resource'[k][n].gen \in {r, resource[k][n].gen}
               /\ walk[r].read \subseteq Natives
<1> DEFINE r == worker[w].run
           k == run[r].kind
<1>1. /\ r \in Runs /\ k \in Kinds /\ run[r].status \in Open /\ run[r].complete
      /\ run[r].version \in {0, version}
      /\ \A s \in Runs : run'[s].kind = run[s].kind /\ (s # r => run'[s].status = run[s].status)
      /\ run'[r].status = IF Superseded(r) THEN "cancelled" ELSE "succeeded"
      /\ walk' = walk
      BY PublishRows
<1>2. \A s \in Runs : s > r /\ run[s].kind = k => run[s].status = "absent"
  <2>1. \A s \in Runs : s > r => r < s
        BY <1>1 DEF Runs
  <2> QED BY <1>1, <2>1 DEF QueueInv, OpenIsNewest
<1>3. ~Superseded(r)
      BY <1>2 DEF Superseded
<1>4. walk[r].ended /\ staged[r] = walk[r].read /\ run[r].version # 0
      BY <1>1 DEF ScanInv, CompleteIsWalked
<1>5. ~walk[r].late
  <2>1. version \in Int /\ run[r].version = version
        BY <1>1, <1>4, SyncAssumption DEF Types, TypeOK
  <2> QED BY <1>1, <2>1 DEF ScanInv, LateIsOld
<1>6. resource' = [resource EXCEPT ![k] = Published(resource[k], staged[r], r)]
      BY <1>3 DEF Publish
<1>7. resource \in [Kinds -> [Natives -> ResourceRow]]
      BY DEF Types, TypeOK
<1>8. \A n \in Natives : ~(resource[k][n].gen > r)
  <2> SUFFICES ASSUME NEW n \in Natives, resource[k][n].gen > r PROVE FALSE
      OBVIOUS
  <2>1. resource[k][n].gen \in Runs
        BY <1>1, <1>7, SyncAssumption, SMTT(30) DEF ResourceRow, Runs
  <2> QED BY <1>1, <1>2, <2>1 DEF PubInv, RowsBelong
<1>9. \A n \in Natives : resource'[k][n] = IF n \in staged[r] THEN [gen |-> r, shown |-> TRUE]
                                           ELSE [gen |-> resource[k][n].gen, shown |-> FALSE]
      BY <1>1, <1>6, <1>7, <1>8, ZenonT(40) DEF Published
<1>10. \A n \in Natives : /\ resource'[k][n].shown <=> n \in walk[r].read
                          /\ resource'[k][n].gen \in {r, resource[k][n].gen}
  <2> SUFFICES ASSUME NEW n \in Natives
               PROVE  /\ resource'[k][n].shown <=> n \in walk[r].read
                      /\ resource'[k][n].gen \in {r, resource[k][n].gen}
      OBVIOUS
  <2>1. CASE n \in staged[r]
    <3>1. resource'[k][n] = [gen |-> r, shown |-> TRUE]
          BY <1>9, <2>1
    <3> QED BY <1>4, <2>1, <3>1
  <2>2. CASE n \notin staged[r]
    <3>1. resource'[k][n] = [gen |-> resource[k][n].gen, shown |-> FALSE]
          BY <1>9, <2>2
    <3> QED BY <1>4, <2>2, <3>1
  <2> QED BY <2>1, <2>2, ZenonT(40)
<1>11. \A j \in Kinds : j # k => resource'[j] = resource[j]
       BY <1>6, <1>7
<1>12. walk[r].read \subseteq Natives
       BY <1>1, Functions DEF Walk
<1> QED BY <1>1, <1>2, <1>3, <1>4, <1>5, <1>10, <1>11, <1>12

(* Every step keeps what is shown one walk. *)
LEMMA PubStep == Types /\ QueueInv /\ TokenInv /\ ScanInv /\ PubInv /\ [Next]_vars => PubInv'
<1> SUFFICES ASSUME Types, QueueInv, TokenInv, ScanInv, PubInv, [Next]_vars PROVE PubInv'
    OBVIOUS
<1>1. CASE Frozen
  <2>1. RowsBelong'
        BY <1>1 DEF Frozen, PubInv, RowsBelong
  <2>2. OneCredential'
        BY <1>1 DEF Frozen, PubInv, OneCredential
  <2>3. \A k \in Kinds : Shown(k)' = Shown(k)
        BY <1>1 DEF Frozen, Shown
  <2>4. ASSUME NEW k \in Kinds, \A r \in Runs : run'[r].kind = k => run'[r].status # "succeeded"
        PROVE  Shown(k)' = {}
    <3>1. \A r \in Runs : run[r].kind = k => run[r].status # "succeeded"
          BY <1>1, <2>4 DEF Frozen
    <3> QED BY <2>3, <3>1 DEF PubInv, ShownIsOneWalk
  <2>5. ASSUME NEW k \in Kinds, NEW r \in Runs, Newest(r)', run'[r].kind = k
        PROVE  walk'[r].ended /\ Shown(k)' = walk'[r].read
    <3>1. run[r].status = "succeeded" /\ run[r].kind = k
          BY <1>1, <2>5 DEF Frozen, Newest
    <3>2. Newest(r)
          BY <1>1, <2>5, <3>1 DEF Frozen, Newest
    <3>3. walk[r].ended /\ Shown(k) = walk[r].read
          BY <3>1, <3>2 DEF PubInv, ShownIsOneWalk
    <3> QED BY <1>1, <2>3, <3>1, <3>3 DEF Frozen
  <2>6. ShownIsOneWalk'
        BY <2>4, <2>5 DEF ShownIsOneWalk
  <2> QED BY <2>1, <2>2, <2>6 DEF PubInv
<1>2. ASSUME NEW w \in Workers, Publish(w) PROVE PubInv'
  <2>1. PICK r \in Runs, k \in Kinds :
        /\ k = run[r].kind /\ run[r].status \in Open
        /\ \A s \in Runs : s > r /\ run[s].kind = k => run[s].status = "absent"
        /\ \A s \in Runs : /\ run'[s].kind = run[s].kind
                           /\ run'[s].status = IF s = r THEN "succeeded" ELSE run[s].status
        /\ walk' = walk
        /\ walk[r].ended /\ ~walk[r].late
        /\ \A j \in Kinds : j # k => resource'[j] = resource[j]
        /\ \A n \in Natives : /\ resource'[k][n].shown <=> n \in walk[r].read
                              /\ resource'[k][n].gen \in {r, resource[k][n].gen}
        /\ walk[r].read \subseteq Natives
        BY <1>2, PublishShows
  <2>2. RowsBelong'
    <3> SUFFICES ASSUME NEW j \in Kinds, NEW n \in Natives, NEW s \in Runs, resource'[j][n].gen = s
                 PROVE  run'[s].kind = j /\ run'[s].status = "succeeded"
        BY DEF RowsBelong
    <3>1. CASE j = k /\ s = r
          BY <3>1, <2>1
    <3>2. CASE ~(j = k /\ s = r)
      <4>1. resource[j][n].gen = s
            BY <3>2, <2>1
      <4> QED BY <2>1, <4>1 DEF PubInv, RowsBelong
    <3> QED BY <3>1, <3>2
  <2>3. OneCredential'
        BY <2>1 DEF PubInv, OneCredential
  <2>4. Shown(k)' = walk[r].read
        BY <2>1 DEF Shown
  <2>5. \A j \in Kinds : j # k => Shown(j)' = Shown(j)
        BY <2>1 DEF Shown
  <2>6. ASSUME NEW j \in Kinds, \A s \in Runs : run'[s].kind = j => run'[s].status # "succeeded"
        PROVE  Shown(j)' = {}
    <3>1. j # k
          BY <2>1, <2>6
    <3>2. \A s \in Runs : run[s].kind = j => run[s].status # "succeeded"
          BY <2>1, <2>6, <3>1
    <3> QED BY <2>5, <3>1, <3>2 DEF PubInv, ShownIsOneWalk
  <2>7. ASSUME NEW j \in Kinds, NEW s \in Runs, Newest(s)', run'[s].kind = j
        PROVE  walk'[s].ended /\ Shown(j)' = walk'[s].read
    <3>1. CASE j = k
      <4>1. ~(s > r)
            BY <2>1, <2>7, <3>1 DEF Newest, Runs
      <4>2. ~(r > s)
            BY <2>1, <2>7, <3>1 DEF Newest
      <4>3. s = r
            BY <2>1, <4>1, <4>2 DEF Runs
      <4> QED BY <2>1, <2>4, <3>1, <4>3
    <3>2. CASE j # k
      <4>1. s # r /\ run[s].kind = j
            BY <2>1, <2>7, <3>2
      <4>2. Newest(s)
        <5>1. run[s].status = "succeeded"
              BY <2>1, <2>7, <4>1 DEF Newest
        <5>2. ASSUME NEW t \in Runs, t > s, run[t].kind = run[s].kind
              PROVE  run[t].status # "succeeded"
          <6>1. t # r /\ run'[t].kind = run'[s].kind
                BY <2>1, <3>2, <4>1, <5>2
          <6> QED BY <2>1, <2>7, <5>2, <6>1 DEF Newest
        <5> QED BY <5>1, <5>2 DEF Newest
      <4>3. walk[s].ended /\ Shown(j) = walk[s].read
            BY <4>1, <4>2 DEF PubInv, ShownIsOneWalk
      <4> QED BY <2>1, <2>5, <3>2, <4>3
    <3> QED BY <3>1, <3>2
  <2>8. ShownIsOneWalk'
        BY <2>6, <2>7 DEF ShownIsOneWalk
  <2> QED BY <2>2, <2>3, <2>8, SMTT(30) DEF PubInv
<1> QED BY <1>1, <1>2, FrozenElse

SyncInv == Types /\ QueueInv /\ TokenInv /\ ScanInv /\ PubInv

(* The inductive invariant of inventory refresh. *)
THEOREM SyncInvariant == Spec => []SyncInv
<1>1. Init => SyncInv
      BY TypesInit, QueueInit, TokensInit, ScansInit, PubInit DEF SyncInv
<1>2. SyncInv /\ [Next]_vars => SyncInv'
      BY TypesStep, QueueStep, TokensStep, ScansStep, PubStep DEF SyncInv
<1> QED BY <1>1, <1>2, PTL DEF Spec

(* What is shown of a kind is what one walk, read to its last page by one   *)
(* lease of the newest successful run, met: no stale worker, restarted or   *)
(* older scan adds or hides anything (guard, stage, Complete).              *)
THEOREM InventoryIsOneWalk == Spec => []ShownIsOneWalk
<1>1. SyncInv => ShownIsOneWalk
      BY DEF SyncInv, PubInv
<1> QED BY <1>1, SyncInvariant, PTL

(* No page of a published scan was read with a credential rotated away by   *)
(* then (scanAuthority before and after each request).                      *)
THEOREM InventoryHasOneCredential == Spec => []OneCredential
<1>1. SyncInv => OneCredential
      BY DEF SyncInv, PubInv
<1> QED BY <1>1, SyncInvariant, PTL

-----------------------------------------------------------------------------
(* Refinement *)

Done(k) == {r \in Runs : run[r].kind = k /\ run[r].status = "succeeded"}

Latest(S) == IF S = {} THEN 0 ELSE CHOOSE r \in S : \A s \in S : s <= r

(* Some successful run of a kind is the newest, if there is any. *)
HasLatest ==
    \A k \in Kinds : Done(k) = {} \/ \E r \in Done(k) : \A s \in Done(k) : s <= r

(* The newest member of a set of runs is unique. *)
LEMMA LatestIs ==
    ASSUME NEW S \in SUBSET Runs, NEW r \in S, \A s \in S : s <= r
    PROVE  Latest(S) = r
<1>1. \E x \in S : \A s \in S : s <= x
      OBVIOUS
<1>2. Latest(S) \in S /\ \A s \in S : s <= Latest(S)
      BY <1>1 DEF Latest
<1>3. Latest(S) <= r /\ r <= Latest(S)
      BY <1>2
<1>4. Latest(S) \in Int /\ r \in Int
  <2>1. Runs \subseteq Int
        BY DEF Runs
  <2>2. Latest(S) \in Runs /\ r \in Runs
        BY <1>2
  <2> QED BY <2>1, <2>2
<1>5. ASSUME NEW x \in Int, NEW y \in Int, x <= y, y <= x
      PROVE  x = y
      BY <1>5
<1> QED BY <1>3, <1>4, <1>5

(* A step that freezes the inventory does not change what readers see. *)
LEMMA FrozenIsStutter ==
    ASSUME Frozen
    PROVE  UNCHANGED Promise!vars /\ \A k \in Kinds : Done(k)' = Done(k)
<1>1. \A k \in Kinds : Done(k)' = Done(k)
      BY DEF Frozen, Done
<1>2. \A k \in Kinds : AsOf(k) = Latest(Done(k)) /\ AsOf(k)' = Latest(Done(k)')
      BY DEF AsOf, Latest, Done
<1>3. \A k \in Kinds : AsOf(k)' = AsOf(k)
      BY <1>1, <1>2
<1>4. \A k \in Kinds : Shown(k)' = Shown(k)
      BY DEF Frozen, Shown
<1> QED BY <1>1, <1>3, <1>4 DEF Promise!vars

(* A publication replaces one kind by a newer refresh. *)
LEMMA PublishReplaces ==
    ASSUME SyncInv, HasLatest, NEW w \in Workers, Publish(w)
    PROVE  Promise!Next /\ HasLatest'
<1>1. PICK r \in Runs, k \in Kinds :
      /\ k = run[r].kind /\ run[r].status \in Open
      /\ \A s \in Runs : s > r /\ run[s].kind = k => run[s].status = "absent"
      /\ \A s \in Runs : /\ run'[s].kind = run[s].kind
                         /\ run'[s].status = IF s = r THEN "succeeded" ELSE run[s].status
      /\ \A j \in Kinds : j # k => resource'[j] = resource[j]
      BY PublishShows DEF SyncInv
<1>2. \A j \in Kinds : AsOf(j) = Latest(Done(j)) /\ AsOf(j)' = Latest(Done(j)')
      BY DEF AsOf, Latest, Done
<1>3. Done(k)' = Done(k) \cup {r}
      BY <1>1 DEF Done
<1>4. \A s \in Done(k) : s < r
  <2> SUFFICES ASSUME NEW s \in Done(k) PROVE s < r
      OBVIOUS
  <2>1. s \in Runs /\ s # r /\ ~(s > r)
        BY <1>1, Names DEF Done
  <2> QED BY <2>1 DEF Runs
<1>5. AsOf(k)' = r
  <2>1. Done(k)' \in SUBSET Runs /\ r \in Done(k)' /\ \A s \in Done(k)' : s <= r
        BY <1>3, <1>4 DEF Done, Runs
  <2> QED BY <1>2, <2>1, LatestIs
<1>6. r > AsOf(k)
  <2>1. CASE Done(k) = {}
        BY <1>2, <2>1 DEF Latest, Runs
  <2>2. CASE Done(k) # {}
    <3>1. PICK q \in Done(k) : \A s \in Done(k) : s <= q
          BY <2>2 DEF HasLatest
    <3>2. Done(k) \in SUBSET Runs
          BY DEF Done
    <3>3. AsOf(k) = q
          BY <1>2, <3>1, <3>2, LatestIs
    <3> QED BY <1>4, <3>1, <3>2, <3>3 DEF Runs
  <2> QED BY <2>1, <2>2
<1>7. \A j \in Kinds : j # k => Done(j)' = Done(j)
      BY <1>1 DEF Done
<1>8. \A j \in Kinds : j # k => AsOf(j)' = AsOf(j) /\ Shown(j)' = Shown(j)
      BY <1>1, <1>2, <1>7 DEF Shown
<1>9. Promise!Replace(k)
  <2>1. [j \in Kinds |-> AsOf(j)]' = [[j \in Kinds |-> AsOf(j)] EXCEPT ![k] = AsOf(k)']
        BY <1>8
  <2>2. [j \in Kinds |-> Shown(j)]' = [[j \in Kinds |-> Shown(j)] EXCEPT ![k] = Shown(k)']
        BY <1>8
  <2>3. Shown(k)' \subseteq Natives
        BY DEF Shown
  <2> QED BY <1>5, <1>6, <2>1, <2>2, <2>3 DEF Promise!Replace
<1>10. HasLatest'
  <2>1. \A s \in Done(k)' : s <= r
        BY <1>3, <1>4 DEF Done, Runs
  <2> QED BY <1>3, <1>7, <2>1 DEF HasLatest
<1> QED BY <1>9, <1>10, SMTT(30) DEF Promise!Next

(* Every step maps to a replacement of one kind or to none. *)
LEMMA PromiseStep ==
    SyncInv /\ HasLatest /\ [Next]_vars => [Promise!Next]_Promise!vars /\ HasLatest'
<1> SUFFICES ASSUME SyncInv, HasLatest, [Next]_vars
             PROVE  [Promise!Next]_Promise!vars /\ HasLatest'
    OBVIOUS
<1>1. CASE \E w \in Workers : Publish(w)
      BY <1>1, PublishReplaces
<1>2. CASE ~\E w \in Workers : Publish(w)
  <2>1. Frozen
        BY <1>2, FrozenElse DEF SyncInv
  <2> QED BY <2>1, FrozenIsStutter DEF HasLatest
<1> QED BY <1>1, <1>2

(* What is shown of a kind is replaced as a whole, one kind at a time, and  *)
(* only by a newer refresh (Complete).                                      *)
THEOREM InventoryPromiseIsKept == Spec => KeepsInventoryPromise
<1>1. Init => Promise!Init /\ HasLatest
  <2> SUFFICES ASSUME Init PROVE Promise!Init /\ HasLatest
      OBVIOUS
  <2>1. \A r \in Runs : run[r] = IF r = 1 THEN NewRun(Server) ELSE NoRun
        BY DEF Init
  <2>2. \A r \in Runs : run[r].status # "succeeded"
        BY <2>1, NewRows, NewRunRow, SyncAssumption
  <2>3. \A k \in Kinds : Done(k) = {}
        BY <2>2 DEF Done
  <2>4. \A k \in Kinds : AsOf(k) = 0
        BY <2>3 DEF AsOf, Done
  <2>5. \A k \in Kinds : Shown(k) = {}
        BY DEF Init, Shown
  <2> QED BY <2>3, <2>4, <2>5 DEF Promise!Init, HasLatest
<1> QED BY <1>1, PromiseStep, SyncInvariant, PTL DEF Spec, KeepsInventoryPromise, Promise!Spec

-----------------------------------------------------------------------------
(* Why a resource is tombstoned.  A resource that the provider listed       *)
(* throughout a scan during which it dropped nothing is steady; later       *)
(* resources can only push it to a later page.  So the walk, which reads    *)
(* the pages in order, has read a steady resource already or still has it   *)
(* ahead (Ahead), and has read all of them when it meets the last page.     *)

Steady(r) == {n \in Natives \ walk[r].absent : ~walk[r].shrunk}

(* The pages that the walk has behind it. *)
Turned(w) == IF worker[w].pc = "stage" THEN worker[w].page ELSE worker[w].page - 1

Ahead(w) ==
    \A n \in Steady(worker[w].run) \ walk[worker[w].run].read :
      Position(run[worker[w].run].kind, n) >= Turned(w) * PageSize

CoverInv ==
    /\ \A r \in Runs :
         /\ run[r].status = "pending" => ~run[r].complete
         /\ run[r].status = "running" => Steady(r) \subseteq world[run[r].kind]
         /\ run[r].status = "running" /\ walk[r].ended => Steady(r) \subseteq walk[r].read
    /\ \A w \in Workers : worker[w].pc = "start" => worker[w].page = 1
    /\ \A w \in Workers : Current(w) =>
         /\ run[worker[w].run].status # "pending"
         /\ run[worker[w].run].status = "running" /\ worker[w].pc # "done" => Ahead(w)

(* A position between two pages is on the first of them. *)
LEMMA OnPage ==
    ASSUME NEW a \in Nat, NEW d \in Nat \ {0}, NEW q \in Nat, a >= q * d, a \div d # q
    PROVE  a >= (q + 1) * d
<1>1. /\ a = d * (a \div d) + (a % d) /\ a % d >= 0 /\ a % d < d
      /\ a \div d \in Int /\ a % d \in Int
      BY SMT
<1> QED BY <1>1, SMT

(* Positions are numbers below the length of the list, and grow with it. *)
LEMMA Positions ==
    ASSUME NEW A \in SUBSET Natives, NEW B \in SUBSET Natives, A \subseteq B, NEW n \in Natives
    PROVE  /\ Cardinality({m \in A : m < n}) \in Nat
           /\ Cardinality({m \in A : m < n}) <= Cardinality({m \in B : m < n})
           /\ n \in A => Cardinality({m \in A : m < n}) < Cardinality(A)
<1> DEFINE S == {m \in A : m < n}
           T == {m \in B : m < n}
<1>1. IsFiniteSet(A) /\ IsFiniteSet(B)
      BY FS_Subset, SyncAssumption
<1>2. S \in SUBSET T /\ T \in SUBSET B /\ S \in SUBSET A
      OBVIOUS
<1>3. IsFiniteSet(T) /\ IsFiniteSet(S)
      BY <1>1, <1>2, FS_Subset
<1>4. n \in A => S # A
      BY SyncAssumption
<1> HIDE DEF S, T
<1>5. Cardinality(S) \in Nat /\ Cardinality(A) \in Nat
      BY <1>1, <1>3, FS_CardinalityType
<1>6. Cardinality(S) <= Cardinality(T)
      BY <1>2, <1>3, FS_Subset
<1>7. Cardinality(S) <= Cardinality(A) /\ (Cardinality(A) = Cardinality(S) => A = S)
      BY <1>1, <1>2, FS_Subset
<1>8. n \in A => Cardinality(S) < Cardinality(A)
      BY <1>4, <1>5, <1>7
<1> QED BY <1>5, <1>6, <1>8 DEF S, T

(* How a step that neither starts, reads nor stages changes what a walk has *)
(* ahead of it: running scans keep their history, unless the provider drops *)
(* something, and the list of their kind only grows.                        *)
CoversAge ==
    /\ \A r \in Runs :
         /\ run'[r].status = "pending" /\ run'[r].complete =>
              run[r].status = "pending" /\ run[r].complete
         /\ run'[r].status = "running" =>
              /\ run[r].status = "running" /\ run'[r].kind = run[r].kind
              /\ \/ walk'[r].shrunk
                 \/ walk'[r] = walk[r] /\ world[run[r].kind] \subseteq world'[run[r].kind]
    /\ \A w \in Workers :
         /\ worker'[w].pc = "start" =>
              worker'[w].page = 1 \/ (worker[w].pc = "start" /\ worker'[w].page = worker[w].page)
         /\ Current(w)' =>
              /\ Current(w) /\ worker'[w].run = worker[w].run /\ worker'[w].page = worker[w].page
              /\ worker'[w].pc = worker[w].pc \/ (worker[w].pc = "guard" /\ worker'[w].pc = "read")
              /\ run'[worker[w].run].status = "pending" => run[worker[w].run].status = "pending"

(* Such a step keeps the invariant. *)
LEMMA CoversAgeKeeps == Types /\ CoverInv /\ CoversAge /\ Types' => CoverInv'
<1> SUFFICES ASSUME Types, CoverInv, CoversAge, Types' PROVE CoverInv'
    OBVIOUS
<1>1. ASSUME NEW r \in Runs
      PROVE  /\ run'[r].status = "pending" => ~run'[r].complete
             /\ run'[r].status = "running" => Steady(r)' \subseteq world'[run'[r].kind]
             /\ run'[r].status = "running" /\ walk'[r].ended => Steady(r)' \subseteq walk'[r].read
  <2>1. run'[r].status = "pending" => ~run'[r].complete
        BY DEF CoverInv, CoversAge
  <2>2. CASE walk'[r].shrunk
    <3>1. Steady(r)' = {}
          BY <2>2 DEF Steady
    <3> QED BY <2>1, <3>1
  <2>3. CASE ~walk'[r].shrunk /\ run'[r].status = "running"
    <3>1. /\ run[r].status = "running" /\ run'[r].kind = run[r].kind /\ walk'[r] = walk[r]
          /\ world[run[r].kind] \subseteq world'[run[r].kind]
          BY <2>3 DEF CoversAge
    <3>2. Steady(r)' = Steady(r)
          BY <3>1 DEF Steady
    <3>3. /\ Steady(r) \subseteq world[run[r].kind]
          /\ walk[r].ended => Steady(r) \subseteq walk[r].read
          BY <3>1 DEF CoverInv
    <3> QED BY <2>1, <3>1, <3>2, <3>3
  <2> QED BY <2>1, <2>2, <2>3
<1>2. ASSUME NEW w \in Workers, worker'[w].pc = "start" PROVE worker'[w].page = 1
      BY <1>2 DEF CoverInv, CoversAge
<1>3. ASSUME NEW w \in Workers, Current(w)'
      PROVE  /\ run'[worker'[w].run].status # "pending"
             /\ run'[worker'[w].run].status = "running" /\ worker'[w].pc # "done" => Ahead(w)'
  <2> DEFINE r == worker[w].run
  <2>1. /\ Current(w) /\ worker'[w].run = r /\ worker'[w].page = worker[w].page
        /\ worker'[w].pc = worker[w].pc \/ (worker[w].pc = "guard" /\ worker'[w].pc = "read")
        /\ run'[r].status = "pending" => run[r].status = "pending"
        BY <1>3 DEF CoversAge
  <2>2. r \in Runs
        BY <2>1, Functions DEF Current, Started, Busy
  <2>3. run'[r].status # "pending"
        BY <2>1 DEF CoverInv
  <2>4. ASSUME run'[r].status = "running", worker'[w].pc # "done" PROVE Ahead(w)'
    <3>1. run[r].status = "running" /\ run'[r].kind = run[r].kind /\ run[r].kind \in Kinds
          BY <2>2, <2>4, Functions DEF CoversAge
    <3>2. CASE walk'[r].shrunk
      <4>1. Steady(r)' = {}
            BY <2>1, <3>2 DEF Steady
      <4> QED BY <2>1, <4>1 DEF Ahead
    <3>3. CASE ~walk'[r].shrunk
      <4>1. walk'[r] = walk[r] /\ world[run[r].kind] \subseteq world'[run[r].kind]
            BY <2>2, <2>4, <3>3 DEF CoversAge
      <4>2. Steady(r)' = Steady(r) /\ Turned(w)' = Turned(w)
            BY <2>1, <4>1 DEF Steady, Turned
      <4>3. Ahead(w)
            BY <2>1, <2>4, <3>1 DEF CoverInv
      <4>4. ASSUME NEW n \in Steady(r) \ walk[r].read
            PROVE  Position(run[r].kind, n)' >= Turned(w) * PageSize
        <5>1. Position(run[r].kind, n) >= Turned(w) * PageSize
              BY <4>3, <4>4 DEF Ahead
        <5>2. n \in Natives /\ world[run[r].kind] \in SUBSET Natives /\ world'[run[r].kind] \in SUBSET Natives
              BY <3>1, <4>4 DEF Steady, Types, TypeOK
        <5>3. /\ Position(run[r].kind, n) = Cardinality({m \in world[run[r].kind] : m < n})
              /\ Position(run[r].kind, n)' = Cardinality({m \in world'[run[r].kind] : m < n})
              BY <2>1, <3>1 DEF Position
        <5>4. /\ Position(run[r].kind, n) \in Nat /\ Position(run[r].kind, n)' \in Nat
              /\ Position(run[r].kind, n) <= Position(run[r].kind, n)'
              BY <4>1, <5>2, <5>3, Positions
        <5>5. Turned(w) * PageSize \in Int
          <6>1. worker[w].page \in Int /\ PageSize \in Int
                BY Functions, SyncAssumption DEF WorkerState
          <6>2. Turned(w) \in Int
                BY <6>1 DEF Turned
          <6> QED BY <6>1, <6>2
        <5> HIDE DEF r
        <5> QED BY <5>1, <5>4, <5>5
      <4>5. \A n \in Steady(r)' \ walk'[r].read : Position(run[r].kind, n)' >= Turned(w)' * PageSize
            BY <4>1, <4>2, <4>4
      <4> QED BY <2>1, <3>1, <4>5 DEF Ahead
    <3> QED BY <3>2, <3>3
  <2> QED BY <2>1, <2>3, <2>4
<1> QED BY <1>1, <1>2, <1>3 DEF CoverInv

(* Every step that neither starts a scan, reads nor stages a page ages what *)
(* the walks cover.                                                         *)
LEMMA CoversAgeElse ==
    ASSUME Types, TokenInv, [Next]_vars,
           ~\E w \in Workers : StartScan(w) \/ ReadPage(w) \/ Stage(w)
    PROVE  CoversAge
<1>a. \A w \in Workers : Current(w) => worker[w].run \in Runs
      BY Functions DEF Current, Started, Busy
<1>1. ASSUME UNCHANGED <<run, walk, worker>>, \A k \in Kinds : world[k] \subseteq world'[k]
      PROVE  CoversAge
      BY <1>1, Functions DEF CoversAge, Current
<1>2. ASSUME UNCHANGED <<run, walk, world>>, NEW w \in Workers,
             \A x \in Workers : x # w => worker'[x] = worker[x],
             \/ worker'[w].pc \in {"idle", "failed"}
             \/ worker'[w].pc = "start" /\ worker'[w].page = 1
      PROVE  CoversAge
  <2>1. ASSUME NEW x \in Workers, Current(x)' PROVE x # w /\ worker'[x] = worker[x] /\ Current(x)
        BY <1>2, <2>1 DEF Current, Started
  <2> QED BY <1>2, <2>1 DEF CoversAge
<1>3. ASSUME UNCHANGED <<run, walk, world>>, \A x \in Workers : worker'[x].pc = "idle"
      PROVE  CoversAge
      BY <1>3 DEF CoversAge, Current, Started
<1>4. ASSUME NEW w \in Workers, NEW r \in Runs, UNCHANGED <<walk, world>>, run[r].status \in Open,
             \A x \in Workers : x # w => worker'[x] = worker[x], worker'[w].pc = "idle",
             \A s \in Runs : /\ run'[s].kind = run[s].kind /\ run'[s].complete = run[s].complete
                             /\ s # r => run'[s].status = run[s].status,
             run'[r].status \in Ended
      PROVE  CoversAge
  <2>1. ASSUME NEW x \in Workers, Current(x)' PROVE x # w /\ worker'[x] = worker[x] /\ Current(x)
        BY <1>4, <2>1 DEF Current, Started
  <2>2. run'[r].status # "pending" /\ run'[r].status # "running"
        BY <1>4 DEF Ended
  <2>3. ASSUME NEW s \in Runs
        PROVE  /\ run'[s].status \in {"pending", "running"} => s # r /\ run'[s].status = run[s].status
               /\ run'[s].kind = run[s].kind /\ run'[s].complete = run[s].complete
        BY <1>4, <2>2
  <2>4. \A x \in Workers : Current(x)' =>
          (run'[worker[x].run].status = "pending" => run[worker[x].run].status = "pending")
        BY <1>a, <2>1, <2>3
  <2> QED BY <1>4, <2>1, <2>3, <2>4 DEF CoversAge
<1>5. ASSUME NEW k \in Kinds, NEW r \in Runs, Enqueue(k, r) PROVE CoversAge
  <2>1. /\ \A s \in Runs : run'[s] = IF s = r THEN NewRun(k) ELSE run[s]
        /\ UNCHANGED <<worker, walk, world>> /\ run[r].status = "absent"
        BY <1>5, Functions DEF Enqueue, EnqueueLocked
  <2>2. ~NewRun(k).complete /\ NewRun(k).status = "pending"
        BY NewRunRow
  <2>3. \A w \in Workers : Current(w)' => Current(w) /\ worker[w].run \in Runs /\ worker[w].run # r
        BY <2>1, Functions DEF Current, TokenInv, Busy, Started
  <2> QED BY <2>1, <2>2, <2>3 DEF CoversAge
<1>6. ASSUME NEW w \in Workers, NEW r \in Runs, Claim(w, r) PROVE CoversAge
  <2>1. job[r].attempts + 1 \in 0..MaxAttempts
        BY <1>6, Functions, LeasedJobRow DEF Claim, Claimable
  <2>2. Claiming(r, job[r].attempts + 1).pc = "start" /\ Claiming(r, job[r].attempts + 1).page = 1
        BY DEF Claiming, Idle
  <2>3. /\ UNCHANGED <<run, walk, world>>
        /\ \A x \in Workers : x # w => worker'[x] = worker[x]
        /\ worker'[w].pc = "start" /\ worker'[w].page = 1
        BY <1>6, <2>2, Functions DEF Claim
  <2> QED BY <1>2, <2>3
<1>7. CASE \/ \E r \in Runs : LeaseExpires(r) \/ DeadlinePasses(r) \/ PruneStaging(r)
           \/ Restart \/ AuthorityChanges \/ Rotate \/ Disable
      BY <1>1, <1>7 DEF LeaseExpires, DeadlinePasses, PruneStaging, Restart, AuthorityChanges,
         Rotate, Disable
<1>8. CASE Crash \/ \E w \in Workers : FinishFails(w)
      BY <1>3, <1>8, NewRows DEF Crash, FinishFails
<1>9. ASSUME NEW w \in Workers, Guard(w) PROVE CoversAge
  <2>1. /\ At(worker[w], "read").pc = "read" /\ At(worker[w], "read").run = worker[w].run
        /\ At(worker[w], "read").token = worker[w].token
        BY Functions, AtRow, Names
  <2>2. At(worker[w], "read").page = worker[w].page
        BY Functions DEF At, WorkerState
  <2>3. /\ UNCHANGED <<run, walk, world>>
        /\ \A x \in Workers : x # w => worker'[x] = worker[x]
        /\ worker'[w] = At(worker[w], "read") /\ worker[w].pc = "guard"
        BY <1>9, Functions DEF Guard
  <2>4. \A x \in Workers : Current(x)' =>
          /\ Current(x) /\ worker'[x].run = worker[x].run /\ worker'[x].page = worker[x].page
          /\ worker'[x].pc = worker[x].pc \/ (worker[x].pc = "guard" /\ worker'[x].pc = "read")
        BY <2>1, <2>2, <2>3 DEF Current, Started
  <2> QED BY <2>1, <2>3, <2>4 DEF CoversAge
<1>10. ASSUME NEW w \in Workers, Abandon(w) \/ ScanFails(w) PROVE CoversAge
  <2>1. At(worker[w], "failed").pc = "failed" /\ Idle.pc = "idle"
        BY Functions, AtRow, NewRows, Names
  <2>2. /\ UNCHANGED <<run, walk, world>>
        /\ \A x \in Workers : x # w => worker'[x] = worker[x]
        /\ worker'[w] \in {Idle, At(worker[w], "failed")}
        BY <1>10, Functions DEF Abandon, ScanFails
  <2> QED BY <1>2, <2>1, <2>2
<1>11. ASSUME NEW w \in Workers, RecordFailure(w) PROVE CoversAge
  <2> DEFINE r == worker[w].run
  <2>1. r \in Runs /\ End(r, "failed") /\ "failed" \in Ended /\ run[r].status \in Open
        BY <1>11, Functions, Names DEF RecordFailure, Busy
  <2>2. /\ \A s \in Runs : /\ run'[s].kind = run[s].kind /\ run'[s].complete = run[s].complete
                           /\ s # r => run'[s].status = run[s].status
        /\ run'[r].status = "failed"
        BY <2>1, EndedRows
  <2>3. /\ UNCHANGED <<walk, world>>
        /\ \A x \in Workers : x # w => worker'[x] = worker[x]
        /\ worker'[w].pc = "idle"
        BY <1>11, Functions, NewRows DEF RecordFailure
  <2> HIDE DEF r
  <2> QED BY <1>4, <2>1, <2>2, <2>3
<1>12. ASSUME NEW w \in Workers, Publish(w) PROVE CoversAge
  <2> DEFINE r == worker[w].run
  <2>1. /\ r \in Runs /\ run[r].status \in Open
        /\ \A s \in Runs : /\ run'[s].kind = run[s].kind /\ run'[s].complete = run[s].complete
                           /\ s # r => run'[s].status = run[s].status
        /\ run'[r].status \in Ended
        /\ \A x \in Workers : x # w => worker'[x] = worker[x]
        /\ worker'[w].pc = "idle" /\ walk' = walk
        BY <1>12, PublishRows, Names
  <2>2. UNCHANGED world
        BY <1>12 DEF Publish
  <2> HIDE DEF r
  <2> QED BY <1>4, <2>1, <2>2
<1>13. ASSUME NEW k \in Kinds, NEW n \in Natives, Appear(k, n) PROVE CoversAge
  <2>1. /\ UNCHANGED <<run, walk, worker>>
        /\ \A j \in Kinds : world[j] \subseteq world'[j]
        BY <1>13 DEF Appear, Types, TypeOK
  <2> QED BY <1>1, <2>1
<1>14. ASSUME NEW k \in Kinds, NEW n \in Natives, Vanish(k, n) PROVE CoversAge
  <2>1. /\ UNCHANGED <<run, worker>>
        /\ \A r \in Runs : walk'[r] = IF run[r].kind = k /\ run[r].status = "running"
                                        THEN Missing(walk[r], n) ELSE walk[r]
        /\ \A j \in Kinds : j # k => world'[j] = world[j]
        BY <1>14 DEF Vanish, Types, TypeOK
  <2>2. \A r \in Runs : Missing(walk[r], n).token = walk[r].token /\ Missing(walk[r], n).shrunk
        BY Functions DEF Missing, Walk
  <2>3. \A w \in Workers : Current(w)' => Current(w)
        BY <2>1, <2>2, Functions DEF Current, Started, Busy
  <2>4. \A r \in Runs : run[r].status = "running" =>
          \/ walk'[r].shrunk
          \/ walk'[r] = walk[r] /\ world[run[r].kind] \subseteq world'[run[r].kind]
        BY <2>1, <2>2, Functions
  <2> QED BY <2>1, <2>3, <2>4 DEF CoversAge
<1>15. CASE UNCHANGED vars
       BY <1>1, <1>15 DEF vars
<1> QED BY <1>5, <1>6, <1>7, <1>8, <1>9, <1>10, <1>11, <1>12, <1>13, <1>14, <1>15
        DEF Next, Work, Provider

(* A scan starts before the first page, with the resources listed now. *)
LEMMA CoversStart ==
    ASSUME Types, TokenInv, CoverInv, NEW w \in Workers, StartScan(w)
    PROVE  CoverInv'
<1> DEFINE r == worker[w].run
           h == NewWalk(worker[w].token, Natives \ world[run[r].kind])
<1>1. Busy(w) /\ r \in Runs /\ version \in 0..MaxVersion /\ run[r].kind \in Kinds
      /\ world[run[r].kind] \in SUBSET Natives /\ worker[w].pc = "start"
      BY Functions, SyncAssumption DEF StartScan, Busy, Types, TypeOK
<1>2. Bound(worker[w], version).pc = "guard" /\ Bound(worker[w], version).run = r
      /\ Bound(worker[w], version).token = worker[w].token
      BY <1>1, Functions, BoundRow
<1>2a. Bound(worker[w], version).page = worker[w].page
       BY Functions DEF Bound, WorkerState
<1>3. /\ h.token = worker[w].token /\ h.read = {} /\ ~h.shrunk /\ ~h.ended
      /\ h.absent = Natives \ world[run[r].kind]
      BY DEF NewWalk
<1>4. /\ StartedRun(run[r], version).status = "running"
      /\ StartedRun(run[r], version).kind = run[r].kind
      BY <1>1, Functions, StartedRunRow
<1>5. /\ \A s \in Runs : walk'[s] = IF s = r THEN h ELSE walk[s]
      /\ \A s \in Runs : run'[s] = IF s = r THEN StartedRun(run[r], version) ELSE run[s]
      /\ \A x \in Workers : worker'[x] = IF x = w THEN Bound(worker[w], version) ELSE worker[x]
      /\ UNCHANGED world
      BY <1>1, Functions DEF StartScan
<1> HIDE DEF h
<1>6. ASSUME NEW s \in Runs
      PROVE  /\ run'[s].status = "pending" => ~run'[s].complete
             /\ run'[s].status = "running" => Steady(s)' \subseteq world'[run'[s].kind]
             /\ run'[s].status = "running" /\ walk'[s].ended => Steady(s)' \subseteq walk'[s].read
  <2>1. CASE s = r
    <3>1. /\ run'[s].status = "running" /\ run'[s].kind = run[r].kind /\ walk'[s] = h
          BY <2>1, <1>1, <1>4, <1>5
    <3>2. Steady(s)' = {n \in Natives \ h.absent : ~h.shrunk}
          BY <3>1 DEF Steady
    <3> QED BY <1>3, <1>5, <3>1, <3>2
  <2>2. CASE s # r
    <3>1. run'[s] = run[s] /\ walk'[s] = walk[s]
          BY <2>2, <1>5
    <3> QED BY <1>5, <3>1 DEF CoverInv, Steady
  <2> QED BY <2>1, <2>2
<1>7. ASSUME NEW x \in Workers, worker'[x].pc = "start" PROVE worker'[x].page = 1
      BY <1>2, <1>5, <1>7 DEF CoverInv
<1>8. ASSUME NEW x \in Workers, Current(x)'
      PROVE  /\ run'[worker'[x].run].status # "pending"
             /\ run'[worker'[x].run].status = "running" /\ worker'[x].pc # "done" => Ahead(x)'
  <2>1. CASE x = w
    <3>1. /\ worker'[x] = Bound(worker[w], version) /\ worker'[x].run = r /\ worker'[x].pc = "guard"
          /\ worker'[x].page = 1
          BY <2>1, <1>1, <1>2, <1>2a, <1>5 DEF CoverInv
    <3>2. run'[r].status = "running" /\ run'[r].kind = run[r].kind
          BY <1>1, <1>4, <1>5
    <3>3. Turned(x)' = 0 /\ 0 * PageSize = 0
          BY <3>1, SyncAssumption DEF Turned
    <3>4. \A n \in Natives : Cardinality({m \in world[run[r].kind] : m < n}) \in Nat
          BY <1>1, Positions
    <3>5. ASSUME NEW n \in Steady(worker[x].run)' \ walk'[worker'[x].run].read
          PROVE  Position(run[worker[x].run].kind, n)' >= Turned(x)' * PageSize
      <4>1. n \in Natives
            BY <3>5 DEF Steady
      <4>2. Position(run[worker[x].run].kind, n)' = Cardinality({m \in world[run[r].kind] : m < n})
            BY <3>1, <3>2, <1>5 DEF Position
      <4> QED BY <3>3, <3>4, <4>1, <4>2
    <3> QED BY <3>1, <3>2, <3>5 DEF Ahead
  <2>2. CASE x # w
    <3>1. worker'[x] = worker[x] /\ worker[x].pc \in Started /\ Busy(x) /\ worker[x].run \in Runs
          BY <1>5, <1>8, <2>2, Functions DEF Current, Started, Busy
    <3>2. worker[x].run # r
          BY <1>1, <1>3, <1>5, <1>8, <2>2, <3>1 DEF Current, TokenInv
    <3>3. run'[worker[x].run] = run[worker[x].run] /\ walk'[worker[x].run] = walk[worker[x].run]
          BY <1>5, <3>1, <3>2
    <3>4. Current(x)
          BY <1>8, <3>1, <3>3 DEF Current
    <3> QED BY <1>5, <3>1, <3>3, <3>4 DEF CoverInv, Ahead, Steady, Turned, Position
  <2> QED BY <2>1, <2>2
<1> QED BY <1>6, <1>7, <1>8 DEF CoverInv

(* Reading a page leaves no steady resource behind it, and none at all when *)
(* it is the last.                                                          *)
LEMMA CoversRead ==
    ASSUME Types, TokenInv, CoverInv, NEW w \in Workers, ReadPage(w)
    PROVE  CoverInv'
<1> DEFINE r == worker[w].run
           k == run[r].kind
           p == worker[w].page
           D == PageData(k, p)
           b == IsLastPage(k, p)
           c == worker[w].version # version
<1>1. worker[w].pc = "read" /\ r \in Runs /\ k \in Kinds /\ p \in Nat /\ p > 0
      /\ world[k] \in SUBSET Natives /\ PageSize \in Nat \ {0}
      BY Functions, SyncAssumption DEF ReadPage, Busy, WorkerState, Types, TypeOK
<1>2. D \in SUBSET Natives /\ b \in BOOLEAN /\ c \in BOOLEAN
      BY <1>1, PageIsListed DEF Types
<1>3. Holding(worker[w], D, b).pc = "stage" /\ Holding(worker[w], D, b).run = r
      /\ Holding(worker[w], D, b).token = worker[w].token
      BY <1>2, Functions, HoldingRow
<1>4. Holding(worker[w], D, b).page = p
      BY Functions DEF Holding, WorkerState
<1>5. /\ UNCHANGED <<run, world>>
      /\ \A x \in Workers : worker'[x] = IF x = w THEN Holding(worker[w], D, b) ELSE worker[x]
      /\ \A s \in Runs : walk'[s] = IF s = r /\ walk[r].token = worker[w].token
                                      THEN Walked(walk[r], D, b, c) ELSE walk[s]
      BY <1>1, Functions DEF ReadPage
<1>6. walk[r] \in Walk
      BY <1>1, Functions
<1>7. /\ Walked(walk[r], D, b, c).token = walk[r].token
      /\ Walked(walk[r], D, b, c).read = walk[r].read \cup D
      /\ Walked(walk[r], D, b, c).ended = b
  <2> HIDE DEF D, b, c
  <2> QED BY <1>2, <1>6 DEF Walk, Walked
<1>8. /\ Walked(walk[r], D, b, c).absent = walk[r].absent
      /\ Walked(walk[r], D, b, c).shrunk = walk[r].shrunk
  <2> HIDE DEF D, b, c
  <2> QED BY <1>6 DEF Walked, Walk
<1>9. \A s \in Runs : /\ walk'[s].absent = walk[s].absent /\ walk'[s].shrunk = walk[s].shrunk
                      /\ walk'[s].token = walk[s].token
  <2> HIDE DEF D, b, c
  <2> QED BY <1>5, <1>7, <1>8
<1>10. ASSUME NEW s \in Runs PROVE {n \in Natives \ walk'[s].absent : ~walk'[s].shrunk} = Steady(s)
       BY <1>9 DEF Steady
<1>11. \A x \in Workers : Current(x)' =>
         /\ Current(x) /\ worker[x].run \in Runs /\ worker'[x].run = worker[x].run
         /\ x # w => worker'[x] = worker[x]
  <2> HIDE DEF D, b, c
  <2> QED BY <1>1, <1>3, <1>5, <1>9, Functions DEF Current, Started, Busy
<1>12. ASSUME Current(w), run[r].status = "running", NEW n \in Steady(r), n \notin walk[r].read \cup D
       PROVE  Position(k, n) >= p * PageSize /\ ~b
  <2>1. Position(k, n) >= Turned(w) * PageSize /\ Turned(w) = p - 1
        BY <1>1, <1>12 DEF CoverInv, Ahead, Turned
  <2>2. n \in world[k] /\ n \in Natives
        BY <1>1, <1>12 DEF CoverInv, Steady
  <2>3. Position(k, n) \in Nat /\ Position(k, n) < Cardinality(world[k])
        BY <1>1, <2>2, Positions DEF Position
  <2>4. Position(k, n) \div PageSize # p - 1
        BY <1>12, <2>2 DEF PageData
  <2>5. p - 1 \in Nat /\ Position(k, n) >= (p - 1) * PageSize /\ (p - 1) + 1 = p
        BY <1>1, <2>1
  <2>6. Position(k, n) >= ((p - 1) + 1) * PageSize
        BY <1>1, <2>3, <2>4, <2>5, OnPage
  <2>7. Position(k, n) >= p * PageSize
        BY <2>5, <2>6
  <2>8. Cardinality(world[k]) \in Nat
    <3>1. IsFiniteSet(world[k])
          BY <1>1, FS_Subset, SyncAssumption
    <3> QED BY <3>1, FS_CardinalityType
  <2>9. p * PageSize \in Nat
        BY <1>1
  <2> DEFINE a == Position(k, n)
             d == p * PageSize
             z == Cardinality(world[k])
  <2>10. a \in Nat /\ z \in Nat /\ d \in Nat /\ a >= d /\ a < z
         BY <2>3, <2>7, <2>8, <2>9
  <2> HIDE DEF a, d, z
  <2>11. ~(z <= d)
         BY <2>10
  <2> QED BY <2>7, <2>11 DEF IsLastPage, z, d
<1>13. ASSUME NEW s \in Runs
       PROVE  /\ run'[s].status = "pending" => ~run'[s].complete
              /\ run'[s].status = "running" => Steady(s)' \subseteq world'[run'[s].kind]
              /\ run'[s].status = "running" /\ walk'[s].ended => Steady(s)' \subseteq walk'[s].read
  <2>1. Steady(s)' = Steady(s) /\ run' = run /\ world' = world
        BY <1>5, <1>10 DEF Steady
  <2>2. CASE walk'[s] = walk[s]
        BY <2>1, <2>2 DEF CoverInv
  <2>3. CASE s = r /\ walk[r].token = worker[w].token
    <3>1. Current(w)
          BY <1>1, <2>3 DEF Current, Started
    <3>2. walk'[s].read = walk[r].read \cup D /\ walk'[s].ended = b
      <4> HIDE DEF D, b, c
      <4> QED BY <1>5, <1>7, <2>3
    <3>3. run[r].status = "running" /\ b => Steady(r) \subseteq walk[r].read \cup D
      <4> HIDE DEF D, b, c
      <4> QED BY <1>12, <3>1
    <3> HIDE DEF D, b, c
    <3> QED BY <2>1, <2>3, <3>2, <3>3 DEF CoverInv
  <2> HIDE DEF D, b, c
  <2> QED BY <1>5, <2>2, <2>3
<1>14. ASSUME NEW x \in Workers, worker'[x].pc = "start" PROVE worker'[x].page = 1
  <2> HIDE DEF D, b, c
  <2> QED BY <1>3, <1>5, <1>14 DEF CoverInv
<1>15. ASSUME NEW x \in Workers, Current(x)'
       PROVE  /\ run'[worker'[x].run].status # "pending"
              /\ run'[worker'[x].run].status = "running" /\ worker'[x].pc # "done" => Ahead(x)'
  <2>1. /\ Current(x) /\ worker[x].run \in Runs /\ worker'[x].run = worker[x].run
        /\ x # w => worker'[x] = worker[x]
        BY <1>11, <1>15
  <2>2. run'[worker'[x].run].status # "pending"
        BY <1>5, <2>1 DEF CoverInv
  <2>3. ASSUME run'[worker'[x].run].status = "running", worker'[x].pc # "done" PROVE Ahead(x)'
    <3>1. CASE x = w
      <4>1. /\ worker'[w].pc = "stage" /\ worker'[w].page = p /\ worker'[w].run = r
            /\ walk'[r].read = walk[r].read \cup D
        <5> HIDE DEF D, b, c
        <5> QED BY <1>1, <1>3, <1>4, <1>5, <1>7, <2>1, <3>1 DEF Current
      <4>2. Steady(worker[w].run)' = Steady(r) /\ Turned(w)' = p
            BY <1>1, <1>10, <4>1 DEF Steady, Turned
      <4>3. ASSUME NEW n \in Steady(r) \ (walk[r].read \cup D)
            PROVE  Position(run[worker[w].run].kind, n)' >= p * PageSize
        <5>1. Position(k, n) >= p * PageSize
              BY <1>5, <1>12, <2>1, <2>3, <3>1, <4>1, <4>3
        <5>2. Position(run[worker[w].run].kind, n)' = Position(k, n)
              BY <1>5, <4>1 DEF Position
        <5> QED BY <5>1, <5>2
      <4> HIDE DEF D
      <4> QED BY <3>1, <4>1, <4>2, <4>3 DEF Ahead
    <3>2. CASE x # w
      <4>1. worker[x].run # r \/ walk[r].token # worker[w].token
        <5>1. ASSUME worker[x].run = r, walk[r].token = worker[w].token PROVE FALSE
          <6>1. Current(w)
                BY <1>1, <5>1 DEF Current, Started
          <6> QED BY <2>1, <3>2, <5>1, <6>1, CurrentIsAlone
        <5> QED BY <5>1
      <4>2. walk'[worker[x].run] = walk[worker[x].run]
        <5> HIDE DEF D, b, c
        <5> QED BY <1>5, <2>1, <4>1
      <4>3. Ahead(x)
            BY <1>5, <2>1, <2>3, <3>2 DEF CoverInv
      <4> QED BY <1>5, <2>1, <3>2, <4>2, <4>3 DEF Ahead, Steady, Turned, Position
    <3> QED BY <3>1, <3>2
  <2> QED BY <2>2, <2>3
<1> QED BY <1>13, <1>14, <1>15 DEF CoverInv

(* Staging turns the page that was read. *)
LEMMA CoversStage ==
    ASSUME Types, TokenInv, CoverInv, NEW w \in Workers, Stage(w)
    PROVE  CoverInv'
<1> DEFINE r == worker[w].run
           last == worker[w].last
<1>1. worker[w].pc = "stage" /\ worker[w].pc \in Started /\ HoldsLease(w)
      /\ run[r].status \in Open
      BY DEF Stage, ScanAuthority, Started
<1>2. r \in Runs /\ Current(w)
      BY <1>1, HolderIsCurrent
<1>3. last \in BOOLEAN /\ worker[w].page \in Int
      BY Functions, SyncAssumption DEF WorkerState
<1>4. PagedRun(run[r], last).status = run[r].status /\ PagedRun(run[r], last).kind = run[r].kind
      BY <1>2, <1>3, Functions, PagedRunRow
<1>5. /\ \A s \in Runs : run'[s] = IF s = r THEN PagedRun(run[r], last) ELSE run[s]
      /\ \A x \in Workers : x # w => worker'[x] = worker[x]
      /\ UNCHANGED <<walk, world>>
      BY <1>2, Functions DEF Stage
<1>6. run[r].status = "running"
      BY <1>1, <1>2 DEF CoverInv, Open
<1>7. \A s \in Runs : run'[s].status = run[s].status /\ run'[s].kind = run[s].kind
                      /\ (s # r => run'[s] = run[s])
      BY <1>4, <1>5
<1>8. /\ worker'[w].pc \in {"guard", "done", "failed"} /\ worker'[w].run = r
      /\ worker'[w].pc = "guard" => worker'[w].page = worker[w].page + 1
      /\ worker'[w].token = worker[w].token
  <2>1. /\ At(worker[w], "done").pc = "done" /\ At(worker[w], "done").run = r
        /\ At(worker[w], "done").token = worker[w].token
        /\ At(worker[w], "failed").pc = "failed" /\ At(worker[w], "failed").run = r
        /\ At(worker[w], "failed").token = worker[w].token
        BY Functions, AtRow, Names
  <2>2. /\ Turning(worker[w]).pc = "guard" /\ Turning(worker[w]).run = r
        /\ Turning(worker[w]).token = worker[w].token
        /\ Turning(worker[w]).page = worker[w].page + 1
        BY Functions DEF Turning, WorkerState
  <2>3. worker'[w] = IF last THEN At(worker[w], "done")
                     ELSE IF worker[w].page = MaxPages THEN At(worker[w], "failed")
                     ELSE Turning(worker[w])
        BY Functions DEF Stage
  <2> QED BY <2>1, <2>2, <2>3
<1>9. ASSUME NEW s \in Runs
      PROVE  /\ run'[s].status = "pending" => ~run'[s].complete
             /\ run'[s].status = "running" => Steady(s)' \subseteq world'[run'[s].kind]
             /\ run'[s].status = "running" /\ walk'[s].ended => Steady(s)' \subseteq walk'[s].read
  <2>1. Steady(s)' = Steady(s)
        BY <1>5 DEF Steady
  <2>2. run'[s].status = "pending" => run'[s] = run[s]
        BY <1>6, <1>7
  <2> QED BY <1>5, <1>7, <2>1, <2>2 DEF CoverInv
<1>10. ASSUME NEW x \in Workers, worker'[x].pc = "start" PROVE worker'[x].page = 1
       BY <1>5, <1>8, <1>10 DEF CoverInv
<1>11. ASSUME NEW x \in Workers, Current(x)'
       PROVE  /\ run'[worker'[x].run].status # "pending"
              /\ run'[worker'[x].run].status = "running" /\ worker'[x].pc # "done" => Ahead(x)'
  <2>1. CASE x = w
    <3>1. run'[worker'[x].run].status = "running"
          BY <1>2, <1>6, <1>7, <1>8, <2>1
    <3>2. ASSUME worker'[x].pc # "done" PROVE Ahead(x)'
      <4>1. worker'[x].pc = "guard"
            BY <1>8, <1>11, <2>1, <3>2 DEF Current, Started
      <4>2. Turned(x)' = worker[w].page /\ Turned(w) = worker[w].page
            BY <1>1, <1>3, <1>8, <2>1, <4>1 DEF Turned
      <4>3. Ahead(w)
            BY <1>1, <1>2, <1>6 DEF CoverInv
      <4>4. run'[r].kind = run[r].kind
            BY <1>2, <1>7
      <4> QED BY <1>5, <1>8, <2>1, <4>2, <4>3, <4>4 DEF Ahead, Steady, Position
    <3> QED BY <3>1, <3>2
  <2>2. CASE x # w
    <3>1. worker'[x] = worker[x] /\ Current(x) /\ worker[x].run \in Runs
          BY <1>5, <1>11, <2>2, Functions DEF Current, Started, Busy
    <3>2. run'[worker[x].run].status = run[worker[x].run].status
          /\ run'[worker[x].run].kind = run[worker[x].run].kind
          BY <1>7, <3>1
    <3> QED BY <1>5, <3>1, <3>2 DEF CoverInv, Ahead, Steady, Turned, Position
  <2> QED BY <2>1, <2>2
<1> QED BY <1>9, <1>10, <1>11 DEF CoverInv

(* No walk has begun at first. *)
LEMMA CoversInit == Init => CoverInv
<1> SUFFICES ASSUME Init PROVE CoverInv
    OBVIOUS
<1>1. \A r \in Runs : run[r] = IF r = 1 THEN NewRun(Server) ELSE NoRun
      BY DEF Init
<1>2. \A r \in Runs : ~run[r].complete /\ run[r].status # "running"
      BY <1>1, NewRows, NewRunRow, SyncAssumption
<1>3. \A w \in Workers : worker[w].pc = "idle"
      BY NewRows DEF Init
<1>4. \A w \in Workers : ~Current(w)
      BY <1>3 DEF Current, Started
<1> QED BY <1>2, <1>3, <1>4 DEF CoverInv

(* Every step keeps steady resources read or ahead. *)
LEMMA CoversStep == Types /\ TokenInv /\ CoverInv /\ [Next]_vars => CoverInv'
<1> SUFFICES ASSUME Types, TokenInv, CoverInv, [Next]_vars PROVE CoverInv'
    OBVIOUS
<1>1. CASE \E w \in Workers : StartScan(w) \/ ReadPage(w) \/ Stage(w)
      BY <1>1, CoversStart, CoversRead, CoversStage
<1>2. CASE ~\E w \in Workers : StartScan(w) \/ ReadPage(w) \/ Stage(w)
  <2>1. CoversAge
        BY <1>2, CoversAgeElse
  <2>2. Types'
        BY TypesStep
  <2> QED BY <2>1, <2>2, CoversAgeKeeps
<1> QED BY <1>1, <1>2

(* A resource is tombstoned only by a scan during which the provider did    *)
(* not list it at some moment, or dropped some other resource (Complete,    *)
(* Page), with pages and lists of any length.                               *)
THEOREM TombstonesHaveCauses == Spec => TombstoneHasCause
<1> DEFINE Caused == \A k \in Kinds, n \in Natives : Tombstoned(k, n) =>
                       \E r \in Runs : /\ run[r].kind = k /\ run[r].status # run'[r].status
                                       /\ n \in walk[r].absent \/ walk[r].shrunk
<1>1. Spec => []CoverInv
  <2>1. SyncInv /\ CoverInv /\ [Next]_vars => CoverInv'
        BY CoversStep DEF SyncInv
  <2> QED BY <2>1, CoversInit, SyncInvariant, PTL DEF Spec
<1>2. SyncInv /\ CoverInv /\ [Next]_vars => [Caused]_vars
  <2> SUFFICES ASSUME SyncInv, CoverInv, [Next]_vars, NEW k \in Kinds, NEW n \in Natives, Tombstoned(k, n)
               PROVE  \E r \in Runs : /\ run[r].kind = k /\ run[r].status # run'[r].status
                                      /\ n \in walk[r].absent \/ walk[r].shrunk
      OBVIOUS
  <2>1. ~Frozen
        BY DEF Frozen, Tombstoned
  <2>2. PICK w \in Workers : Publish(w)
        BY <2>1, FrozenElse, SMTT(30) DEF SyncInv
  <2> DEFINE r == worker[w].run
  <2>3. /\ r \in Runs /\ run[r].status \in Open /\ run'[r].status = "succeeded"
        /\ \A j \in Kinds : j # run[r].kind => resource'[j] = resource[j]
        /\ \A m \in Natives : resource'[run[r].kind][m].shown <=> m \in walk[r].read
        /\ walk[r].ended
        BY <2>2, PublishShows DEF SyncInv
  <2>4. run[r].complete
        BY <2>2 DEF Publish
  <2>5. run[r].status = "running" /\ run[r].status # run'[r].status
        BY <2>3, <2>4 DEF CoverInv, Open
  <2>6. run[r].kind = k
        BY <2>3 DEF Tombstoned
  <2>7. n \notin walk[r].read
        BY <2>3, <2>6 DEF Tombstoned
  <2>8. n \notin Steady(r)
        BY <2>3, <2>5, <2>7 DEF CoverInv
  <2>9. n \in walk[r].absent \/ walk[r].shrunk
        BY <2>8 DEF Steady
  <2> HIDE DEF r
  <2> QED BY <2>3, <2>5, <2>6, <2>9
<1>3. TombstoneHasCause <=> [][Caused]_vars
      BY PTL DEF TombstoneHasCause
<1> QED BY <1>1, <1>2, <1>3, SyncInvariant, PTL DEF Spec
=============================================================================
