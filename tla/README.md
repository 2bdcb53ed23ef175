# A TLA+ model of the grading service

This directory models the course grading service of this repository: students
push to repositories the service created, pushes become receipts and
submissions, sources are fetched, graded by isolated workers, frozen at the
deadline, and published. The state that matters is in PostgreSQL, and every
component is a set of statements and transactions over it, run by web handlers,
worker loops, a daily sync, operators and grading workers at the same time. The
modules here ask what those interleavings, crashes, lost leases and late
answers can do to it.

## 1. Inventory

| Part | State | Operations | What makes it correct |
|---|---|---|---|
| Control task queue (`store/queue.rs`, `cli/lifecycle.rs`) | `tasks` rows: status, attempts, available_at, lease owner, token and end | enqueue, lease, heartbeat, finish, fail, defer, fail_permanently, expire_exhausted, retry; the loops of `work_queue` | only the holder of a live lease changes its task; every task ends; none gets stuck |
| Receipts and deadlines (`store/submissions.rs`, `web/routes.rs`) | `submission_events`, `submissions`, `extensions`, `closure_due`, `final_submission_id`, `needs_review` | webhook, submit, record, close, extend, select_submission | the last receipt in time counts; nothing changes a frozen choice; nothing vanishes silently |
| Source snapshots (`submissions.rs`, `lifecycle.rs`) | snapshot tasks, `source_digest` | schedule, refill, snapshot | the final source is captured; feedback stays under its cap |
| Grading (`store/grading.rs`, worker API, `executor/main.rs`) | `grading_runs`, grade tasks, leases | enqueue_run, lease, accept, enqueue_private, retry_private | one live lease per worker and enrollment; results are immutable; the final submission is graded |
| Sync (`lifecycle.rs`) | - | observe, close, missing and final runs, failed tasks | repairs what crashes left behind |
| Provisioning, locking, publishing (`lifecycle.rs`, `github/repository.rs`) | repository state, permissions, outbox | provision, invite, lock, publish | students lose write access after closure and only then |
| Admin portal (`web/admin.rs`, `cli/admin_portal.rs`, `store/admin.rs`) | `admin_operations` | validate, confirm, apply, retry | a plan is applied at most once, and only as validated |
| Courses, exercises, identity, artifacts, limits (`store`, `web`) | catalogue, roster, admins, sessions, blobs, windows | imports, requests, logins | stale plans are refused; one admin remains; a row has its bytes |
| Executor (`executor`) | jobs, request channel, logs, staging directories | execute, wait, serve requests, stop, post, cleanup | results are acceptable; no Job or directory outlives its use |
| Build cache (`executor/caching.rs`) | cache directories, references, a file lock per key | prepare | only sealed caches are used, and they stay what they were |
| Protocol, integrity, configuration (`core`) | pure data | validation | - |

Parts meet in the database. `accept` enqueues a publish task; `record` schedules
snapshots; `snapshot` ends in `enqueue_run`; `close` freezes the submission,
revives its fetch and its runs, and enqueues the lock; `sync` calls `close` and
`enqueue_run`. Hard behaviour: handlers that read, wait (for GitHub, for a row
lock, for an artifact) and write; READ COMMITTED statements that lock one table
and read another from an older snapshot; leases that expire under a worker;
reports that arrive late or twice; processes that die between statements.
`PROJECT.json` lists the hazards with their lines.

## 2. Modules

**TaskQueue** is the `tasks` table for control tasks and the loops of
`work_queue`. A column is a function on `Task`, a key of the table; one action is
one statement. Timestamps are kept relative to `now()`: `wait` is how far
`available_at` lies ahead, `ttl` is `lease_until - now()`, which distinguishes
live (`> now()`), expired (`< now()`) and the instant between. `stage` is where a
loop is: idle, working, past a `finish` (before the invitation poll), past an
error report (before the rate-limit bump). The second statements after a report
are actions of their own because other workers run between them. Priority is left
open: `SKIP LOCKED` lets any leasable row come first. What processing does is
left open too, so an outcome may come at any moment and without the lease.

**LeaseBoard** is what the queue promises, without tokens, clocks and budgets: a
task is open, claimed by one worker or settled; a worker reports about the task
it holds, or walks away; claims lapse. TaskQueue maps to it with `BoardPhase`,
`BoardHolder` and `BoardBusy` (an expired row is open again).

**TaskQueueProofs** holds the proofs about the queue and of its refinement (section 5).

**Submissions** is receipts, source fetches, deadlines and the final choice of
repositories. A receipt is its stamp. `Admit`/`Register` are the two halves of
`submit` around the GitHub call, `Push` the stamp of `webhook`. `record`, `close` and
`extend` begin with a statement that waits for the repository row and re-reads it
(`SELECT ... FOR UPDATE OF r`), but takes the extension row from the snapshot made
before the wait, so each has two steps: `Begin` and `Record` or `StartRecord`,
`BeginClose` and `Close`, `BeginExtend` and `Extend`. Two extends that have read the
same deadline may commit in either order, and the deadline may move back.
`schedule_snapshots` has a step for each statement between which others commit: the
update that cancels (`StartSchedule`), the count (`CountFetches`), selection and inserts
(`FillPlaces`). It holds the advisory lock of its enrollment all the while, and a record
that schedules its repository's row (`RowFree`); `close`, `retry` and
`select_submission` put fetches back without that lock. `restored` remembers which, since the
count. A fetch has a lease holder and possibly a stale worker that still stores the
source or reports. **SubmissionsProofs**.

**Grading** is runs, grade tasks, grading leases and results. A run and its task
share a number, which is also the order of attempts. The lease token counts the
leases of the row. `Check` and `Commit` are the two halves of `accept`;
`ReadFinals` and `RegradeFinal` the two halves of the repair in sync. Receipts,
capture and closure are reduced to what grading reads, including a closure that
an extension overtook. A run keeps the grader revision its repository had when it was
queued, and `UpdateGrader` moves the repository to another, or back, at any time: private
grading is scheduled once per baseline and revision. Profiles, resource caps, points and
the artifact store are abstracted; `FOR UPDATE OF r` and the advisory locks make
`enqueue_run` and `lease` single steps.

**GradingProofs** holds the proofs about it.

**AdminPortal** is `admin_operations`, the web handlers that submit and confirm, and
the dispatcher. An action is one transaction, or a step of a dispatcher between two.
`Submit` and `Confirm` are the handlers; `Start`, `Poll`, `Pick` the loop; `Prepare`
and `Store` validation; `Recheck`, `Import`, `AuditRegrade`, `Write`, `SweepOn`,
`BeginMembership`, `WriteMembership`, `PrepareExercise`, `Publish` and `Finish`
application; `StepFails` and
`RecordFailure` the error paths, in which the second has no condition on the state.
A record of the database is a version, and a plan the versions it was made from, so
that "changed meanwhile" is what the code compares: its stored snapshot, the catalog,
the confirmation token. The administrators are a set. A transaction of `admin_change`
takes its advisory lock and counts in one step (`BeginChange`), deletes and commits in
another (`CommitChange`), for an operation or for gradingctl (`BeginElsewhere`,
`ChangeAdminsElsewhere`); `admin_recover` is a revocation with the recovery override,
which does not ask whether an administrator remains. A dispatcher dies, or loses the
connection with its advisory lock and goes on until it notices. **AdminPortalProofs**.

**Provisioning** is one student repository between its row, its two tasks, the
advisory lock and GitHub: `Request`; the steps of `provision` (create, seed, record,
share, mark); those of `lock` (invitations, demote, pull, verify, record); `observe`
and closure in sync, which read before GitHub answers and write after. The student
accepts, somebody changes collaborators by hand, leases run out, and a request whose
sender died or waited no longer arrives late (`LeavesGrant`). GitHub is modelled from the requests the code makes.
**ProvisioningProofs**.

**Publishing** is the outbox of one run, its task and its check runs: read, look up,
update or create, store, with lost answers, lost leases and deaths in between, and POSTs
that arrive when their sender has gone on (`LeavesPost`).
**PublishingProofs**.

**Executor** is the worker process: lease, staging, the controller Job, the channel
through which the controller asks for student Jobs, timeouts, the refused heartbeat
that drops whatever is going on, the stop of all Jobs, the posted result, and the
staging directories that are removed at the end or by a later sweep, which lists the
Pods first (`ListPods`) and removes directories after (`RemoveDirs`). Kubernetes starts
the Pod of a Job, ends Jobs and removes finished ones after their TTL in its own time; a
request to create a Job that is dropped, or whose answer is lost, may still arrive. The
executor deletes Jobs with `DeleteParams::default()`, for which Kubernetes keeps the Pods
of `batch/v1` Jobs: such a Pod is an orphan, which stays listed until somebody removes
it, if ever (`OrphanGoes`). A log entry is its length, a score what its validation looks at.
**ExecutorProofs**.

**BuildCache** is `prepare` for one key: file lock, recovery of an earlier attempt,
Job, sealing, move into place, verification, reference. Contents are counted writes,
and a digest is the count. **BuildCacheProofs**.

The last five modules and the first three meet at tables that each models from its own
side: `close` sets the row that Provisioning calls closed, `accept` fills the outbox
that Publishing starts from, and Grading sees an executor as the worker of a lease.

MCTaskQueue, MCSubmissions, MCGrading and MCServices give the constants values.
MCServices runs the last five modules side by side. They share no variable, so a
behaviour is one of a component that moves while the others stay where they are, and
the state space is the sum of theirs.

## 3. Runs

| Run | Instance | Shows |
|---|---|---|
| `queue` | a snapshot and a provision task, two interchangeable loops, 2 attempts, leases of 1 tick | types; a pending task has attempts left; tokens name their owner; stale workers change nothing; the board is implemented |
| `queue_live` | a lock and a provision task, fair loops | every task settles unless it is given attempts for ever |
| `receipts` | one repository, two commits, three receipts, two handlers at once, extensions that overlap | the frozen choice is the newest submission; eligible receipts stay in the window; in-order receipts freeze the last commit; no push in the window is silent |
| `captures` | two repositories of one enrollment, one fetch place, two workers | the final fetch is never lost; done means captured; scheduling keeps the cap |
| `grading` | two submissions, three runs, two leases, two graders, feedback limit 1 | private runs keep their baseline, one at a time for a baseline and a grader; without operators the final submission is always seen to |
| `grade_leases` | two workers, two enrollments, two results under way | one live lease per worker and enrollment; results are immutable and come from the holder |
| `services`: portal | one operation of five actions (`course`, `exercises`, `regrade`, `admin_revoke`, `private_grade`), two accounts, two dispatchers, a crash or lost lock, a change elsewhere | applied at most once and only as planned; outcomes are true; the last administrator goes only by the recovery override; every operation is decided |
| `services`: provisioning | two loops, one serving provisions only, one mishap | a repository recorded as locked is read-only; nobody is let in early; a closed repository becomes read-only |
| `services`: publishing | two loops, two hitches | one check run unless senders overlap; the grade is published or its task has failed |
| `services`: executor | one lease, public or private, two request ids with two bodies, logs of two entries and two units, one finding, two troubles | what is posted is acceptable; Pods keep their files; no Job outlives its run; a request is executed once; staging without Pods is reclaimed |
| `services`: cache | two builders, two builds, two writes, a death | what is referred to is intact; one Job per key; the key is freed |
| `receipt_order`, `selection`, `extension`, `regrade`, `lock_record` | small | what a document says and the code does not do (section 6) |

Bounds. Two workers are enough for a stale one and its successor; two attempts
for a retry and an exhaustion; three receipts for a commit that returns; one
fetch place makes every second fetch wait; three runs for public, private and
retried private grading; a feedback limit of 1 is reached by the second
submission. Two graders let a baseline be graded again and the first come back. One
deadline in `MaxExtending` is read by any number of extends. Two request ids let an
answered one return after another. `MaxEvents`, `MaxInFlight`, `MaxExtending`, `MaxFetching`, `MaxRuns`, `MaxLeases` and
`MaxPosts` bound counters that the code leaves unbounded, and so do `MaxElsewhere`
and `MaxFaults` (portal), `MaxMishaps`, `MaxHitches`, `MaxTrouble`, and `MaxWrites`
and `MaxDeaths` (cache), which count what goes wrong: one lost lock and one outside
change make a plan stale under a dispatcher that lives on, one mishap lets a worker
and its successor meet, two hitches let an answer be lost and the retry too, two
troubles let a stop or a sweep fail after a refused heartbeat, one death leaves a Job
to the next builder. `MaxLogEntries` (128), `MaxLogBytes`, `MaxFindings` (10,000), `MaxAttempts` (8),
`MaxActive` (8 fetches; 4 operations in the portal) and `MaxPublic` (200) are the code's
limits with smaller values.
Symmetry is used for workers, commits and repositories, never with the
liveness properties. Deadlock is checked in the runs of the queue, of submissions
and of grading; the services may come to rest (a grade is published, an operation is
decided), so `services` and `lock_record` do not ask for a next step.

The largest runs have 1.8 million (`receipts`), 1.7 million (`grading`) and 0.9 million
distinct states (`captures`); `services` has 166,000, with liveness.

Every property has a mutant: an operator next to the definition it replaces, with
the bug it stands for.

## 4. Fairness

`queue_live` assumes weak fairness of the clock, of each loop's round (expire,
lease), of the end of processing, and of the statement after a report. The code
justifies them: a loop polls every two seconds, requests to GitHub time out after
30 seconds, and a failed report ends the process, which its supervisor restarts.
Heartbeats, operators and sync are not fair. `defer`, `retry`, `close`, the
invitation poll and the repairs of sync give attempts back, so a task may live
for ever if one of them goes on for ever; `EveryTaskSettles` says that this is the
only way.

`services` assumes of the component that runs what its host provides (the formulas are in
MCServices):

* portal: a dispatcher is started while an operation waits (the service manager
  restarts it), and a running one takes its next step (network calls and cache builds
  have timeouts). Nobody has to confirm. `OperationsSettle` excepts a dispatcher that
  ran on without its lock: what it had picked stays as it is until the next start.
* provisioning: sync takes its steps (a daily timer), late requests arrive, a worker
  goes on with its task. Leasing a lock task and taking the advisory lock are strongly
  fair, because `work` gives locks a loop of their own and PostgreSQL grants advisory
  locks in order. Students and people who change GitHub by hand are not fair.
* publishing: each loop takes its next step.
* executor: the process runs or is restarted, a run's time limit passes, Kubernetes
  starts Pods, ends Jobs at their deadline and removes finished Jobs with their Pods after
  the TTL. Neither leases nor requests must come, and the Pod of a deleted Job need not
  go: `StagingIsReclaimed` is about leases whose Pods are gone for good in the end.
* cache: each builder takes its next step; Pods that do not end are stopped or given
  up after a timeout.

## 5. Proofs

Every safety property that a passing run checks, state invariant or action property,
is also a theorem, for every value of the constants that the named assumptions allow.
The assumptions say what the constants are (bounds are numbers, the values that stand
for NULL are not members of the sets they are joined with, the sets that are counted
are finite); the runs evaluate them. Each inductive invariant was model-checked on a
small instance before it was proved. A module of proofs has one lemma per action
or per group of actions that touch the same state, and lemmas for what the actions
share: a row that changes, a worker that leaves, a run that is inserted.

Queue, for any sets of tasks, workers and tokens and any positive number of attempts
(`QueueAssumption`):

* `QueueInvariant`: `Spec => []QueueInv`. `QueueInv` is the type invariant,
  `PendingIsLeasable`, `LeasedIsCounted` and `TokenNamesOwner`. The first two need
  each other: `fail` puts a task back only because a lease left the attempts at
  most at the limit, and indexes its back-off with a count that is at least 1.
  Token ownership is inductive only with the clause that no two workers carry the
  same token, which a fresh UUID preserves. A lemma on row steps covers the
  statements that touch one row, one on loop steps the ways a worker leaves a task.
* `PendingTasks` and `TokenOwnership`, its parts that the runs check.
* `StaleWorker`: the action property, from the invariant; the fence and the
  conditions of the second statements are what it needs.
* `QueueImplementsBoard`: `Spec => BoardSpec`, one lemma per action. A fenced report
  maps to a report of the holder because the row that carries the token names the
  worker; a report without the lease maps to walking away.

* `TypesOfTheQueue`, the type invariant of the queue.

Grading, for any repositories, submissions, workers and limits (`GradingAssumption`,
which the runs evaluate):

* `GradingInvariant`: `GradingInv` is the type invariant and `Fresh` (numbers not given
  out have no row), `Stored` (a result, the status of its run and the end of its task
  come together), `Chosen` (a final choice belongs to its closed repository), `Pinned`
  (the baseline of a private run), `Followed` (of the private runs of one baseline with
  one grader only the last can be under way) and `Apart` (live leases differ in worker and
  enrollment). `PrivateIsPinned` alone is not inductive: that a regrade does not touch
  a baseline follows from `Stored`, and that a retried private run is alone from
  `Followed`, because the task of a private run is never cancelled.
* `TypesOfGrading`, `LeasesAreApart`, `PrivateRunsArePinned`: its parts.
* `ResultsAreFinal` and `ResultsOfTheHolder`: action properties, from the invariant;
  the checks that `accept` repeats in its transaction are what they need.
* `FinalsAreGraded`: `FinalIsGraded`, with a second invariant on top of the first,
  `FinalInv`. `Taskless`: a row without a task was superseded on arrival and is the first
  run of its submission, because only the first public run can be unwanted and a private
  run has a public one before it; a task that is done left a result. `Latest`: a
  submission with runs has a last one, which needs no induction because each insertion
  is the new last. `Undisturbed`: unless an operator stepped in, no task of a final
  submission is cancelled, and what sync still has to queue is final; `close` revives
  what was cancelled before, and afterwards `enqueue_run` lets nothing give way. So the
  last run of the final submission has a live task, a result or a failure, or it is the
  only one and `Unwanted` finds it.

Submissions, for a finite set of repositories and any commits, enrollments and bounds
(`SubmissionsAssumption`; the cap counts fetches, hence finite):

* `SubmissionsInvariant`: `SubInv` is the type invariant and six parts. `Selection`:
  nothing is final before closure, and the final submission is the newest. `Windows`:
  receipts lie in the past, and one inside the deadline its record has seen is inside the
  deadline that holds. Extends that overlap may move the deadline back, and `record`
  decides by a snapshot older than its lock; but `extend` demands a deadline in the
  future, so no deadline comes to lie before a receipt that is counted, or about to be.
  `Locks`: one scheduling at a time per enrollment, a record among them has the row lock
  and stays eligible, and what it is about to cancel is superseded and so never what
  closure freezes. `Fetches`: only submissions have tasks, only tasks are
  fetched, done means captured, and no final fetch is cancelled. `Stamps`: a stamp belongs
  to one receipt, under way or recorded. `InOrder`: while receipts are recorded in order,
  the newest submission has the commit of the last eligible receipt; at closure this
  becomes `InOrderFreezesLastReceipt`, which is not inductive since it says nothing
  about open repositories.
* `SubmissionTypes`, `SelectionIsFrozen`, `ReceiptsStayInWindow`, `LastReceiptIsFinal`,
  `FinalSourceIsNotLost`, `DoneMeansStored`: its parts.
* `PushesAreNeverSilent` and `FetchesStayUnderTheCap`: action properties. The second is
  about cardinalities and needs an invariant of its own, `Counted` (`CountsStayRight`): a
  scheduling that has counted has counted all active fetches of its enrollment but those
  it cancels and those put back since. After `FillPlaces` the enrollment has these and the
  new ones, whose number the statement's LIMIT bounds.

Provisioning, for any workers (`WorkerAssumption`):

* `LockInvariant`: who processes a task holds the advisory lock; a lock task goes on
  only in a closed repository; how far it has taken access down at each step
  (`Lowered`); what is in place at each step of provision (`Prepared`).
  `NoWriteWhenLocked` needs all of them, because a provision that began before the
  closure and the lock that follows it differ only in who has the advisory lock.
* `LockedIsReadOnly` and `InvitedWhenReady`: its parts that the run checks.

Portal, for any finite set of operations and any accounts and dispatchers
(`PortalAssumption`):

* `PortalInvariant`: types; who works on which operation (`Engaged`); one dispatcher
  applies it and nothing leads back (`Single`); committed transactions and those left
  add up (`Counted`); after a success nobody is at work (`Succeeded`); while nobody
  outlived its lock the holder is the only one running (`Exclusive`).
* `OperationsApplyOnce`, `PagesTellTheTruth`: from it. The first holds also for
  dispatchers without their lock: picking is one conditional UPDATE.
* `AnAdminRemains`: an action property. `OneChange` says what the advisory lock is for:
  there is one transaction at a time, so what it counted still holds when it deletes. The
  last administrator goes only by a transaction with the recovery override.
* `StalePlansAreRefused`: the versions of records only grow, so those a plan was made
  for, those at the moment its operation was picked and those of now come in this order
  (`Past`, `PickedBetween`). When `Recheck` finds the first equal to the last, the middle
  one equals both (`Sure`, `Fresh`), also for a dispatcher without its lock.
* `PortalTypes`: with `House`, that operations have sessions from the start, dispatchers
  without work have no operation and the holder of the lock runs.

Publishing, for any publishers and any number of hitches (`PublisherAssumption`):

* `PublishingInvariant`: `Known` (what a publisher found exists), `Held` (the holder is at
  work) and `Counted`: while there is no check run, everybody who may still create one,
  except the holder, has been counted as an overlap, and so has every POST on its way;
  once there is one, check runs, POSTs and publishers about to create exceed the overlaps
  by at most one.
* `ChecksAreCounted`: `OneCheckPerSender`, from it.

Executor, for any leases, requests, bodies and limits (`ExecutorAssumption`; the value
for no token is not a request id):

* `ExecutorInvariant`: types; nothing is kept between two runs (`Between`); no result
  before the execution ends, and then one that `RunResult::validate` takes (`Concluded`);
  `serve` remembers all answers of the run, one per id (`Answered`); Jobs are created for
  the current lease only and deleted before its result is posted (`Stopped`). `Aged` and
  `Doomed` are for cleanup: an old directory belongs to a lease that is over and, if it was
  never marked as finished, has no Job that still waits for its Pod; so between the list
  of Pods and the removal of a directory only a Pod that starts after the mark can come.
* `ResultsAreAcceptable`, `PodsKeepTheirFiles`, `JobsEndWithTheirRun`: its parts. The
  second holds after crashes and failed stops too, and excepts only leases with a Pod that
  started after the mark (`tardy`). The third excepts leases whose stop failed, whose
  executor died or whose creation arrived late (`astray`): their Jobs end at their own
  deadline.
* `RequestsAreAnsweredOnce`: an action property, from `Answered`.

Build cache, for any builders and builds (`BuildAssumption`):

* `CacheInvariant`: who is in `prepare` has the key; a build has one builder; nothing of
  the key is left when a Job is created; what is sealed, stored or referred to belongs
  to a Pod that is gone, which is why nobody writes to it.
* `ReferredStaysIntact`, `JobsOfAKeyAreApart`: from it.

Only model-checked: liveness (`EveryTaskSettles`, `OperationsSettle`,
`ClosedBecomesReadOnly`, `GradeGetsPublished`, `StagingIsReclaimed`, `KeyIsFreed`), for
which the prover has no fairness reasoning. What section 6 reports is a counterexample of
TLC each.

## 6. What the runs found

1. `receipt_order`: `record` compares a commit with the newest submission recorded
   so far. Receipts A, B, A recorded as A, A, B leave the last A without a
   submission and freeze B.
2. `selection`: `select_submission` does not revive a cancelled fetch, and nothing
   else does once the repository is closed.
3. `extension`: an extension that commits while `close` waits for the row is granted
   and the repository is closed before the new deadline.
4. `regrade`: a regrade of another submission cancels a pending regrade of the final
   one; sync repeats a final only when all its runs are superseded, so its last run
   stays superseded and the grade unresolved.

5. `lock_record`: `observe` reads that the student can write, a lock task takes the
   access and records it, and `observe` then erases the record. The lock task is still
   leased, so it is not reset; the repository is read-only and counts as a pending lock
   for good.

What the models make visible without a document that says otherwise, or only as an
exception in a property:

* A request of a dead provision worker may leave an invitation to write in a locked
  repository, which sync notices only when it is accepted (`touched`).
* A repository closed before it was seeded, whose student gets write access by hand, is
  not observed: it has no branch.
* The portal counts active operations when one is submitted, not when one is confirmed;
  an administrator can have more than four active by confirming older ones.
* The update that marks an operation failed has no condition on its state. A dispatcher
  that lost its lock may overwrite what the next one recorded.
* An operation picked by such a dispatcher after the other's start reset stays validating
  or applying until the next restart.
* A second check run appears when a publisher outlives its lease between the lookup and
  the POST, or gives up a POST that arrives after all (`overlaps`).
* Of two extensions at once the shorter one may commit last and move the deadline back.
* `close`, `retry` and `select_submission` take no advisory lock of the enrollment; what
  they put back while scheduling is between its count and its inserts comes on top of the
  cap (`restored`).
* After an update of the grader, private grading of a baseline is scheduled again, also
  while the run with the older grader is under way.
* The executor deletes Jobs without a propagation policy. On a cluster that keeps their
  Pods, the Pods stay listed and the staging directories stay with them.
* A Job whose creation was given up, or whose stop failed before it had a Pod, may get
  its Pod after the run was marked as finished and find no directory (`tardy`).
* A submission with more findings than 10,000 gives a result that the server refuses.

## 7. Not modelled, and what is left

Not modelled: wording of errors, HTML, metrics, tracing, configuration parsing, audit
rows, the content of sources, manifests and reports, Kubernetes and GitHub themselves.
Also:

* rate limits: arithmetic on a map under one mutex, nothing interleaves;
* artifacts: files written aside, synced and renamed; the rest is the file system;
* logins and sessions: transactions over one table each; expiry only refuses more;
* the client's tokens, pagination, rate-limit headers and archives: I/O, a request is
  one step that may fail;
* `--once` and the portal's limit of 60 an hour, which only refuse or end earlier;
* webhook delivery ids: the insert of the id refuses a redelivery in the transaction
  that records the receipt, so Submissions has first deliveries only;
* other people on the cluster: who removes the Pods of deleted Jobs is left open.

Left to do: delivery ids as rows of their own; a theorem for what an operator's regrade
keeps of `FinalIsGraded`.
