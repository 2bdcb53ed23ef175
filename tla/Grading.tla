------------------------------- MODULE Grading -------------------------------
(***************************************************************************)
(* Grading runs, their tasks and the grading workers                       *)
(* (crates/store/src/grading.rs, the worker API of crates/web/src/routes.rs,*)
(* the lease loop of crates/executor/src/main.rs and the grading part of   *)
(* sync_inner in crates/cli/src/lifecycle.rs).                             *)
(*                                                                         *)
(* A run and its grade task share an identifier, given out in the order of *)
(* insertion, which is also the order of the attempts of a submission.  A  *)
(* submission is its receipt stamp, as in Submissions, whose receipts,     *)
(* fetches and deadline races are reduced here to what grading reads: the  *)
(* submissions there are, those with a source, closure and final choice.   *)
(* A run keeps the grading revision it was queued with; the repository may *)
(* be moved to another one, and back, at any time.                         *)
(*                                                                         *)
(* A lease is live until it expires, at any moment; heartbeats only put    *)
(* that moment off.  The lease token counts the leases of the row.  accept *)
(* reads the lease and the stored digest in one step and commits in        *)
(* another; a result may be posted again while an earlier post is between  *)
(* the two.                                                                *)
(***************************************************************************)
EXTENDS Integers, FiniteSets

CONSTANTS Repo,         \* student repositories
          EnrollmentOf, \* the enrollment of each repository
          Sub,          \* submissions: receipt stamps
          RepoOf,       \* the repository of each submission
          Revision,     \* grading revisions: digests of their definitions
          Worker,       \* grading workers
          Outcome,      \* statuses a worker may report
          None,         \* SQL NULL
          MaxRuns,      \* bound on the runs
          MaxLeases,    \* bound on the leases
          MaxAttempts,  \* leases a task may use up (8)
          MaxPublic,    \* public runs of a repository before feedback stops (200)
          MaxPosts      \* bound on results posted and not yet answered

Run == 1..MaxRuns
RunStatus == {"absent", "pending", "running", "completed", "integrity_failed",
              "infrastructure_failed", "timed_out", "invalidated", "superseded"}
TaskStatus == {"absent", "pending", "leased", "done", "failed", "cancelled"}
Job == [run : Run, token : 1..MaxLeases, result : Outcome \cup {None}]
Post == [worker : Worker, run : Run, token : 1..MaxLeases, result : Outcome,
         checked : BOOLEAN]

ASSUME GradingAssumption ==
    /\ Sub \subseteq Nat
    /\ RepoOf \in [Sub -> Repo]
    /\ None \notin Worker /\ None \notin RunStatus
    /\ None \notin Sub /\ None \notin Run /\ None \notin Revision
    /\ Outcome \subseteq {"completed", "integrity_failed", "infrastructure_failed",
                          "timed_out", "invalidated"}
    /\ MaxRuns \in Nat
    /\ MaxLeases \in Nat
    /\ MaxAttempts \in Nat
    /\ MaxPublic \in Nat
    /\ MaxPosts \in Nat

VARIABLES subs,      \* submissions recorded
          source,    \* those with a source_digest
          due,       \* the effective deadline has passed
          closed,    \* closure_due
          final,     \* final_submission_id
          manual,    \* an audited regrade or selection happened
          repair,    \* the finals sync has read and still has to queue
          revision,  \* grading_revision
          runs,      \* number of grading_runs rows
          of,        \* submission_id of a run
          base,      \* public_run_id of a run
          rev,       \* revision_digest of a run
          status,    \* status of a run
          result,    \* result_digest of a run, and the status it was stored with
          task,      \* status of the grade task of a run
          attempts, owner, token, live,  \* its lease; live: lease_until > now()
          job,       \* the lease each worker is executing
          posts      \* results being accepted

repository == <<subs, source, due, closed, final, manual, repair, revision>>
runRows == <<runs, of, base, rev, status, result>>
lease == <<attempts, owner, token, live>>
vars == <<repository, runRows, task, lease, job, posts>>

TypeOK ==
    /\ subs \subseteq Sub /\ source \subseteq subs
    /\ due \in [Repo -> BOOLEAN]
    /\ closed \in [Repo -> BOOLEAN]
    /\ final \in [Repo -> Sub \cup {None}]
    /\ manual \in [Repo -> BOOLEAN]
    /\ repair \subseteq Sub
    /\ revision \in [Repo -> Revision]
    /\ runs \in 0..MaxRuns
    /\ of \in [Run -> Sub \cup {None}]
    /\ base \in [Run -> Run \cup {None}]
    /\ rev \in [Run -> Revision \cup {None}]
    /\ status \in [Run -> RunStatus]
    /\ result \in [Run -> Outcome \cup {None}]
    /\ task \in [Run -> TaskStatus]
    /\ attempts \in [Run -> 0..MaxAttempts]
    /\ owner \in [Run -> Worker \cup {None}]
    /\ token \in [Run -> 0..MaxLeases]
    /\ live \in [Run -> BOOLEAN]
    /\ job \in [Worker -> Job \cup {None}]
    /\ posts \subseteq Post

Init ==
    /\ subs = {} /\ source = {}
    /\ due = [r \in Repo |-> FALSE]
    /\ closed = [r \in Repo |-> FALSE]
    /\ final = [r \in Repo |-> None]
    /\ manual = [r \in Repo |-> FALSE]
    /\ repair = {}
    /\ revision \in [Repo -> Revision]
    /\ runs = 0
    /\ of = [i \in Run |-> None]
    /\ base = [i \in Run |-> None]
    /\ rev = [i \in Run |-> None]
    /\ status = [i \in Run |-> "absent"]
    /\ result = [i \in Run |-> None]
    /\ task = [i \in Run |-> "absent"]
    /\ attempts = [i \in Run |-> 0]
    /\ owner = [i \in Run |-> None]
    /\ token = [i \in Run |-> 0]
    /\ live = [i \in Run |-> FALSE]
    /\ job = [w \in Worker |-> None]
    /\ posts = {}

-----------------------------------------------------------------------------
(* What the queries read.                                                  *)

Rows == 1..runs
RepoOfRun(i) == RepoOf[of[i]]
RunsOf(s) == {i \in Rows : of[i] = s}
IsPublic(i) == base[i] = None

\* ORDER BY attempt DESC LIMIT 1.
IsLast(S, i) == i \in S /\ \A j \in S : j <= i

\* ORDER BY received_at DESC LIMIT 1.
IsNewest(r, s) ==
    /\ s \in subs /\ RepoOf[s] = r
    /\ \A t \in subs : RepoOf[t] = r => t <= s

\* A lease that has not run out.
LiveLease(i) == task[i] = "leased" /\ live[i]

-----------------------------------------------------------------------------
(* The repository, as far as grading sees it.                              *)

Arrive(s) ==
    /\ s \notin subs /\ ~closed[RepoOf[s]]
    /\ subs' = subs \cup {s}
    /\ UNCHANGED <<source, due, closed, final, manual, repair, revision, runRows, task, lease, job,
                   posts>>

Retain(s) ==
    /\ s \in subs \ source
    /\ source' = source \cup {s}
    /\ UNCHANGED <<subs, due, closed, final, manual, repair, revision, runRows, task, lease, job,
                   posts>>

PassDeadline(r) ==
    /\ ~due[r]
    /\ due' = [due EXCEPT ![r] = TRUE]
    /\ UNCHANGED <<subs, source, closed, final, manual, repair, revision, runRows, task, lease, job,
                   posts>>

Extend(r) ==
    /\ due[r] /\ ~closed[r]
    /\ due' = [due EXCEPT ![r] = FALSE]
    /\ UNCHANGED <<subs, source, closed, final, manual, repair, revision, runRows, task, lease, job,
                   posts>>

\* close: grade tasks of the final submission that failed or were cancelled
\* are pending again, with all their attempts.  The deadline is the one of the
\* statement's snapshot: an extension committed before the repository row was
\* locked is not seen, and leaves a closed repository that is not due.
Close(r) ==
    /\ due[r] /\ ~closed[r]
    /\ closed' = [closed EXCEPT ![r] = TRUE]
    /\ \E extended \in BOOLEAN : due' = [due EXCEPT ![r] = ~extended]
    /\ \/ /\ \A s \in subs : RepoOf[s] # r
          /\ UNCHANGED <<final, task, attempts>>
       \/ \E s \in subs :
            LET revived == {i \in RunsOf(s) : task[i] \in {"failed", "cancelled"}} IN
            /\ IsNewest(r, s)
            /\ final' = [final EXCEPT ![r] = s]
            /\ task' = [i \in Run |-> IF i \in revived THEN "pending" ELSE task[i]]
            /\ attempts' = [i \in Run |-> IF i \in revived THEN 0 ELSE attempts[i]]
    /\ UNCHANGED <<subs, source, manual, repair, revision, runRows, owner, token, live, job,
                   posts>>

\* select_submission up to its commit: the event may have no submission yet.
\* The regrade it asks for then is Regrade.
Select(s) ==
    LET r == RepoOf[s] IN
    /\ closed[r]
    /\ subs' = subs \cup {s}
    /\ final' = [final EXCEPT ![r] = s]
    /\ manual' = [manual EXCEPT ![r] = TRUE]
    /\ UNCHANGED <<source, due, closed, repair, revision, runRows, task, lease, job, posts>>

\* publish with existing: the repositories of the exercise are graded with the
\* new grader from now on, closed ones as well.  The same definition has the
\* same digest, so an earlier revision may come back.
UpdateGrader(r, v) ==
    /\ revision' = [revision EXCEPT ![r] = v]
    /\ UNCHANGED <<subs, source, due, closed, final, manual, repair, runRows, task, lease, job,
                   posts>>

-----------------------------------------------------------------------------
(* Runs.                                                                   *)

IsFinal(s) == closed[RepoOf[s]] /\ final[RepoOf[s]] = s

\* A row of grading_runs for submission s, with baseline b and revision v.
InsertRun(s, b, v) ==
    /\ runs < MaxRuns
    /\ runs' = runs + 1
    /\ of' = [of EXCEPT ![runs + 1] = s]
    /\ base' = [base EXCEPT ![runs + 1] = b]
    /\ rev' = [rev EXCEPT ![runs + 1] = v]
    /\ UNCHANGED result

PublicRuns(r) ==
    {i \in Rows : RepoOfRun(i) = r /\ IsPublic(i) /\ status[i] # "superseded"}

\* Feedback that is not wanted any more gets a row and no task.
Superseded(s, regrade) ==
    /\ ~regrade /\ ~IsFinal(s)
    /\ \/ closed[RepoOf[s]]
       \/ ~IsNewest(RepoOf[s], s)
       \/ Cardinality(PublicRuns(RepoOf[s])) >= MaxPublic

\* Pending public grading of other submissions of the repository.
Replaced(s) ==
    {i \in Rows : /\ task[i] = "pending"
                  /\ RepoOfRun(i) = RepoOf[s] /\ of[i] # s
                  /\ IsPublic(i)}

\* enqueue_run.
EnqueueRun(s, regrade) ==
    /\ s \in source
    /\ regrade \/ \A i \in RunsOf(s) : ~IsPublic(i)
    /\ InsertRun(s, None, revision[RepoOf[s]])
    /\ \/ /\ Superseded(s, regrade)
          /\ status' = [status EXCEPT ![runs + 1] = "superseded"]
          /\ UNCHANGED task
       \/ /\ ~Superseded(s, regrade)
          /\ task' = [i \in Run |-> IF i = runs + 1 THEN "pending"
                                    ELSE IF i \in Replaced(s) THEN "cancelled"
                                    ELSE task[i]]
          /\ status' = [i \in Run |->
               IF i = runs + 1 THEN "pending"
               ELSE IF status[i] = "pending" /\ task'[i] = "cancelled" THEN "superseded"
               ELSE status[i]]
    /\ UNCHANGED <<subs, source, due, closed, final, revision, lease, job, posts>>

\* The end of snapshot, and sync for captured submissions without a run.
GradeSubmission(s) == EnqueueRun(s, FALSE) /\ UNCHANGED <<manual, repair>>

\* gradingctl regrade, and the end of select_submission.
Regrade(s) ==
    /\ EnqueueRun(s, TRUE)
    /\ manual' = [manual EXCEPT ![RepoOf[s]] = TRUE]
    /\ UNCHANGED repair

\* Mutant: looks for cancelled tasks, which runs superseded on arrival lack.
UnwantedCancelled(s) ==
    /\ s \in source /\ \E i \in RunsOf(s) : task[i] = "cancelled"
    /\ \A i \in RunsOf(s) : status[i] = "superseded"

\* A final submission with a source, all of whose runs were superseded.
Unwanted(s) ==
    /\ s \in source /\ RunsOf(s) # {}
    /\ \A i \in RunsOf(s) : status[i] = "superseded"

\* sync reads them all, and then queues one after the other.  What a sync that
\* died had read is lost, and its lock with it.
ReadFinals ==
    /\ repair' = {s \in Sub : Unwanted(s) /\ final[RepoOf[s]] = s}
    /\ UNCHANGED <<subs, source, due, closed, final, manual, revision, runRows, task, lease, job,
                   posts>>

RegradeFinal(s) ==
    /\ s \in repair
    /\ repair' = repair \ {s}
    /\ EnqueueRun(s, TRUE)
    /\ UNCHANGED manual

\* sync: a run whose task has failed has failed.
FailRuns ==
    /\ status' = [i \in Run |->
         IF status[i] \in {"pending", "running"} /\ task[i] = "failed"
         THEN "infrastructure_failed" ELSE status[i]]
    /\ UNCHANGED <<repository, runs, of, base, rev, result, task, lease, job, posts>>

\* Mutant: schedules a private run again while there is one.
EnqueuePrivateAgain(r) ==
    /\ due[r] /\ final[r] # None
    /\ \E b \in Rows :
         /\ IsLast({i \in RunsOf(final[r]) : IsPublic(i)}, b)
         /\ status[b] = "completed"
         /\ InsertRun(final[r], b, revision[r])
    /\ status' = [status EXCEPT ![runs + 1] = "pending"]
    /\ task' = [task EXCEPT ![runs + 1] = "pending"]
    /\ UNCHANGED <<repository, lease, job, posts>>

\* enqueue_private for one repository, with the trigger on grading_runs: once
\* for the baseline and the grading revision.
EnqueuePrivate(r) ==
    /\ due[r] /\ final[r] # None
    /\ \E b \in Rows :
         /\ IsLast({i \in RunsOf(final[r]) : IsPublic(i)}, b)
         /\ status[b] = "completed"
         /\ \A i \in Rows : base[i] = b => rev[i] # revision[r]
         /\ InsertRun(final[r], b, revision[r])
    /\ status' = [status EXCEPT ![runs + 1] = "pending"]
    /\ task' = [task EXCEPT ![runs + 1] = "pending"]
    /\ UNCHANGED <<repository, lease, job, posts>>

\* retry_private: the last run of the submission, private and failed, with the
\* baseline and the revision it had.
RetryPrivate(i) ==
    /\ i \in Rows /\ ~IsPublic(i)
    /\ IsLast(RunsOf(of[i]), i)
    /\ status[i] \in {"infrastructure_failed", "timed_out"}
    /\ due[RepoOfRun(i)]
    /\ InsertRun(of[i], base[i], rev[i])
    /\ status' = [status EXCEPT ![runs + 1] = "pending"]
    /\ task' = [task EXCEPT ![runs + 1] = "pending"]
    /\ UNCHANGED <<repository, lease, job, posts>>

-----------------------------------------------------------------------------
(* Leases and results.                                                     *)

\* The task may be leased by any worker.
Ready(i) ==
    /\ attempts[i] < MaxAttempts
    /\ task[i] = "pending" \/ (task[i] = "leased" /\ ~live[i])

\* owned_lease hands out a private run only after the effective deadline.
Served(i) == IsPublic(i) \/ due[RepoOfRun(i)]

WorkerBusy(w) == \E i \in Rows : LiveLease(i) /\ owner[i] = w

\* Mutant: looks at the run instead of the enrollment.
RunBusy(i) == LiveLease(i)

EnrollmentBusy(i) ==
    \E j \in Rows : LiveLease(j) /\ EnrollmentOf[RepoOfRun(j)] = EnrollmentOf[RepoOfRun(i)]

\* The leases given out so far.
Leases == {l \in Rows \X (1..MaxLeases) : l[2] <= token[l[1]]}

\* Mutant: the row was read before the lease was taken.
LeaseBefore(i) == [run |-> i, token |-> token[i], result |-> None]

\* What owned_lease reads back for the worker.
OwnedLease(i) == [run |-> i, token |-> token'[i], result |-> None]

\* lease, under one advisory lock, and the owned_lease that reads it back.
Lease(w, i) ==
    /\ job[w] = None
    /\ i \in Rows
    /\ ~WorkerBusy(w)
    /\ Ready(i)
    /\ ~EnrollmentBusy(i)
    /\ Cardinality(Leases) < MaxLeases
    /\ task' = [task EXCEPT ![i] = "leased"]
    /\ owner' = [owner EXCEPT ![i] = w]
    /\ token' = [token EXCEPT ![i] = @ + 1]
    /\ live' = [live EXCEPT ![i] = TRUE]
    /\ attempts' = [attempts EXCEPT ![i] = @ + 1]
    /\ status' = [status EXCEPT ![i] = "running"]
    /\ job' = IF Served(i) THEN [job EXCEPT ![w] = OwnedLease(i)] ELSE job
    /\ UNCHANGED <<repository, runs, of, base, rev, result, posts>>

Expire(i) ==
    /\ LiveLease(i)
    /\ live' = [live EXCEPT ![i] = FALSE]
    /\ UNCHANGED <<repository, runRows, task, attempts, owner, token, job, posts>>

\* expire_exhausted.
Exhaust(i) ==
    /\ task[i] = "leased" /\ ~live[i]
    /\ attempts[i] >= MaxAttempts
    /\ task' = [task EXCEPT ![i] = "failed"]
    /\ UNCHANGED <<repository, runRows, lease, job, posts>>

\* The executor posts the result of its lease, and the same result again when
\* no answer came.
PostResult(w, res) ==
    /\ job[w] # None /\ job[w].result \in {None, res}
    /\ Cardinality(posts) < MaxPosts
    /\ job' = [job EXCEPT ![w].result = res]
    /\ posts' = posts \cup {[worker |-> w, run |-> job[w].run, token |-> job[w].token,
                             result |-> res, checked |-> FALSE]}
    /\ UNCHANGED <<repository, runRows, task, lease>>

\* It is done with the lease: accepted, refused, heartbeat lost, or restarted.
Leave(w) ==
    /\ job[w] # None
    /\ job' = [job EXCEPT ![w] = None]
    /\ UNCHANGED <<repository, runRows, task, lease, posts>>

\* Mutant: compares the worker and not the lease.
OwnedByWorker(p) == owner[p.run] = p.worker

\* The row carries the lease of this post.
Owned(p) == owner[p.run] = p.worker /\ token[p.run] = p.token

\* accept up to the transaction: owned_lease, and the digest already stored.
Check(p) ==
    /\ ~p.checked
    /\ \/ /\ Owned(p)
          /\ LiveLease(p.run) \/ task[p.run] = "done"
          /\ Served(p.run)
          /\ result[p.run] = None
          /\ posts' = (posts \ {p}) \cup {[p EXCEPT !.checked = TRUE]}
       \/ posts' = posts \ {p}   \* refused, answered as a replay, or lost
    /\ UNCHANGED <<repository, runRows, task, lease, job>>

Store(p) ==
    /\ status' = [status EXCEPT ![p.run] = p.result]
    /\ result' = [result EXCEPT ![p.run] = p.result]
    /\ task' = [task EXCEPT ![p.run] = "done"]

\* Mutant: trusts the check made before the transaction.
CommitUnchecked(p) ==
    /\ p.checked
    /\ posts' = posts \ {p}
    /\ Store(p)
    /\ UNCHANGED <<repository, runs, of, base, rev, lease, job>>

\* The transaction of accept: the lease is looked at again under the row lock.
Commit(p) ==
    /\ p.checked
    /\ posts' = posts \ {p}
    /\ \/ Owned(p) /\ LiveLease(p.run) /\ Store(p)
       \/ UNCHANGED <<status, result, task>>   \* refused, a replay, or lost
    /\ UNCHANGED <<repository, runs, of, base, rev, lease, job>>

-----------------------------------------------------------------------------

Next ==
    \/ \E s \in Sub : Arrive(s) \/ Retain(s) \/ Select(s) \/ GradeSubmission(s) \/ Regrade(s)
    \/ \E s \in Sub : RegradeFinal(s)
    \/ \E r \in Repo : \/ PassDeadline(r) \/ Extend(r) \/ Close(r) \/ EnqueuePrivate(r)
                       \/ \E v \in Revision : UpdateGrader(r, v)
    \/ ReadFinals \/ FailRuns
    \/ \E i \in Run : RetryPrivate(i) \/ Expire(i) \/ Exhaust(i)
    \/ \E w \in Worker : \/ \E i \in Run : Lease(w, i)
                         \/ \E res \in Outcome : PostResult(w, res)
                         \/ Leave(w)
    \/ \E p \in posts : Check(p) \/ Commit(p)

Spec == Init /\ [][Next]_vars

-----------------------------------------------------------------------------
(* Properties.                                                             *)

\* docs/grading.md: "Each worker has one live lease, and a repository has at
\* most one active grading lease", in fact at most one per enrollment.
OneLiveLease ==
    \A i, j \in Rows : LiveLease(i) /\ LiveLease(j) /\ i # j =>
      /\ owner[i] # owner[j]
      /\ EnrollmentOf[RepoOfRun(i)] # EnrollmentOf[RepoOfRun(j)]

\* A stored result is never replaced, and nothing, neither sync nor close nor a
\* newer run, touches the status of its run or its task again.
ResultIsFinal ==
    [][\A i \in Run : result[i] # None =>
         /\ result'[i] = result[i]
         /\ status'[i] = status[i]
         /\ task'[i] = task[i]]_vars

\* A result is stored only for the worker whose lease on the run is live.
ResultOfHolder ==
    [][\A i \in Run : result'[i] # result[i] =>
         /\ LiveLease(i)
         /\ \E p \in posts : /\ p.run = i /\ p.result = result'[i]
                             /\ p.worker = owner[i] /\ p.token = token[i]]_vars

\* A private run has a baseline that stays a completed public run of the same
\* submission, in a repository whose effective deadline has passed for good
\* (extensions race with closure).  However often the grader is updated, and
\* whatever is retried, only one private run of a baseline with a grader is
\* under way.
PrivateIsPinned ==
    /\ \A i \in Rows : ~IsPublic(i) =>
         LET b == base[i] IN
         /\ b < i /\ IsPublic(b) /\ of[b] = of[i]
         /\ status[b] = "completed" /\ result[b] = "completed"
         /\ closed[RepoOfRun(i)] /\ due[RepoOfRun(i)]
    /\ \A i, j \in Rows : ~IsPublic(i) /\ base[i] = base[j] /\ rev[i] = rev[j] /\ i # j =>
         ~(status[i] \in {"pending", "running"} /\ status[j] \in {"pending", "running"})

\* The final submission is graded, or the system itself will see to it: it has
\* no source yet, or no run yet, or sync finds that it has to be graded again,
\* or a grade task of it is queued or leased, or its last run, the one shown
\* and exported, has a result or has failed for everyone to see.
FinalIsSeenTo(r) ==
    LET f == final[r] IN
    \/ f \notin source
    \/ RunsOf(f) = {}
    \/ Unwanted(f)
    \/ \E i \in RunsOf(f) :
         \/ task[i] \in {"pending", "leased"}
         \/ IsLast(RunsOf(f), i) /\ (result[i] # None \/ task[i] = "failed")

\* Without a regrade or a selection by an operator, no interleaving of
\* receipts, workers, closure and sync strands the final submission.
FinalIsGraded ==
    \A r \in Repo : closed[r] /\ final[r] # None /\ ~manual[r] => FinalIsSeenTo(r)

\* docs/grading.md: sync "queues missing final work", also after regrades.
FinalIsAlwaysGraded ==
    \A r \in Repo : closed[r] /\ final[r] # None => FinalIsSeenTo(r)
=============================================================================
